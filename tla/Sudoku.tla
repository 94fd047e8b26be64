------------------------------ MODULE Sudoku --------------------------------
(***************************************************************************)
(* The Sudoku task of the desktop: the cell that is selected, the keys and *)
(* the two buttons.  A launch while it runs opens a second window on the   *)
(* same board, whose cells replace those of the first.                     *)
(***************************************************************************)
EXTENDS Integers, FiniteSets

CONSTANTS
  BOX,             \* the side of a box: 3 in the source
  PUZZLES,         \* [grid, solution], numbered from 0
  MaxWindows       \* bounds the launches

VARIABLES
  board, fixed, current_puzzle,
  sel,             \* sel_r and sel_c
  game_won,
  windows,         \* the windows that are open
  latest           \* the window of cells

vars == <<board, fixed, current_puzzle, sel, game_won, windows, latest>>

Side == 0 .. BOX * BOX - 1
Cells == Side \X Side
None == <<-1, -1>>
PUZZLE_COUNT == Cardinality(DOMAIN PUZZLES)

\* The cells that may not have the same value as cell c.
Peers(c) ==
  {d \in Cells \ {c} :
     d[1] = c[1] \/ d[2] = c[2] \/ (d[1] \div BOX = c[1] \div BOX /\ d[2] \div BOX = c[2] \div BOX)}

has_conflict(b, c) == b[c] # 0 /\ \E d \in Peers(c) : b[d] = b[c]

is_board_complete(b) == \A c \in Cells : b[c] # 0 /\ ~has_conflict(b, c)

\* refresh_board: the cells shown as wrong, the user's only.
Flagged == {c \in Cells : ~fixed[c] /\ has_conflict(board, c)}

start_new_game(p) ==
  /\ current_puzzle' = p
  /\ board' = PUZZLES[p].grid
  /\ fixed' = [c \in Cells |-> PUZZLES[p].grid[c] # 0]
  /\ sel' = None /\ game_won' = FALSE

Init ==
  /\ current_puzzle \in DOMAIN PUZZLES
  /\ board = PUZZLES[current_puzzle].grid
  /\ fixed = [c \in Cells |-> PUZZLES[current_puzzle].grid[c] # 0]
  /\ sel = None /\ game_won = FALSE
  /\ windows = {1} /\ latest = 1

-----------------------------------------------------------------------------
Running == windows # {}

on_cell_clicked(c) ==
  /\ Running /\ ~game_won
  /\ sel' = c
  /\ UNCHANGED <<board, fixed, current_puzzle, game_won, windows, latest>>

\* A number, or 0 to clear: the givens stay.
on_key_press(num) ==
  /\ Running /\ ~game_won /\ sel # None /\ ~fixed[sel]
  /\ board' = [board EXCEPT ![sel] = num]
  /\ game_won' = is_board_complete(board')
  /\ UNCHANGED <<fixed, current_puzzle, sel, windows, latest>>

on_new_game ==
  /\ Running
  /\ start_new_game((current_puzzle + 1) % PUZZLE_COUNT)
  /\ UNCHANGED <<windows, latest>>

\* on_check: what it finds wrong and what it finds empty.
Errors == {c \in Cells : board[c] \notin {0, PUZZLES[current_puzzle].solution[c]}}
Empty == {c \in Cells : board[c] = 0}

on_activate ==
  /\ Running /\ latest < MaxWindows
  /\ \E p \in DOMAIN PUZZLES : start_new_game(p)
  /\ latest' = latest + 1 /\ windows' = windows \cup {latest'}

Close(w) ==
  /\ windows' = windows \ {w}
  /\ UNCHANGED <<board, fixed, current_puzzle, sel, game_won, latest>>

\* The cells went with the latest window: the refresh may end the process.
Crash ==
  /\ Running /\ latest \notin windows
  /\ windows' = {}
  /\ UNCHANGED <<board, fixed, current_puzzle, sel, game_won, latest>>

Next ==
  \/ on_new_game \/ on_activate \/ Crash
  \/ \E c \in Cells : on_cell_clicked(c)
  \/ \E num \in 0 .. BOX * BOX : on_key_press(num)
  \/ \E w \in windows : Close(w)

-----------------------------------------------------------------------------
\* The ranges of the variables.
TypeOK ==
  /\ board \in [Cells -> 0 .. BOX * BOX] /\ fixed \in [Cells -> BOOLEAN]
  /\ current_puzzle \in DOMAIN PUZZLES /\ sel \in Cells \cup {None}
  /\ game_won \in BOOLEAN
  /\ windows \subseteq 1 .. MaxWindows /\ latest \in 1 .. MaxWindows

\* Three views of the board agree, whatever was typed and cleared in whatever
\* order: the game is won (is_board_complete, which knows no solution) exactly
\* when the Check button finds nothing wrong or missing (on_check, which compares
\* with the solution), and exactly when the board is full and no cell of the
\* user's is shown in red (refresh_board, which looks at no given).  The givens
\* of the puzzle that Check compares with are on the board all along.
WonMeansSolved ==
  /\ game_won <=> Errors = {} /\ Empty = {}
  /\ game_won <=> Flagged = {} /\ Empty = {}
  /\ \A c \in Cells : PUZZLES[current_puzzle].grid[c] \in {0, board[c]}

=============================================================================
