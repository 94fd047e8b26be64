------------------------------- MODULE Chess --------------------------------
(***************************************************************************)
(* The chess task of the desktop: the clicks of the user, and the Copilot, *)
(* whose move is made by a timer that goes off 600 ms after it was started *)
(* and is never cancelled.  Which of the legal moves the Copilot takes     *)
(* (minimax) is left open.                                                 *)
(***************************************************************************)
EXTENDS ChessRules, FiniteSets, Sequences

CONSTANTS
  Openings,        \* games that were played so far: the mode and the moves
  Clickable,       \* the cells that the user clicks on
  MaxMoves,        \* bounds the user's moves after the opening
  MaxTimers        \* bounds the timers that run at the same time

VARIABLES
  board, white_turn,
  sel,             \* the selected cell, None unless selected
  game_over,
  mode,            \* current_mode: the colour the Copilot plays, "none" in MODE_PVP
  copilot_thinking,
  moved,           \* the home cells of kings and rooks from which a move was made
  captured,        \* how many white and black pieces were captured
  timers,          \* how many timers for do_copilot_move run
  moves,           \* how many moves were made since the opening or the new game
  stale            \* history: whether a timer has outlived its game

game == <<board, white_turn, moved, captured, moves>>
vars == <<game, sel, game_over, mode, copilot_thinking, timers, stale>>

None == <<-1, -1>>

New == [board |-> init_board, moved |-> {}, captured |-> [white |-> 0, black |-> 0]]

Moved(g, m) == [board |-> BoardAfter(g.board, m[1], m[2]), moved |-> MovedAfter(g.moved, m[1]),
                captured |-> CapturedAfter(g.board, g.captured, m[2])]

\* A game after each of its moves.
Replay(o) ==
  LET after[i \in 0 .. Len(o)] == IF i = 0 THEN New ELSE Moved(after[i - 1], o[i])
  IN after

CopilotPlays(wt) == mode = IF wt THEN "white" ELSE "black"

\* A game has come to the end of an opening; the Copilot is about to move if
\* it is his turn.
Init ==
  \E o \in Openings :
    /\ LET g == Replay(o.moves)[Len(o.moves)]
       IN board = g.board /\ moved = g.moved /\ captured = g.captured
    /\ white_turn = (Len(o.moves) % 2 = 0)
    /\ sel = None /\ game_over = FALSE /\ mode = o.mode /\ moves = 0 /\ stale = FALSE
    /\ copilot_thinking = CopilotPlays(white_turn)
    /\ timers = IF copilot_thinking THEN 1 ELSE 0

\* make_move, and whether the game is over for the other side.
Make(f, t) ==
  /\ board' = BoardAfter(board, f, t)
  /\ moved' = MovedAfter(moved, f)
  /\ captured' = CapturedAfter(board, captured, t)
  /\ white_turn' = ~white_turn /\ moves' = moves + 1
  /\ game_over' = ~has_any_legal_move(board', moved', white_turn')

UserMay == ~game_over /\ ~copilot_thinking /\ ~CopilotPlays(white_turn)

\* on_cell_click: the selection changes ...
ClickToSelect(s) ==
  /\ UserMay
  /\ sel # None /\ s # sel => ~is_valid_move(board, moved, sel, s)
  /\ sel' = IF is_own(board[s], white_turn) /\ s # sel THEN s ELSE None
  /\ UNCHANGED <<game, game_over, mode, copilot_thinking, timers, stale>>

\* ... or the selected piece moves, and the Copilot's timer is started.
ClickToMove(s) ==
  /\ UserMay /\ moves < MaxMoves
  /\ sel # None /\ s # sel /\ is_valid_move(board, moved, sel, s)
  /\ Make(sel, s) /\ sel' = None
  /\ LET next == ~game_over' /\ CopilotPlays(white_turn')
     IN /\ copilot_thinking' = next
        /\ timers' = IF next THEN timers + 1 ELSE timers
  /\ UNCHANGED <<mode, stale>>

\* Fault: the move that ends the game leaves the flag raised.
TimerMovesForGood ==
  /\ timers > 0 /\ ~game_over
  /\ \E m \in LegalMoves(board, moved, white_turn) : Make(m[1], m[2])
  /\ timers' = timers - 1 /\ copilot_thinking' = game_over'
  /\ UNCHANGED <<sel, mode, stale>>

\* do_copilot_move: it moves for whoever's turn it is, if the game goes on.
TimerMoves ==
  /\ timers > 0 /\ ~game_over
  /\ \E m \in LegalMoves(board, moved, white_turn) : Make(m[1], m[2])
  /\ timers' = timers - 1 /\ copilot_thinking' = FALSE
  /\ UNCHANGED <<sel, mode, stale>>

TimerAfterEnd ==
  /\ timers > 0 /\ game_over
  /\ timers' = timers - 1 /\ copilot_thinking' = FALSE
  /\ UNCHANGED <<game, sel, game_over, mode, stale>>

\* on_new_game, by the button or by another mode; no timer is cancelled.
NewGame(m) ==
  /\ timers < MaxTimers
  /\ board' = init_board /\ white_turn' = TRUE /\ sel' = None /\ game_over' = FALSE
  /\ moved' = {} /\ captured' = New.captured /\ moves' = 0
  /\ mode' = m /\ copilot_thinking' = (m = "white")
  /\ timers' = IF m = "white" THEN timers + 1 ELSE timers
  /\ stale' = (stale \/ timers > 0)

Next ==
  \/ \E s \in Clickable : ClickToSelect(s) \/ ClickToMove(s)
  \/ TimerAfterEnd \/ TimerMoves
  \/ \E m \in {"none", "white", "black"} : NewGame(m)

-----------------------------------------------------------------------------
\* The ranges of the variables.
TypeOK ==
  /\ board \in [Cells -> White \cup Black \cup {"."}] /\ white_turn \in BOOLEAN
  /\ sel \in Cells \cup {None} /\ game_over \in BOOLEAN /\ mode \in {"none", "white", "black"}
  /\ copilot_thinking \in BOOLEAN /\ moved \subseteq {0, 7} \X {0, 4, 7}
  /\ captured \in [white : 0..16, black : 0..16]
  /\ timers \in 0 .. MaxTimers /\ moves \in 0 .. MaxMoves + MaxTimers /\ stale \in BOOLEAN

Pieces(colour) == Cardinality({s \in Cells : board[s] \in colour})

\* What is not on the board was captured: captures, promotion and the rook that
\* moves with the king leave 16 pieces of each colour to account for, even when
\* castling moves what stands in the corner of a captured rook (make_move).
MaterialKept ==
  /\ Pieces(White) + captured.white = 16 /\ Pieces(Black) + captured.black = 16

Left == {s \in Cells : board[s] # "." /\ board'[s] = "."}
Castled == \E f \in Left, t \in Cells : Castling(board, f, t) /\ board'[t] = board[f]

\* A move, the user's or the Copilot's, does not leave the mover's own king in
\* check: the validation of moves is "full, including check safety"
\* (chess.cpp:309).
EveryMoveIsCheckSafe ==
  moves' = moves + 1 => \A f \in Left : ~is_in_check(board', board[f] \in White)

\* That holds of all moves but castling, which is_valid_move decides before it
\* gets to the check, and can_castle without a look at the cell of arrival.
NoMoveIntoCheck == Castled \/ EveryMoveIsCheckSafe

\* Until a new game leaves a timer of the one before running, the Copilot
\* thinks exactly when it is his turn in a game that goes on, and there is one
\* timer for one thought (trigger_copilot_move, do_copilot_move).
ThinksOnItsTurn ==
  stale \/ /\ copilot_thinking <=> ~game_over /\ CopilotPlays(white_turn)
           /\ timers = IF copilot_thinking THEN 1 ELSE 0

=============================================================================
