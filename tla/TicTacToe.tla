----------------------------- MODULE TicTacToe ------------------------------
(***************************************************************************)
(* The tic-tac-toe task: two players, or one against the Copilot, which    *)
(* searches the whole rest of the game before it moves.                    *)
(***************************************************************************)
EXTENDS Integers, FiniteSetsExt

VARIABLES
  grid,            \* the mark on each cell, Blank if there is none
  current_player,
  game_ended,
  vs_copilot

vars == <<grid, current_player, game_ended, vs_copilot>>

Cells == 0..8     \* row by row
Blank == "-"

Grids == [Cells -> {Blank, "X", "O"}]

Empty(g) == {c \in Cells : g[c] = Blank}

check_win(g, p) ==
  \/ \E r \in {0, 3, 6} : g[r] = p /\ g[r + 1] = p /\ g[r + 2] = p
  \/ \E c \in 0..2 : g[c] = p /\ g[c + 3] = p /\ g[c + 6] = p
  \/ g[4] = p /\ ((g[0] = p /\ g[8] = p) \/ (g[2] = p /\ g[6] = p))

check_draw(g) == \A c \in Cells : g[c] # Blank

\* The value of a game that is over: a win counts more the sooner it comes.
evaluate(g, depth) ==
  IF check_win(g, "O") THEN 10 - depth ELSE IF check_win(g, "X") THEN depth - 10 ELSE 0

Over(g) == check_win(g, "O") \/ check_win(g, "X") \/ check_draw(g)

\* A grid, the depth, and whether it is the Copilot's turn (is_max).
Searched == Grids \X Nat \X BOOLEAN
After(s, c, mark) == <<[s[1] EXCEPT ![c] = mark], s[2] + 1, mark = "X">>

minimax[s \in Searched] ==
  IF Over(s[1]) THEN evaluate(s[1], s[2])
  ELSE IF s[3] THEN Max({minimax[After(s, c, "O")] : c \in Empty(s[1])})
  ELSE Min({minimax[After(s, c, "X")] : c \in Empty(s[1])})

\* copilot_move: the first cell, row by row, of those with the largest value.
bestCell(g) ==
  LET value == [c \in Empty(g) |-> minimax[<<[g EXCEPT ![c] = "O"], 0, FALSE>>]]
      best == {c \in Empty(g) : \A d \in Empty(g) : value[d] <= value[c]}
  IN Min(best)

NewGrid == [c \in Cells |-> Blank]

Init == grid = NewGrid /\ current_player = "X" /\ game_ended = FALSE /\ vs_copilot = TRUE

-----------------------------------------------------------------------------
Marked(c) == [grid EXCEPT ![c] = current_player]

\* A move that ends the game or is answered by the other player.
MoveOfTwo(c) ==
  /\ ~game_ended /\ grid[c] = Blank
  /\ LET g == Marked(c)
         ends == check_win(g, current_player) \/ check_draw(g)
     IN /\ ends \/ ~vs_copilot
        /\ grid' = g /\ game_ended' = ends
        /\ current_player' = IF ends THEN current_player
                             ELSE IF current_player = "X" THEN "O" ELSE "X"
  /\ UNCHANGED vs_copilot

\* A move that the Copilot answers.
MoveAndReply(c) ==
  /\ ~game_ended /\ grid[c] = Blank /\ vs_copilot
  /\ ~check_win(Marked(c), current_player) /\ ~check_draw(Marked(c))
  /\ grid' = [Marked(c) EXCEPT ![bestCell(Marked(c))] = "O"]
  /\ game_ended' = (check_win(grid', "O") \/ check_draw(grid'))
  /\ UNCHANGED <<current_player, vs_copilot>>

\* reset_game, by the button (the mode stays) or with another mode.
NewGame(copilot) ==
  /\ grid' = NewGrid /\ current_player' = "X" /\ game_ended' = FALSE
  /\ vs_copilot' = copilot

Next ==
  \/ \E c \in Cells : MoveOfTwo(c) \/ MoveAndReply(c)
  \/ \E copilot \in BOOLEAN : NewGame(copilot)

-----------------------------------------------------------------------------
\* The ranges of the variables.
TypeOK ==
  /\ grid \in [Cells -> {Blank, "X", "O"}] /\ current_player \in {"X", "O"}
  /\ game_ended \in BOOLEAN /\ vs_copilot \in BOOLEAN

\* Perfect play never loses: whatever X tries, copilot_move leaves him no line.
CopilotNeverLoses == vs_copilot => ~check_win(grid, "X")

\* With a win at hand the Copilot takes it at once instead of a later one of the
\* same sign: that is what the depth in minimax is for.
CopilotTakesTheWin ==
  \A c \in Cells :
    LET g == [grid EXCEPT ![c] = "X"] IN
      /\ vs_copilot /\ grid[c] = Blank /\ grid'[c] = "X"
      /\ \E d \in Empty(g) : check_win([g EXCEPT ![d] = "O"], "O")
      => check_win(grid', "O")

=============================================================================
