---------------------------- MODULE Minesweeper -----------------------------
(***************************************************************************)
(* The minesweeper task of the desktop.  The mines are laid at the first   *)
(* click; a cell without mines next to it opens its neighbours, and so on. *)
(* The clock is only shown and is left out.                                *)
(***************************************************************************)
EXTENDS Integers, FiniteSetsExt

CONSTANTS
  SZ, MINES,
  MaxFlags         \* bounds the flags that are set at the same time

VARIABLES
  mines,           \* the cells with a mine
  revealed, flagged,
  revealed_count, flags,
  first_click,
  result           \* what game_end shows, "none" unless game_over

vars == <<mines, revealed, flagged, revealed_count, flags, first_click, result>>

Cells == (0 .. SZ - 1) \X (0 .. SZ - 1)

Around(i) == (i - 1 .. i + 1) \cap (0 .. SZ - 1)
Near(c) == Around(c[1]) \X Around(c[2])

\* The cells whose value is 0.
Blank(ms) == {c \in Cells : Near(c) \cap ms = {}}

Init ==
  /\ mines = {} /\ revealed = {} /\ flagged = {} /\ revealed_count = 0 /\ flags = 0
  /\ first_click = TRUE /\ result = "none"

-----------------------------------------------------------------------------
\* place_mines: where no mine may be when c is the first click.
SafePlaces(c) == Near(c)

Closed == Cells \ (revealed \cup flagged)

\* reveal_cell: what it opens, from c on.
Flood(c, ms) ==
  LET spread[S \in SUBSET Cells] ==
        LET more == UNION {Near(d) \cap Closed : d \in S \cap Blank(ms)}
        IN IF more \subseteq S THEN S ELSE spread[S \cup more]
  IN spread[{c} \cap Closed]

Count(c, opened) == revealed_count + Cardinality(opened)

\* Where the mines may be when c is clicked.
Minefields(c) == IF first_click THEN kSubset(MINES, Cells \ SafePlaces(c)) ELSE {mines}

\* on_click
Click(c, ms) ==
  /\ result = "none" /\ c \notin flagged
  /\ first_click' = FALSE /\ mines' = ms
  /\ LET opened == Flood(c, ms)
     IN /\ revealed' = revealed \cup opened
        /\ revealed_count' = Count(c, opened)
        /\ result' = IF opened = {} THEN "none"
                     ELSE IF c \in ms THEN "lost"
                     ELSE IF revealed_count' = SZ * SZ - MINES THEN "won" ELSE "none"
  /\ UNCHANGED <<flagged, flags>>

\* on_right_click
SetFlag(c) ==
  /\ result = "none" /\ c \notin revealed \cup flagged /\ flags < MaxFlags
  /\ flagged' = flagged \cup {c} /\ flags' = flags + 1
  /\ UNCHANGED <<mines, revealed, revealed_count, first_click, result>>

TakeFlag(c) ==
  /\ result = "none" /\ c \in flagged \ revealed
  /\ flagged' = flagged \ {c} /\ flags' = flags - 1
  /\ UNCHANGED <<mines, revealed, revealed_count, first_click, result>>

\* The task is launched again while it runs: on_activate resets the state.
Activate ==
  /\ mines' = {} /\ revealed' = {} /\ flagged' = {} /\ revealed_count' = 0 /\ flags' = 0
  /\ first_click' = TRUE /\ result' = "none"

Next ==
  \/ \E c \in Cells : SetFlag(c) \/ TakeFlag(c)
  \/ \E c \in Cells : \E ms \in Minefields(c) : Click(c, ms)
  \/ Activate

-----------------------------------------------------------------------------
\* The ranges of the variables.
TypeOK ==
  /\ mines \subseteq Cells /\ revealed \subseteq Cells /\ flagged \subseteq Cells
  /\ revealed_count \in 0 .. SZ * SZ /\ flags \in 0 .. MaxFlags
  /\ first_click \in BOOLEAN /\ result \in {"none", "won", "lost"}

\* The first click opens up the board: there is no mine next to it, so that it
\* opens its neighbours (place_mines).
FirstClickOpensUp ==
  first_click /\ ~first_click' =>
    \E c \in revealed' : Near(c) \ flagged \subseteq revealed' \ mines'

\* The game is won by a count, which the flood raises cell by cell: it is won
\* exactly when all cells without a mine, and only they, are open.
WonMeansCleared == result = "won" <=> ~first_click /\ revealed = Cells \ mines

\* What is flagged stays closed, flood or not, so that the number of mines that
\* are left, MINES - flags, is about closed cells.
FlaggedIsClosed == flagged \cap revealed = {} /\ flags = Cardinality(flagged)

=============================================================================
