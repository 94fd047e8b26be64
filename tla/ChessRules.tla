----------------------------- MODULE ChessRules -----------------------------
(***************************************************************************)
(* The rules of chess as the chess task knows them: no capture en passant, *)
(* and a pawn that gets to the last row becomes a queen.  A board maps the *)
(* cells to pieces, upper case for white, and "." if there is none.        *)
(***************************************************************************)
EXTENDS Integers

Cells == (0..7) \X (0..7)

White == {"P", "N", "B", "R", "Q", "K"}
Black == {"p", "n", "b", "r", "q", "k"}
is_own(p, wt) == p \in IF wt THEN White ELSE Black

Distance(i, j) == IF i < j THEN j - i ELSE i - j
Sign(i) == IF i > 0 THEN 1 ELSE IF i < 0 THEN -1 ELSE 0
Largest(i, j) == IF i < j THEN j ELSE i

init_board ==
  LET back == <<"R", "N", "B", "Q", "K", "B", "N", "R">>
      black == <<"r", "n", "b", "q", "k", "b", "n", "r">>
  IN [s \in Cells |-> IF s[1] = 0 THEN black[s[2] + 1] ELSE IF s[1] = 1 THEN "p"
                      ELSE IF s[1] = 6 THEN "P" ELSE IF s[1] = 7 THEN back[s[2] + 1] ELSE "."]

-----------------------------------------------------------------------------
\* The cells between two cells of a row, a column or a diagonal.
Between(f, t) ==
  LET dr == Sign(t[1] - f[1])
      dc == Sign(t[2] - f[2])
      n == Largest(Distance(f[1], t[1]), Distance(f[2], t[2]))
  IN {<<f[1] + k * dr, f[2] + k * dc>> : k \in 1 .. n - 1}

is_path_clear(b, f, t) == \A s \in Between(f, t) : b[s] = "."

Straight(f, t) == f[1] = t[1] \/ f[2] = t[2]
Diagonal(f, t) == Distance(f[1], t[1]) = Distance(f[2], t[2])

\* What pieces other than pawns reach from f, whatever stands on t # f.
Reaches(b, f, t) ==
  \/ b[f] \in {"R", "r", "Q", "q"} /\ Straight(f, t) /\ is_path_clear(b, f, t)
  \/ b[f] \in {"B", "b", "Q", "q"} /\ Diagonal(f, t) /\ is_path_clear(b, f, t)
  \/ b[f] \in {"N", "n"} /\ {Distance(f[1], t[1]), Distance(f[2], t[2])} = {1, 2}
  \/ b[f] \in {"K", "k"} /\ Largest(Distance(f[1], t[1]), Distance(f[2], t[2])) = 1

Forward(p) == IF p = "P" THEN -1 ELSE 1

can_reach(b, f, t) ==
  IF b[f] \in {"P", "p"}
    THEN t[1] - f[1] = Forward(b[f]) /\ Distance(f[2], t[2]) = 1
    ELSE Reaches(b, f, t)

\* A king that is missing is in check.
is_in_check(b, white) ==
  \A k \in Cells : b[k] = (IF white THEN "K" ELSE "k") =>
    \E s \in Cells : is_own(b[s], ~white) /\ can_reach(b, s, k)

Moving(b, f, t) == [b EXCEPT ![t] = b[f], ![f] = "."]

\* can_castle, between moves of a game that goes on.
can_castle(b, m, f, t) ==
  LET white == b[f] = "K"
      home == IF white THEN 7 ELSE 0
      rook == <<home, IF t[2] = 6 THEN 7 ELSE 0>>
      passed == <<home, IF t[2] = 6 THEN 5 ELSE 3>>
      empty == IF t[2] = 6 THEN 5..6 ELSE 1..3
  IN /\ f = <<home, 4>> /\ f \notin m /\ rook \notin m
     /\ \A c \in empty : b[<<home, c>>] = "."
     /\ ~is_in_check(b, white)
     /\ ~is_in_check(Moving(b, f, passed), white)

PawnMove(b, f, t) ==
  LET d == Forward(b[f])
      start == IF b[f] = "P" THEN 6 ELSE 1
  IN \/ f[2] = t[2] /\ t[1] - f[1] = d /\ b[t] = "."
     \/ /\ f[2] = t[2] /\ t[1] - f[1] = 2 * d /\ f[1] = start
        /\ b[<<f[1] + d, f[2]>>] = "." /\ b[t] = "."
     \/ Distance(f[2], t[2]) = 1 /\ t[1] - f[1] = d /\ b[t] # "."

Castling(b, f, t) ==
  b[f] \in {"K", "k"} /\ f[1] = t[1] /\ Distance(f[2], t[2]) = 2

\* Fault: the king is not looked at.
is_valid_for_piece(b, m, f, t) ==
  /\ b[f] # "." /\ f # t
  /\ b[t] # "." => (b[f] \in White) # (b[t] \in White)
  /\ IF Castling(b, f, t) THEN can_castle(b, m, f, t)
     ELSE IF b[f] \in {"P", "p"} THEN PawnMove(b, f, t) ELSE Reaches(b, f, t)

\* Castling is decided before the king's safety is (line 350).
is_valid_move(b, m, f, t) ==
  /\ b[f] # "." /\ f # t
  /\ b[t] # "." => (b[f] \in White) # (b[t] \in White)
  /\ IF Castling(b, f, t) THEN can_castle(b, m, f, t)
     ELSE /\ IF b[f] \in {"P", "p"} THEN PawnMove(b, f, t) ELSE Reaches(b, f, t)
          /\ ~is_in_check(Moving(b, f, t), b[f] \in White)

\* get_all_legal_moves
LegalMoves(b, m, white) ==
  {p \in {s \in Cells : is_own(b[s], white)} \X Cells : is_valid_move(b, m, p[1], p[2])}

has_any_legal_move(b, m, white) ==
  \E f \in {s \in Cells : is_own(b[s], white)}, t \in Cells : is_valid_move(b, m, f, t)

Promoted(p, t) ==
  IF p = "P" /\ t[1] = 0 THEN "Q" ELSE IF p = "p" /\ t[1] = 7 THEN "q" ELSE p

\* The rook's cells when a king castles, and nothing else moves.
RookFrom(t) == <<t[1], IF t[2] = 6 THEN 7 ELSE 0>>
RookTo(t) == <<t[1], IF t[2] = 6 THEN 5 ELSE 3>>

\* Fault: the rook stays in its corner as well.
BoardWithTwoRooks(b, f, t) ==
  LET b1 == [b EXCEPT ![t] = Promoted(b[f], t), ![f] = "."]
  IN IF Castling(b, f, t) THEN [b1 EXCEPT ![RookTo(t)] = b[RookFrom(t)]] ELSE b1

\* make_move: the board after it ...
BoardAfter(b, f, t) ==
  LET b1 == [b EXCEPT ![t] = Promoted(b[f], t), ![f] = "."]
  IN IF Castling(b, f, t)
       THEN [b1 EXCEPT ![RookTo(t)] = b[RookFrom(t)], ![RookFrom(t)] = "."] ELSE b1

\* ... the home cells that were left, and the pieces captured.
MovedAfter(m, f) == m \cup ({f} \cap ({0, 7} \X {0, 4, 7}))
CapturedAfter(b, c, t) ==
  [c EXCEPT !.white = @ + (IF b[t] \in White THEN 1 ELSE 0),
            !.black = @ + (IF b[t] \in Black THEN 1 ELSE 0)]

=============================================================================
