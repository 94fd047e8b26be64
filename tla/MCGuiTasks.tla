---------------------------- MODULE MCGuiTasks ------------------------------
(* Small boards, a play list of three songs of which two have a file, and   *)
(* five chess games: a new one, one in which both sides may castle, two     *)
(* that one more move ends, by the Copilot or by the user, and one in which *)
(* the user is in check.                                                    *)
EXTENDS GuiTasks

Audible == {0, 1}
Ticks == <<2, 1, 1>>
TicksOf == [song \in 0..2 |-> Ticks[song + 1]]

Cell(file, rank) == <<8 - rank, file - 1>>

ItalianGame ==
  << <<Cell(5, 2), Cell(5, 4)>>, <<Cell(5, 7), Cell(5, 5)>>,
     <<Cell(7, 1), Cell(6, 3)>>, <<Cell(2, 8), Cell(3, 6)>>,
     <<Cell(6, 1), Cell(3, 4)>>, <<Cell(6, 8), Cell(3, 5)>> >>

BeforeTheFoolsMate ==
  << <<Cell(6, 2), Cell(6, 3)>>, <<Cell(5, 7), Cell(5, 5)>>, <<Cell(7, 2), Cell(7, 4)>> >>

BeforeTheScholarsMate ==
  << <<Cell(5, 2), Cell(5, 4)>>, <<Cell(5, 7), Cell(5, 5)>>,
     <<Cell(6, 1), Cell(3, 4)>>, <<Cell(2, 8), Cell(3, 6)>>,
     <<Cell(4, 1), Cell(8, 5)>>, <<Cell(7, 8), Cell(6, 6)>> >>

KingsGambitCheck ==
  << <<Cell(5, 2), Cell(5, 4)>>, <<Cell(5, 7), Cell(5, 5)>>,
     <<Cell(6, 2), Cell(6, 4)>>, <<Cell(4, 8), Cell(8, 4)>> >>

\* 1. e4 e5 2. f4 Bc5 3. Nf3 Nc6 4. Bc4 d6: the bishop attacks g1.
BishopOnTheDiagonal ==
  << <<Cell(5, 2), Cell(5, 4)>>, <<Cell(5, 7), Cell(5, 5)>>,
     <<Cell(6, 2), Cell(6, 4)>>, <<Cell(6, 8), Cell(3, 5)>>,
     <<Cell(7, 1), Cell(6, 3)>>, <<Cell(2, 8), Cell(3, 6)>>,
     <<Cell(6, 1), Cell(3, 4)>>, <<Cell(4, 7), Cell(4, 6)>> >>

CastlingGames == {[mode |-> "black", moves |-> BishopOnTheDiagonal]}

Games == {[mode |-> "none", moves |-> << >>], [mode |-> "black", moves |-> ItalianGame],
          [mode |-> "black", moves |-> BeforeTheFoolsMate],
          [mode |-> "black", moves |-> BeforeTheScholarsMate],
          [mode |-> "none", moves |-> KingsGambitCheck]}

\* Two boards of four by four with four cells to fill: the boxes are the squares
\* of two, and each board has one solution.
Solved == << <<1, 2, 3, 4>>, <<3, 4, 1, 2>>, <<2, 1, 4, 3>>, <<4, 3, 2, 1>> >>
Upside == << <<4, 3, 2, 1>>, <<2, 1, 4, 3>>, <<3, 4, 1, 2>>, <<1, 2, 3, 4>> >>
Squares == (0 .. 3) \X (0 .. 3)
Puzzle(rows, open) ==
  [grid |-> [c \in Squares |-> IF c \in open THEN 0 ELSE rows[c[1] + 1][c[2] + 1]],
   solution |-> [c \in Squares |-> rows[c[1] + 1][c[2] + 1]]]
TwoPuzzles ==
  [p \in {0, 1} |-> IF p = 0 THEN Puzzle(Solved, {<<0, 0>>, <<0, 1>>, <<1, 1>>, <<3, 3>>})
                             ELSE Puzzle(Upside, {<<0, 0>>, <<1, 0>>, <<2, 2>>})]

\* A folder, a file and a folder in it and a file beside it, and answers with tags
\* of every kind.
SomePaths == {"d", "d/f", "d/h", "g"}
FolderOf == [p \in SomePaths |-> IF p \in {"d/f", "d/h"} THEN "d" ELSE "."]
Disk(d, f, g) ==
  [p \in SomePaths |-> CASE p = "d" -> d [] p = "d/f" -> f [] p = "g" -> g [] p = "d/h" -> "absent"]
Disks == {Disk("absent", "absent", "old"), Disk("folder", "old", "absent"),
          Disk("folder", "absent", "old")}

WithPath(kind, path) == [kind |-> kind, path |-> path]
WithText(kind, path) == [kind |-> kind, path |-> path, content |-> "new"]
Moving(path, dest) == [kind |-> "move", path |-> path, dest |-> dest]
Chained ==
  {WithPath("create_folder", p) : p \in {"d", "d/h"}}
    \cup {WithText("create_file", p) : p \in {"d", "d/f", "g"}}
    \cup {[kind |-> "update_file", path |-> "g", search |-> "old", content |-> "newer"]}
    \cup {WithText("download_file", "d/f")}
    \cup {WithPath("delete", p) : p \in {"d", "g", "unsafe"}}
    \cup {Moving("g", "d"), Moving("g", "d/f"), Moving("d", "g")}
    \cup {[kind |-> "launch", app |-> a] : a \in {"chess", "nothing"}}

GapStarts == {1, 4}
Flap == -2

\* e1, g1, f2, f4, h5, f7
Clicked == {Cell(5, 1), Cell(7, 1), Cell(6, 2), Cell(6, 4), Cell(8, 5), Cell(6, 7)}

=============================================================================
