---------------------------- MODULE Phase3Snake -----------------------------
(***************************************************************************)
(* The snake of Phase 3, a task in a terminal: its menus, the frames of    *)
(* the game, and two files that it shares with every other process of the  *)
(* same task, highestscore.txt and scores.txt.  The kernel may kill the    *)
(* process at any time and start it again; another one is seen only as far *)
(* as it uses the files.                                                   *)
(***************************************************************************)
EXTENDS Integers, Sequences, FiniteSets, SequencesExt

CONSTANTS
  width, height,   \* 30 and 20 in the source
  MaxElsewhere     \* bounds the score of the other process

VARIABLES
  screen,          \* "menu", "playing", "saving", "over", "stuck" or "gone"
  named,           \* has the player a name?
  head, fruit,     \* the cells <<X, Y>> and <<fruitX, fruitY>>
  tail, dir, score, gameover,
  highestScore,
  best_file,       \* highestscore.txt: a score, Empty or Absent
  top,             \* the highest score in scores.txt, -1 without one
  elsewhere,       \* the game of the other process, or None
  torn             \* history: two games at once, or one killed while saving;
                   \* a bound: nothing is looked at after that

game == <<head, fruit, tail, dir, score, gameover>>
vars == <<screen, named, game, highestScore, best_file, top, elsewhere, torn>>

Absent == -2
Empty == -1
None == [highestScore |-> 0, score |-> -1, saving |-> FALSE]

Cells == (0 .. width - 1) \X (0 .. height - 1)
Dirs == {"up", "down", "left", "right"}
Step(c, d) ==
  IF d = "up" THEN <<c[1], c[2] - 1>> ELSE IF d = "down" THEN <<c[1], c[2] + 1>>
  ELSE IF d = "left" THEN <<c[1] - 1, c[2]>> ELSE IF d = "right" THEN <<c[1] + 1, c[2]>>
  ELSE c
Opposite(d) ==
  IF d = "up" THEN "down" ELSE IF d = "down" THEN "up"
  ELSE IF d = "left" THEN "right" ELSE IF d = "right" THEN "left" ELSE "none"

\* What is on file; a file without a number counts as a score of 0.
OnFile == IF best_file \in {Empty, Absent} THEN 0 ELSE best_file

\* loadHighestScore: from an empty file nothing is read, and the process goes on
\* with the score that it remembers from its last game, 0 in the first.
Loaded(remembered) == IF best_file = Empty THEN remembered ELSE OnFile

\* Where a fruit may be put; without such a cell the search never ends.
Free(h, t) == Cells \ ({h} \cup ToSet(t))

Init ==
  /\ screen = "menu" /\ named = FALSE
  /\ head = <<0, 0>> /\ fruit = <<0, 0>> /\ tail = <<>> /\ dir = "stop"
  /\ score = 0 /\ gameover = FALSE /\ highestScore = 0
  /\ best_file = Absent /\ top = -1
  /\ elsewhere = None /\ torn = FALSE

-----------------------------------------------------------------------------
EnterName ==
  /\ screen = "menu" /\ named' = TRUE
  /\ UNCHANGED <<screen, game, highestScore, best_file, top, elsewhere, torn>>

\* setup, from the menu or by a retry
StartGame ==
  /\ screen = "over" \/ (screen = "menu" /\ named)
  /\ screen' = "playing"
  /\ head' = <<width \div 2, height \div 2>> /\ tail' = <<>> /\ fruit' \in Free(head', <<>>)
  /\ score' = 0 /\ dir' = "stop" /\ gameover' = FALSE
  /\ highestScore' = Loaded(highestScore)
  /\ torn' = (torn \/ elsewhere # None)
  /\ UNCHANGED <<named, best_file, top, elsewhere>>

MainMenu ==
  /\ screen = "over" /\ screen' = "menu"
  /\ UNCHANGED <<named, game, highestScore, best_file, top, elsewhere, torn>>

\* What is no number - it may be a key left over from the game - makes cin fail:
\* the menu then repeats itself without end.
Garble ==
  /\ screen \in {"menu", "over"} /\ screen' = "stuck"
  /\ UNCHANGED <<named, game, highestScore, best_file, top, elsewhere, torn>>

-----------------------------------------------------------------------------
(* A frame: one key, one step.                                             *)

Keys == Dirs \cup {"escape", "none"}

\* input
Aim(key) ==
  dir' = IF key \in {"escape", "none"} \/ dir = Opposite(key) THEN dir ELSE key

\* saveScoreToFile and the end of the loop, when gameover is set.
EndOfFrame ==
  IF gameover'
    THEN screen' = "over" /\ top' = IF score' > top THEN score' ELSE top
    ELSE screen' = "playing" /\ UNCHANGED top

Crashes == Step(head, dir') \notin Cells \/ Step(head, dir') \in ToSet(tail)

\* The tail without the segment that moves up; the one behind the head is new.
Followed == IF tail = <<>> THEN <<>> ELSE <<head>> \o Front(tail)

Frame(key) ==
  /\ screen = "playing" /\ Aim(key)
  /\ UNCHANGED <<named, elsewhere, torn>>

Stand(key) ==
  /\ Frame(key) /\ dir' = "stop"
  /\ gameover' = (key = "escape")
  /\ UNCHANGED <<head, fruit, tail, score, highestScore, best_file>>
  /\ EndOfFrame

Collide(key) ==
  /\ Frame(key) /\ dir' # "stop" /\ Crashes
  /\ head' = Step(head, dir') /\ gameover' = TRUE
  /\ UNCHANGED <<fruit, tail, score, highestScore, best_file>>
  /\ EndOfFrame

Move(key) ==
  /\ Frame(key) /\ dir' # "stop" /\ ~Crashes /\ Step(head, dir') # fruit
  /\ head' = Step(head, dir') /\ tail' = Followed
  /\ gameover' = (key = "escape")
  /\ UNCHANGED <<fruit, score, highestScore, best_file>>
  /\ EndOfFrame

\* The new segment lies on the one behind the head until the next step.  A new
\* highest score opens the file, and closes it in a step of its own.
Eat(key) ==
  /\ Frame(key) /\ dir' # "stop" /\ ~Crashes /\ Step(head, dir') = fruit
  /\ head' = fruit /\ tail' = Append(Followed, head)
  /\ score' = score + 10 /\ gameover' = (key = "escape")
  /\ IF Free(head', tail') = {}
       THEN screen' = "stuck" /\ UNCHANGED <<fruit, highestScore, best_file, top>>
       ELSE /\ fruit' \in Free(head', tail')
            /\ IF score' > highestScore
                 THEN /\ highestScore' = score' /\ best_file' = Empty
                      /\ screen' = "saving" /\ UNCHANGED top
                 ELSE EndOfFrame /\ UNCHANGED <<highestScore, best_file>>

Saved ==
  /\ screen = "saving" /\ best_file' = highestScore
  /\ UNCHANGED <<named, game, highestScore, elsewhere, torn>>
  /\ EndOfFrame

-----------------------------------------------------------------------------
(* The kernel and the other process of the task.                           *)

\* A process that is killed takes its memory with it; the files stay.
Killed ==
  /\ screen # "gone" /\ screen' = "gone"
  /\ torn' = (torn \/ screen = "saving")
  /\ named' = FALSE /\ head' = <<0, 0>> /\ fruit' = <<0, 0>> /\ tail' = <<>> /\ dir' = "stop"
  /\ score' = 0 /\ gameover' = FALSE /\ highestScore' = 0
  /\ UNCHANGED <<best_file, top, elsewhere>>

Launched ==
  /\ screen = "gone" /\ screen' = "menu"
  /\ UNCHANGED <<named, game, highestScore, best_file, top, elsewhere, torn>>

OtherStarts ==
  /\ elsewhere = None
  /\ elsewhere' = [highestScore |-> Loaded(0), score |-> 0, saving |-> FALSE]
  /\ torn' = (torn \/ screen \in {"playing", "saving"})
  /\ UNCHANGED <<screen, named, game, highestScore, best_file, top>>

OtherEats ==
  /\ elsewhere # None /\ ~elsewhere.saving /\ elsewhere.score < MaxElsewhere
  /\ LET s == elsewhere.score + 10
         higher == s > elsewhere.highestScore
     IN  /\ elsewhere' = [highestScore |-> IF higher THEN s ELSE elsewhere.highestScore,
                          score |-> s, saving |-> higher]
         /\ best_file' = IF higher THEN Empty ELSE best_file
  /\ UNCHANGED <<screen, named, game, highestScore, top, torn>>

OtherSaves ==
  /\ elsewhere.saving
  /\ best_file' = elsewhere.highestScore /\ elsewhere' = [elsewhere EXCEPT !.saving = FALSE]
  /\ UNCHANGED <<screen, named, game, highestScore, top, torn>>

OtherEnds ==
  /\ elsewhere # None /\ ~elsewhere.saving
  /\ top' = IF elsewhere.score > top THEN elsewhere.score ELSE top
  /\ elsewhere' = None
  /\ UNCHANGED <<screen, named, game, highestScore, best_file, torn>>

OtherKilled ==
  /\ elsewhere # None /\ elsewhere' = None
  /\ torn' = (torn \/ elsewhere.saving)
  /\ UNCHANGED <<screen, named, game, highestScore, best_file, top>>

Next ==
  /\ ~torn
  /\ \/ EnterName \/ StartGame \/ MainMenu \/ Garble \/ Saved \/ Killed \/ Launched
     \/ \E key \in Keys : Stand(key) \/ Collide(key) \/ Move(key) \/ Eat(key)
     \/ OtherStarts \/ OtherEats \/ OtherSaves \/ OtherEnds \/ OtherKilled

-----------------------------------------------------------------------------
\* The ranges of the variables.
TypeOK ==
  /\ screen \in {"menu", "playing", "saving", "over", "stuck", "gone"}
  /\ named \in BOOLEAN /\ gameover \in BOOLEAN /\ torn \in BOOLEAN
  /\ head \in (-1 .. width) \X (-1 .. height) /\ fruit \in Cells
  /\ \A i \in DOMAIN tail : tail[i] \in Cells
  /\ dir \in Dirs \cup {"stop"}
  /\ score \in Nat /\ highestScore \in Nat /\ top \in Nat \cup {-1}
  /\ best_file \in Nat \cup {Empty, Absent}

\* While it plays, the snake is a trail of cells, each beside the one before it
\* and none twice, as long as the score says; only the segment that a fruit has
\* added lies on the first until the next step (logic).
TrailIsSound ==
  screen \in {"playing", "saving"} =>
    LET n == Len(tail)
        grown == n > 1 /\ tail[n] = tail[1]
        trail == <<head>> \o (IF grown THEN Front(tail) ELSE tail)
    IN /\ 10 * n = score
       /\ head \in Cells /\ fruit \notin {head} \cup ToSet(tail)
       /\ \A i \in 1 .. Len(trail) - 1 :
            \E d \in Dirs : trail[i + 1] = Step(trail[i], d)
       /\ Cardinality(ToSet(trail)) = Len(trail)
       /\ n > 0 => tail[1] = Step(head, Opposite(dir))

\* However fast the keys come, none turns the snake into its own neck: a frame
\* takes one key and looks at the direction of the last step (input).
NeverIntoTheNeck ==
  screen = "playing" /\ tail # <<>> /\ screen' # "gone" => head' # tail[1]

\* The two files agree through games, retries, kills and launches: no score on the
\* list is higher than the highest score on file, and a game under way knows the
\* highest (loadHighestScore, saveHighestScore, saveScoreToFile) - but for two
\* processes that play at once, and one that is killed between the opening of the
\* file and the writing.
BestIsKept ==
  ~torn =>
    /\ top <= IF elsewhere.saving THEN elsewhere.highestScore
              ELSE IF screen = "saving" THEN highestScore ELSE OnFile
    /\ screen = "playing" => highestScore = OnFile

=============================================================================
