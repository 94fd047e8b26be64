------------------------------- MODULE Snake --------------------------------
(***************************************************************************)
(* The snake task of the desktop: a timer and the keys.  When it is        *)
(* launched while it runs, the running task is activated once more: a      *)
(* second window, which takes the state over, and a second timer.          *)
(***************************************************************************)
EXTENDS Integers, SequencesExt

CONSTANTS
  COLS, ROWS,
  MaxWindows       \* bounds the launches

VARIABLES
  body, food,
  dir,             \* <<dx, dy>>
  score, alive, paused,
  windows,         \* the windows that are open
  area,            \* the window of drawing_area and header, the latest
  timers,          \* how many game_tick timers run
  timer_id         \* whether it names one of them, the latest

game == <<body, food, dir, score, alive, paused>>
shown == <<windows, area, timers, timer_id>>
vars == <<game, shown>>

Places == (0 .. COLS - 1) \X (0 .. ROWS - 1)
Nowhere == <<-1, -1>>     \* place_food searches forever

NewBody == [i \in 1..3 |-> <<COLS \div 2 + 1 - i, ROWS \div 2>>]

\* place_food: where the food may be put.
FreeOf(b) == Places \ Range(b)

PlaceFood(b) == food' \in IF FreeOf(b) = {} THEN {Nowhere} ELSE FreeOf(b)

ResetGame ==
  /\ body' = NewBody /\ dir' = <<1, 0>> /\ score' = 0 /\ alive' = TRUE /\ paused' = FALSE
  /\ PlaceFood(NewBody)

Init ==
  /\ body = NewBody /\ dir = <<1, 0>> /\ score = 0 /\ alive = TRUE /\ paused = FALSE
  /\ food \in FreeOf(NewBody)
  /\ windows = {1} /\ area = 1 /\ timers = 1 /\ timer_id = TRUE

-----------------------------------------------------------------------------
Running == windows # {} /\ food # Nowhere
Ticking == Running /\ timers > 0 /\ alive /\ ~paused

NewHead == <<body[1][1] + dir[1], body[1][2] + dir[2]>>
Blocked == NewHead \notin Places \/ NewHead \in Range(body)

\* game_tick
Die ==
  /\ Ticking /\ Blocked
  /\ alive' = FALSE
  /\ UNCHANGED <<body, food, dir, score, paused, shown>>

Crawl ==
  /\ Ticking /\ ~Blocked /\ NewHead # food
  /\ body' = <<NewHead>> \o Front(body)
  /\ UNCHANGED <<food, dir, score, alive, paused, shown>>

Eat ==
  /\ Ticking /\ ~Blocked /\ NewHead = food
  /\ body' = <<NewHead>> \o body /\ score' = score + 10 /\ PlaceFood(body')
  /\ UNCHANGED <<dir, alive, paused, shown>>

\* on_key: a direction, unless it is opposite to the one set last.
Turn(d) ==
  /\ Running
  /\ IF d[1] = 0 THEN dir[2] # -d[2] ELSE dir[1] # -d[1]
  /\ dir' = d
  /\ UNCHANGED <<body, food, score, alive, paused, shown>>

Space ==
  /\ Running /\ paused' = ~paused
  /\ UNCHANGED <<body, food, dir, score, alive, shown>>

Restart == Running /\ ~alive /\ ResetGame /\ UNCHANGED shown

\* Fault: the timer that runs already serves both windows.
ActivateOneTimer ==
  /\ Running /\ area < MaxWindows
  /\ ResetGame
  /\ area' = area + 1 /\ windows' = windows \cup {area'}
  /\ timers' = IF timer_id THEN timers ELSE timers + 1
  /\ timer_id' = TRUE

\* on_activate
Activate ==
  /\ Running /\ area < MaxWindows
  /\ ResetGame
  /\ area' = area + 1 /\ windows' = windows \cup {area'}
  /\ timers' = timers + 1 /\ timer_id' = TRUE

\* on_win_destroy: whichever window closes, it is the latest timer that goes.
Close(w) ==
  /\ Running /\ w \in windows
  /\ windows' = windows \ {w}
  /\ timers' = IF timer_id THEN timers - 1 ELSE timers
  /\ timer_id' = FALSE
  /\ UNCHANGED <<game, area>>

\* The latest window is gone and drawing_area points to freed memory: the tick
\* (like a key that draws) does nothing more, or ends the process.
Crash ==
  /\ Running /\ area \notin windows
  /\ windows' = {}
  /\ UNCHANGED <<game, area, timers, timer_id>>

Next ==
  \/ Die \/ Crawl \/ Eat \/ Space \/ Restart \/ Activate \/ Crash
  \/ \E d \in {<<0, -1>>, <<0, 1>>, <<-1, 0>>, <<1, 0>>} : Turn(d)
  \/ \E w \in windows : Close(w)

-----------------------------------------------------------------------------
\* The ranges of the variables.
TypeOK ==
  /\ body \in Seq(Places) /\ Len(body) >= 3 /\ food \in Places \cup {Nowhere}
  /\ dir \in {<<0, -1>>, <<0, 1>>, <<-1, 0>>, <<1, 0>>} /\ score \in Nat
  /\ alive \in BOOLEAN /\ paused \in BOOLEAN
  /\ windows \subseteq 1 .. MaxWindows /\ area \in 1 .. MaxWindows
  /\ timers \in 0 .. MaxWindows /\ timer_id \in BOOLEAN

NextTo(p, q) == <<p[1] - q[1], p[2] - q[2]>> \in {<<0, -1>>, <<0, 1>>, <<-1, 0>>, <<1, 0>>}

\* Any keys between any ticks, of one timer or two: the snake stays one piece
\* that lies on no place twice, and is as long as the score says.
SnakeIsOnePiece ==
  /\ IsInjective(body) /\ \A i \in 1 .. Len(body) - 1 : NextTo(body[i], body[i + 1])
  /\ score = 10 * (Len(body) - 3)

\* The food never lies under the snake (place_food); once the snake fills the
\* board there is no place for it.
FoodIsFree == food \notin Range(body) /\ (food = Nowhere => Places = Range(body))

\* As long as a window is open the game has a timer, although closing a window
\* takes away the timer of the latest one (on_win_destroy).
GameGoesOn == windows # {} => timers > 0

=============================================================================
