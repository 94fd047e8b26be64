---------------------------- MODULE FlappyBird ------------------------------
(***************************************************************************)
(* The flappy bird task of the desktop: the tick that moves the bird and   *)
(* the pipes, and the keys.  The measures are constants, so that a small   *)
(* sky does; a position is a whole number of units.                        *)
(***************************************************************************)
EXTENDS Integers, Sequences, FiniteSets

CONSTANTS
  WIN_W, WIN_H, BIRD_R, PIPE_W, PIPE_GAP, GRAVITY, FLAP_VEL, PIPE_SPEED,
  BIRD_X,          \* bird_x of game_tick
  SPACING,         \* from the right border to the last pipe, when one is added
  Gaps,            \* where the gap of a pipe may start
  MaxScore, MaxWindows     \* bound the pipes of a game and the launches

VARIABLES
  bird_y, bird_vy, score, best, alive, started,
  pipes,           \* [x, gap_y], in the order in which they came
  gone,            \* history: how many pipes of this game were erased
  windows,         \* the windows that are open
  area             \* the window of drawing_area and header, the latest

game == <<bird_y, bird_vy, score, alive, started, pipes, gone>>
vars == <<game, best, windows, area>>

Ground == WIN_H - 1

reset_game ==
  /\ bird_y' = WIN_H \div 2 /\ bird_vy' = 0 /\ score' = 0
  /\ alive' = TRUE /\ started' = FALSE /\ pipes' = << >> /\ gone' = 0

Init ==
  /\ bird_y = WIN_H \div 2 /\ bird_vy = 0 /\ score = 0 /\ best = 0
  /\ alive = TRUE /\ started = FALSE /\ pipes = << >> /\ gone = 0
  /\ windows = {1} /\ area = 1

-----------------------------------------------------------------------------
Running == windows # {}
Flying == Running /\ alive /\ started /\ score < MaxScore

PassedBy(p) == p.x + PIPE_W < BIRD_X
Hits(y, p) ==
  /\ BIRD_X - BIRD_R - PIPE_W < p.x /\ p.x < BIRD_X + BIRD_R
  /\ y - BIRD_R < p.gap_y \/ y + BIRD_R > p.gap_y + PIPE_GAP

\* The right edge has passed the bird in this tick.
Scores(p) == PassedBy(p) /\ p.x + PIPE_W >= BIRD_X - PIPE_SPEED

\* spawn_pipe
Spawned ==
  IF pipes = << >> \/ pipes[Len(pipes)].x < WIN_W - SPACING
    THEN {Append(pipes, [x |-> WIN_W + 1, gap_y |-> g]) : g \in Gaps}
    ELSE {pipes}

\* The pipes that have not left the sky.
OnScreen(s) ==
  LET kept[n \in 0 .. Len(s)] ==
        IF n = 0 THEN << >>
        ELSE IF s[n].x + PIPE_W >= -1 THEN Append(kept[n - 1], s[n]) ELSE kept[n - 1]
  IN kept[Len(s)]

\* game_tick: the bird falls; on the ground or at the ceiling the game ends ...
Crashes == bird_y' + BIRD_R > Ground \/ bird_y' - BIRD_R < 0

Fall == bird_vy' = bird_vy + GRAVITY /\ bird_y' = bird_y + bird_vy'

HitGround ==
  /\ Flying /\ Fall /\ Crashes
  /\ alive' = FALSE
  /\ best' = IF score > best THEN score ELSE best
  /\ UNCHANGED <<score, started, pipes, gone, windows, area>>

\* ... and else the pipes move, the first one first, up to the one that is hit.
MovePipes ==
  /\ Flying /\ Fall /\ ~Crashes
  /\ \E before \in Spawned :
       LET moved == [i \in 1 .. Len(before) |-> [before[i] EXCEPT !.x = @ - PIPE_SPEED]]
           hit == {i \in 1 .. Len(before) : Hits(bird_y', moved[i])}
           last == IF hit = {} THEN Len(before) ELSE CHOOSE i \in hit : \A j \in hit : i <= j
           after == [i \in 1 .. Len(before) |-> IF i <= last THEN moved[i] ELSE before[i]]
       IN  /\ score' = score + Cardinality({i \in 1 .. last : Scores(moved[i])})
           /\ alive' = (hit = {})
           /\ best' = IF hit # {} /\ score' > best THEN score' ELSE best
           /\ pipes' = OnScreen(after)
           /\ gone' = gone + Len(after) - Len(pipes')
  /\ UNCHANGED <<started, windows, area>>

\* on_key: R, for a new game after the end of one, ...
KeyR ==
  /\ Running /\ ~alive /\ reset_game
  /\ UNCHANGED <<best, windows, area>>

\* ... and Space, which also starts it.
KeySpace ==
  /\ Running
  /\ started' = TRUE
  /\ bird_vy' = IF alive THEN FLAP_VEL ELSE bird_vy
  /\ UNCHANGED <<bird_y, score, alive, pipes, gone, best, windows, area>>

on_activate ==
  /\ Running /\ area < MaxWindows
  /\ reset_game
  /\ area' = area + 1 /\ windows' = windows \cup {area'}
  /\ UNCHANGED best

Close(w) == windows' = windows \ {w} /\ UNCHANGED <<game, best, area>>

\* drawing_area and header went with the latest window: a tick that draws on
\* them may end the process.
Crash ==
  /\ Running /\ area \notin windows
  /\ windows' = {} /\ UNCHANGED <<game, best, area>>

Next ==
  \/ HitGround \/ MovePipes \/ KeyR \/ KeySpace \/ on_activate \/ Crash
  \/ \E w \in windows : Close(w)

-----------------------------------------------------------------------------
\* The ranges of the variables.
TypeOK ==
  /\ bird_y \in Int /\ bird_vy \in Int
  /\ score \in 0 .. MaxScore /\ best \in 0 .. MaxScore
  /\ alive \in BOOLEAN /\ started \in BOOLEAN /\ gone \in Nat
  /\ pipes \in Seq([x : Int, gap_y : Gaps])
  /\ windows \subseteq 1 .. MaxWindows /\ area \in 1 .. MaxWindows

\* Every pipe that the bird passes scores once, in the tick in which its edge
\* passes, also when the bird hits the rear of it in that tick: the test of the
\* edge against the speed (game_tick) and the order of the moves, the collision
\* and the erasing make the score the number of the pipes behind the bird.  The
\* best score misses none of a game that ended, and a living bird is in no pipe.
EachPipeScoresOnce ==
  /\ score = gone + Cardinality({i \in 1 .. Len(pipes) : PassedBy(pipes[i])})
  /\ ~alive => best >= score
  /\ alive => \A i \in 1 .. Len(pipes) : ~Hits(bird_y, pipes[i])

=============================================================================
