------------------------------ MODULE GuiTasks ------------------------------
(***************************************************************************)
(* The tasks of the desktop.  Each is a process of its own that shares     *)
(* nothing with the others but files, so that they are checked one at a    *)
(* time (those that work on files together): the task that is open takes   *)
(* its steps, the variables of the others are Closed.                      *)
(***************************************************************************)
EXTENDS Integers, FiniteSets, Sequences

CONSTANTS
  SZ, MINES, MaxFlags,                                \* minesweeper
  COLS, ROWS, MaxWindows,                             \* snake, music player
  SONG_COUNT, Files, Duration,                        \* music player
  MaxBuilds, MaxTexts,                                \* AMS Studio
  Openings, Clickable, MaxMoves, MaxTimers,           \* chess
  BOX, PUZZLES,                                       \* Sudoku
  WIN_W, WIN_H, BIRD_R, PIPE_W, PIPE_GAP, GRAVITY, FLAP_VEL, PIPE_SPEED,
  BIRD_X, SPACING, Gaps, MaxScore,                    \* flappy bird
  Paths, Mounted, ReadOnly, Texts, MaxOpened,         \* the file tools
  SafePaths, Parent, Found, Tags, MaxTags, Apps,      \* the actions of the Copilot
  width, height, MaxElsewhere                         \* the snake of Phase 3

\* The first click needs a place for the mines outside the nine cells around it,
\* and the snake its three places; 9, 10, 20 and 20 in the source.
ASSUME BoardSizes ==
  /\ SZ \in Nat /\ MINES \in 1 .. SZ * SZ - 9
  /\ COLS \in Nat /\ COLS >= 4 /\ ROWS \in Nat \ {0}

VARIABLES
  task,            \* the task that is open
  grid, current_player, game_ended, vs_copilot,
  mines, revealed, flagged, revealed_count, flags, first_click, result,
  body, food, dir, score, alive, paused, windows, area, timers, timer_id,
  current, playing, progress, sounding, audio_pid, music_windows, latest,
  is_compiling, build, thread, idle, console,
  board, white_turn, sel, game_over, mode, copilot_thinking, moved, captured,
  copilot_timers, moves, stale,
  cells, fixed, current_puzzle, selected, game_won, sudoku_windows, sudoku_latest,
  bird_y, bird_vy, points, best, flying, started, pipes, gone, flappy_windows, flappy_area,
  files, disk_full, confirm, text, file_path, modified, opened, touched,
  answer, cut, display, found, place, launched, fs_modified, signalled,
  screen, named, head, fruit, tail, heading, length_score, gameover, highestScore,
  best_file, top, elsewhere, torn

TicTacToe == INSTANCE TicTacToe
Minesweeper == INSTANCE Minesweeper
Snake == INSTANCE Snake
MusicPlayer == INSTANCE MusicPlayer WITH windows <- music_windows
AmsStudio == INSTANCE AmsStudio
Chess == INSTANCE Chess WITH timers <- copilot_timers
Sudoku == INSTANCE Sudoku WITH board <- cells, sel <- selected,
                               windows <- sudoku_windows, latest <- sudoku_latest
FlappyBird == INSTANCE FlappyBird WITH score <- points, alive <- flying,
                                       windows <- flappy_windows, area <- flappy_area
FileTools == INSTANCE FileTools
CopilotActions == INSTANCE CopilotActions
Phase3Snake == INSTANCE Phase3Snake WITH dir <- heading, score <- length_score

\* What bounds the checks: windows, launches and timers are at least the first one.
ASSUME BoundsAreNumbers ==
  /\ MaxWindows \in Nat \ {0} /\ MaxOpened \in Nat \ {0} /\ MaxTimers \in Nat \ {0}
  /\ MaxFlags \in Nat /\ MaxBuilds \in Nat /\ MaxTexts \in Nat /\ MaxMoves \in Nat
  /\ MaxScore \in Nat

\* The play list has a song, each with its time.
ASSUME SongsHaveTimes ==
  /\ SONG_COUNT \in Nat \ {0} /\ Files \subseteq MusicPlayer!PLAYLIST
  /\ Duration \in [MusicPlayer!PLAYLIST -> Nat]

\* No text and no path is one of the marks for the lack of it.
ASSUME FilesAreNamed ==
  /\ Paths # {} /\ FileTools!None \notin Paths
  /\ FileTools!Absent \notin Texts

\* A tag is of one of the kinds, and those on files name safe paths or one that is
\* refused; every safe path lies in the root or in another one.
ASSUME TagsAreSound ==
  /\ MaxTags \in Nat
  /\ Parent \in [SafePaths -> SafePaths \cup {CopilotActions!Root}]
  /\ CopilotActions!Root \notin SafePaths /\ CopilotActions!Unsafe \notin SafePaths
  /\ \A f \in Found : f = [p \in SafePaths |-> f[p]]
  /\ \A t \in Tags :
       /\ t.kind \in {CopilotActions!Kinds[i] : i \in 1 .. 7}
       /\ t.kind # "launch" => t.path \in SafePaths \cup {CopilotActions!Unsafe}
       /\ t.kind = "move" => t.dest \in SafePaths \cup {CopilotActions!Unsafe}

\* Perfect play from the empty grid is a draw at least: no assumption on a constant
\* but the value of an expression without one, which TLC computes.
ASSUME TheGameIsADraw ==
  TicTacToe!minimax[<<TicTacToe!NewGrid, 0, FALSE>>] >= 0

\* The games so far were played by the rules, with the Copilot on a side or none.
ASSUME OpeningsAreGames ==
  /\ Clickable \subseteq Chess!Cells
  /\ \A o \in Openings :
       /\ o.mode \in {"none", "white", "black"} /\ o.moves \in Seq(Chess!Cells \X Chess!Cells)
       /\ \A i \in 1 .. Len(o.moves) :
            LET g == Chess!Replay(o.moves)[i - 1]
            IN /\ Chess!is_own(g.board[o.moves[i][1]], i % 2 = 1)
               /\ Chess!is_valid_move(g.board, g.moved, o.moves[i][1], o.moves[i][2])

\* The puzzles are numbered from 0, and each leaves the user a cell.
Open(p) == {c \in Sudoku!Cells : PUZZLES[p].grid[c] = 0}

ASSUME PuzzlesAreOpen ==
  /\ BOX \in Nat \ {0}
  /\ \E n \in 1 .. Sudoku!PUZZLE_COUNT : DOMAIN PUZZLES = 0 .. n - 1
  /\ \A p \in DOMAIN PUZZLES :
       /\ PUZZLES[p].grid \in [Sudoku!Cells -> 0 .. BOX * BOX] /\ Open(p) # {}
       /\ PUZZLES[p].solution \in [Sudoku!Cells -> 1 .. BOX * BOX]

\* What the win and the Check button rely on: a puzzle has one solution, the one
\* that is stored with it.
Filled(p, f) == [c \in Sudoku!Cells |-> IF c \in Open(p) THEN f[c] ELSE PUZZLES[p].grid[c]]

ASSUME PuzzlesAreSound ==
  \A p \in DOMAIN PUZZLES :
    /\ \A c \in Sudoku!Cells : PUZZLES[p].grid[c] \in {0, PUZZLES[p].solution[c]}
    /\ \A f \in [Open(p) -> 1 .. BOX * BOX] :
         Sudoku!is_board_complete(Filled(p, f)) <=> Filled(p, f) = PUZZLES[p].solution

\* The screen of the snake of Phase 3; 30 and 20 in the source.
ASSUME ScreenHasCells == width \in Nat \ {0} /\ height \in Nat \ {0}

\* A pipe is behind the bird before it is erased, the next one comes after it has
\* left the bird, and no unit of the speed takes it over the bird.
ASSUME SkyIsWide ==
  /\ {WIN_W, WIN_H, PIPE_W, PIPE_GAP, GRAVITY, FLAP_VEL, PIPE_SPEED, BIRD_X, SPACING} \subseteq Int
  /\ Gaps \subseteq Int /\ BIRD_R \in Nat
  /\ 0 < PIPE_SPEED /\ PIPE_SPEED < PIPE_W /\ BIRD_R < BIRD_X
  /\ BIRD_X + BIRD_R < WIN_W /\ PIPE_W < SPACING

Tasks == {"tic_tac_toe", "minesweeper", "snake", "music_player", "ams_studio", "chess",
          "sudoku", "flappy_bird", "file_tools", "copilot_actions", "phase3_snake"}

ticTacToe == <<grid, current_player, game_ended, vs_copilot>>
minesweeper == <<mines, revealed, flagged, revealed_count, flags, first_click, result>>
snake == <<body, food, dir, score, alive, paused, windows, area, timers, timer_id>>
musicPlayer == <<current, playing, progress, sounding, audio_pid, music_windows, latest>>
amsStudio == <<is_compiling, build, thread, idle, console>>
chess == <<board, white_turn, sel, game_over, mode, copilot_thinking, moved, captured,
           copilot_timers, moves, stale>>
sudoku == <<cells, fixed, current_puzzle, selected, game_won, sudoku_windows, sudoku_latest>>
flappyBird == <<bird_y, bird_vy, points, best, flying, started, pipes, gone,
                flappy_windows, flappy_area>>
fileTools == <<files, disk_full, confirm, text, file_path, modified, opened, touched>>
copilotActions == <<answer, cut, display, found, place, launched, fs_modified, signalled>>
phase3Snake == <<screen, named, head, fruit, tail, heading, length_score, gameover, highestScore,
                 best_file, top, elsewhere, torn>>
vars == <<task, ticTacToe, minesweeper, snake, musicPlayer, amsStudio, chess,
          sudoku, flappyBird, fileTools, copilotActions, phase3Snake>>

-----------------------------------------------------------------------------
Closed == "closed"

IsClosed(t) ==
  CASE t = "tic_tac_toe" ->
         grid = Closed /\ current_player = Closed /\ game_ended = Closed /\ vs_copilot = Closed
    [] t = "minesweeper" ->
         /\ mines = Closed /\ revealed = Closed /\ flagged = Closed /\ revealed_count = Closed
         /\ flags = Closed /\ first_click = Closed /\ result = Closed
    [] t = "snake" ->
         /\ body = Closed /\ food = Closed /\ dir = Closed /\ score = Closed /\ alive = Closed
         /\ paused = Closed /\ windows = Closed /\ area = Closed /\ timers = Closed
         /\ timer_id = Closed
    [] t = "music_player" ->
         /\ current = Closed /\ playing = Closed /\ progress = Closed /\ sounding = Closed
         /\ audio_pid = Closed /\ music_windows = Closed /\ latest = Closed
    [] t = "ams_studio" ->
         /\ is_compiling = Closed /\ build = Closed /\ thread = Closed /\ idle = Closed
         /\ console = Closed
    [] t = "chess" ->
         /\ board = Closed /\ white_turn = Closed /\ sel = Closed /\ game_over = Closed
         /\ mode = Closed /\ copilot_thinking = Closed /\ moved = Closed /\ captured = Closed
         /\ copilot_timers = Closed /\ moves = Closed /\ stale = Closed
    [] t = "sudoku" ->
         /\ cells = Closed /\ fixed = Closed /\ current_puzzle = Closed /\ selected = Closed
         /\ game_won = Closed /\ sudoku_windows = Closed /\ sudoku_latest = Closed
    [] t = "flappy_bird" ->
         /\ bird_y = Closed /\ bird_vy = Closed /\ points = Closed /\ best = Closed
         /\ flying = Closed /\ started = Closed /\ pipes = Closed /\ gone = Closed
         /\ flappy_windows = Closed /\ flappy_area = Closed
    [] t = "file_tools" ->
         /\ files = Closed /\ disk_full = Closed /\ confirm = Closed /\ text = Closed
         /\ file_path = Closed /\ modified = Closed /\ opened = Closed /\ touched = Closed
    [] t = "copilot_actions" ->
         /\ answer = Closed /\ cut = Closed /\ display = Closed /\ found = Closed
         /\ place = Closed /\ launched = Closed /\ fs_modified = Closed
         /\ signalled = Closed
    [] t = "phase3_snake" ->
         /\ screen = Closed /\ named = Closed /\ head = Closed /\ fruit = Closed /\ tail = Closed
         /\ heading = Closed /\ length_score = Closed /\ gameover = Closed
         /\ highestScore = Closed /\ best_file = Closed /\ top = Closed
         /\ elsewhere = Closed /\ torn = Closed

Unchanged(t) ==
  CASE t = "tic_tac_toe" -> UNCHANGED ticTacToe
    [] t = "minesweeper" -> UNCHANGED minesweeper
    [] t = "snake" -> UNCHANGED snake
    [] t = "music_player" -> UNCHANGED musicPlayer
    [] t = "ams_studio" -> UNCHANGED amsStudio
    [] t = "chess" -> UNCHANGED chess
    [] t = "sudoku" -> UNCHANGED sudoku
    [] t = "flappy_bird" -> UNCHANGED flappyBird
    [] t = "file_tools" -> UNCHANGED fileTools
    [] t = "copilot_actions" -> UNCHANGED copilotActions
    [] t = "phase3_snake" -> UNCHANGED phase3Snake

Opened(t) == task = t /\ \A u \in Tasks \ {t} : IsClosed(u)

Init ==
  \/ Opened("tic_tac_toe") /\ TicTacToe!Init
  \/ Opened("minesweeper") /\ Minesweeper!Init
  \/ Opened("snake") /\ Snake!Init
  \/ Opened("music_player") /\ MusicPlayer!Init
  \/ Opened("ams_studio") /\ AmsStudio!Init
  \/ Opened("chess") /\ Chess!Init
  \/ Opened("sudoku") /\ Sudoku!Init
  \/ Opened("flappy_bird") /\ FlappyBird!Init
  \/ Opened("file_tools") /\ FileTools!Init
  \/ Opened("copilot_actions") /\ CopilotActions!Init
  \/ Opened("phase3_snake") /\ Phase3Snake!Init

Only(t) == task = t /\ UNCHANGED task /\ \A u \in Tasks \ {t} : Unchanged(u)

Next ==
  \/ Only("tic_tac_toe") /\ TicTacToe!Next
  \/ Only("minesweeper") /\ Minesweeper!Next
  \/ Only("snake") /\ Snake!Next
  \/ Only("music_player") /\ MusicPlayer!Next
  \/ Only("ams_studio") /\ AmsStudio!Next
  \/ Only("chess") /\ Chess!Next
  \/ Only("sudoku") /\ Sudoku!Next
  \/ Only("flappy_bird") /\ FlappyBird!Next
  \/ Only("file_tools") /\ FileTools!Next
  \/ Only("copilot_actions") /\ CopilotActions!Next
  \/ Only("phase3_snake") /\ Phase3Snake!Next

\* make ends and its thread is scheduled; the main loop gets to its callbacks
\* and its timers.
Fairness ==
  /\ \A b \in 1..MaxBuilds : WF_vars(Only("ams_studio") /\ AmsStudio!ThreadStep(b))
  /\ WF_vars(Only("ams_studio") /\ AmsStudio!Show)
  /\ WF_vars(Only("chess") /\ (Chess!TimerMoves \/ Chess!TimerAfterEnd))

Spec == Init /\ [][Next]_vars /\ Fairness

-----------------------------------------------------------------------------
(* What is stated in the modules of the tasks, for the task that is open.  *)

\* The games keep their books under any order of clicks, keys, ticks and second
\* launches.  The Copilot of tic-tac-toe never loses (copilot_move); minesweeper is
\* won by a count exactly when the field is cleared, and no flood opens a flagged
\* cell (reveal_cell); the snake is one piece and as long as the score says, the
\* food is beside it, and an open window has a timer (game_tick, on_win_destroy);
\* Sudoku is won exactly when the Check button finds nothing (is_board_complete,
\* on_check); each pipe that flappy bird passes scores once (game_tick); the snake of
\* Phase 3 is a trail of its own length, and its two score files agree (logic,
\* saveHighestScore, saveScoreToFile).
GamesAreSound ==
  /\ task = "tic_tac_toe" => TicTacToe!TypeOK /\ TicTacToe!CopilotNeverLoses
  /\ task = "minesweeper" =>
       Minesweeper!TypeOK /\ Minesweeper!WonMeansCleared /\ Minesweeper!FlaggedIsClosed
  /\ task = "snake" =>
       Snake!TypeOK /\ Snake!SnakeIsOnePiece /\ Snake!FoodIsFree /\ Snake!GameGoesOn
  /\ task = "sudoku" => Sudoku!TypeOK /\ Sudoku!WonMeansSolved
  /\ task = "flappy_bird" => FlappyBird!TypeOK /\ FlappyBird!EachPipeScoresOnce
  /\ task = "phase3_snake" =>
       Phase3Snake!TypeOK /\ Phase3Snake!TrailIsSound /\ Phase3Snake!BestIsKept

\* At most the current song is heard (stop_audio wherever the song changes).
SoundIsCurrent ==
  task = "music_player" => MusicPlayer!TypeOK /\ MusicPlayer!SoundIsCurrent

\* The tools say what is so: the console of AMS Studio is in the order of the
\* builds (append_console), a Notepad that shows no mark of a change shows its
\* file (save_to_path), and an answer of the Copilot is carried out as it is written
\* and ends with a pkill if it has changed the files (parse_and_execute_actions).
ToolsAreSound ==
  /\ task = "ams_studio" => AmsStudio!TypeOK /\ AmsStudio!ConsoleInOrder
  /\ task = "file_tools" => FileTools!TypeOK /\ FileTools!UnmarkedIsSaved
  /\ task = "copilot_actions" =>
       CopilotActions!TypeOK /\ CopilotActions!AsWritten /\ CopilotActions!ChangesAreSignalled

\* No chess piece gets lost or doubled, and the Copilot thinks on its turn only
\* unless a timer was left over (make_move, trigger_copilot_move).
ChessIsSound ==
  task = "chess" => Chess!TypeOK /\ Chess!MaterialKept /\ Chess!ThinksOnItsTurn

\* What a step may never do: leave one's own king in check, castling excepted
\* (is_valid_move), let a win pass by (the depth in minimax of tic-tac-toe), open a
\* single cell at the first click (place_mines), lose a file other than the one
\* that is written or deleted (on_copy, on_move), or turn the snake of Phase 3 into
\* its neck (input).
MovesKeepTheRules ==
  [][/\ task = "chess" => Chess!NoMoveIntoCheck
     /\ task = "tic_tac_toe" => TicTacToe!CopilotTakesTheWin
     /\ task = "minesweeper" => Minesweeper!FirstClickOpensUp
     /\ task = "file_tools" => FileTools!LosesTheDestinationOnly
     /\ task = "phase3_snake" => Phase3Snake!NeverIntoTheNeck]_vars

\* What a comment says of chess and castling refutes: every move is checked for
\* the safety of the mover's king (chess.cpp:308-309).
FullCheckSafety == [][task = "chess" => Chess!EveryMoveIsCheckSafe]_vars

\* Each build of AMS Studio reports its end (on_compile_clicked), and the chess
\* Copilot gives the board back, left-over timers or not (do_copilot_move).
WaitingEnds ==
  /\ \A b \in 1..MaxBuilds :
       (task = "ams_studio" /\ build = b) ~> (task = "ams_studio" /\ AmsStudio!Reported(b))
  /\ (task = "chess" /\ copilot_thinking = TRUE) ~> (task = "chess" /\ copilot_thinking = FALSE)

=============================================================================
