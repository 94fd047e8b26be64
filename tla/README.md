# A verification project for AMS OS

AMS OS (`src/FinalPhase/AMS_OS`) is a simulated operating system in C++. A terminal
*kernel* boots with given amounts of RAM, disk and cores, launches real Linux programs
as its tasks, schedules them in multilevel queues and cleans up after them; a *GUI
desktop* (GTK) shows a registry of programs and starts them. This directory holds TLA+
models of the parts that carry logic, the TLC configurations that check them on small
instances, and proofs of the central invariants for any instance.

Paths below are relative to `src/FinalPhase/AMS_OS`. The directory `src/Phase 3/AMS_OS`
is the delivery before: a kernel of one thread with a dashboard process beside it. It is
a different program under the same names and has models of its own; its paths are given
with `Phase 3/`.

    tlasany M.tla                     parse a module
    tlc -config MCKernel.cfg MCKernel check a run
    tlapm KernelProofs.tla            check the proofs of a module

`PROJECT.json` lists components, runs, mutants, findings, hazards and theorems, and, for
each definition that stands for code, the lines it stands for. The operators marked
"Fault:" in the modules are broken forms of the definition that follows; each shows that
some property would notice that mistake.

## 1. Inventory

### The kernel (one process, `kernel/`)

| Component | State | Operations | Must be true |
|---|---|---|---|
| Menu (`main.cpp`) | the menu loop, `multitaskingModeEnabled` | launch, schedule, minimize, resume, interrupt, close, shut down; before each menu: window states, sweep of ended tasks | a paused task stays paused, no task is lost, shutdown ends |
| Monitor threads (`main.cpp:29-105`) | one per launched task, `taskCleanupMutex` | block in `waitpid`, then clean up | an ended task is cleaned up after, once |
| Child processes | stopped, running, ended | handshake over two pipes, then `SIGSTOP` and `exec` | not running while the table says paused |
| Scheduler (`scheduler.cpp`) | the selected item, the time slice | `runScheduler`, `runProcess`, `dispatchParallel`, window states | everybody gets a turn, cores come back |
| Ready queues (`ready_queue.cpp`) | three queues | add, remove by pid, select, aging | one item per task, in its priority's queue |
| Resource manager (`resource_manager.cpp`) | three counters, the list of RAM blocks | check, allocate, release, first fit, merge | no address lost or owned twice |
| Deadlock manager (`deadlock_manager.cpp`) | records of who waits for what | add, clear, detect | yes exactly when there is a cycle |
| Process manager (`process_manager.cpp`) | the process table (a `std::map` without a lock) | create, update, remove | agrees with queues and children |
| Synchronization (`sync_manager.cpp`) | a counting semaphore of cores, a condition variable | acquire and release cores, notify | the acquisition never blocks the menu |
| Catalog, logger, console UI | constants, output | | |

The menu thread and the monitor threads share the process table, the queues, the
counters and the RAM layout. Only the monitor threads take `taskCleanupMutex`, so every
step of the one may fall between two steps of the other, and both may clean up after the
same task. The child is a Linux process: it can end, be stopped and be killed between
any two steps, and whoever calls `waitpid` second gets -1. A window of a task may be
hidden or shown by the user at any moment.

### The desktop (processes of their own, `gui/`)

| Component | State | Hard because |
|---|---|---|
| Desktop (`ams_desktop.cpp`) | the screen, timers, `TASKS`, the buttons with indices into it, a signal flag | timers outlive screens, the registry is replaced under the buttons, `SIGUSR1` at any moment |
| Copilot (`tasks/ai_copilot.cpp`) | the conversation, `busy` | a thread per question and idle callbacks, no mutex |
| AMS Studio (`tasks/ams_studio.cpp`) | the console, `is_compiling` | a detached thread per build, its output as idle callbacks |
| Chess (`tasks/chess.cpp`) | board, turn, castling flags, the 600 ms timer | the timer is never cancelled; the rules |
| Tic-tac-toe, Minesweeper, Snake, Music player | one struct each | a second launch enters the running process; recursion; timers |
| Settings | theme | signals the desktop |
| Copilot's actions (`ai_copilot.cpp:836-1060`) | the tags of an answer, the files | chained operations, carried out in another order than they are written |
| Sudoku, Flappy Bird | one struct each | the conflicts, the win and the solution must agree; a second launch replaces the cells and doubles the timer |
| File tools, Notepad | the files; text, path and mark of the editor | saves that fail, other file systems, a second launch |
| System tools (calculator, clock, monitors) | one struct each | little: nothing runs beside a handler |

All GUI processes ignore `SIGCHLD`, so that what `pclose` returns says nothing about the
command that ran. The command-line tasks (`tasks/`) are sequential programs that share
nothing with the kernel.

### Phase 3 (`Phase 3/AMS_OS`)

| Component | State | Hard because |
|---|---|---|
| Kernel (`kernel/main.cpp`) | the same managers, without locks; user or kernel mode; direct or Separate Terminal Mode | five options end a task, each with its own copy of the clean-up; a shutdown, a dashboard or Ctrl-C ends the process and leaves children and files behind |
| Scheduler (`kernel/scheduler.cpp`) | runs inside the menu option | waits for stops, ends and quanta of children that somebody else may kill |
| Dashboard (`tasks/gui_dashboard.cpp`) | the row that was clicked, as old as its last reload | two files, written by the one and read, then truncated, by the other |
| Snake (`tasks/snake.cpp`) | a game, two score files | the kernel may kill it between any two steps, or run two |

The kernel must keep counter, layout, queue, table and children in step through every
option; its scheduler must end; the dashboard's command must be taken or refused, and
the best score kept.

## 2. Modules

    Kernel --- KernelProperties --- MCKernel, KernelProofs     implements TaskLifecycle
    ReadyQueues --- MCReadyQueues, ReadyQueuesProofs
    ResourceManager --- MCResourceManager, ManagerProofs       implements MemoryMap
    DeadlockManager --- MCDeadlockManager, ManagerProofs
    DesktopSession --- MCDesktopSession, DesktopProofs
    Copilot --- MCCopilot, CopilotProofs
    Phase3Managers --- Phase3Kernel --- MCPhase3, Phase3Proofs
    Induction (what the proofs about sequences and sums share)
    TicTacToe, Minesweeper, Snake, Sudoku, FlappyBird, MusicPlayer, AmsStudio,
    FileTools, CopilotActions, Phase3Snake,
    ChessRules -- Chess --- GuiTasks --- MCGuiTasks, GuiProofs

### Kernel

The menu thread is a program counter `pc`; each monitor thread is `mon[p]`; each child
is `child[p]`. A step is one call on a manager, or several consecutive ones whose order
no other thread can tell apart. The counters are the exception: `available = available +
n` is a load (`CleanLoad`, `MonitorLoads`) and a store (`CleanStore`, `MonitorStores`),
because two threads do it without a common lock (`resource_manager.cpp:122`). In the
order of the code:

- *launch* (`main.cpp:885-1070`): `Fork`, `CheckResources`, `AllocateBlock`,
  `TakeResources` and `ChargeResources` (whose refusal the code ignores), `Register`,
  the wait with `WUNTRACED` (`AwaitStop`), `SpawnMonitor`; or `Deny`;
- *monitor* (`main.cpp:40-105`): `MonitorReaps` or `MonitorGivesUp`, `MonitorEnters`
  with the early return for a task without a PCB, and then mark, dequeue, unblock, load,
  store, forget;
- *menu loop* (`main.cpp:2404-2453`): `StartLoop`, the windows (`LookAtWindow` with the
  stale state of the window), `Sweep`, `ChooseNothing` and the other choices of the
  user;
- *scheduler* (`scheduler.cpp`): `runProcess` from the acquisition of cores to its five
  ways out, and `dispatchParallel`;
- *the cleanups* of the menu thread: close, kill, sweep, completion and shutdown, which
  differ in order and in what they call; `back` says where each returns.

`KernelProperties` states what is checked and the inductive invariants `IInv` and
`QInv`. `TaskLifecycle` is what the kernel promises about a task's RAM, whoever cleans
up: reserve while there is room, register, give back once, forget, in this order and for
good. `Kernel` implements it under the mapping `Stage`.

### ReadyQueues

Kernel counts the items of a task; here they have queue, place and priority.
`applyAging` drains the queues into a local list (`DrainQueues`) and puts the items back
one at a time (`AgeItem`, `DropItem`); a monitor's removal (`MonitorDequeues`) may fall
between. `SelectNextProcess`, `StartProcess` and the ends of a turn (`CompleteProcess`,
`HideProcess`, `RequeueProcess`) are the scheduler. `passed` is a history variable that
counts selections of others.

### ResourceManager and MemoryMap

`memoryBlocks` is the vector of blocks. `FirstFit`, `Put`, `Merge` are the loops of
`allocateMemoryBlock` and `mergeFreeMemoryBlocks`; `phase[p]` is how far the caller has
come with task p, since launch and cleanup are several calls. `MemoryMap` is an array of
addresses with a first-fit search, without blocks; `ImplementsMemoryMap` says that the
list of blocks is a representation of it.

### DeadlockManager

The recursive depth-first search, one visit per step: `stack` holds the calls with the
successors still to visit, `globalVisited` and `activeStack` are the sets of the code.
The order in which successors come is left open. Its specification is `DetectorSpec`,
so that the proofs about both managers fit into one module.

### DesktopSession

The screens as `screen`, the desktop window beside it, the timers that drive splash and
shutdown, the registry file and what is built from it. Handlers of the GTK main loop are
atomic. Not atomic is the reaction to `SIGUSR1`: the flag is lowered (`SeeFlag`) and
then the registry is loaded (`LoadAfterFlag`), and the signal handler may raise it in
between. The Copilot (`CreateNewProgram`, `MakeEnds`, `ExecuteActions`) and Settings
(`SaveApply`) are environment; each ends with a `pkill` for a name, which reaches the
desktop (`Pkill`) only if it is the desktop's: that of Settings is, the Copilot's is
not. A widget that is used after it was destroyed makes the program crash or does
nothing. `Launches` is what the index behind a button means at the moment of the click;
the grid is rebuilt with the registry, the dock is not (`ams_desktop.cpp:1530-1534`).

### Copilot

One thread per question: build the request, call the API, run the command that the
answer asks for, feed its output back, at most `MaxLoops` times, and post the answer to
the main loop, which enters and shows it and lowers `busy`. `Start` is where the last
`Window` messages of the history, which a request takes, begin.

### Phase3Managers and Phase3Kernel

One thread calls the managers, so in `Phase3Managers` each of their functions is an
operator from the old value to the new one: the process table, the queues with aging,
the counter, the list of blocks with first fit and merge, the deadlock records.
`Phase3Kernel` is the program around them. An option of the menu that waits for nothing
is one step. A step ends where the kernel waits for a child, for time or for the user,
since there a child or the dashboard may act: the wait for the first stop
(`AwaitAdmitted`), the poll with `select` (`PollFinds`, `MenuTimeout`), the read of the
command file and its truncation, which are two steps (`ReadOnly`, `ClearCommand`), the
two seconds of `runScheduler`'s loop (`SystemTaskEnds`), the quantum (`QuantumExpires`,
`Requeue` with the wait that looks at stops only). `Shutdown`,
`OpenSchedulingTerminal` and `OpenGraphicalDashboard` end or replace the process at the
menu. `Interrupted` ends it anywhere, as Ctrl-C or the end of its terminal does (the
kernel handles no signal): some children survive it and some do not (`Left`), and the
status file is as it was or, if the kernel was just writing it, empty. `NextBoot` is the
next kernel, after whichever end, with fresh managers beside old children and old files.
Two history variables say what an interruption leaves behind: `orphans`, the processes
that ran, and `stale`, the tasks that the file calls RUNNING until a kernel writes it.

A task is launched in one of two modes (option 23, `separate`). In Separate Terminal
Mode the child that the kernel stops, continues and waits for becomes a terminal, whose
window runs the program in another process (`OpenWindow`), and `executed` says so; from
there on only the terminal is modelled, for nothing that the kernel does reaches the
program. In direct mode the child comes to a place where the `exec` is missing
(`main.cpp:509-520`): it can only exit (`ChildExits`).

The dashboard reloads the status file, is clicked at, and writes a command in steps of
its own.

### GuiTasks

The tasks are processes that share nothing, so a behaviour of `GuiTasks` is a behaviour
of one of them, which `task` names; the variables of the others are `Closed`. This is
eleven separate models in one run.

- `TicTacToe` has minimax as a function on grid, depth and side, over the whole game.
- `Minesweeper` has the flood as the set that it opens: it grows from the clicked cell
  by the closed neighbours of its cells without a mine around, until it is stable.
- `Snake` and `MusicPlayer` have a second launch, which sends `activate` to the process
  that runs.
- `AmsStudio` has the build threads and the queue of idle callbacks.
- `Chess` has the rules in full (no capture en passant, as in the code), the clicks and
  the timer; which legal move the Copilot picks is left open.
- `Sudoku` keeps two notions apart that the code keeps apart: the conflicts that the win
  and the marks are decided by, and the solution that Check compares with.
- `FlappyBird` moves bird and pipes by the tick; what a frame does when the bird hits
  the ground, a pipe or neither are three actions.
- `FileTools` puts Create, Copy, Move, Delete and the Notepad on one file system in
  which a path may lie on another mount (rename fails, the fallback copies and removes),
  may not open for writing, or the disk may be full.
- `CopilotActions` has the tags of one answer, a tag per step, in the order of the code:
  kind by kind. `Effect` is what a tag does to the files, with the shell commands'
  behaviour on missing parents and existing targets, `Raises` whether it counts as a
  change, and `Signal` the `pkill` at the end if one did. (It names `ams_os`, which no
  process is called; whom it reaches is a question to `DesktopSession`.) `Changes` is
  where a tag may change the files and `LooksAt` what its result depends on, the folder
  above a file included.
- `Phase3Snake` has the menus, the frames and the two score files, with the kernel that
  kills and relaunches it and another process of the same task, seen as far as it uses
  the files.

## 3. Runs

Eight runs show properties, four refute a statement of the documentation; "states" are
distinct ones.

| Run | States | Shows |
|---|---|---|
| `kernel` | 570,894 | all of KernelProperties but `ActiveTasksFit` and `EndedTaskIsForgotten`, for every interleaving of two tasks |
| `kernel_limits` | 86,302 | *violation*: more cores in use than the machine has |
| `kernel_early_death` | 22,865 | *violation*: an ended task that nobody cleans up after |
| `ready_queues` | 189,896 | queues and table agree; bounded bypass; every run of the scheduler serves everybody |
| `resource_layout` | 5,641 | the layout is sound, agrees with the counters, implements `MemoryMap` |
| `deadlock_answers` | 292,122 | no false alarm, no missed deadlock, the victim takes part, the search ends |
| `desktop_session` | 827,560 | buttons of grid and dock launch what they say; no desktop without a login or without its widgets; no signal lost; timed screens end |
| `desktop_new_app` | 56 | *violation*: an app that compiles is not registered |
| `copilot_conversation` | 1,018 | one writer, alternating roles, answers behind their questions, bounded commands, every question answered |
| `gui_tasks` | 365,235 | the eleven tasks of `GuiTasks` |
| `gui_castling` | 44,200 | *violation*: castling into check |
| `phase3` | 593,832 | the kernel of Phase 3 with its dashboard, over two boots, the first of which may be interrupted anywhere: exact bookkeeping, one item per READY task, nothing runs unseen, runs end and commands are taken |

(The counts of the violations are those up to the counterexample, and depend on the
number of workers; `gui_castling` starts from the initial states of all tasks.)

What the less obvious properties say:

- `NoOrphanBlock`: two threads that clean up after the same task in different orders
  never leave a RAM block behind whose task is forgotten.
- `NoLostTask`: at the menu, a READY task whose process waits for a dispatch is in a
  queue, although the menu works on copies of PCBs that it took before a monitor changed
  them.
- `QueuedOnceIfReady`: `addProcessToReadyQueue` looks neither for a duplicate nor at the
  state; all its callers together have to.
- `PauseIsRespected`: neither a window event nor a dispatch resumes a task that the user
  paused.
- `WatchedTaskIsForgotten`: if the launch saw the child stop, somebody cleans up after
  its end. `EndedTaskIsForgotten`, without the condition, is the refuted one.
- `BoundedBypass`: with threshold T and n tasks, a waiting task is passed over at most
  2T - 1 + n - 1 times; the bound is tight (one less is violated).
- `SignalNotLost`: once the flag is down, the registry was loaded after the last signal.
  It holds since `check_refresh_flag` lowers the flag first.
- `AnswersWhatPrecedes`: an answer stands right behind what it answers, except that the
  last command is repeated when the loop is cut short (`ai_copilot.cpp:1375`).
- `ChessIsSound`: no piece lost or doubled, and the Copilot thinks exactly on its turn,
  *as long as* no timer of an earlier game is left over (`stale`). With one, the code
  does go wrong: it moves for the user, or lets one side move twice.
- `WaitingEnds`: builds report their end, and the board is given back even if timers are
  left over.
- `LaunchesWhatItSays`: a click starts the app on the button although the registry was
  replaced under it. The dock is excepted after a line was taken out of or put into the
  middle of the registry (`moved`): its indices are then those of the neighbours.
- `BookkeepingIsExact`: counter, layout and table of Phase 3 agree after any sequence of
  options, but for the blocks that its process killer leaks (`leaked`); the free
  neighbours that its merge misses are excepted in `FreeIsMerged`, which says where they
  may be: nowhere but behind no other free block. (A merge leaves them at the front;
  allocations in the first of the two move them up.)
- `ReadyIsQueuedOnce`: several options of Phase 3 add to the queues, and the queue does
  not look for a duplicate; that no task is ever queued twice depends on the states each
  of them admits.
- `NothingRunsUnseen` is about the processes that the Phase 3 kernel forks (in Separate
  Terminal Mode, terminals). One that runs is the dispatched one, and the table says so,
  or it was left running by an interrupted kernel, and then no later kernel has it in
  its table. The status file calls RUNNING what the table does; after an interruption it
  keeps what it was told, until the next kernel first offers its menu. It holds through
  kills, pauses, expired quanta, interruptions and boots. What a `Ghost` does to the
  table and the scheduler is not its subject: a ghost does not run.
- `PromisesKept`: liveness. A scheduler run ends unless it has a `Ghost`; the
  dashboard's command is taken or refused unless the kernel ends, has a `Ghost`, or the
  click fell between read and truncation. In the last two cases the code does go wrong,
  and nothing here would catch it.
- `ChangesAreSignalled` (Copilot's actions): an answer that has changed files, other
  than by a download, ends with a `pkill`. That the signal arrives is not claimed: it
  names a process that nobody has.
- `WonMeansSolved` (Sudoku): the win, decided by conflicts, comes exactly when the board
  is the solution that Check compares with, and exactly when it is full and no cell is
  shown in red.
- `EachPipeScoresOnce` (Flappy Bird): the score test is a window of one frame's width; a
  pipe must fall into it once.
- `UnmarkedIsSaved`, `LosesTheDestinationOnly` (file tools): a Notepad without its mark
  shows its file; no tool loses a file other than the one it writes or was told to
  delete.
- `AsWritten` (Copilot's actions): an answer carried out kind by kind ends as if it had
  been read from front to back, unless two tags of which one changes what the other
  looks at stand against the order of the kinds.
- `TrailIsSound`, `NeverIntoTheNeck`, `BestIsKept` (Phase 3 snake): the body is a path;
  of several keys in a frame none turns it into itself; no listed score exceeds the
  best.

`GamesAreSound`, `ToolsAreSound` and `MovesKeepTheRules` are conjunctions over the
tasks, and each carries one mutant. That the conjuncts of the other new tasks notice a
mistake was tried too, with definitions broken one at a time: in Sudoku a win that looks
at the cell just entered only; in Flappy Bird a score test with `>` for `>=`; in the
file tools a failed save that clears the mark, and a move that removes its source
although the copy failed; in the Copilot's actions the kinds in another order or none,
and a write that does not raise `fs_modified`; in the Phase 3 snake keys that turn
anywhere, every fruit saved as best, a retry that does not reload. In `DesktopSession`
the same holds for the files-first registry and for a login that shows the desktop over
running timers.

### Bounds

- *Kernel*: two tasks, machine of two units, each task one unit, pids used once. Every
  race of the code is between the menu thread and one monitor over one task, or over the
  counters, for which the second task is needed. The two tasks differ in type: one runs
  to completion, one has a quantum. `kernel_limits` takes three tasks, one of which
  needs the whole machine, since two that need one unit cannot overload it.
- *ReadyQueues*: three tasks, one of each priority, threshold two: the lowest is
  promoted twice, and every order of the system queue comes up.
- *ResourceManager*: up to four tasks of three sizes on seven places of RAM, with disk
  and cores that run out first for some mixtures: three free neighbours, exact fits and
  scattered space all occur. Tasks are symmetric (a run without liveness).
- *DeadlockManager*: three processes, three resources, four records; the proof covers
  the rest.
- *Phase 3*: three tasks on a machine for two of them (two timed, so that one ages while
  the other runs, and one system task that needs two units, so that its end and theirs
  bring three free blocks together), one core, one task that may be killed from outside
  (`Mortal`), one that may be launched in a terminal (`Windowed`), one whose row is
  clicked (`Clicked`), each pid used once. Two boots: what the first kernel leaves meets
  the second while it runs tasks of its own. The last boot is not interrupted, as
  nothing comes after it that could tell (`MaxBoots`). The theorems are about any such
  sets and any number of boots.
- *DesktopSession*: two pinned apps, one new app, one file, two steps for each timed
  screen (30 and 25 in the code), two desktops, so that one session follows another.
- *Copilot*: three questions, three loops as in the code; a window of four messages (20
  in the code), which three questions with their outputs exceed; the theorem takes any
  even window.
- *GuiTasks*: tic-tac-toe in full. Minesweeper 4 by 4 with one mine and one flag (the
  first click keeps nine cells free; the others stay). Snake 4 by 2, two windows: small
  enough that the snake fills the board. Three songs, two with a file, two windows. Two
  builds, four texts. Chess: five openings (a new game, castling rights on both sides,
  one move before mate by the user and by the Copilot, the user in check), six clickable
  cells, one user move after the opening and two timers. Sudoku: two puzzles of 4 by 4
  with four and three free cells, so that each box, row and column is exercised; two
  windows. Flappy Bird in units of the pipe's speed, two places for a gap, two pipes to
  a game. File tools: three paths, one on another mount and one there that does not open
  for writing, two texts, two launches of the Notepad. Copilot's actions: up to three
  tags over a folder, two files in it and one beside it, from three disks, the last
  tag open or not. Phase 3 snake on 3 by 2, the score of the other process up to ten;
  nothing is looked at once two games at once have `torn` the files.

Deadlock is checked everywhere but in `GuiTasks`, where a finished game or a bound on
builds ends a behaviour: every task there stops when its bound is reached. Where a
program ends by design (the halted kernel, a desktop that is gone), the module has an
explicit stuttering step.

### Fairness

- *Kernel*: weak fairness of what the menu thread does on its own (`MainStep`), of each
  monitor thread, and of a child that has been signalled: Linux schedules threads and
  delivers signals. The user's choices, windows and the end of a task are not fair.
- *ReadyQueues*: weak fairness of the scheduler's steps and of the end of a turn: a
  quantum ends by itself, a task without quantum is assumed to end.
- *DeadlockManager*: the search goes on. *Copilot*: each thread goes on (`curl -m 60`;
  commands are assumed to end) and the main loop gets to its callbacks.
- *DesktopSession*: strong fairness of the two timers, since the main loop is busy with
  a refresh again and again and yet dispatches each source that is due; weak fairness of
  `LoadAfterFlag`, the rest of a handler.
- *Phase 3*: weak fairness of what the kernel does on its own (`KernelStep`) and of a
  child that was granted its start and stops itself; strong fairness of the end of a
  task that is dispatched again and again, which is what lets a run of the scheduler
  end. The user, the dashboard and kills are not fair; the menu's `select` times out by
  itself.
- *GuiTasks*: weak fairness of build threads (make ends), idle callbacks and the chess
  timer.

## 4. Findings

1. `kernel_limits`: a cleanup by the menu thread that races the monitor releases a
   task's cores twice, and a task is admitted that does not fit (`main.cpp:2098`;
   PROJECT_REPORT.md:338-339; the comment of the lock, main.cpp:65-68).
2. `kernel_early_death`: a child killed before the launch has seen it stop is collected
   by the launch; its block and PCB stay (`main.cpp:1053`; main.cpp:1060-1064).
3. `desktop_new_app`: `pclose` under an ignored `SIGCHLD` returns -1, so every
   compilation counts as failed, the source is removed and the app never registered
   (`ai_copilot.cpp:376`; 125, 377).
4. `gui_castling`: castling is not tested for the cell the king arrives at
   (`chess.cpp:350`; the heading at 309).

Met while modelling, modelled as the code has it, and excepted by name in the properties
they touch (or outside what any property says):

- *Kernel*: a removal during aging finds nothing, and the item of the dead task is
  queued again (`ready_queue.cpp:259`); the scheduler skips it later.
- *Desktop*: the dock keeps its indices when a line leaves the middle of the registry
  (`ams_desktop.cpp:1533`).
- *Copilot*: the signal after changes goes to processes called `ams_os`, and the desktop
  is `ams_desktop` (makefile:24; Settings has the name right, `settings.cpp:36`), so
  that it is told of nothing (`ai_copilot.cpp:1139`, and 413 for a new app; against 162
  and ams_desktop.cpp:2205). The request takes the last twenty messages, which it calls
  ten exchanges, and cut it begins in the middle of one (`ai_copilot.cpp:1157`). Chained
  operations are carried out kind by kind (836). The parent directory that is created
  "to prevent silent failures" (888) gets a wrong name, since its quotes are escaped
  twice. A download is always reported as failed (`system` is -1 under an ignored
  `SIGCHLD`) and not signalled. File tags beside a command in one answer are not
  executed (1341-1375). What `mv` and `rm` return is ignored.
- *AMS Studio*: the verdict "failed" for every build (`ams_studio.cpp:117`, the same
  `pclose`).
- *Chess*: the timer that survives a new game (`chess.cpp:726`); castling with a rook
  that was captured at home (272).
- *File tools*: a copy truncates its destination first, and a file copied to itself is
  emptied and reported as copied (`file_copy.cpp:23`); the fallback of a move removes
  the source though a full disk took nothing (`move_file.cpp:27`); a second launch gives
  the Notepad an empty view in front of the path of the first (`notepad.cpp:130`).
- *Phase 3*: direct execution, the default, has lost its `exec`: a task is admitted and
  dispatched, and its process exits without having executed it
  (`Phase 3/.../main.cpp:516`; against 487-488 and 2271-2272; no task is in `executed`
  that is not in `separate`). Its merge misses the first pair
  (`Phase 3/.../resource_manager.cpp:295`; mended since); the process killer does not
  release the block (`main.cpp:925`); a task that dies at the end of its quantum is
  collected by a wait that looks at stops, stays READY and is dispatched for ever
  (`scheduler.cpp:251`); an interruption leaves a file that says RUNNING, which the
  dashboard shows until the next kernel comes to its menu; a click of the dashboard
  between the read of the command file and its truncation is lost (`main.cpp:1889`); the
  menu case of the dashboard has no break and goes on into the one of the terminal; its
  snake hangs on a full board, and in its menu on an answer that is no number, and loses
  the best score when two of them play.

## 5. Proofs

All proofs are checked by TLAPS without assumptions besides the ASSUMEs of the modules,
which TLC evaluates in the runs: 39 theorems and 474 lemmas, 19,515 obligations. Every
invariant that a passing run checks is a theorem, for any number of tasks, any machine
and any board, and so are the two refinements and the action properties
`PauseIsRespected` and `MovesKeepTheRules`. The arguments:

- *KernelProofs*, from `KernelAssumption`: finitely many tasks, each needing something.
  Two invariants, one step per action or group of actions of `Next`.
  - `IInv`, the ledger:
    `TypeOK /\ CoresReturned /\ NoOrphanBlock /\ CleanupOrder /\ TasksFit`
    (`KernelTypes`, `KernelNoOrphanBlock`, `KernelCoresReturned`). `NoOrphanBlock` alone
    is not inductive: that a task is forgotten only after its block was released is
    known only from where the cleaning thread is, which `CleanupOrder` says; it also
    says that no cleanup reaches a task that is still being launched. `CoresReturned`
    needs `TasksFit`: a registered task fits on the machine, so its cores can be
    acquired when all slots are free.
  - `QInv`, the scheduling, on top of it: who is cleaned up after is dead
    (`DeadWhenCleaned`), a task about to be queued has no item yet (`OutOfTheQueues`), a
    READY task has one or is just on its way (`ReadyIsQueued`), and the PCB that the
    menu thread has read some steps ago may differ from the present one only because a
    monitor has come between (`ReadingHolds`). From it follow `KernelQueuedOnceIfReady`,
    `KernelNoLostTask`, `KernelPausedTaskIsStopped`, `KernelNoLiveTaskFreed` and, as an
    action property, `KernelPauseIsRespected`.
  - `KernelImplementsLifecycle`: every step of Kernel is a step of `TaskLifecycle` or
    leaves `Stage` as it is. The lemmas `NoMove` and `OneMoves` reduce a step
    to the stage of at most one task; the only arithmetic is that the RAM fits, from the
    guard of the allocation.
- *ReadyQueuesProofs*. `QInv` (each task has at most one item in the queues, the local
  list of `applyAging` and the CPU together, in the queue of its priority; who was never
  launched or is paused has none) gives `ReadyQueuesMatchTable`. `PInv` gives
  `ReadyQueuesBoundedBypass`: a task below the top priority has been passed over at most
  once for each round it has aged (`Patience`); at the top it waits for those in front
  of it (`InOrder`); while aging rebuilds the queues, `Pending` says so of the items
  still in the list. That the tasks in front are at most n - 1 is the pigeonhole
  argument on distinct items.
- *ManagerProofs*, on the resource manager. `LayoutInv`: the blocks tile the RAM, no two
  free ones are neighbours, each task has one block of the size it asked for
  (`ResourceLayoutIsSound`). `ResourceImplementsMemoryMap`: each address belongs to
  exactly one block, so the first free block that is long enough begins at the lowest
  free run that is; a merge changes the list and not the map. `LedgerInv`: the counters
  are the capacity less the sum over the charged tasks, and at most one launch is
  between its check and its charge (`ResourceLedgerMatchesLayout`).
- *ManagerProofs*, on the deadlock manager (`DetectionInvariant`,
  `DetectionNoFalseAlarm`, `DetectionNoMissedDeadlock`, `DetectionVictimTakesPart`), for
  any sets of pids and resources. The invariant of the search: nodes it returned from
  are closed under waiting and free of cycles; the calls in progress form a path
  (`StackIsPath`); what a call has looked at has returned or is the call above
  (`LookedAt`). When it meets an active node, the path from there is a cycle; when it is
  done, all nodes have returned.
- *DesktopProofs*, for any registry and any number of sessions. `ScreenInv`: the desktop
  window follows from the screen, and a new one is built only after the log out of the
  one before (`DesktopScreensAreGuarded`). `DesktopSignalNotLost` needs only that the
  flag is lowered before the registry is read. `ButtonInv`: the grid is `TASKS` or
  empty; as long as the registry has only grown at its end, the dock's indices point
  into it and therefore into every `TASKS` that is loaded from it
  (`DesktopLaunchesWhatItSays`).
- *CopilotProofs* (`CopilotInvariant`, `CopilotTypeOK`, `CopilotOneWriter`,
  `CopilotRolesAlternate`, `CopilotAnswersWhatPrecedes`, `CopilotCutInsideAnExchange`,
  `CopilotCommandsBounded`), for any number of questions and loops. Between the
  properties stand `Turn` (whose message comes last, as a function of where the one
  active thread is) and `Fresh` (its answer was computed from the whole conversation);
  `OneWriter` makes "the one active thread" meaningful. That a cut request begins with
  an answer follows from the alternation of roles and from `Turn`: the window is even
  and its last message is not one of the model's. `LInv` counts the outputs back from
  each message to the last question; for the last message that count is at most the
  thread's `loops`.
- *Phase3Proofs*, for any tasks, programs, number of boots and machine; the set of tasks
  may even be infinite, since the registered ones are always finitely many. Any boot but
  the last may be interrupted. Four invariants that need each other.
  - `ControlInv`: where the kernel is, and that it has a task wherever it works on one.
  - `SchedulerInv`: what stands in the queues is exactly `Line`, the READY tasks but the
    one selected, each once and in the queue of its priority (`Match`); a task never
    launched has no PCB, so that creating one is not refused; the selected task is
    READY, so that its dispatch leaves no item behind. Aging is a fold over the three
    queues in a row, so `AgingFacts` goes by induction over the prefix that has been
    aged, whose tasks are the `Passed` ones. (`Phase3ReadyIsQueuedOnce`) A part of it is
    `Seen`: table, file and children agree on who runs, but for what the file still has
    from an interrupted kernel, which ends where the next one first writes it (`Early`).
  - `LeftAlone`: what an interrupted kernel left running was launched, so that no later
    kernel launches it, and none has it in its table. (With `Seen`,
    `Phase3NothingRunsUnseen`)
  - `MemoryInv`: the layout tiles the RAM; the tasks' blocks in it are those of the
    table, and those leaked by the process killer; the counter and the sum of the
    registered tasks' demands make up the machine. The merge is a fold, too: while it
    runs, free neighbours of what it has done are only the first two blocks
    (`OnlyFirst`), and an allocation turns `OnlyFirst` into `Merged`, which is
    inductive. A shutdown releases a set of tasks in any order, by induction over its
    subsets (`ReleaseAllCounts`, `ReleaseAllBlocks`). (`Phase3BookkeepingIsExact`)
- *Induction* is what several of these need. The library's induction theorems take the
  property as an operator, which no installed prover instantiates. Here a property is a
  set of numbers (`SetInduction`: a set that contains 0 and the successor of each of its
  numbers contains all of them; `SubsetInduction` the same for finite sets) and the step
  of a fold is a function, so that `FoldLeftRuns` gives the prefixes of a `FoldLeft` as
  a sequence of intermediate results. On these rest sums over finite sets (`SumsExist`,
  `SumOfAny`), insertion into a sequence (`Inserted`), and which items and pids an
  append, a tail, a concatenation or a removal leaves (`AppendFacts` to `ConcatFacts`).

- *GuiProofs* (`GamesKeepTheirBooks`, `OnlyTheCurrentSong`, `ToolsSayWhatIsSo`,
  `ChessStaysSound`, `MovesAreWithinTheRules`), for any boards, songs, builds, puzzles,
  openings, files and answers. `GuiInv` is an inductive invariant of each task's own.
  - *Tic-tac-toe*: against the Copilot the player is on turn, has no line, and the worth
    of the grid to the Copilot is not negative (`TttInv`). The Copilot's move is the
    best of the worths below it, and whatever the player answers is worth at least as
    much. That `minimax` is a function at all goes by induction over the number of free
    cells, and so does `SignOfTheWorth`: whether a worth is negative does not depend on
    the depth that it is counted from, since every game ends before 10. Where it begins
    is `TheGameIsADraw`: the worth of the empty grid, an expression without a constant,
    which TLC evaluates over the whole game.
  - *Minesweeper* (`MinesInv`): the counters are cardinalities, and only a lost game has
    a mine open. Every set that contains the click and is closed under going on from
    cells without a mine around contains the flood, and the cells without a mine, with
    those that are open already, are such a set.
  - *Snake* (`SnakeInv`): the body is one piece and lies on no place twice; food is
    free, or lies nowhere on a full board. A window that is closed takes one timer with
    it at most, so that there are as many timers as open windows at least
    (`GameGoesOn`).
  - *Flappy Bird* (`BirdInv`): the score is the number of pipes erased and of pipes
    behind the bird; pipes stand further apart than `SPACING` and are wider than the
    speed, so that a tick scores one at most (`OneScores`). From `SkyIsWide`, a
    condition on the measures that those of the source satisfy.
  - *Sudoku* (`SudokuInv`): givens stay, and `game_won` says that the board is complete.
    With `PuzzlesAreSound`, that a puzzle has one solution, it is the solution.
  - *Chess*: the pieces that stand and those that were captured make up 16 on each side
    (`GameSound`, for the openings by induction over their moves), and one timer runs
    for each thought until a new game leaves one behind. A legal move but castling
    leaves the mover's king safe on the board that results, since the reach of a piece
    depends on the cells on its way only (`SameReach`).
  - *AMS Studio* (`StudioInv`): console and idle queue are in the order of the builds
    (`InOrder`), what waits comes after the verdicts that are shown (`VerdictsEnd`), and
    a build whose make runs has none (`OfThePast`).
  - *Copilot's actions* (`ActionsInv`): carrying out the waiting tags from here leads
    to what reading the whole answer leads to (`Coming`). A step takes the first tag of
    the first kind out of the middle; that this changes nothing rests on `Apart` tags
    commuting, and on moving one past all those before it by induction.
  - *Phase 3 snake* (`P3Inv`): the trail is a path without a neck to turn into; the
    other process took over the best score when it started, and this one plays alone,
    until the files are `torn`.
  - *Music player* and *file tools*: their properties with their types, and for the
    player that what is heard is what `audio_pid` names.
  - `MovesKeepTheRules` follows from these, one task at a time: no move into check, no
    win of tic-tac-toe passed by, a first click that opens more than one cell, no file
    lost but the one written or deleted, no turn into the snake's neck.

Three facts came out of proofs that failed at first. Phase 3's merge leaves free
neighbours at the front of the list only, but that they are only ever found there is
false: an allocation in the first of the two moves the pair up the list, so that
`FreeIsMerged` had to become what it is. That nothing runs unseen needs to know what the
status file says, also right after a boot, for the files are all that one kernel hands
to the next; that they agree with the table is true after an orderly end only, and after
an interruption the file is wrong until the next kernel has written it. And the
Copilot's tags do not commute whenever neither path lies in the other: `create_folder
d/h` makes the folder `d` that it lacks and `create_file d/f` does not, so that two
files side by side in a missing folder depend on the order. `Apart` takes this into
account now, and the checked instance has such a pair.

### Model-checked only

- Liveness under fairness, which is out of the prover's reach: `WatchedTaskIsForgotten`,
  `ShutdownEnds`, `RunServesEverybody`, `SearchEnds`, `TimedScreensEnd`,
  `EveryQuestionAnswered`, `PromisesKept` and `WaitingEnds`. Of the safety properties of
  passing runs none is left.
- That the Copilot's minimax is worth a draw on the empty grid (`TheGameIsADraw`): a
  computation over all games, which TLC does and an SMT solver cannot.
- The four violations, which are counterexamples.

## 6. Abstractions

- *Kernel*: data races on `std::map` and on the queues are modelled at the level of
  calls, except for the lost updates of the counters. RAM, disk and cores demands are
  one number per task. A pid is not reused. Kernel-mode PIN and reports are left out.
  Queue order is open. An item of a dead task that aging puts back is only in
  ReadyQueues. A child is the process that the kernel forked: in the default mode, a
  terminal for each task (`main.cpp:2337`, 756-811), that is the terminal emulator, and
  the program in its window is out of the model, as it is out of reach of the kernel's
  signals; `PausedTaskIsStopped` and `NoLiveTaskFreed` speak of the former. An end of
  the kernel other than by its menu is left out: it leaves children, but no file that
  the next kernel acts on. The resource monitor thread only reads. A notification only
  shortens a two-second wait.
- *ReadyQueues*: waiting time is not counted at priority 1, where it has no effect;
  `passed` stops one above its bound.
- *DeadlockManager*: the vector of records is a set.
- *DesktopSession*: the nested main loop of the wallpaper chooser, search, partial line
  reads and telemetry are left out; one signal is sent at a time; the desktop is started
  once; edits of the registry by hand are environment.
- *Copilot*: the API and the commands are environment; the request is the length of the
  history it covers; a second launch is left out.
- *Phase 3*: with separate terminals the child is the terminal, as above. A step that
  changes table and status file stands for several statements: a kernel that is
  interrupted within it is taken as interrupted before it or after it, but for the file
  that has been truncated and not yet written, which may be what is left at any
  interruption. Signals that reach the children with an interruption end any of them or
  none. RAM, disk and cores demands are one counter; the diagnostics of the menu
  (options 5, 6, 8, 9 and 10), which print or fill the managers with test records, are
  left out, and so are logging and the catalog.
- *GuiTasks*: the clocks of Minesweeper and Sudoku, windows that a second launch leaves
  behind, the chess AI's choice, the editor of AMS Studio, the contents of files beyond
  a text's identity, the scanning of an answer for its tags, the speed and the printed
  list of Phase 3's snake.

Not modelled, and why: the task catalog (constants, which the instances take); logger
and console UI (output that nothing reads back); the command-line tasks of both
deliveries but the snake of Phase 3 (sequential programs with standard input; what they
compute is arithmetic, or what a library call returns); GUI system tools (they show what
`/proc` or the clock says); the Copilot's offline rule engine (wording, and the tags
that CopilotActions has); build files. The map covers a third of the implementation's
lines; most of the rest is printing, GTK layout and drawing.

## 7. Plan

Done, in this order: Kernel with its abstract TaskLifecycle; ReadyQueues;
ResourceManager with MemoryMap; DeadlockManager; DesktopSession; Copilot; six GUI tasks;
proofs for Kernel, DeadlockManager and Copilot; the kernel of Phase 3 with its
dashboard; Sudoku, Flappy Bird, the file tools, the Copilot's actions, the snake of
Phase 3; the dock and the destroyed widgets in DesktopSession; the window of the
Copilot's request, with its proof; the scheduling half of Kernel, the refinement by
ResourceManager, bounded bypass, DesktopSession, `CommandsBounded`, all invariants of
Phase3Kernel and all of GuiTasks proved.

Left: open and save in AMS Studio; the remaining fields of the process manager; the
command-line games.
