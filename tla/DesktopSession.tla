--------------------------- MODULE DesktopSession ---------------------------
(***************************************************************************)
(* The GUI desktop: its screens from the mode selector to shutdown, the    *)
(* timers of the GTK main loop, and the registry of apps that it shows;    *)
(* beside it the Copilot, a process of its own, that creates apps.         *)
(*                                                                         *)
(* Handlers of the main loop are atomic.  Not atomic is the reaction to    *)
(* SIGUSR1: the signal handler may set the flag again at any moment.       *)
(***************************************************************************)
EXTENDS Integers, Sequences, FiniteSets, SequencesExt

CONSTANTS
  Defaults,       \* the lines write_default_tasks writes, a sequence of apps
  Pinned,         \* those of them that the dock shows
  NewApps,        \* what the Copilot may create
  Files,          \* what may lie in data/desktop
  SplashSteps,    \* 30 in the code
  ShutdownSteps,  \* 25 in the code
  MaxDesktops     \* a bound on the desktop windows that are built

ASSUME DesktopAssumption ==
  /\ Pinned \subseteq ToSet(Defaults)
  /\ ToSet(Defaults) \cap NewApps = {} /\ (ToSet(Defaults) \cup NewApps) \cap Files = {}
  /\ Defaults \in Seq(ToSet(Defaults)) /\ IsFiniteSet(Files)
  /\ SplashSteps \in Nat \ {0} /\ ShutdownSteps \in Nat \ {0} /\ MaxDesktops \in Nat \ {0}

VARIABLES
  screen,        \* the window the user has before him
  desktop,       \* the desktop window: "none", "shown" or "hidden"
  auth,          \* history: a correct login since the last lock or log out
  widgets,       \* S.flow_box, S.search_entry and the labels of the top bar
  tickers,       \* the tick_clock and tick_telemetry timers
  splashStep, shutdownStep,
  registry,      \* the lines of data/desktop_apps.txt
  making,        \* the app whose make the Copilot waits for, or "none"
  sources, built,  \* the new apps with a file in gui/tasks, with one in build
  files,         \* data/desktop
  tasks,         \* TASKS
  grid, dock,    \* the buttons: their labels, and for the dock their task_idx
  needsRefresh,  \* g_needs_refresh
  refresh,       \* check_refresh_flag has cleared the flag and not yet loaded
  sending,       \* the process name that a pkill is about to signal, or "nobody"
  told,          \* history: a signal has arrived since the registry was loaded
  moved          \* history: since the dock was built, a line that is not the
                 \* last has been put into the registry or one taken out

session == <<screen, desktop, auth, widgets, tickers, splashStep, shutdownStep>>
shown == <<tasks, grid, dock>>
copilot == <<making, sources, built>>
outside == <<registry, files, sending, copilot>>
signal == <<needsRefresh, refresh>>
vars == <<session, shown, outside, signal, told, moved>>

ProcessName == "ams_desktop"  \* GUI_BIN in the makefile

Running == screen \notin {"gone", "crashed"}
Idle == Running /\ ~refresh    \* the main loop is free for another handler

\* What pclose returns of a child that ended with an exit code: the Copilot
\* ignores SIGCHLD, so that the child is gone before it can be waited for.
Pclose(code) == -1
WEXITSTATUS(status) == (status \div 256) % 256

\* What becomes of a pointer when its widget is destroyed.
Destroyed(p) == IF p = "live" THEN "dangling" ELSE p

\* What load_tasks may read: the registry, then the files in any order.
Loaded == {registry \o s : s \in SetToSeqs(files)}

DockOf(t) ==
  [a \in Pinned \cap ToSet(t) |-> SelectInSeq(t, LAMBDA b : b = a)]

Init ==
  /\ screen = "mode" /\ desktop = "none" /\ auth = FALSE
  /\ widgets = "null" /\ tickers = 0
  /\ splashStep = 0 /\ shutdownStep = 0
  /\ registry = Defaults /\ files = {}
  /\ tasks = Defaults /\ grid = <<>> /\ dock = <<>>
  /\ making = "none" /\ sources = {} /\ built = {}
  /\ needsRefresh = FALSE /\ refresh = FALSE
  /\ sending = "nobody" /\ told = FALSE /\ moved = FALSE

-----------------------------------------------------------------------------
(* The screens.                                                            *)

ChooseGui ==
  /\ Idle /\ screen = "mode"
  /\ screen' = "login"
  /\ UNCHANGED <<desktop, auth, widgets, tickers, splashStep, shutdownStep, shown, outside, signal, told, moved>>

\* The kernel is started in a terminal and the desktop quits.
ChooseCmd ==
  /\ Idle /\ screen = "mode"
  /\ screen' = "gone"
  /\ UNCHANGED <<desktop, auth, widgets, tickers, splashStep, shutdownStep, shown, outside, signal, told, moved>>

\* Correct credentials; wrong ones only change a label.
LogIn ==
  /\ Idle /\ screen = "login"
  /\ auth' = TRUE
  /\ IF desktop = "hidden"
       THEN screen' = "desktop" /\ desktop' = "shown" /\ UNCHANGED splashStep
       ELSE screen' = "splash" /\ splashStep' = 0 /\ UNCHANGED desktop
  /\ UNCHANGED <<widgets, tickers, shutdownStep, shown, outside, signal, told, moved>>

\* load_tasks, a new window with a new grid and dock, two more timers.
ShowDesktop ==
  /\ screen' = "desktop" /\ desktop' = "shown"
  /\ widgets' = "live" /\ tickers' = tickers + 1
  /\ \E t \in Loaded : tasks' = t /\ grid' = t /\ dock' = DockOf(t)
  /\ told' = FALSE /\ moved' = FALSE

\* Fault: the step of the shutdown screen is counted.
SplashTickWrongStep ==
  /\ Idle /\ screen = "splash" /\ splashStep + 1 < SplashSteps
  /\ shutdownStep' = (shutdownStep + 1) % ShutdownSteps
  /\ UNCHANGED <<screen, desktop, auth, widgets, tickers, splashStep, shown, outside, signal, told, moved>>

SplashTick ==
  /\ Idle /\ screen = "splash"
  /\ splashStep' = splashStep + 1
  /\ IF splashStep + 1 >= SplashSteps
       THEN ShowDesktop
       ELSE UNCHANGED <<screen, desktop, widgets, tickers, shown, told, moved>>
  /\ UNCHANGED <<auth, shutdownStep, outside, signal>>

\* Fault: locking only opens the login window.
LockWithoutHiding ==
  /\ Idle /\ screen = "desktop"
  /\ screen' = "login" /\ auth' = FALSE
  /\ UNCHANGED <<desktop, widgets, tickers, splashStep, shutdownStep, shown, outside, signal, told, moved>>

Lock ==
  /\ Idle /\ screen = "desktop"
  /\ screen' = "login" /\ desktop' = "hidden" /\ auth' = FALSE
  /\ UNCHANGED <<widgets, tickers, splashStep, shutdownStep, shown, outside, signal, told, moved>>

OpenPowerMenu ==
  /\ Idle /\ screen = "desktop"
  /\ screen' = "power"
  /\ UNCHANGED <<desktop, auth, widgets, tickers, splashStep, shutdownStep, shown, outside, signal, told, moved>>

CancelPower ==
  /\ Idle /\ screen = "power"
  /\ screen' = "desktop"
  /\ UNCHANGED <<desktop, auth, widgets, tickers, splashStep, shutdownStep, shown, outside, signal, told, moved>>

\* The desktop is destroyed; of the pointers only S.desktop_win is reset.
LogOut ==
  /\ Idle /\ screen = "power" /\ tickers < MaxDesktops
  /\ screen' = "login" /\ desktop' = "none" /\ auth' = FALSE
  /\ widgets' = Destroyed(widgets) /\ grid' = <<>> /\ dock' = <<>>
  /\ UNCHANGED <<tickers, splashStep, shutdownStep, tasks, outside, signal, told, moved>>

ShutDown ==
  /\ Idle /\ screen = "power"
  /\ screen' = "shutdown" /\ desktop' = "none" /\ auth' = FALSE
  /\ widgets' = Destroyed(widgets) /\ grid' = <<>> /\ dock' = <<>>
  /\ shutdownStep' = 0
  /\ UNCHANGED <<tickers, splashStep, tasks, outside, signal, told, moved>>

ShutdownTick ==
  /\ Idle /\ screen = "shutdown"
  /\ shutdownStep' = shutdownStep + 1
  /\ screen' = IF shutdownStep + 1 >= ShutdownSteps THEN "gone" ELSE screen
  /\ UNCHANGED <<desktop, auth, widgets, tickers, splashStep, shown, outside, signal, told, moved>>

\* The window manager closes the window.  The application ends with its last
\* window, and a hidden desktop is one.
CloseWindow ==
  /\ Idle /\ screen \in {"mode", "login", "splash", "desktop", "shutdown"}
  /\ IF screen = "login" /\ desktop = "hidden"
       THEN screen' = "nothing" /\ UNCHANGED <<desktop, widgets, grid, dock>>
       ELSE /\ screen' = "gone" /\ desktop' = "none"
            /\ widgets' = Destroyed(widgets) /\ grid' = <<>> /\ dock' = <<>>
  /\ UNCHANGED <<auth, tickers, splashStep, shutdownStep, tasks, outside, signal, told, moved>>

-----------------------------------------------------------------------------
(* Refreshing.  Use of a destroyed widget may go unnoticed or crash.       *)

Crash == screen' = "crashed" /\ UNCHANGED <<desktop, auth, widgets, tickers, splashStep, shutdownStep>>

\* Fault: the buttons are kept.
RefreshKeepsGrid ==
  /\ \E t \in Loaded : tasks' = IF widgets = "null" THEN tasks ELSE t
  /\ told' = (widgets = "null" /\ told)
  /\ UNCHANGED <<session, grid, dock>>

\* refresh_desktop: the grid is rebuilt, the dock is not.
RefreshDesktop ==
  \/ widgets = "null" /\ UNCHANGED <<session, shown, told>>
  \/ /\ widgets = "live"
     /\ \E t \in Loaded : tasks' = t /\ grid' = t
     /\ told' = FALSE
     /\ UNCHANGED <<session, dock>>
  \/ /\ widgets = "dangling"
     /\ \E t \in Loaded : tasks' = t
     /\ told' = FALSE
     /\ UNCHANGED <<grid, dock>>
     /\ Crash \/ UNCHANGED session

\* The refresh button, the menu item, a desktop that gains the focus.
UserRefresh ==
  /\ Idle /\ screen = "desktop"
  /\ RefreshDesktop
  /\ UNCHANGED <<outside, signal, moved>>

\* Fault: the flag is taken down while the desktop is locked, without a refresh.
SeeFlagOnScreen ==
  /\ Idle /\ needsRefresh
  /\ needsRefresh' = FALSE /\ refresh' = (desktop # "hidden")
  /\ UNCHANGED <<session, shown, outside, told, moved>>

SeeFlag ==
  /\ Idle /\ needsRefresh
  /\ needsRefresh' = FALSE /\ refresh' = TRUE
  /\ UNCHANGED <<session, shown, outside, told, moved>>

LoadAfterFlag ==
  /\ Running /\ refresh
  /\ RefreshDesktop
  /\ refresh' = FALSE
  /\ UNCHANGED <<outside, needsRefresh, moved>>

\* tick_clock and tick_telemetry write to the labels of the last desktop.
ClockTick ==
  /\ Idle /\ tickers > 0
  /\ (widgets = "dangling" /\ Crash) \/ UNCHANGED session
  /\ UNCHANGED <<shown, outside, signal, told, moved>>

-----------------------------------------------------------------------------
(* Other processes, of which one at a time signals.                        *)

\* create_new_program writes the source and starts make.
CreateNewProgram(a) ==
  /\ making = "none" /\ sending = "nobody"
  /\ making' = a /\ sources' = sources \cup {a}
  /\ UNCHANGED <<session, shown, registry, files, sending, built, signal, told, moved>>

\* make ends, with or without a binary, and the Copilot acts on what pclose says.
MakeEnds(code) ==
  /\ making # "none" /\ sending = "nobody"
  /\ built' = IF code = 0 THEN built \cup {making} ELSE built
  /\ making' = "none"
  /\ IF WEXITSTATUS(Pclose(code)) # 0
       THEN sources' = sources \ {making} /\ UNCHANGED <<registry, sending>>
       ELSE registry' = Append(registry, making) /\ sending' = "ams_os" /\ UNCHANGED sources
  /\ UNCHANGED <<session, shown, files, signal, told, moved>>

\* The Copilot creates or deletes a file on the desktop, or changes one elsewhere:
\* the theme, which a refresh applies too.
ExecuteActions ==
  /\ making = "none" /\ sending = "nobody"
  /\ \/ \E f \in Files : files' = IF f \in files THEN files \ {f} ELSE files \cup {f}
     \/ UNCHANGED files
  /\ sending' = "ams_os"
  /\ UNCHANGED <<session, shown, registry, copilot, signal, told, moved>>

\* Settings, after a theme is applied.
SaveApply ==
  /\ sending = "nobody"
  /\ sending' = "ams_desktop"
  /\ UNCHANGED <<session, shown, registry, files, copilot, signal, told, moved>>

\* pkill signals the processes of that name.
Pkill ==
  /\ sending # "nobody"
  /\ sending' = "nobody"
  /\ IF sending = ProcessName /\ Running
       THEN needsRefresh' = TRUE /\ told' = TRUE
       ELSE UNCHANGED <<needsRefresh, told>>
  /\ UNCHANGED <<session, shown, registry, files, copilot, refresh, moved>>

\* Somebody edits the registry: an app is taken out, all are put back, or an
\* app that was compiled by hand is entered behind the last.
RegistryEdited ==
  /\ registry' \in {Defaults} \cup {RemoveAt(registry, i) : i \in DOMAIN registry}
                   \cup {Append(registry, a) : a \in NewApps \ ToSet(registry)}
  /\ moved' = (moved \/ ~IsPrefix(registry, registry'))
  /\ UNCHANGED <<session, shown, files, sending, copilot, signal, told>>

Stopped == ~Running /\ UNCHANGED vars

-----------------------------------------------------------------------------
Next ==
  \/ ChooseGui \/ ChooseCmd \/ LogIn \/ SplashTick \/ Lock \/ OpenPowerMenu
  \/ CancelPower \/ LogOut \/ ShutDown \/ ShutdownTick \/ CloseWindow
  \/ UserRefresh \/ SeeFlag \/ LoadAfterFlag \/ ClockTick
  \/ \E a \in NewApps : CreateNewProgram(a)
  \/ \E code \in {0, 2} : MakeEnds(code)
  \/ ExecuteActions \/ SaveApply \/ Pkill \/ RegistryEdited \/ Stopped

\* The main loop serves the sources that are due in turn: a timer is not kept
\* from going off by the others, nor by signals.
Fairness ==
  /\ SF_vars(SplashTick) /\ SF_vars(ShutdownTick)
  /\ WF_vars(LoadAfterFlag)

Spec == Init /\ [][Next]_vars
FairSpec == Spec /\ Fairness

-----------------------------------------------------------------------------
(* Properties.                                                             *)

\* The ranges of the variables.
TypeOK ==
  /\ screen \in {"mode", "login", "splash", "desktop", "power", "shutdown",
                 "nothing", "gone", "crashed"}
  /\ desktop \in {"none", "shown", "hidden"}
  /\ auth \in BOOLEAN /\ refresh \in BOOLEAN /\ needsRefresh \in BOOLEAN
  /\ widgets \in {"null", "live", "dangling"}
  /\ tickers \in 0..MaxDesktops
  /\ splashStep \in 0..SplashSteps /\ shutdownStep \in 0..ShutdownSteps
  /\ sending \in {"nobody", "ams_os", "ams_desktop"}
  /\ making \in NewApps \cup {"none"} /\ sources \subseteq NewApps /\ built \subseteq NewApps
  /\ told \in BOOLEAN /\ moved \in BOOLEAN

\* on_app_click: a button with that index launches the app that it shows.
Launches(index, says) == index \in DOMAIN tasks /\ tasks[index] = says

\* A button keeps an index into TASKS, and TASKS is replaced under it by every
\* refresh, login and signal: what it launches is what it says (on_app_click).
\* The dock is built once for a desktop: it keeps its word whatever files come
\* and go and whatever is entered at the end of the registry, and only then.
LaunchesWhatItSays ==
  /\ \A i \in DOMAIN grid : Launches(i, grid[i])
  /\ ~moved => \A a \in DOMAIN dock : Launches(dock[a], a)

\* The desktop is before the user only between a correct login and the next
\* lock or log out, whatever the timers and refreshes do meanwhile.
NobodyInWithoutLogin == desktop = "shown" \/ screen \in {"splash", "power"} => auth

\* A desktop that is on the screen or hidden behind the login has its widgets:
\* what a log out leaves dangling is used by no desktop after it.
DesktopHasItsWidgets == desktop # "none" => widgets = "live"

\* The screens, the login and the widgets agree, in the ranges of the variables.
ScreensAreGuarded == TypeOK /\ NobodyInWithoutLogin /\ DesktopHasItsWidgets

\* A signal that arrives while the one before it is handled is not lost: once
\* the flag is down, the registry has been loaded after the last signal
\* (check_refresh_flag lowers the flag before it refreshes).
SignalNotLost == ~needsRefresh /\ ~refresh /\ widgets = "live" => ~told

\* "The app will AUTOMATICALLY appear on the user's GUI Desktop once compiled!"
\* (ai_copilot.cpp:125): when make ends with a first binary of the app, the app
\* is in the registry, from which the desktop takes what it shows.
CompiledAppIsRegistered ==
  [][\A a \in NewApps : a \in built' \ built => a \in ToSet(registry')]_vars

\* The timer that paces the splash screen and the one that paces shutdown come
\* to their ends, though logins start them again and again.
TimedScreensEnd ==
  /\ screen = "splash" ~> screen \in {"desktop", "gone", "crashed"}
  /\ screen = "shutdown" ~> ~Running

=============================================================================
