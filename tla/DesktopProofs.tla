---------------------------- MODULE DesktopProofs ----------------------------
(***************************************************************************)
(* Proofs about module DesktopSession, for any registry, any files on the  *)
(* desktop and any number of logins: three invariants, one for the         *)
(* screens, one for the signal, one for what the buttons launch.           *)
(***************************************************************************)
EXTENDS DesktopSession, Induction, SequenceTheorems

-----------------------------------------------------------------------------
(* The inductive invariants.                                               *)

\* Which desktop window there is follows from the screen, and a login that
\* builds another one has been given leave to by the log out before it.
ScreenInv ==
  /\ ScreensAreGuarded
  /\ screen \in {"desktop", "power"} => desktop = "shown"
  /\ screen = "login" => desktop # "shown"
  /\ screen \in {"mode", "splash"} => desktop = "none"
  /\ screen \in {"mode", "splash"} \/ (screen = "login" /\ desktop = "none") =>
       tickers < MaxDesktops
  /\ screen = "splash" => splashStep < SplashSteps
  /\ screen = "shutdown" => shutdownStep < ShutdownSteps

Apps == ToSet(Defaults) \cup NewApps

\* A dock button's index, where it is an index into the sequence t.
DockPointsInto(t) == \A a \in DOMAIN dock : dock[a] \in DOMAIN t /\ t[dock[a]] = a

\* The grid shows TASKS or nothing; as long as the registry only grows at its
\* end, the dock points into the registry and therefore into every TASKS that
\* is loaded from it.
ButtonInv ==
  /\ registry \in Seq(Apps) /\ files \subseteq Files
  /\ grid = <<>> \/ grid = tasks
  /\ widgets # "live" => grid = <<>> /\ dock = <<>>
  /\ ~moved => DockPointsInto(registry) /\ DockPointsInto(tasks)

-----------------------------------------------------------------------------
(* The screens.                                                            *)

\* What the proofs about the screens use of the constants.
LEMMA Bounds ==
  SplashSteps \in Nat \ {0} /\ ShutdownSteps \in Nat \ {0} /\ MaxDesktops \in Nat \ {0}
  BY DesktopAssumption

USE Bounds
    DEF session, shown, copilot, outside, signal, Idle, Running,
        ScreenInv, ScreensAreGuarded, TypeOK, NobodyInWithoutLogin, DesktopHasItsWidgets

\* A refresh shows other buttons, or it crashes the desktop.
LEMMA RefreshChanges ==
  ASSUME RefreshDesktop, told \in BOOLEAN
  PROVE  /\ UNCHANGED <<desktop, auth, widgets, tickers, splashStep, shutdownStep>>
         /\ screen' = screen \/ screen' = "crashed"
         /\ told' \in BOOLEAN
<1>1. CASE widgets = "null" /\ UNCHANGED <<session, shown, told>>
  BY <1>1
<1>2. CASE /\ told' = FALSE
           /\ Crash \/ UNCHANGED session
  <2>1. told' \in BOOLEAN
    BY <1>2, Zenon
  <2>. QED
    BY <1>2, <2>1 DEF Crash
<1>. QED
  BY <1>1, <1>2 DEF RefreshDesktop

\* Nothing is shown and nobody is logged in when the mode selector appears.
LEMMA ScreenInit == Init => ScreenInv
<1>. SUFFICES ASSUME Init PROVE ScreenInv
  OBVIOUS
<1>. USE DEF Init
<1>1. {auth, refresh, needsRefresh, told, moved} \subseteq BOOLEAN
  BY Zenon
<1>2. TypeOK
  BY <1>1
<1>3. ScreensAreGuarded
  BY <1>2
<1>. QED
  BY <1>3

\* No handler, timer or signal breaks it.
LEMMA ScreenStep ==
  ASSUME ScreenInv, [Next]_vars
  PROVE  ScreenInv'
<1>1. CASE ChooseGui
  BY <1>1 DEF ChooseGui
<1>2. CASE ChooseCmd
  BY <1>2 DEF ChooseCmd
<1>3. CASE LogIn
  BY <1>3 DEF LogIn
<1>4. CASE SplashTick
  <2>1. CASE splashStep + 1 >= SplashSteps
    <3>1. told' \in BOOLEAN /\ moved' \in BOOLEAN
      BY <1>4, <2>1, Zenon DEF SplashTick, ShowDesktop
    <3>. QED
      BY <1>4, <2>1, <3>1 DEF SplashTick, ShowDesktop
  <2>2. CASE ~(splashStep + 1 >= SplashSteps)
    BY <1>4, <2>2 DEF SplashTick
  <2>. QED
    BY <2>1, <2>2
<1>5. CASE Lock
  BY <1>5 DEF Lock
<1>6. CASE OpenPowerMenu
  BY <1>6 DEF OpenPowerMenu
<1>7. CASE CancelPower
  BY <1>7 DEF CancelPower
<1>8. CASE LogOut
  BY <1>8 DEF LogOut, Destroyed
<1>9. CASE ShutDown
  <2>1. auth' \in BOOLEAN
    BY <1>9, Zenon DEF ShutDown
  <2>2. widgets' \in {"null", "dangling"}
    BY <1>9 DEF ShutDown, Destroyed
  <2>. QED
    BY <1>9, <2>1, <2>2 DEF ShutDown
<1>10. CASE ShutdownTick
  BY <1>10 DEF ShutdownTick
<1>11. CASE CloseWindow
  BY <1>11 DEF CloseWindow, Destroyed
<1>12. CASE UserRefresh
  BY <1>12, RefreshChanges DEF UserRefresh
<1>13. CASE SeeFlag
  BY <1>13, ZenonT(40) DEF SeeFlag
<1>14. CASE LoadAfterFlag
  BY <1>14, RefreshChanges, ZenonT(40) DEF LoadAfterFlag
<1>15. CASE ClockTick
  BY <1>15 DEF ClockTick, Crash
<1>16. ASSUME NEW a \in NewApps, CreateNewProgram(a) PROVE ScreenInv'
  BY <1>16 DEF CreateNewProgram
<1>17. ASSUME NEW code \in {0, 2}, MakeEnds(code) PROVE ScreenInv'
  BY <1>17 DEF MakeEnds
<1>18. CASE ExecuteActions
  BY <1>18 DEF ExecuteActions
<1>19. CASE SaveApply
  BY <1>19 DEF SaveApply
<1>20. CASE Pkill
  BY <1>20, ZenonT(40) DEF Pkill
<1>21. CASE RegistryEdited
  BY <1>21 DEF RegistryEdited
<1>22. CASE UNCHANGED vars
  BY <1>22 DEF vars
<1>. QED
  BY <1>1, <1>2, <1>3, <1>4, <1>5, <1>6, <1>7, <1>8, <1>9, <1>10, <1>11, <1>12, <1>13, <1>14, <1>15, <1>16, <1>17, <1>18, <1>19, <1>20, <1>21, <1>22 DEF Next, Stopped

\* The desktop is before the user only after a login, and has its widgets, in
\* every session that follows another one.
THEOREM DesktopScreensAreGuarded == Spec => []ScreensAreGuarded
<1>1. ScreenInv /\ [Next]_vars => ScreenInv'
  BY ScreenStep
<1>2. ScreenInv => ScreensAreGuarded
  OBVIOUS
<1>. HIDE DEF ScreenInv, ScreensAreGuarded
<1>. QED
  BY <1>1, <1>2, ScreenInit, PTL DEF Spec

-----------------------------------------------------------------------------
(* The signal.                                                             *)

\* Whoever lowers the flag starts a refresh, and whoever raises it again before
\* the registry is read makes another one due.
LEMMA SignalStep ==
  ASSUME SignalNotLost, ScreenInv, [Next]_vars
  PROVE  SignalNotLost'
<1>. USE DEF SignalNotLost
<1>1. CASE \/ ChooseGui \/ ChooseCmd \/ LogIn \/ Lock \/ OpenPowerMenu \/ CancelPower
          \/ LogOut \/ ShutDown \/ ShutdownTick \/ CloseWindow
  BY <1>1 DEF ChooseGui, ChooseCmd, LogIn, Lock, OpenPowerMenu, CancelPower, LogOut,
     ShutDown, ShutdownTick, CloseWindow, Destroyed
<1>2. CASE SplashTick
  BY <1>2 DEF SplashTick, ShowDesktop
<1>3. CASE UserRefresh
  BY <1>3 DEF UserRefresh, RefreshDesktop, Crash
<1>4. CASE SeeFlag
  BY <1>4 DEF SeeFlag
<1>5. CASE LoadAfterFlag
  BY <1>5 DEF LoadAfterFlag, RefreshDesktop, Crash
<1>6. CASE ClockTick
  BY <1>6 DEF ClockTick, Crash
<1>7. CASE \/ \E a \in NewApps : CreateNewProgram(a)
          \/ \E code \in {0, 2} : MakeEnds(code)
          \/ ExecuteActions \/ SaveApply \/ RegistryEdited
  BY <1>7 DEF CreateNewProgram, MakeEnds, ExecuteActions, SaveApply, RegistryEdited
<1>8. CASE Pkill
  BY <1>8 DEF Pkill
<1>9. CASE UNCHANGED vars
  BY <1>9 DEF vars
<1>. QED
  BY <1>1, <1>2, <1>3, <1>4, <1>5, <1>6, <1>7, <1>8, <1>9 DEF Next, Stopped

\* A signal that arrives while the one before it is handled is not lost.
THEOREM DesktopSignalNotLost == Spec => []SignalNotLost
<1>1. Init => SignalNotLost
  BY DEF Init, SignalNotLost
<1>2. Init => ScreenInv
  BY ScreenInit
<1>3. ScreenInv /\ [Next]_vars => ScreenInv'
  BY ScreenStep
<1>4. SignalNotLost /\ ScreenInv /\ [Next]_vars => SignalNotLost'
  BY SignalStep
<1>. HIDE DEF ScreenInv
<1>. QED
  BY <1>1, <1>2, <1>3, <1>4, PTL DEF Spec

-----------------------------------------------------------------------------
(* The buttons.                                                            *)

\* What load_tasks reads begins with the registry, and files follow.
LEMMA LoadedTasks ==
  ASSUME registry \in Seq(Apps), files \subseteq Files, NEW t \in Loaded
  PROVE  /\ t \in Seq(Apps \cup Files)
         /\ Len(registry) <= Len(t)
         /\ \A i \in 1..Len(registry) : t[i] = registry[i]
         /\ \A i \in 1..Len(t) : i > Len(registry) => t[i] \in Files
<1>. DEFINE S == Apps \cup Files
<1>1. PICK s \in SetToSeqs(files) : t = registry \o s
  BY DEF Loaded
<1>2. s \in Seq(files)
  <2>1. Cardinality(files) \in Nat
    BY FS_Subset, FS_CardinalityType, DesktopAssumption
  <2>. QED
    BY <2>1 DEF SetToSeqs
<1>3. registry \in Seq(S) /\ s \in Seq(S)
  BY <1>2, SeqMonotonic
<1>4. /\ t \in Seq(S) /\ Len(t) = Len(registry) + Len(s)
      /\ \A i \in 1..(Len(registry) + Len(s)) :
           t[i] = IF i <= Len(registry) THEN registry[i] ELSE s[i - Len(registry)]
  <2>. HIDE DEF S
  <2>. QED
    BY <1>1, <1>3, ConcatProperties
<1>5. Len(registry) \in Nat /\ Len(s) \in Nat /\ \A i \in 1..Len(s) : s[i] \in Files
  BY <1>2
<1>. QED
  BY <1>4, <1>5

\* A dock that is built over TASKS points at lines of the registry: no file has
\* the name of an app, and the first line with a name is the one that is taken.
LEMMA DockBuilt ==
  ASSUME registry \in Seq(Apps), files \subseteq Files, NEW t \in Loaded,
         NEW a \in DOMAIN DockOf(t)
  PROVE  /\ DockOf(t)[a] \in 1..Len(registry)
         /\ registry[DockOf(t)[a]] = a /\ t[DockOf(t)[a]] = a
<1>. DEFINE I == {i \in 1..Len(t) : t[i] = a}
<1>1. a \in Pinned /\ a \in ToSet(t)
  BY DEF DockOf
<1>2. t \in Seq(Apps \cup Files) /\ DOMAIN t = 1..Len(t)
  BY LoadedTasks
<1>3. I # {} /\ I \subseteq Nat
  BY <1>1, <1>2 DEF ToSet
<1>4. Min(I) \in I
  <2>1. \E m \in I : \A n \in I : m <= n
    <3>. HIDE DEF I
    <3>. QED
      BY <1>3, LeastElement
  <2>. HIDE DEF I
  <2>. QED
    BY <2>1 DEF Min
<1>5. DockOf(t)[a] = Min(I)
  BY <1>1, <1>3 DEF DockOf, SelectInSeq
<1>6. a \notin Files
  BY <1>1, DesktopAssumption
<1>7. Min(I) \in 1..Len(t) /\ t[Min(I)] = a
  BY <1>4
<1>. HIDE DEF I
<1>8. Len(registry) \in Nat /\ Len(t) \in Nat
  BY <1>2
<1>9. Min(I) <= Len(registry)
  BY <1>6, <1>7, <1>8, LoadedTasks
<1>10. Min(I) \in 1..Len(registry)
  BY <1>7, <1>8, <1>9
<1>. QED
  BY <1>5, <1>7, <1>10, LoadedTasks

\* Whoever loads the tasks leaves a dock that pointed into the registry with an
\* index into what has been loaded.
LEMMA LoadedUnderDock ==
  ASSUME registry \in Seq(Apps), files \subseteq Files, NEW t \in Loaded,
         DockPointsInto(registry)
  PROVE  DockPointsInto(t)
<1>1. Len(registry) \in Nat /\ DOMAIN registry = 1..Len(registry)
      /\ Len(t) \in Nat /\ DOMAIN t = 1..Len(t)
  BY LoadedTasks
<1>. QED
  BY <1>1, LoadedTasks DEF DockPointsInto

\* The end of the registry may change under the dock.
LEMMA RegistryGrows ==
  ASSUME NEW r \in Seq(Apps), NEW q \in Seq(Apps), IsPrefix(r, q), DockPointsInto(r)
  PROVE  DockPointsInto(q)
<1>1. Len(r) \in Nat /\ Len(q) \in Nat /\ Len(r) <= Len(q)
      /\ DOMAIN r = 1..Len(r) /\ DOMAIN q = 1..Len(q)
  BY DEF IsPrefix
<1>2. \A i \in 1..Len(r) : SubSeq(r, 1, Len(r))[i] = r[i] /\ SubSeq(q, 1, Len(r))[i] = q[i]
  BY <1>1
<1>3. \A i \in 1..Len(r) : r[i] = q[i]
  BY <1>2 DEF IsPrefix
<1>. QED
  BY <1>1, <1>3 DEF DockPointsInto

\* An app that is entered behind the last one extends the registry.
LEMMA AppendedRegistry ==
  ASSUME NEW r \in Seq(Apps), NEW a \in Apps
  PROVE  Append(r, a) \in Seq(Apps) /\ IsPrefix(r, Append(r, a))
<1>. DEFINE q == Append(r, a)
<1>1. q \in Seq(Apps) /\ Len(q) = Len(r) + 1 /\ \A i \in 1..Len(r) : q[i] = r[i]
  BY AppendProperties
<1>2. Len(r) \in Nat
  OBVIOUS
<1>3. SubSeq(r, 1, Len(r)) = SubSeq(q, 1, Len(r))
  <2>. HIDE DEF q
  <2>. QED
    BY <1>1, <1>2
<1>. QED
  BY <1>1, <1>2, <1>3 DEF IsPrefix

\* An edited registry still lists apps.
LEMMA EditedRegistry ==
  ASSUME registry \in Seq(Apps), RegistryEdited
  PROVE  registry' \in Seq(Apps)
<1>1. CASE registry' = Defaults
  BY <1>1, DesktopAssumption, SeqMonotonic DEF Apps
<1>2. ASSUME NEW i \in DOMAIN registry, registry' = RemoveAt(registry, i)
      PROVE  registry' \in Seq(Apps)
  <2>1. i \in 1..Len(registry) /\ Len(registry) \in Nat
    OBVIOUS
  <2>2. /\ SubSeq(registry, 1, i - 1) \in Seq(Apps)
        /\ SubSeq(registry, i + 1, Len(registry)) \in Seq(Apps)
    BY <2>1
  <2>. QED
    BY <1>2, <2>2 DEF RemoveAt
<1>3. ASSUME NEW a \in NewApps, registry' = Append(registry, a)
      PROVE  registry' \in Seq(Apps)
  BY <1>3 DEF Apps
<1>. QED
  BY <1>1, <1>2, <1>3 DEF RegistryEdited

\* Every step keeps the buttons right.  The registry, TASKS and the buttons are
\* written by few handlers; the others change none of them.
LEMMA ButtonStep ==
  ASSUME ButtonInv, ScreenInv, [Next]_vars
  PROVE  ButtonInv'
<1>. USE DEF ButtonInv
<1>1. ASSUME UNCHANGED <<registry, files, tasks, grid, dock, moved>>,
             widgets' = widgets
      PROVE  ButtonInv'
  BY <1>1 DEF DockPointsInto
<1>2. CASE \/ ChooseGui \/ ChooseCmd \/ LogIn \/ Lock \/ OpenPowerMenu \/ CancelPower
          \/ ShutdownTick \/ SeeFlag \/ ClockTick \/ SaveApply \/ Pkill
  BY <1>2, <1>1 DEF ChooseGui, ChooseCmd, LogIn, Lock, OpenPowerMenu, CancelPower,
     ShutdownTick, SeeFlag, ClockTick, Crash, SaveApply, Pkill
<1>3. CASE LogOut \/ ShutDown \/ CloseWindow
  <2>1. CASE grid' = <<>> /\ dock' = <<>>
    BY <1>3, <2>1 DEF LogOut, ShutDown, CloseWindow, DockPointsInto
  <2>2. CASE ~(grid' = <<>> /\ dock' = <<>>)
    BY <1>1, <1>3, <2>2 DEF LogOut, ShutDown, CloseWindow
  <2>. QED
    BY <2>1, <2>2
<1>4. CASE SplashTick
  <2>1. CASE ShowDesktop
    <3>1. PICK t \in Loaded : tasks' = t /\ grid' = t /\ dock' = DockOf(t)
      BY <2>1 DEF ShowDesktop
    <3>2. UNCHANGED <<registry, files>> /\ widgets' = "live"
      BY <1>4, <2>1 DEF SplashTick, ShowDesktop
    <3>3. \A a \in DOMAIN DockOf(t) :
            /\ DockOf(t)[a] \in 1..Len(registry)
            /\ registry[DockOf(t)[a]] = a /\ t[DockOf(t)[a]] = a
      BY DockBuilt
    <3>4. /\ t \in Seq(Apps \cup Files) /\ registry \in Seq(Apps)
          /\ Len(registry) <= Len(t)
      BY LoadedTasks
    <3>5. 1..Len(registry) \subseteq DOMAIN t /\ 1..Len(registry) = DOMAIN registry
      BY <3>4
    <3>6. DockPointsInto(registry)' /\ DockPointsInto(tasks)'
      BY <3>1, <3>2, <3>3, <3>5 DEF DockPointsInto
    <3>. QED
      BY <3>1, <3>2, <3>6
  <2>2. CASE ~ShowDesktop
    BY <1>1, <1>4, <2>2 DEF SplashTick
  <2>. QED
    BY <2>1, <2>2
<1>5. CASE UserRefresh \/ LoadAfterFlag
  <2>1. /\ UNCHANGED <<registry, files, moved, dock>> /\ widgets' = widgets
    BY <1>5 DEF UserRefresh, LoadAfterFlag, RefreshDesktop, Crash
  <2>2. CASE UNCHANGED <<tasks, grid>>
    BY <1>1, <2>1, <2>2
  <2>3. ASSUME NEW t \in Loaded, tasks' = t,
               \/ grid' = t /\ widgets = "live"
               \/ grid' = grid /\ widgets = "dangling"
        PROVE  ButtonInv'
    <3>1. ~moved => DockPointsInto(t)
      BY LoadedUnderDock
    <3>2. ~moved' => DockPointsInto(registry)' /\ DockPointsInto(tasks)'
      BY <2>1, <2>3, <3>1 DEF DockPointsInto
    <3>3. /\ grid' = <<>> \/ grid' = tasks'
          /\ widgets' # "live" => grid' = <<>> /\ dock' = <<>>
      BY <2>1, <2>3
    <3>. QED
      BY <2>1, <3>2, <3>3
  <2>4. \/ UNCHANGED <<tasks, grid>>
        \/ \E t \in Loaded : /\ tasks' = t
                             /\ \/ grid' = t /\ widgets = "live"
                                \/ grid' = grid /\ widgets = "dangling"
    <3>1. RefreshDesktop
      BY <1>5 DEF UserRefresh, LoadAfterFlag
    <3>2. widgets \in {"null", "live", "dangling"}
      OBVIOUS
    <3>3. CASE widgets = "null"
      BY <3>1, <3>3 DEF RefreshDesktop
    <3>4. CASE widgets = "live"
      BY <3>1, <3>4 DEF RefreshDesktop
    <3>5. CASE widgets = "dangling"
      BY <3>1, <3>5 DEF RefreshDesktop
    <3>. QED
      BY <3>2, <3>3, <3>4, <3>5
  <2>. QED
    BY <2>2, <2>3, <2>4
<1>6. ASSUME NEW a \in NewApps, CreateNewProgram(a) PROVE ButtonInv'
  BY <1>1, <1>6 DEF CreateNewProgram
<1>7. ASSUME NEW code \in {0, 2}, MakeEnds(code) PROVE ButtonInv'
  <2>1. UNCHANGED <<files, tasks, grid, dock, moved>> /\ widgets' = widgets
    BY <1>7 DEF MakeEnds
  <2>2. CASE registry' = registry
    BY <1>1, <2>1, <2>2
  <2>3. CASE registry' # registry
    <3>1. making \in Apps /\ registry' = Append(registry, making)
      BY <1>7, <2>3 DEF MakeEnds, Apps
    <3>2. registry' \in Seq(Apps) /\ IsPrefix(registry, registry')
      BY <3>1, AppendedRegistry
    <3>3. DockPointsInto(registry) => DockPointsInto(registry')
      BY <3>2, RegistryGrows
    <3>. QED
      BY <2>1, <3>2, <3>3 DEF DockPointsInto
  <2>. QED
    BY <2>2, <2>3
<1>8. CASE ExecuteActions
  <2>1. files' \subseteq Files /\ UNCHANGED <<registry, tasks, grid, dock, moved>>
        /\ widgets' = widgets
    BY <1>8 DEF ExecuteActions
  <2>. QED
    BY <2>1 DEF DockPointsInto
<1>9. CASE RegistryEdited
  <2>1. /\ UNCHANGED <<files, tasks, grid, dock>> /\ widgets' = widgets
        /\ registry' \in Seq(Apps)
    BY <1>9, EditedRegistry DEF RegistryEdited
  <2>2. ~moved' => ~moved /\ IsPrefix(registry, registry')
    BY <1>9, Zenon DEF RegistryEdited
  <2>3. ~moved' => DockPointsInto(registry')
    BY <2>1, <2>2, RegistryGrows
  <2>. QED
    BY <2>1, <2>2, <2>3 DEF DockPointsInto
<1>10. CASE UNCHANGED vars
  BY <1>1, <1>10 DEF vars
<1>. QED
  BY <1>2, <1>3, <1>4, <1>5, <1>6, <1>7, <1>8, <1>9, <1>10 DEF Next, Stopped

\* A button launches what it says: the grid always, the dock as long as nothing
\* but the end of the registry has changed since it was built.
THEOREM DesktopLaunchesWhatItSays == Spec => []LaunchesWhatItSays
<1>1. Init => ButtonInv
  <2>. SUFFICES ASSUME Init PROVE ButtonInv
    OBVIOUS
  <2>1. registry \in Seq(Apps)
    BY DesktopAssumption, SeqMonotonic DEF Init, Apps
  <2>. QED
    BY <2>1 DEF Init, ButtonInv, DockPointsInto
<1>2. ButtonInv => LaunchesWhatItSays
  BY DEF ButtonInv, LaunchesWhatItSays, Launches, DockPointsInto
<1>3. ScreenInv /\ [Next]_vars => ScreenInv'
  BY ScreenStep
<1>4. ButtonInv /\ ScreenInv /\ [Next]_vars => ButtonInv'
  BY ButtonStep
<1>. HIDE DEF ScreenInv, ButtonInv
<1>. QED
  BY <1>1, <1>2, <1>3, <1>4, ScreenInit, PTL DEF Spec

=============================================================================
