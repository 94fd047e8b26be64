----------------------------- MODULE AmsStudio ------------------------------
(***************************************************************************)
(* The build console of AMS Studio: the compile button, a detached thread  *)
(* per build that runs make, and the idle callbacks by which everything    *)
(* but the header gets to the console.  The text of the editor and its     *)
(* file are left out.                                                      *)
(***************************************************************************)
EXTENDS Integers, Sequences

CONSTANTS
  MaxBuilds,       \* bounds the builds
  MaxTexts         \* bounds the texts that wait for the main loop or are shown

VARIABLES
  is_compiling,
  build,           \* how many builds were started
  thread,          \* where the thread of each build is
  idle,            \* the texts that append_console has passed to g_idle_add
  console

vars == <<is_compiling, build, thread, idle, console>>

Builds == 1..MaxBuilds

\* A text is known by its kind and the build it is about, 0 for the messages of
\* the other buttons.
Text == [kind : {"header", "message", "line", "completed", "failed", "no_make"}, of : 0..MaxBuilds]

\* The task ignores SIGCHLD, so that the child is gone when pclose waits for it.
pclose(code) == -1

\* What the thread says last: make has ended, or neither popen succeeded.
Verdicts == {IF pclose(code) = 0 THEN "completed" ELSE "failed" : code \in 0..1} \cup {"no_make"}

Init ==
  /\ is_compiling = FALSE /\ build = 0 /\ thread = [b \in Builds |-> "none"]
  /\ idle = <<>> /\ console = <<>>

-----------------------------------------------------------------------------
append_console(kind, b) ==
  /\ Len(console) + Len(idle) < MaxTexts
  /\ idle' = Append(idle, [kind |-> kind, of |-> b])

\* Fault: a click during a build starts another one.
CompileAgain ==
  /\ build < MaxBuilds
  /\ is_compiling' = TRUE /\ build' = build + 1
  /\ console' = <<[kind |-> "header", of |-> build']>>
  /\ thread' = [thread EXCEPT ![build'] = "make"]
  /\ UNCHANGED idle

\* on_compile_clicked, which does nothing during a build.
Compile ==
  /\ ~is_compiling /\ build < MaxBuilds
  /\ is_compiling' = TRUE /\ build' = build + 1
  /\ console' = <<[kind |-> "header", of |-> build']>>
  /\ thread' = [thread EXCEPT ![build'] = "make"]
  /\ UNCHANGED idle

\* on_save_clicked, on_run_clicked
Message == append_console("message", 0) /\ UNCHANGED <<is_compiling, build, thread, console>>

\* A line of make's output.
Output(b) ==
  /\ thread[b] = "make" /\ append_console("line", b)
  /\ UNCHANGED <<is_compiling, build, thread, console>>

MakeEnds(b, v) ==
  /\ thread[b] = "make"
  /\ idle' = Append(idle, [kind |-> v, of |-> b])
  /\ thread' = [thread EXCEPT ![b] = "told"]
  /\ UNCHANGED <<is_compiling, build, console>>

\* is_compiling = false, and the thread ends.
ThreadEnds(b) ==
  /\ thread[b] = "told"
  /\ is_compiling' = FALSE
  /\ thread' = [thread EXCEPT ![b] = "none"]
  /\ UNCHANGED <<build, idle, console>>

\* The main loop runs the oldest of the callbacks, when it has no event to handle.
Show ==
  /\ idle # <<>>
  /\ console' = Append(console, Head(idle)) /\ idle' = Tail(idle)
  /\ UNCHANGED <<is_compiling, build, thread>>

ThreadStep(b) == (\E v \in Verdicts : MakeEnds(b, v)) \/ ThreadEnds(b)

Next ==
  \/ Compile \/ Message \/ Show
  \/ \E b \in Builds : Output(b) \/ ThreadStep(b)

-----------------------------------------------------------------------------
\* The ranges of the variables.
TypeOK ==
  /\ is_compiling \in BOOLEAN /\ build \in 0..MaxBuilds
  /\ thread \in [Builds -> {"none", "make", "told"}]
  /\ idle \in Seq(Text) /\ console \in Seq(Text)

IsVerdict(t) == t.kind \in Verdicts

\* is_compiling lets the next build begin while texts of the one before still
\* wait for the main loop: even so what the console shows is in the order of the
\* builds, a verdict ends the lines of its build, and nothing is shown twice.
ConsoleInOrder ==
  \A i, j \in 1 .. Len(console) :
    i < j /\ IsVerdict(console[i]) /\ console[j].kind \in Verdicts \cup {"line"}
      => console[i].of < console[j].of

\* Each build reports its end, whatever was clicked meanwhile.
Reported(b) == \E i \in 1 .. Len(console) : IsVerdict(console[i]) /\ console[i].of = b

=============================================================================
