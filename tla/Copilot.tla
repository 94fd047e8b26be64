------------------------------ MODULE Copilot ------------------------------
(***************************************************************************)
(* The conversation of the AI Copilot: the main thread takes questions and *)
(* shows answers; for each question asked online a thread of its own calls *)
(* the API, runs the commands that the answers ask for and feeds their     *)
(* output back.  history is shared by all of them without a lock: only     *)
(* busy keeps them apart.                                                  *)
(*                                                                         *)
(* The API and the commands are outside: an answer either asks for a       *)
(* command or not, and an error is an answer like any other.               *)
(***************************************************************************)
EXTENDS Integers, Sequences, FiniteSets

CONSTANTS
  MaxLoops,      \* 3 in the code
  Window,        \* 20 in the code: the messages that a request takes from history
  MaxQuestions   \* a bound on the questions asked

ASSUME CopilotAssumption ==
  /\ MaxLoops \in Nat \ {0} /\ MaxQuestions \in Nat
  /\ Window \in Nat \ {0} /\ Window % 2 = 0

VARIABLES
  online,    \* online_mode, settled before the window opens
  open,      \* the window; with it goes the process
  busy,
  history,   \* the messages: [role, kind, to]
  request,   \* /tmp/ams_copilot_req.json: the last message it holds, or 0
  pc, loops, response   \* of the thread of each question

vars == <<online, open, busy, history, request, pc, loops, response>>
local == <<pc, loops, response>>

Threads == 1..MaxQuestions

Message ==
  [role : {"user", "model"}, kind : {"question", "output", "answer", "command"}, to : Nat]

\* A message of the model records for which message it is the answer.
Question == [role |-> "user", kind |-> "question", to |-> 0]
Output == [role |-> "user", kind |-> "output", to |-> 0]
Response(k, n) == [role |-> "model", kind |-> k, to |-> n]

\* The questions asked so far, and the thread of the next.
Asked == Cardinality({i \in DOMAIN history : history[i].kind = "question"})

Init ==
  /\ online \in BOOLEAN /\ open = TRUE /\ busy = FALSE
  /\ history = <<>> /\ request = 0
  /\ pc = [t \in Threads |-> "idle"]
  /\ loops = [t \in Threads |-> 0]
  /\ response = [t \in Threads |-> Response("answer", 0)]

-----------------------------------------------------------------------------
(* The main thread.                                                        *)

\* Fault: send_message does not look at busy.
SendWhileBusy ==
  /\ open /\ online /\ Asked < MaxQuestions
  /\ history' = Append(history, Question)
  /\ busy' = TRUE
  /\ pc' = [pc EXCEPT ![Asked + 1] = "build"]
  /\ loops' = [loops EXCEPT ![Asked + 1] = 0]
  /\ UNCHANGED <<online, open, request, response>>

SendOnline ==
  /\ open /\ online /\ ~busy /\ Asked < MaxQuestions
  /\ history' = Append(history, Question)
  /\ busy' = TRUE
  /\ pc' = [pc EXCEPT ![Asked + 1] = "build"]
  /\ loops' = [loops EXCEPT ![Asked + 1] = 0]
  /\ UNCHANGED <<online, open, request, response>>

SendOffline ==
  /\ open /\ ~online /\ ~busy /\ Asked < MaxQuestions
  /\ history' = Append(Append(history, Question), Response("answer", Len(history) + 1))
  /\ UNCHANGED <<online, open, busy, request, local>>

\* Fault: busy is left up.
ResponseLeavesBusy(t) ==
  /\ open /\ pc[t] = "posted"
  /\ pc' = [pc EXCEPT ![t] = "done"]
  /\ history' = Append(history, response[t])
  /\ UNCHANGED <<online, open, busy, request, loops, response>>

OnApiResponse(t) ==
  /\ open /\ pc[t] = "posted"
  /\ busy' = FALSE
  /\ pc' = [pc EXCEPT ![t] = "done"]
  /\ history' = Append(history, response[t])
  /\ UNCHANGED <<online, open, request, loops, response>>

CloseWindow ==
  /\ open /\ open' = FALSE
  /\ UNCHANGED <<online, busy, history, request, local>>

-----------------------------------------------------------------------------
(* online_thread_func.                                                     *)

\* build_gemini_json, build_openai_compatible_json: the first message that goes
\* into a request.
Start == IF Len(history) > Window THEN Len(history) - Window + 1 ELSE 1

Build(t) ==
  /\ open /\ pc[t] = "build"
  /\ request' = Len(history)
  /\ pc' = [pc EXCEPT ![t] = "curl"]
  /\ UNCHANGED <<online, open, busy, history, loops, response>>

\* curl has read the file; the file is removed.
CurlEnds(t, k) ==
  /\ open /\ pc[t] = "curl"
  /\ response' = [response EXCEPT ![t] = Response(k, request)]
  /\ request' = 0
  /\ pc' = [pc EXCEPT ![t] = IF k = "command" THEN "command" ELSE "post"]
  /\ UNCHANGED <<online, open, busy, history, loops>>

CommandEnds(t) ==
  /\ open /\ pc[t] = "command"
  /\ history' = Append(history, response[t])
  /\ pc' = [pc EXCEPT ![t] = "output"]
  /\ UNCHANGED <<online, open, busy, request, loops, response>>

\* Fault: the loop goes round once more.
FeedOneMore(t) ==
  /\ open /\ pc[t] = "output"
  /\ history' = Append(history, Output)
  /\ loops' = [loops EXCEPT ![t] = @ + 1]
  /\ pc' = [pc EXCEPT ![t] = IF loops[t] + 1 <= MaxLoops THEN "build" ELSE "post"]
  /\ UNCHANGED <<online, open, busy, request, response>>

FeedOutput(t) ==
  /\ open /\ pc[t] = "output"
  /\ history' = Append(history, Output)
  /\ loops' = [loops EXCEPT ![t] = @ + 1]
  /\ pc' = [pc EXCEPT ![t] = IF loops[t] + 1 < MaxLoops THEN "build" ELSE "post"]
  /\ UNCHANGED <<online, open, busy, request, response>>

\* Fault: the thread lowers busy when it is done, before the answer is shown.
PostAndFree(t) ==
  /\ open /\ pc[t] = "post"
  /\ pc' = [pc EXCEPT ![t] = "posted"]
  /\ busy' = FALSE
  /\ UNCHANGED <<online, open, history, request, loops, response>>

\* g_idle_add(on_api_response): the thread ends.
Post(t) ==
  /\ open /\ pc[t] = "post"
  /\ pc' = [pc EXCEPT ![t] = "posted"]
  /\ UNCHANGED <<online, open, busy, history, request, loops, response>>

-----------------------------------------------------------------------------
Closed == ~open /\ UNCHANGED vars
Quiet == Asked = MaxQuestions /\ ~busy /\ UNCHANGED vars

ThreadStep(t) ==
  \/ Build(t) \/ CommandEnds(t) \/ FeedOutput(t) \/ Post(t)
  \/ \E k \in {"answer", "command"} : CurlEnds(t, k)

Next ==
  \/ SendOnline \/ SendOffline \/ CloseWindow \/ Closed \/ Quiet
  \/ \E t \in Threads : OnApiResponse(t) \/ ThreadStep(t)

\* Threads run, curl is given 60 seconds, and the commands are taken to end.
Fairness == \A t \in Threads : WF_vars(ThreadStep(t)) /\ WF_vars(OnApiResponse(t))

Spec == Init /\ [][Next]_vars /\ Fairness

-----------------------------------------------------------------------------
(* Properties.                                                             *)

\* The ranges of the variables.
TypeOK ==
  /\ online \in BOOLEAN /\ open \in BOOLEAN /\ busy \in BOOLEAN
  /\ history \in Seq(Message)
  /\ request \in 0..Len(history)
  /\ pc \in [Threads -> {"idle", "build", "curl", "command", "output", "post", "posted", "done"}]
  /\ loops \in [Threads -> 0..MaxLoops]
  /\ response \in [Threads -> Message]
  /\ \A t \in Threads : response[t].role = "model" /\ response[t].to <= Len(history)

\* The flag stands for the lock that history does not have: while a thread or
\* its answer is on its way, no other is, and no question is taken.
OneWriter ==
  \A t \in Threads : pc[t] \notin {"idle", "done"} =>
    busy /\ \A u \in Threads \ {t} : pc[u] \in {"idle", "done"}

\* The APIs take a conversation in which the two sides speak in turn, and the
\* user begins: no interleaving of questions, outputs and answers breaks that.
RolesAlternate ==
  \A i \in DOMAIN history : history[i].role = IF i % 2 = 1 THEN "user" ELSE "model"

\* An answer stands right behind the message it answers.  The exception is the
\* loop that is cut short: its last answer is entered a second time, behind the
\* output of the command it asked for.
AnswersWhatPrecedes ==
  \A i \in DOMAIN history : history[i].role = "model" =>
    \/ history[i].to = i - 1
    \/ i > 2 /\ history[i] = history[i - 2] /\ history[i].kind = "command"

\* A request holds whole exchanges only as long as it holds all of them.  "Include
\* last 10 exchanges from history" (ai_copilot.cpp:1157) takes an even number of
\* messages that ends with one of the user's: what is cut off ends with the
\* question of the first exchange, and the request begins with its answer.
CutInsideAnExchange ==
  \A t \in Threads : pc[t] = "build" =>
    history[Start].role = IF Len(history) > Window THEN "model" ELSE "user"

\* "You can loop this up to 3 times" (ai_copilot.cpp:165): between two questions
\* stand the outputs of no more than MaxLoops commands, whatever the API answers.
CommandsBounded ==
  \A i, j \in DOMAIN history :
    i < j /\ (\A k \in i..j : history[k].kind # "question") =>
      Cardinality({k \in i..j : history[k].kind = "output"}) <= MaxLoops

\* Every question gets its answer, and the next one can be asked.
EveryQuestionAnswered == busy ~> ~busy \/ ~open

=============================================================================
