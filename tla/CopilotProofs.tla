--------------------------- MODULE CopilotProofs ---------------------------
(***************************************************************************)
(* What keeps history in order, for any number of questions and loops.     *)
(* OneWriter says who may write; Turn says, for each place in the thread,  *)
(* whose turn it is; Fresh ties the request and the answer on their way to *)
(* the end of history.                                                     *)
(***************************************************************************)
EXTENDS Copilot, FiniteSetTheorems, TLAPS

Rest == {"idle", "done"}
Places == {"idle", "build", "curl", "command", "output", "post", "posted", "done"}

\* A thread that is still in the loop has rounds left.
LoopsLeft ==
  \A t \in Threads : pc[t] \in {"idle", "build", "curl", "command", "output"} => loops[t] < MaxLoops

\* Between questions the model has spoken last; the user's message is the last
\* one while its answer is awaited.
Turn ==
  /\ ~busy => Len(history) % 2 = 0
  /\ \A t \in Threads :
       /\ pc[t] \in {"build", "curl", "command", "post", "posted"} => Len(history) % 2 = 1
       /\ pc[t] = "output" => Len(history) % 2 = 0

\* The request on its way holds the whole of history, and the answer that is
\* about to be entered answers its end, or is the last one once more.
Fresh ==
  \A t \in Threads :
    /\ pc[t] = "curl" => request = Len(history)
    /\ pc[t] = "command" => response[t].to = Len(history) /\ response[t].kind = "command"
    /\ pc[t] = "output" =>
         Len(history) > 0 /\ history[Len(history)] = response[t] /\ response[t].kind = "command"
    /\ pc[t] \in {"post", "posted"} =>
         \/ response[t].to = Len(history)
         \/ Len(history) > 1 /\ history[Len(history) - 1] = response[t] /\ response[t].kind = "command"

IInv == TypeOK /\ LoopsLeft /\ OneWriter /\ Turn /\ RolesAlternate /\ Fresh /\ AnswersWhatPrecedes

-----------------------------------------------------------------------------
\* What Append does, for the steps that push a message.
LEMMA Grow ==
  ASSUME NEW S, NEW s \in Seq(S), NEW e \in S
  PROVE  /\ Append(s, e) \in Seq(S)
         /\ Len(Append(s, e)) = Len(s) + 1
         /\ DOMAIN s = 1..Len(s)
         /\ DOMAIN Append(s, e) = 1..(Len(s) + 1)
         /\ \A i \in 1..Len(s) : Append(s, e)[i] = s[i]
         /\ Append(s, e)[Len(s) + 1] = e
  OBVIOUS

\* RolesAlternate and AnswersWhatPrecedes, of any conversation.
Alternate(h) == \A i \in DOMAIN h : h[i].role = IF i % 2 = 1 THEN "user" ELSE "model"
Answers(h) ==
  \A i \in DOMAIN h : h[i].role = "model" =>
    \/ h[i].to = i - 1
    \/ i > 2 /\ h[i] = h[i - 2] /\ h[i].kind = "command"

LEMMA OfHistory ==
  /\ RolesAlternate <=> Alternate(history)
  /\ AnswersWhatPrecedes <=> Answers(history)
  /\ RolesAlternate' <=> Alternate(history')
  /\ AnswersWhatPrecedes' <=> Answers(history')
  BY DEF RolesAlternate, AnswersWhatPrecedes, Alternate, Answers

\* Roles still alternate when the one whose turn it is has spoken.
LEMMA RolesGrow ==
  ASSUME NEW h \in Seq(Message), Alternate(h), NEW e \in Message,
         e.role = IF Len(h) % 2 = 0 THEN "user" ELSE "model"
  PROVE  Alternate(Append(h, e))
<1>1. Len(h) \in Nat
  OBVIOUS
<1>2. SUFFICES ASSUME NEW i \in 1..(Len(h) + 1)
               PROVE  Append(h, e)[i].role = IF i % 2 = 1 THEN "user" ELSE "model"
  BY Grow DEF Alternate
<1>3. CASE i \in 1..Len(h)
  BY <1>3, Grow DEF Alternate
<1>4. CASE i = Len(h) + 1
  <2>1. Append(h, e)[i] = e
    BY <1>4, Grow
  <2>2. (i % 2 = 1) <=> (Len(h) % 2 = 0)
    BY <1>1, <1>4
  <2> QED BY <2>1, <2>2
<1> QED BY <1>1, <1>2, <1>3, <1>4

\* An answer to the end of history, or the last answer once more, may be entered;
\* so may anything that the user says.
LEMMA AnswersGrow ==
  ASSUME NEW h \in Seq(Message), Answers(h), NEW e \in Message,
         e.role = "model" =>
           \/ e.to = Len(h)
           \/ Len(h) > 1 /\ h[Len(h) - 1] = e /\ e.kind = "command"
  PROVE  Answers(Append(h, e))
<1>1. Len(h) \in Nat
  OBVIOUS
<1> DEFINE g == Append(h, e)
<1>2. SUFFICES ASSUME NEW i \in 1..(Len(h) + 1), g[i].role = "model"
               PROVE  \/ g[i].to = i - 1
                      \/ i > 2 /\ g[i] = g[i - 2] /\ g[i].kind = "command"
  BY Grow DEF Answers
<1>3. CASE i \in 1..Len(h)
  <2>1. g[i] = h[i] /\ (i > 2 => g[i - 2] = h[i - 2])
    BY <1>1, <1>3, Grow
  <2> QED BY <1>1, <1>2, <1>3, <2>1, Grow DEF Answers
<1>4. CASE i = Len(h) + 1
  <2>1. g[i] = e /\ (i > 2 => g[i - 2] = h[Len(h) - 1])
    BY <1>1, <1>4, Grow
  <2> QED BY <1>1, <1>2, <1>4, <2>1
<1> QED BY <1>1, <1>2, <1>3, <1>4

\* The messages that are pushed are messages.
LEMMA Messages ==
  /\ Question \in Message /\ Question.role = "user"
  /\ Output \in Message /\ Output.role = "user"
  /\ \A k \in {"answer", "command"}, n \in Nat :
       /\ Response(k, n) \in Message
       /\ Response(k, n).role = "model" /\ Response(k, n).to = n /\ Response(k, n).kind = k
  BY DEF Question, Output, Response, Message

-----------------------------------------------------------------------------
LEMMA InitIInv == Init => IInv
<1> SUFFICES ASSUME Init PROVE IInv
  OBVIOUS
<1> USE CopilotAssumption
<1>1. TypeOK
  <2>1. history \in Seq(Message) /\ Len(history) = 0
    BY DEF Init
  <2>2. response \in [Threads -> Message] /\ \A t \in Threads : response[t] = Response("answer", 0)
    BY Messages DEF Init
  <2>3. \A t \in Threads : response[t].role = "model" /\ response[t].to <= Len(history)
    <3>1. Response("answer", 0).role = "model" /\ Response("answer", 0).to = 0
      BY Messages
    <3> QED BY <2>1, <2>2, <3>1
  <2>4. pc \in [Threads -> Places] /\ loops \in [Threads -> 0..MaxLoops]
    BY DEF Init, Places
  <2>5. online \in BOOLEAN /\ open \in BOOLEAN /\ busy \in BOOLEAN
    BY DEF Init
  <2>6. request \in 0..Len(history)
    BY <2>1 DEF Init
  <2> QED BY <2>1, <2>2, <2>3, <2>4, <2>5, <2>6 DEF TypeOK, Places
<1>2. LoopsLeft /\ OneWriter /\ Turn /\ RolesAlternate /\ Fresh /\ AnswersWhatPrecedes
  BY DEF Init, LoopsLeft, OneWriter, Turn, RolesAlternate, Fresh, AnswersWhatPrecedes, Threads
<1> QED BY <1>1, <1>2 DEF IInv

LEMMA SendOnlineIInv == IInv /\ SendOnline => IInv'
<1> SUFFICES ASSUME IInv, SendOnline PROVE IInv'
  OBVIOUS
<1> USE CopilotAssumption
<1>1. /\ history \in Seq(Message) /\ Len(history) \in Nat /\ Len(history) % 2 = 0
      /\ history' = Append(history, Question) /\ Len(history') = Len(history) + 1
      /\ history' \in Seq(Message)
  <2>1. history \in Seq(Message) /\ Len(history) \in Nat /\ Len(history) % 2 = 0
    <3>1. history \in Seq(Message)
      BY DEF IInv, TypeOK
    <3>2. Len(history) % 2 = 0
      BY DEF IInv, Turn, SendOnline
    <3> QED BY <3>1, <3>2
  <2>2. history' = Append(history, Question)
    BY DEF SendOnline
  <2> QED BY <2>1, <2>2, Messages, Grow
<1>2. PICK u : pc' = [pc EXCEPT ![u] = "build"] /\ loops' = [loops EXCEPT ![u] = 0]
  BY DEF SendOnline
<1>3. \A t \in Threads : pc[t] \in Rest /\ pc'[t] \in Rest \cup {"build"} /\ (t # u => pc'[t] \in Rest)
  BY <1>2 DEF IInv, TypeOK, OneWriter, SendOnline, Rest
<1>4. TypeOK'
  <2>1. pc' \in [Threads -> Places]
    BY <1>2 DEF IInv, TypeOK, Places
  <2>3. loops' \in [Threads -> 0..MaxLoops]
    <3>1. loops \in [Threads -> 0..MaxLoops] /\ 0 \in 0..MaxLoops
      BY DEF IInv, TypeOK
    <3> QED BY <1>2, <3>1
  <2>2. request' \in 0..Len(history') /\ \A t \in Threads : response'[t].to <= Len(history')
    BY <1>1, Messages DEF IInv, TypeOK, SendOnline, Message
  <2> QED BY <1>1, <2>1, <2>2, <2>3 DEF IInv, TypeOK, SendOnline, Places
<1>5. LoopsLeft'
  BY <1>2 DEF IInv, TypeOK, LoopsLeft, SendOnline
<1>6. OneWriter'
  BY <1>3 DEF OneWriter, SendOnline, Rest
<1>7. Turn'
  BY <1>1, <1>3, SMTT(20) DEF Turn, SendOnline, Rest
<1>8. RolesAlternate'
  BY <1>1, Messages, RolesGrow, OfHistory DEF IInv
<1>9. Fresh'
  BY <1>3 DEF Fresh, Rest
<1>10. AnswersWhatPrecedes'
  BY <1>1, Messages, AnswersGrow, OfHistory DEF IInv
<1> QED BY <1>4, <1>5, <1>6, <1>7, <1>8, <1>9, <1>10 DEF IInv

LEMMA SendOfflineIInv == IInv /\ SendOffline => IInv'
<1> SUFFICES ASSUME IInv, SendOffline PROVE IInv'
  OBVIOUS
<1> USE CopilotAssumption
<1> DEFINE h == Append(history, Question)
           e == Response("answer", Len(history) + 1)
<1>1. history \in Seq(Message) /\ Len(history) \in Nat /\ Alternate(history) /\ Answers(history)
  BY OfHistory DEF IInv, TypeOK
<1>2. Len(history) % 2 = 0 /\ ~busy /\ busy' = busy /\ history' = Append(h, e)
  BY DEF IInv, Turn, SendOffline
<1>3. h \in Seq(Message) /\ Len(h) = Len(history) + 1 /\ Len(h) % 2 = 1
  <2>1. h \in Seq(Message) /\ Len(h) = Len(history) + 1
    BY <1>1, Messages, Grow
  <2> QED BY <1>1, <1>2, <2>1
<1>4. e \in Message /\ e.role = "model" /\ e.to = Len(h)
  BY <1>1, <1>3, Messages
<1>5. history' \in Seq(Message) /\ Len(history') = Len(history) + 2 /\ Len(history') % 2 = 0
  BY <1>1, <1>2, <1>3, <1>4, Grow
<1>6. \A t \in Threads : pc[t] \in Rest
  BY <1>2 DEF IInv, OneWriter, Rest
<1>7. TypeOK'
  <2>1. request' \in 0..Len(history') /\ \A t \in Threads : response'[t].to <= Len(history')
    BY <1>1, <1>5 DEF IInv, TypeOK, SendOffline, local, Message
  <2> QED BY <1>5, <2>1 DEF IInv, TypeOK, SendOffline, local
<1>8. LoopsLeft' /\ OneWriter'
  BY DEF IInv, LoopsLeft, OneWriter, SendOffline, local
<1>9. Turn' /\ Fresh'
  BY <1>5, <1>6 DEF Turn, Fresh, SendOffline, local, Rest
<1>10. Alternate(h) /\ Answers(h)
  BY <1>1, <1>2, Messages, RolesGrow, AnswersGrow
<1>11. Alternate(history') /\ Answers(history')
  <2> HIDE DEF h, e
  <2>1. Alternate(Append(h, e))
    BY <1>3, <1>4, <1>10, RolesGrow
  <2>2. Answers(Append(h, e))
    BY <1>3, <1>4, <1>10, AnswersGrow
  <2> QED BY <1>2, <2>1, <2>2
<1> QED BY <1>7, <1>8, <1>9, <1>11, OfHistory DEF IInv

\* The steps that enter the answer of a thread.
LEMMA OnApiResponseIInv ==
  ASSUME IInv, NEW t \in Threads, OnApiResponse(t) PROVE IInv'
<1> USE CopilotAssumption
<1> DEFINE e == response[t]
<1>1. /\ history \in Seq(Message) /\ Len(history) \in Nat /\ Alternate(history) /\ Answers(history)
      /\ e \in Message /\ e.role = "model"
  BY OfHistory DEF IInv, TypeOK
<1>2. Len(history) % 2 = 1 /\ history' = Append(history, e) /\ pc[t] = "posted" /\ busy' = FALSE
  BY DEF IInv, Turn, OnApiResponse
<1>3. history' \in Seq(Message) /\ Len(history') = Len(history) + 1 /\ Len(history') % 2 = 0
  BY <1>1, <1>2, Grow
<1>4. \A u \in Threads : pc'[u] \in Rest
  BY <1>2 DEF IInv, TypeOK, OneWriter, OnApiResponse, Rest
<1>5. TypeOK'
  <2>1. request' \in 0..Len(history') /\ \A u \in Threads : response'[u].to <= Len(history')
    BY <1>1, <1>3 DEF IInv, TypeOK, OnApiResponse, Message
  <2>2. pc' \in [Threads -> Places]
    BY DEF IInv, TypeOK, OnApiResponse, Places
  <2> QED BY <1>3, <2>1, <2>2 DEF IInv, TypeOK, OnApiResponse, Places
<1>6. LoopsLeft'
  BY <1>2, <1>4 DEF IInv, TypeOK, LoopsLeft, OnApiResponse
<1>7. OneWriter' /\ Turn' /\ Fresh'
  BY <1>2, <1>3, <1>4 DEF OneWriter, Turn, Fresh, Rest
<1>8. \/ e.to = Len(history)
      \/ Len(history) > 1 /\ history[Len(history) - 1] = e /\ e.kind = "command"
  BY <1>2 DEF IInv, Fresh
<1>9. Alternate(history') /\ Answers(history')
  BY <1>1, <1>2, <1>8, RolesGrow, AnswersGrow
<1> QED BY <1>5, <1>6, <1>7, <1>9, OfHistory DEF IInv

LEMMA CommandEndsIInv ==
  ASSUME IInv, NEW t \in Threads, CommandEnds(t) PROVE IInv'
<1> USE CopilotAssumption
<1> DEFINE e == response[t]
<1>1. /\ history \in Seq(Message) /\ Len(history) \in Nat /\ Alternate(history) /\ Answers(history)
      /\ e \in Message /\ e.role = "model"
  BY OfHistory DEF IInv, TypeOK
<1>2. /\ Len(history) % 2 = 1 /\ history' = Append(history, e) /\ pc[t] = "command"
      /\ e.to = Len(history) /\ e.kind = "command"
  BY DEF IInv, Turn, Fresh, CommandEnds
<1>3. /\ history' \in Seq(Message) /\ Len(history') = Len(history) + 1 /\ Len(history') % 2 = 0
      /\ history'[Len(history')] = e
  BY <1>1, <1>2, Grow
<1>4. /\ busy /\ busy' = busy /\ pc'[t] = "output"
      /\ \A u \in Threads \ {t} : pc[u] \in Rest /\ pc'[u] = pc[u]
  BY <1>2 DEF IInv, TypeOK, OneWriter, CommandEnds, Rest
<1>5. TypeOK'
  <2>1. request' \in 0..Len(history') /\ \A u \in Threads : response'[u].to <= Len(history')
    BY <1>1, <1>3 DEF IInv, TypeOK, CommandEnds, Message
  <2>2. pc' \in [Threads -> Places]
    BY DEF IInv, TypeOK, CommandEnds, Places
  <2> QED BY <1>3, <2>1, <2>2 DEF IInv, TypeOK, CommandEnds, Places
<1>6. LoopsLeft'
  BY <1>2, <1>4 DEF IInv, TypeOK, LoopsLeft, CommandEnds
<1>7. OneWriter' /\ Turn'
  BY <1>2, <1>3, <1>4 DEF OneWriter, Turn, Rest
<1>8. Fresh'
  <2>1. response' = response
    BY DEF CommandEnds
  <2> QED BY <1>1, <1>2, <1>3, <1>4, <2>1 DEF Fresh, Rest
<1>9. Alternate(history') /\ Answers(history')
  BY <1>1, <1>2, RolesGrow, AnswersGrow
<1> QED BY <1>5, <1>6, <1>7, <1>8, <1>9, OfHistory DEF IInv

LEMMA FeedOutputIInv ==
  ASSUME IInv, NEW t \in Threads, FeedOutput(t) PROVE IInv'
<1> USE CopilotAssumption
<1>1. history \in Seq(Message) /\ Len(history) \in Nat /\ Alternate(history) /\ Answers(history)
  BY OfHistory DEF IInv, TypeOK
<1>2. /\ Len(history) % 2 = 0 /\ history' = Append(history, Output) /\ pc[t] = "output"
      /\ Len(history) > 0 /\ history[Len(history)] = response[t] /\ response[t].kind = "command"
  BY DEF IInv, Turn, Fresh, FeedOutput
<1>3. /\ history' \in Seq(Message) /\ Len(history') = Len(history) + 1 /\ Len(history') % 2 = 1
      /\ history'[Len(history') - 1] = response[t]
  <2>1. /\ history' \in Seq(Message) /\ Len(history') = Len(history) + 1
        /\ \A i \in 1..Len(history) : history'[i] = history[i]
    BY <1>1, <1>2, Messages, Grow
  <2>2. Len(history') % 2 = 1
    BY <1>1, <1>2, <2>1
  <2>3. Len(history) \in 1..Len(history) /\ Len(history') - 1 = Len(history)
    BY <1>1, <1>2, <2>1
  <2> QED BY <1>2, <2>1, <2>2, <2>3
<1>4. /\ busy /\ busy' = busy
      /\ pc'[t] = (IF loops[t] + 1 < MaxLoops THEN "build" ELSE "post")
      /\ \A u \in Threads \ {t} : pc[u] \in Rest /\ pc'[u] = pc[u]
  BY <1>2 DEF IInv, TypeOK, OneWriter, FeedOutput, Rest
<1>5. /\ loops[t] \in Nat /\ loops[t] < MaxLoops /\ loops'[t] = loops[t] + 1
      /\ loops \in [Threads -> 0..MaxLoops]
      /\ loops' = [loops EXCEPT ![t] = loops[t] + 1]
      /\ \A u \in Threads \ {t} : loops'[u] = loops[u]
  BY <1>2 DEF IInv, TypeOK, LoopsLeft, FeedOutput
<1>6. TypeOK'
  <2>1. request' \in 0..Len(history') /\ \A u \in Threads : response'[u].to <= Len(history')
    BY <1>1, <1>3 DEF IInv, TypeOK, FeedOutput, Message
  <2>2. pc' \in [Threads -> Places]
    BY DEF IInv, TypeOK, FeedOutput, Places
  <2>3. loops' \in [Threads -> 0..MaxLoops]
    BY <1>5
  <2> QED BY <1>3, <2>1, <2>2, <2>3 DEF IInv, TypeOK, FeedOutput, Places
<1>7. LoopsLeft'
  BY <1>4, <1>5 DEF IInv, LoopsLeft
<1>8. OneWriter' /\ Turn'
  BY <1>3, <1>4 DEF OneWriter, Turn, Rest
<1>9. Fresh'
  <2>1. response' = response
    BY DEF FeedOutput
  <2> QED BY <1>1, <1>2, <1>3, <1>4, <2>1 DEF Fresh, Rest
<1>10. Alternate(history') /\ Answers(history')
  BY <1>1, <1>2, Messages, RolesGrow, AnswersGrow
<1> QED BY <1>6, <1>7, <1>8, <1>9, <1>10, OfHistory DEF IInv

\* The steps that leave history alone.
LEMMA BuildIInv ==
  ASSUME IInv, NEW t \in Threads, Build(t) PROVE IInv'
<1>1. /\ history' = history /\ response' = response /\ loops' = loops /\ busy' = busy
      /\ request' = Len(history) /\ pc[t] = "build"
      /\ history \in Seq(Message) /\ Len(history) \in Nat
  BY DEF IInv, TypeOK, Build
<1>2. /\ busy /\ pc'[t] = "curl"
      /\ \A u \in Threads \ {t} : pc[u] \in Rest /\ pc'[u] = pc[u]
  BY <1>1 DEF IInv, TypeOK, OneWriter, Build, Rest
<1>3. TypeOK'
  <2>1. pc' \in [Threads -> Places]
    BY DEF IInv, TypeOK, Build, Places
  <2> QED BY <1>1, <2>1 DEF IInv, TypeOK, Build, Places
<1>4. LoopsLeft' /\ OneWriter' /\ Turn' /\ Fresh'
  BY <1>1, <1>2 DEF IInv, LoopsLeft, OneWriter, Turn, Fresh, Rest
<1> QED BY <1>1, <1>3, <1>4 DEF IInv, RolesAlternate, AnswersWhatPrecedes

LEMMA CurlEndsIInv ==
  ASSUME IInv, NEW t \in Threads, NEW k \in {"answer", "command"}, CurlEnds(t, k) PROVE IInv'
<1> DEFINE e == Response(k, request)
<1>1. /\ history' = history /\ loops' = loops /\ busy' = busy /\ request' = 0 /\ pc[t] = "curl"
      /\ history \in Seq(Message) /\ Len(history) \in Nat /\ request = Len(history)
  BY DEF IInv, TypeOK, Fresh, CurlEnds
<1>2. /\ busy /\ pc'[t] = (IF k = "command" THEN "command" ELSE "post")
      /\ \A u \in Threads \ {t} : pc[u] \in Rest /\ pc'[u] = pc[u]
  BY <1>1 DEF IInv, TypeOK, OneWriter, CurlEnds, Rest
<1>3. e \in Message /\ e.role = "model" /\ e.to = Len(history) /\ e.kind = k
  BY <1>1, Messages
<1>4. /\ response' = [response EXCEPT ![t] = e] /\ response \in [Threads -> Message]
      /\ response'[t] = e /\ \A u \in Threads \ {t} : response'[u] = response[u]
  BY DEF IInv, TypeOK, CurlEnds
<1>5. TypeOK'
  <2>1. pc' \in [Threads -> Places]
    BY DEF IInv, TypeOK, CurlEnds, Places
  <2>2. response' \in [Threads -> Message]
    BY <1>3, <1>4
  <2>3. \A u \in Threads : response'[u].role = "model" /\ response'[u].to <= Len(history')
    BY <1>1, <1>3, <1>4 DEF IInv, TypeOK
  <2>4. request' \in 0..Len(history')
    BY <1>1
  <2> QED BY <1>1, <2>1, <2>2, <2>3, <2>4 DEF IInv, TypeOK, CurlEnds, Places
<1>6. LoopsLeft' /\ OneWriter' /\ Turn'
  BY <1>1, <1>2 DEF IInv, LoopsLeft, OneWriter, Turn, Rest
<1>7. Fresh'
  BY <1>1, <1>2, <1>3, <1>4 DEF Fresh, Rest
<1> QED BY <1>1, <1>5, <1>6, <1>7 DEF IInv, RolesAlternate, AnswersWhatPrecedes

LEMMA PostIInv ==
  ASSUME IInv, NEW t \in Threads, Post(t) PROVE IInv'
<1>1. /\ UNCHANGED <<history, response, loops, busy, request>> /\ pc[t] = "post"
      /\ pc'[t] = "posted" /\ \A u \in Threads \ {t} : pc'[u] = pc[u]
  BY DEF IInv, TypeOK, Post
<1>2. TypeOK'
  <2>1. pc' \in [Threads -> Places]
    BY DEF IInv, TypeOK, Post, Places
  <2> QED BY <1>1, <2>1 DEF IInv, TypeOK, Post, Places
<1>3. LoopsLeft' /\ OneWriter' /\ Turn' /\ Fresh'
  BY <1>1 DEF IInv, LoopsLeft, OneWriter, Turn, Fresh, Rest
<1> QED BY <1>1, <1>2, <1>3 DEF IInv, RolesAlternate, AnswersWhatPrecedes

LEMMA QuietIInv ==
  ASSUME IInv, CloseWindow \/ UNCHANGED vars PROVE IInv'
<1>1. UNCHANGED <<online, busy, history, request, pc, loops, response>> /\ open' \in BOOLEAN
  BY DEF IInv, TypeOK, CloseWindow, vars, local
<1> QED BY <1>1 DEF IInv, TypeOK, LoopsLeft, OneWriter, Turn, RolesAlternate, Fresh, AnswersWhatPrecedes

\* The invariant that carries the results: who may write, whose turn it is, and
\* that requests and answers on their way are not stale.
THEOREM CopilotInvariant == Spec => []IInv
<1>1. Init => IInv
  BY InitIInv
<1>2. IInv /\ [Next]_vars => IInv'
  <2> SUFFICES ASSUME IInv, [Next]_vars PROVE IInv'
    OBVIOUS
  <2>1. CASE SendOnline BY <2>1, SendOnlineIInv
  <2>2. CASE SendOffline BY <2>2, SendOfflineIInv
  <2>3. CASE CloseWindow \/ Closed \/ Quiet \/ UNCHANGED vars
    BY <2>3, QuietIInv DEF Closed, Quiet
  <2>4. ASSUME NEW t \in Threads, OnApiResponse(t) \/ ThreadStep(t) PROVE IInv'
    BY <2>4, OnApiResponseIInv, BuildIInv, CommandEndsIInv, FeedOutputIInv, PostIInv, CurlEndsIInv
       DEF ThreadStep
  <2> QED BY <2>1, <2>2, <2>3, <2>4 DEF Next
<1> QED BY <1>1, <1>2, PTL DEF Spec

\* TypeOK, for any number of questions and of rounds.
THEOREM CopilotTypeOK == Spec => []TypeOK
  BY CopilotInvariant, PTL DEF IInv

\* busy is as good as a lock for history (send_message, online_thread_func).
THEOREM CopilotOneWriter == Spec => []OneWriter
  BY CopilotInvariant, PTL DEF IInv

\* The conversation that is sent to the API is one in which the two sides speak
\* in turn, the user first.
THEOREM CopilotRolesAlternate == Spec => []RolesAlternate
  BY CopilotInvariant, PTL DEF IInv

\* An answer stands behind what it answers, or repeats the last answer of a loop
\* that was cut short.
THEOREM CopilotAnswersWhatPrecedes == Spec => []AnswersWhatPrecedes
  BY CopilotInvariant, PTL DEF IInv

\* Once the conversation is longer than the window, no request begins with a
\* message of the user, whatever was asked and fed back (build_gemini_json).
THEOREM CopilotCutInsideAnExchange == Spec => []CutInsideAnExchange
<1>1. IInv => CutInsideAnExchange
  <2> SUFFICES ASSUME IInv, NEW t \in Threads, pc[t] = "build"
               PROVE  history[Start].role = IF Len(history) > Window THEN "model" ELSE "user"
    BY DEF CutInsideAnExchange
  <2>1. history \in Seq(Message) /\ Len(history) \in Nat /\ DOMAIN history = 1..Len(history)
    BY DEF IInv, TypeOK
  <2>2. Len(history) % 2 = 1
    BY DEF IInv, Turn
  <2>3. CASE Len(history) > Window
    <3>1. Start = Len(history) - Window + 1 /\ Start \in DOMAIN history
      BY <2>1, <2>3, CopilotAssumption DEF Start
    <3>2. Start % 2 = 0
      BY <2>1, <2>2, <2>3, <3>1, CopilotAssumption
    <3> QED BY <2>3, <3>1, <3>2 DEF IInv, RolesAlternate
  <2>4. CASE ~(Len(history) > Window)
    <3>1. Start = 1 /\ 1 \in DOMAIN history
      BY <2>1, <2>2, <2>4, CopilotAssumption DEF Start
    <3> QED BY <2>4, <3>1 DEF IInv, RolesAlternate
  <2> QED BY <2>3, <2>4
<1> QED BY <1>1, CopilotInvariant, PTL

-----------------------------------------------------------------------------
(* CommandsBounded.  A conversation is counted back from each of its       *)
(* messages to the last question; the thread at work keeps that count, for *)
(* the last message, in loops.                                             *)

Outputs(h, i, j) == {k \in i..j : h[k].kind = "output"}
NoQuestion(h, i, j) == \A k \in i..j : h[k].kind # "question"

\* Counted back from message j, there are no more than n outputs before a question.
Counted(h, j, n) ==
  \A i \in DOMAIN h : NoQuestion(h, i, j) => Cardinality(Outputs(h, i, j)) <= n
Bounded(h) == \A j \in DOMAIN h : Counted(h, j, MaxLoops)

LInv ==
  /\ \A t \in Threads : response[t].kind \in {"answer", "command"}
  /\ \A t \in Threads : pc[t] \notin Rest => Counted(history, Len(history), loops[t])
  /\ Bounded(history)

\* What was counted back from an earlier message still holds when one is pushed.
LEMMA CountedKept ==
  ASSUME NEW h \in Seq(Message), NEW e \in Message, NEW j \in 1..Len(h), NEW n \in Nat,
         Counted(h, j, n)
  PROVE  Counted(Append(h, e), j, n)
<1> DEFINE g == Append(h, e)
<1>1. /\ Len(h) \in Nat /\ j \in Nat /\ DOMAIN h = 1..Len(h) /\ DOMAIN g = 1..(Len(h) + 1)
      /\ \A k \in 1..Len(h) : g[k] = h[k]
  BY Grow
<1>. HIDE DEF g
<1>2. SUFFICES ASSUME NEW i \in 1..(Len(h) + 1), NoQuestion(g, i, j)
               PROVE  Cardinality(Outputs(g, i, j)) <= n
  BY <1>1 DEF Counted, g
<1>3. CASE i \in 1..Len(h)
  <2>1. \A k \in i..j : g[k] = h[k]
    BY <1>1, <1>3
  <2>2. NoQuestion(h, i, j) /\ Outputs(g, i, j) = Outputs(h, i, j)
    BY <1>2, <2>1 DEF NoQuestion, Outputs
  <2>. QED
    BY <1>1, <1>3, <2>2 DEF Counted
<1>4. CASE i = Len(h) + 1
  <2>1. i..j = {}
    BY <1>1, <1>4
  <2>2. Cardinality(Outputs(g, i, j)) = 0
    BY <2>1, FS_EmptySet DEF Outputs
  <2>. QED
    BY <2>2
<1>. QED
  BY <1>1, <1>3, <1>4

\* The message that is pushed adds one to the count if it is an output.
LEMMA CountedGrows ==
  ASSUME NEW h \in Seq(Message), NEW e \in Message, NEW n \in Nat, NEW m \in Nat,
         n <= m, e.kind = "output" => n + 1 <= m,
         Counted(h, Len(h), n)
  PROVE  Counted(Append(h, e), Len(h) + 1, m)
<1> DEFINE g == Append(h, e)
<1>1. PICK l : l = Len(h)
  OBVIOUS
<1>2. /\ l \in Nat /\ DOMAIN h = 1..l /\ DOMAIN g = 1..(l + 1)
      /\ g[l + 1] = e /\ \A k \in 1..l : g[k] = h[k]
  BY <1>1, Grow
<1>. HIDE DEF g
<1>3. SUFFICES ASSUME NEW i \in 1..(l + 1), NoQuestion(g, i, l + 1)
               PROVE  Cardinality(Outputs(g, i, l + 1)) <= m
  BY <1>1, <1>2 DEF Counted, g
<1>4. /\ IsFiniteSet(Outputs(h, i, l))
      /\ Cardinality(Outputs(h, i, l)) \in Nat /\ Cardinality(Outputs(h, i, l)) <= n
  <2>1. CASE i \in 1..l
    <3>1. NoQuestion(h, i, l)
      BY <1>2, <1>3, <2>1 DEF NoQuestion
    <3>2. IsFiniteSet(Outputs(h, i, l))
      <4>1. IsFiniteSet(i..l)
        BY <1>2, <2>1, FS_Interval
      <4>. QED
        BY <4>1, FS_Subset DEF Outputs
    <3>. QED
      BY <1>1, <1>2, <2>1, <3>1, <3>2, FS_CardinalityType DEF Counted
  <2>2. CASE i = l + 1
    <3>1. Outputs(h, i, l) = {}
      BY <1>2, <2>2 DEF Outputs
    <3>. QED
      BY <3>1, FS_EmptySet
  <2>. QED
    BY <1>2, <2>1, <2>2
<1>5. l + 1 \notin Outputs(h, i, l)
  BY <1>2 DEF Outputs
<1>6. Outputs(g, i, l + 1) =
        IF e.kind = "output" THEN Outputs(h, i, l) \cup {l + 1} ELSE Outputs(h, i, l)
  <2>1. \A k : k \in i..(l + 1) <=> k \in i..l \/ k = l + 1
    BY <1>2
  <2>2. \A k \in i..l : g[k] = h[k]
    BY <1>2
  <2>. QED
    BY <1>2, <2>1, <2>2 DEF Outputs
<1>7. CASE e.kind = "output"
  <2>1. Cardinality(Outputs(g, i, l + 1)) = Cardinality(Outputs(h, i, l)) + 1
    BY <1>4, <1>5, <1>6, <1>7, FS_AddElement
  <2>. QED
    BY <1>4, <1>7, <2>1
<1>8. CASE e.kind # "output"
  BY <1>4, <1>6, <1>8
<1>. QED
  BY <1>7, <1>8

\* A conversation stays bounded when something other than an output is pushed, or an
\* output with room for it.
LEMMA BoundedGrows ==
  ASSUME NEW h \in Seq(Message), NEW e \in Message, Bounded(h),
         \/ e.kind # "output"
         \/ \E n \in Nat : n < MaxLoops /\ Counted(h, Len(h), n)
  PROVE  Bounded(Append(h, e))
<1> USE CopilotAssumption
<1>1. Len(h) \in Nat /\ DOMAIN h = 1..Len(h) /\ DOMAIN Append(h, e) = 1..(Len(h) + 1)
  BY Grow
<1>2. \A j \in 1..Len(h) : Counted(Append(h, e), j, MaxLoops)
  BY <1>1, CountedKept DEF Bounded
<1>3. Counted(Append(h, e), Len(h) + 1, MaxLoops)
  <2>1. CASE e.kind # "output"
    <3>1. Counted(h, Len(h), MaxLoops)
      <4>1. CASE Len(h) = 0
        BY <1>1, <4>1 DEF Counted
      <4>2. CASE Len(h) # 0
        BY <1>1, <4>2 DEF Bounded
      <4>. QED
        BY <4>1, <4>2
    <3>. QED
      BY <2>1, <3>1, CountedGrows
  <2>2. CASE \E n \in Nat : n < MaxLoops /\ Counted(h, Len(h), n)
    BY <2>2, CountedGrows
  <2>. QED
    BY <2>1, <2>2
<1>. QED
  BY <1>1, <1>2, <1>3 DEF Bounded

LEMMA InitLInv == Init => LInv
  BY DEF Init, LInv, Bounded, Response, Rest

LEMMA NextLInv == IInv /\ LInv /\ [Next]_vars => LInv'
<1> SUFFICES ASSUME IInv, LInv, [Next]_vars PROVE LInv'
  OBVIOUS
<1> USE CopilotAssumption
<1>1. /\ history \in Seq(Message) /\ Len(history) \in Nat
      /\ pc \in [Threads -> Places] /\ loops \in [Threads -> 0..MaxLoops]
      /\ response \in [Threads -> Message] /\ Bounded(history)
      /\ \A t \in Threads : response[t].kind \in {"answer", "command"}
      /\ \A t \in Threads : pc[t] \notin Rest => Counted(history, Len(history), loops[t])
      /\ \A t \in Threads : pc[t] \notin Rest => \A u \in Threads \ {t} : pc[u] \in Rest
  BY DEF IInv, TypeOK, OneWriter, LInv, Places, Rest
<1>2. Question.kind = "question" /\ Output.kind = "output"
  BY DEF Question, Output
\* A question ends the count: no message is reached that stands before it.
<1>3. Bounded(Append(history, Question))
      /\ \A n \in Nat : Counted(Append(history, Question), Len(history) + 1, n)
  <2>1. Bounded(Append(history, Question))
    <3>1. Question \in Message /\ Question.kind # "output"
      BY <1>2, Messages
    <3>. QED
      BY <1>1, <3>1, BoundedGrows
  <2>2. ASSUME NEW i \in DOMAIN Append(history, Question)
        PROVE  ~NoQuestion(Append(history, Question), i, Len(history) + 1)
    <3>1. i \in 1..(Len(history) + 1) /\ Append(history, Question)[Len(history) + 1] = Question
      BY <1>1, <2>2, Messages, Grow
    <3>2. Len(history) + 1 \in i..(Len(history) + 1)
      BY <1>1, <3>1
    <3>. QED
      BY <1>2, <3>1, <3>2 DEF NoQuestion
  <2>. QED
    BY <2>1, <2>2 DEF Counted
<1>4. CASE SendOnline
  <2>1. /\ history' = Append(history, Question) /\ Len(history') = Len(history) + 1
        /\ response' = response
    BY <1>1, <1>4, Messages, Grow DEF SendOnline
  <2>2. \A t \in Threads : loops'[t] \in Nat
    BY <1>1, <1>4 DEF SendOnline
  <2>. QED
    BY <1>1, <1>3, <2>1, <2>2 DEF LInv
<1>5. CASE SendOffline
  <2> DEFINE h == Append(history, Question)
             e == Response("answer", Len(history) + 1)
  <2>1. h \in Seq(Message) /\ e \in Message /\ e.kind # "output"
    BY <1>1, Messages, Grow
  <2>2. history' = Append(h, e) /\ UNCHANGED <<pc, loops, response>> /\ ~busy
    BY <1>5 DEF SendOffline, local
  <2>3. Bounded(h)
    BY <1>3
  <2>. HIDE DEF h, e
  <2>4. Bounded(history')
    BY <2>1, <2>2, <2>3, BoundedGrows
  <2>5. \A t \in Threads : pc'[t] \in Rest
    BY <2>2 DEF IInv, OneWriter, Rest
  <2>. QED
    BY <1>1, <2>2, <2>4, <2>5 DEF LInv
<1>6. ASSUME NEW t \in Threads, OnApiResponse(t) PROVE LInv'
  <2>1. /\ history' = Append(history, response[t]) /\ response' = response
        /\ \A u \in Threads : pc'[u] \in Rest
    BY <1>1, <1>6 DEF OnApiResponse, Rest
  <2>2. Bounded(history')
    BY <1>1, <2>1, BoundedGrows
  <2>. QED
    BY <1>1, <2>1, <2>2 DEF LInv
<1>7. ASSUME NEW t \in Threads, CommandEnds(t) PROVE LInv'
  <2>1. /\ history' = Append(history, response[t]) /\ UNCHANGED <<response, loops>>
        /\ pc[t] = "command" /\ \A u \in Threads \ {t} : pc[u] \in Rest /\ pc'[u] = pc[u]
        /\ Len(history') = Len(history) + 1
    BY <1>1, <1>7, Grow DEF CommandEnds, Rest
  <2>2. Counted(history, Len(history), loops[t]) /\ loops[t] \in Nat
    BY <1>1, <2>1 DEF Rest
  <2>3. Counted(history', Len(history) + 1, loops[t])
    BY <1>1, <2>1, <2>2, CountedGrows
  <2>4. Bounded(history')
    BY <1>1, <2>1, BoundedGrows
  <2>. QED
    BY <1>1, <2>1, <2>3, <2>4 DEF LInv
<1>8. ASSUME NEW t \in Threads, FeedOutput(t) PROVE LInv'
  <2>1. /\ history' = Append(history, Output) /\ UNCHANGED response
        /\ pc[t] = "output" /\ \A u \in Threads \ {t} : pc[u] \in Rest /\ pc'[u] = pc[u]
        /\ Len(history') = Len(history) + 1
        /\ loops'[t] = loops[t] + 1
    BY <1>1, <1>8, Messages, Grow DEF FeedOutput, Rest
  <2>2. /\ Counted(history, Len(history), loops[t]) /\ loops[t] \in Nat
        /\ loops[t] < MaxLoops /\ loops[t] + 1 \in Nat
    BY <1>1, <2>1 DEF Rest, IInv, LoopsLeft
  <2>3. Counted(history', Len(history) + 1, loops[t] + 1)
    BY <1>1, <1>2, <2>1, <2>2, Messages, CountedGrows
  <2>4. Bounded(history')
    BY <1>1, <2>1, <2>2, Messages, BoundedGrows
  <2>. QED
    BY <1>1, <2>1, <2>3, <2>4 DEF LInv
<1>9. ASSUME NEW t \in Threads, NEW k \in {"answer", "command"}, CurlEnds(t, k) PROVE LInv'
  <2>1. /\ UNCHANGED <<history, loops>> /\ pc[t] = "curl"
        /\ \A u \in Threads \ {t} : pc'[u] = pc[u]
        /\ response'[t] = Response(k, request)
        /\ \A u \in Threads \ {t} : response'[u] = response[u]
    BY <1>1, <1>9 DEF CurlEnds
  <2>2. Response(k, request).kind = k
    BY DEF Response
  <2>. QED
    BY <1>1, <2>1, <2>2 DEF LInv, Rest
<1>10. ASSUME NEW t \in Threads, Build(t) \/ Post(t) PROVE LInv'
  <2>1. /\ UNCHANGED <<history, loops, response>> /\ pc[t] \notin Rest
        /\ \A u \in Threads \ {t} : pc'[u] = pc[u]
    BY <1>1, <1>10 DEF Build, Post, Rest
  <2>. QED
    BY <1>1, <2>1 DEF LInv, Rest
<1>11. CASE CloseWindow \/ Closed \/ Quiet \/ UNCHANGED vars
  <2>1. UNCHANGED <<history, loops, response, pc>>
    BY <1>11 DEF CloseWindow, Closed, Quiet, vars, local
  <2>. QED
    BY <2>1 DEF LInv
<1>. QED
  BY <1>4, <1>5, <1>6, <1>7, <1>8, <1>9, <1>10, <1>11 DEF Next, ThreadStep

\* However many questions are asked, and whatever the API answers to them, no more
\* than MaxLoops outputs of commands stand between two questions
\* (online_thread_func).
THEOREM CopilotCommandsBounded == Spec => []CommandsBounded
<1>1. IInv /\ LInv => CommandsBounded
  <2>. SUFFICES ASSUME LInv, NEW i \in DOMAIN history, NEW j \in DOMAIN history,
                       \A k \in i..j : history[k].kind # "question"
                PROVE  Cardinality({k \in i..j : history[k].kind = "output"}) <= MaxLoops
    BY DEF CommandsBounded
  <2>. QED
    BY DEF LInv, Bounded, Counted, NoQuestion, Outputs
<1>2. Spec => []LInv
  BY InitLInv, NextLInv, CopilotInvariant, PTL DEF Spec
<1>. QED
  BY <1>1, <1>2, CopilotInvariant, PTL

==============================================================================
