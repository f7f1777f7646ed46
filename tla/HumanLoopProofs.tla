---------------------------- MODULE HumanLoopProofs ----------------------------
(***************************************************************************)
(* Proofs about HumanLoop, for any number of turns, host threads, messages, *)
(* requests and cancels.                                                    *)
(***************************************************************************)
EXTENDS HumanLoop, FiniteSetTheorems, SequenceTheorems, TLAPS

Tasks ==
  {Idle}
    \cup [op : {"injectRow", "retractRow"}, m : Messages]
    \cup [op : {"answerRow", "answerSend"}, q : Requests]
    \cup [op : {"cancelEach"}, todo : SUBSET Requests]
    \cup [op : {"cancelSend"}, todo : SUBSET Requests, q : Requests]

\* A host call does one of the things above; a turn that asks has a request.
TypeInv ==
  /\ TypeOK
  /\ host \in [Hosts -> Tasks]
  /\ \A t \in Turns : pc[t] \in {"ask", "waiting"} => asks[t] > 0

\* A request nobody can have heard of yet: it was not made, or is being made.
Unasked(q) ==
  \/ q[2] > asks[q[1]]
  \/ pc[q[1]] = "ask" /\ q[2] = asks[q[1]]

Open(q) == reply[q] = "none" /\ bubble[q] # "interrupted"

\* A request is at one place: with the turn that makes it, in the broker, or
\* with one host call; until that call is through with it the turn is not told.
PlaceInv ==
  /\ \A q \in Requests : Unasked(q) =>
       q \notin pending /\ Open(q) /\ q \notin answered
  /\ \A q \in pending : Open(q) /\ q \notin answered
  /\ \A h \in Hosts, q \in Requests : HoldsRequest(h, q) =>
       /\ q \notin pending /\ ~Unasked(q) /\ reply[q] = "none"
       /\ \A k \in Hosts : HoldsRequest(k, q) => k = h

\* What each step of a host call has done to the request it holds.
MarkInv ==
  \A h \in Hosts :
    /\ host[h].op = "answerRow" => host[h].q \notin answered /\ Open(host[h].q)
    /\ host[h].op = "answerSend" => host[h].q \in answered /\ Open(host[h].q)
    /\ host[h].op \in {"cancelEach", "cancelSend"} =>
         host[h].todo \cap answered = {}
    /\ host[h].op = "cancelSend" =>
         host[h].q \in host[h].todo /\ bubble[host[h].q] = "interrupted"

RequestInv == PlaceInv /\ MarkInv /\ OneOutcome /\ WaitingIsResolvable

\* A message is queued once, and what is said of it was injected.
QueueInv ==
  /\ \A i, j \in 1 .. Len(queue) : queue[i] = queue[j] => i = j
  /\ Contents(queue) \cup delivered \cup rows \subseteq injected
  /\ \A r \in retracted : r.m \in injected

Writes(h, m) == host[h].op = "injectRow" /\ host[h].m = m

\* A message whose row is not written yet has one call that writes it; a message
\* that was taken off the queue is in no queue and no model input, and one that
\* was taken back for good has no row to come.
CallInv ==
  /\ \A h \in Hosts, m \in Messages : Writes(h, m) =>
       /\ m \in injected \ rows
       /\ \A k \in Hosts : Writes(k, m) => k = h
  /\ \A h \in Hosts : host[h].op = "retractRow" =>
       host[h].m \in injected /\ host[h].m \notin Contents(queue) \cup delivered
  /\ \A r \in retracted : r.ok =>
       r.m \notin Contents(queue) /\ \A h \in Hosts : ~Writes(h, r.m)

MessageInv == QueueInv /\ CallInv /\ MessageOnce

IInv == TypeInv /\ RequestInv /\ QueueHasReader /\ MessageInv

-----------------------------------------------------------------------------
\* A sequence without its i-th element.
LEMMA Remaining ==
  ASSUME NEW S, NEW s \in Seq(S), NEW i \in 1 .. Len(s)
  PROVE  /\ RemoveAt(s, i) \in Seq(S)
         /\ Len(RemoveAt(s, i)) = Len(s) - 1
         /\ \A j \in 1 .. (Len(s) - 1) :
              RemoveAt(s, i)[j] = IF j < i THEN s[j] ELSE s[j + 1]
<1> DEFINE a == SubSeq(s, 1, i - 1)
           b == SubSeq(s, i + 1, Len(s))
<1>1. a \in Seq(S) /\ Len(a) = i - 1 /\ \A j \in 1 .. (i - 1) : a[j] = s[j]
  OBVIOUS
<1>2. b \in Seq(S) /\ Len(b) = Len(s) - i
      /\ \A j \in 1 .. (Len(s) - i) : b[j] = s[i + j]
  OBVIOUS
<1> HIDE DEF a, b
<1>3. /\ a \o b \in Seq(S) /\ Len(a \o b) = Len(a) + Len(b)
      /\ \A j \in 1 .. (Len(a) + Len(b)) :
           (a \o b)[j] = IF j <= Len(a) THEN a[j] ELSE b[j - Len(a)]
  BY <1>1, <1>2, ConcatProperties
<1>4. RemoveAt(s, i) = a \o b
  BY DEF RemoveAt, a, b
<1>5. ASSUME NEW j \in 1 .. (Len(s) - 1)
      PROVE  (a \o b)[j] = IF j < i THEN s[j] ELSE s[j + 1]
  <2>0. Len(a) + Len(b) = Len(s) - 1 /\ Len(a) = i - 1
    BY <1>1, <1>2
  <2>1. CASE j < i
    <3>1. j \in 1 .. (Len(a) + Len(b)) /\ j <= Len(a) /\ j \in 1 .. (i - 1)
      BY <2>0, <2>1
    <3> QED BY <3>1, <2>1, <1>1, <1>3
  <2>2. CASE ~(j < i)
    <3>1. j \in 1 .. (Len(a) + Len(b)) /\ ~(j <= Len(a))
      BY <2>0, <2>2
    <3>2. j - Len(a) \in 1 .. (Len(s) - i) /\ i + (j - Len(a)) = j + 1
      BY <2>0, <2>2
    <3> QED BY <3>1, <3>2, <2>2, <1>2, <1>3
  <2> QED BY <2>1, <2>2
<1>6. Len(a) + Len(b) = Len(s) - 1
  BY <1>1, <1>2
<1> QED BY <1>3, <1>4, <1>5, <1>6

\* What a task of a host call carries.
LEMMA TaskFacts ==
  ASSUME TypeInv, NEW h \in Hosts
  PROVE  /\ host[h].op \in {"injectRow", "retractRow"} => host[h].m \in Messages
         /\ host[h].op \in {"answerRow", "answerSend"} =>
              host[h].q \in Requests /\ host[h] = [op |-> host[h].op, q |-> host[h].q]
         /\ host[h].op \in {"cancelEach", "cancelSend"} => host[h].todo \subseteq Requests
         /\ host[h].op = "cancelSend" => host[h].q \in Requests
BY DEF TypeInv, Tasks, Idle

\* A task with another name.
LEMMA Renamed ==
  ASSUME NEW task, NEW op, NEW q, task = [op |-> op, q |-> q], NEW name
  PROVE  [task EXCEPT !.op = name] = [op |-> name, q |-> q]
OBVIOUS

\* The initial state is well typed.
LEMMA TypeInit == Init => TypeInv
<1> SUFFICES ASSUME Init PROVE TypeInv
  OBVIOUS
<1>1. Runtime!TypeOK
  <2>1. Cardinality(Turns) \in Nat
    BY HumanLoopAssumption, FS_CardinalityType
  <2> QED BY <2>1 DEF Init, Runtime!Init, Runtime!TypeOK, Runtime!Statuses,
                      Runtime!Generations, Runtime!NoGen, Runtime!Runs
<1>2. asks \in [Turns -> 0 .. MaxAsks] /\ cancels \in 0 .. MaxCancels /\ queue \in Seq(Messages)
  BY HumanLoopAssumption DEF Init
<1>3. pc \in [Turns -> {"idle", "prepare", "done"} \cup Guarded]
  BY DEF Init
<1>4. /\ reply \in [Requests -> {"none", "answer", "cancel"}]
      /\ bubble \in [Requests -> {"absent", "open", "interrupted"}]
  BY DEF Init
<1>5. TypeOK
  BY <1>1, <1>2, <1>3, <1>4 DEF Init, TypeOK
<1> QED BY <1>5 DEF Init, TypeInv, Tasks

\* Whatever a turn does to the generations keeps their types.
LEMMA RuntimeTyped ==
  ASSUME Runtime!TypeOK, NEW t \in Turns,
         \/ Runtime!Start(t) \/ Runtime!ObserveCancel(t) \/ Runtime!LastPoll(t)
         \/ Runtime!Finish(t) \/ UNCHANGED runtimeVars
  PROVE  Runtime!TypeOK'
<1>1. Cardinality(Turns) \in Nat
  BY HumanLoopAssumption, FS_CardinalityType
<1>2. CASE Runtime!Start(t)
  <2>1. (current + 1) % (Cardinality(Turns) + 1) \in Runtime!Generations
    BY <1>1 DEF Runtime!TypeOK, Runtime!Generations
  <2> QED BY <1>2, <2>1 DEF Runtime!Start, Runtime!StartNewGeneration, Runtime!TypeOK,
                            Runtime!Statuses, Runtime!Runs
<1>3. CASE UNCHANGED runtimeVars
  BY <1>3 DEF runtimeVars, Runtime!TypeOK, Runtime!Statuses, Runtime!Runs, Runtime!Generations,
              Runtime!NoGen
<1>4. CASE Runtime!ObserveCancel(t) \/ Runtime!LastPoll(t) \/ Runtime!Finish(t)
  BY <1>4 DEF Runtime!ObserveCancel, Runtime!LastPoll, Runtime!Finish, Runtime!TypeOK,
              Runtime!Statuses, Runtime!Runs, Runtime!Generations, Runtime!NoGen
<1> QED BY <1>2, <1>3, <1>4

\* A step of a turn keeps the types.
LEMMA TypeTurn ==
  ASSUME TypeInv, NEW t \in Turns, TurnStep(t)
  PROVE  TypeInv'
<1> USE DEF TypeInv, TypeOK, askVars, queueVars, messageVars, Goto, Guarded
<1>0. Runtime!TypeOK'
  BY RuntimeTyped DEF TurnStep, Begin, Activate, StopOnCancel, Drain, Ask, Register,
     Resume, Answered, DropGuard, runtimeVars
<1>1. CASE Begin(t)
  BY <1>0, <1>1 DEF Begin
<1>2. CASE Activate(t)
  BY <1>0, <1>2 DEF Activate
<1>3. CASE StopOnCancel(t)
  BY <1>0, <1>3 DEF StopOnCancel
<1>4. CASE Drain(t)
  <2>1. queue' \in Seq(Messages) /\ delivered' \subseteq Messages
    BY <1>4 DEF Drain, Contents
  <2> QED BY <1>0, <1>4, <2>1 DEF Drain
<1>5. CASE Ask(t)
  <2>1. asks' \in [Turns -> 0 .. MaxAsks] /\ <<t, asks[t] + 1>> \in Requests
    BY <1>5, HumanLoopAssumption DEF Ask, Requests
  <2> QED BY <1>0, <1>5, <2>1 DEF Ask
<1>6. CASE Register(t)
  <2>1. Asked(t) \in Requests
    BY <1>6, HumanLoopAssumption DEF Register, Requests, Asked
  <2> QED BY <1>0, <1>6, <2>1 DEF Register
<1>7. CASE Resume(t)
  BY <1>0, <1>7 DEF Resume
<1>8. CASE Answered(t)
  BY <1>0, <1>8 DEF Answered
<1>9. CASE DropGuard(t)
  <2>1. queue' \in Seq(Messages) /\ pc' \in [Turns -> {"idle", "prepare", "done"} \cup Guarded]
    BY <1>9 DEF DropGuard
  <2> QED BY <1>0, <1>9, <2>1 DEF DropGuard
<1> QED BY <1>1, <1>2, <1>3, <1>4, <1>5, <1>6, <1>7, <1>8, <1>9 DEF TurnStep

\* So does a step of a host call.
LEMMA TypeHost ==
  ASSUME TypeInv, NEW h \in Hosts, HostContinues(h) \/ HostCalls(h)
  PROVE  TypeInv'
<1> USE DEF TypeInv, TypeOK, askVars, queueVars, messageVars, HostDoes
<1>0. Runtime!TypeOK'
  <2>1. CASE Runtime!Cancel
    BY <2>1 DEF Runtime!Cancel, Runtime!TypeOK, Runtime!Statuses, Runtime!Runs,
                Runtime!Generations, Runtime!NoGen
  <2>2. CASE UNCHANGED runtimeVars
    BY <2>2 DEF runtimeVars, Runtime!TypeOK, Runtime!Statuses, Runtime!Runs,
                Runtime!Generations, Runtime!NoGen
  <2> QED BY <2>1, <2>2 DEF HostContinues, HostCalls, Inject, InjectRow, Retract,
             RetractRow, Answer, AnswerRow, AnswerSend, CancelTake, CancelMark,
             CancelSend, CancelFlag
<1>1. ASSUME NEW task \in Tasks, HostDoes(h, task)
      PROVE  host' \in [Hosts -> Tasks]
  BY <1>1
<1>2. Idle \in Tasks
  BY DEF Tasks
<1>3. ASSUME NEW m \in Messages, Inject(h, m)
      PROVE  TypeInv'
  <2>1. [op |-> "injectRow", m |-> m] \in Tasks
    BY DEF Tasks
  <2>2. host' \in [Hosts -> Tasks]
    BY <1>1, <1>3, <2>1 DEF Inject
  <2> QED BY <1>0, <1>3, <2>2 DEF Inject
<1>4. CASE InjectRow(h)
  <2>1. host[h].m \in Messages
    BY <1>4, TaskFacts DEF InjectRow
  <2>2. host' \in [Hosts -> Tasks]
    BY <1>1, <1>2, <1>4 DEF InjectRow
  <2> QED BY <1>0, <1>4, <2>1, <2>2 DEF InjectRow
<1>5. ASSUME NEW m \in Messages, Retract(h, m)
      PROVE  TypeInv'
  <2>1. [op |-> "retractRow", m |-> m] \in Tasks
    BY DEF Tasks
  <2>2. host' \in [Hosts -> Tasks]
    BY <1>1, <1>5, <2>1 DEF Retract
  <2>3. queue' \in Seq(Messages)
    BY <1>5, Remaining DEF Retract
  <2> QED BY <1>0, <1>5, <2>2, <2>3 DEF Retract
<1>6. CASE RetractRow(h)
  <2>1. host[h].m \in Messages
    BY <1>6, TaskFacts DEF RetractRow
  <2>2. host' \in [Hosts -> Tasks]
    BY <1>1, <1>2, <1>6 DEF RetractRow
  <2>3. rows' \subseteq Messages /\ retracted' \subseteq [m : Messages, ok : BOOLEAN]
    <3>1. (host[h].m \in rows) \in BOOLEAN
      OBVIOUS
    <3>2. [m |-> host[h].m, ok |-> host[h].m \in rows] \in [m : Messages, ok : BOOLEAN]
      BY <2>1, <3>1, Zenon
    <3> QED BY <1>6, <3>2 DEF RetractRow
  <2> QED BY <1>0, <1>6, <2>2, <2>3 DEF RetractRow
<1>7. ASSUME NEW q \in Requests, Answer(h, q)
      PROVE  TypeInv'
  <2>1. [op |-> "answerRow", q |-> q] \in Tasks
    BY DEF Tasks
  <2>2. host' \in [Hosts -> Tasks]
    BY <1>1, <1>7, <2>1 DEF Answer
  <2> QED BY <1>0, <1>7, <2>2 DEF Answer
<1>8. CASE AnswerRow(h)
  <2>1. host[h].q \in Requests /\ host[h] = [op |-> host[h].op, q |-> host[h].q]
    BY <1>8, TaskFacts DEF AnswerRow
  <2>2. [host[h] EXCEPT !.op = "answerSend"] = [op |-> "answerSend", q |-> host[h].q]
    BY <2>1, Renamed
  <2>3. [op |-> "answerSend", q |-> host[h].q] \in Tasks
    BY <2>1 DEF Tasks
  <2>4. host' \in [Hosts -> Tasks]
    BY <1>1, <1>8, <2>2, <2>3 DEF AnswerRow
  <2> QED BY <1>0, <1>8, <2>1, <2>4 DEF AnswerRow
<1>9. CASE AnswerSend(h)
  <2>1. host[h].q \in Requests
    BY <1>9, TaskFacts DEF AnswerSend
  <2>2. host' \in [Hosts -> Tasks]
    BY <1>1, <1>2, <1>9 DEF AnswerSend
  <2> QED BY <1>0, <1>9, <2>1, <2>2 DEF AnswerSend
<1>10. CASE CancelTake(h)
  <2>1. [op |-> "cancelEach", todo |-> pending] \in Tasks
    BY DEF Tasks
  <2>2. host' \in [Hosts -> Tasks]
    BY <1>1, <1>10, <2>1 DEF CancelTake
  <2>3. cancels' \in 0 .. MaxCancels /\ queue' \in Seq(Messages)
    BY <1>10, HumanLoopAssumption DEF CancelTake
  <2> QED BY <1>0, <1>10, <2>2, <2>3 DEF CancelTake
<1>11. CASE CancelMark(h)
  <2>1. host[h].todo \subseteq Requests
    BY <1>11, TaskFacts DEF CancelMark
  <2>2. PICK q \in host[h].todo :
          /\ bubble' = [bubble EXCEPT ![q] = "interrupted"]
          /\ HostDoes(h, [op |-> "cancelSend", todo |-> host[h].todo, q |-> q])
    BY <1>11 DEF CancelMark
  <2>3. [op |-> "cancelSend", todo |-> host[h].todo, q |-> q] \in Tasks
    BY <2>1 DEF Tasks
  <2>4. host' \in [Hosts -> Tasks]
    BY <1>1, <2>2, <2>3
  <2> QED BY <1>0, <1>11, <2>1, <2>2, <2>4 DEF CancelMark
<1>12. CASE CancelSend(h)
  <2>1. host[h].todo \subseteq Requests /\ host[h].q \in Requests
    BY <1>12, TaskFacts DEF CancelSend
  <2>2. [op |-> "cancelEach", todo |-> host[h].todo \ {host[h].q}] \in Tasks
    BY <2>1 DEF Tasks
  <2>3. host' \in [Hosts -> Tasks]
    BY <1>1, <1>12, <2>2 DEF CancelSend
  <2> QED BY <1>0, <1>12, <2>1, <2>3 DEF CancelSend
<1>13. CASE CancelFlag(h)
  <2>1. host' \in [Hosts -> Tasks]
    BY <1>1, <1>2, <1>13 DEF CancelFlag
  <2> QED BY <1>0, <1>13, <2>1 DEF CancelFlag
<1> QED BY <1>3, <1>4, <1>5, <1>6, <1>7, <1>8, <1>9, <1>10, <1>11, <1>12, <1>13
        DEF HostContinues, HostCalls

\* Every step keeps the types.
LEMMA TypeStep == TypeInv /\ [Next]_vars => TypeInv'
<1> SUFFICES ASSUME TypeInv, [Next]_vars PROVE TypeInv'
  OBVIOUS
<1>1. CASE UNCHANGED vars
  <2>1. Runtime!TypeOK'
    BY <1>1 DEF TypeInv, TypeOK, vars, runtimeVars, Runtime!TypeOK, Runtime!Statuses,
                Runtime!Runs, Runtime!Generations, Runtime!NoGen
  <2> QED BY <1>1, <2>1 DEF TypeInv, TypeOK, vars, askVars, queueVars, messageVars
<1> QED BY <1>1, TypeTurn, TypeHost DEF Next, Quiet

-----------------------------------------------------------------------------
(* Requests *)

\* No request is made before the first step.
LEMMA RequestInit == Init => RequestInv
BY DEF Init, RequestInv, PlaceInv, MarkInv, OneOutcome, AnswerOrInterrupt, ReplyMatchesHistory,
       WaitingIsResolvable, HoldsRequest, Open, Idle

\* A request is a turn and a number, and the latest one of a turn that asks is one.
LEMMA AskedIsRequest ==
  ASSUME TypeInv
  PROVE  /\ \A q \in Requests : q[1] \in Turns /\ q[2] \in 1 .. MaxAsks /\ q = <<q[1], q[2]>>
         /\ \A t \in Turns : pc[t] \in {"ask", "waiting"} => Asked(t) \in Requests
BY HumanLoopAssumption DEF TypeInv, TypeOK, Requests, Asked

\* A turn that moves on without asking leaves the requests as they are.
LEMMA RequestElsewhere ==
  ASSUME TypeInv, RequestInv, NEW t \in Turns, UNCHANGED <<asks, askVars, host>>,
         NEW label \in {"prepare", "loop", "end", "done"},
         Goto(t, label) \/ UNCHANGED pc
  PROVE  RequestInv'
<1>1. \A q \in Requests : Unasked(q)' => Unasked(q)
  BY AskedIsRequest DEF Unasked, Goto, TypeInv, TypeOK
<1>2. \A h \in Hosts, q \in Requests : HoldsRequest(h, q)' <=> HoldsRequest(h, q)
  BY DEF HoldsRequest
<1>3. PlaceInv'
  BY <1>1, <1>2 DEF RequestInv, PlaceInv, Open, askVars
<1>4. MarkInv' /\ OneOutcome'
  BY DEF RequestInv, MarkInv, Open, OneOutcome, AnswerOrInterrupt, ReplyMatchesHistory, askVars
<1>5. WaitingIsResolvable'
  BY DEF RequestInv, WaitingIsResolvable, HoldsRequest, Asked, Goto, askVars, TypeInv, TypeOK
<1> QED BY <1>3, <1>4, <1>5 DEF RequestInv

\* The request a turn makes is at no other place.
LEMMA RequestAsk ==
  ASSUME TypeInv, RequestInv, NEW t \in Turns, Ask(t)
  PROVE  RequestInv'
<1> DEFINE new == <<t, asks[t] + 1>>
<1>1. new \in Requests /\ Unasked(new) /\ new[1] = t /\ new[2] = asks[t] + 1
  BY HumanLoopAssumption DEF Ask, Requests, Unasked, TypeInv, TypeOK
<1>2. /\ UNCHANGED <<pending, reply, answered, host>>
      /\ bubble' = [bubble EXCEPT ![new] = "open"]
  BY DEF Ask
<1>3. new \notin pending /\ reply[new] = "none" /\ new \notin answered
  BY <1>1 DEF RequestInv, PlaceInv, Open
<1>4. \A q \in Requests : Unasked(q)' => Unasked(q)
  BY AskedIsRequest DEF Unasked, Ask, Goto, TypeInv, TypeOK
<1>5. \A q \in Requests :
        bubble'[q] = IF q = new THEN "open" ELSE bubble[q]
  BY <1>2 DEF TypeInv, TypeOK
<1>6. \A h \in Hosts, q \in Requests : HoldsRequest(h, q)' <=> HoldsRequest(h, q)
  BY <1>2 DEF HoldsRequest
<1>7. \A h \in Hosts : ~HoldsRequest(h, new)
  BY <1>1 DEF RequestInv, PlaceInv
<1> HIDE DEF new
<1>8. PlaceInv'
  BY <1>2, <1>3, <1>4, <1>5, <1>6 DEF RequestInv, PlaceInv, Open
<1>9. MarkInv'
  <2> SUFFICES ASSUME NEW h \in Hosts
               PROVE  /\ host[h].op = "answerRow" => (host[h].q \notin answered /\ Open(host[h].q))'
                      /\ host[h].op = "answerSend" => (host[h].q \in answered /\ Open(host[h].q))'
                      /\ host[h].op \in {"cancelEach", "cancelSend"} =>
                           host[h].todo \cap answered = {}
                      /\ host[h].op = "cancelSend" =>
                           host[h].q \in host[h].todo /\ bubble'[host[h].q] = "interrupted"
    BY <1>2 DEF MarkInv
  <2>1. host[h].op \in {"answerRow", "answerSend", "cancelSend"} =>
          host[h].q \in Requests /\ HoldsRequest(h, host[h].q)
    BY TaskFacts DEF HoldsRequest, RequestInv, MarkInv
  <2> QED BY <1>2, <1>5, <1>7, <2>1 DEF RequestInv, MarkInv, Open
<1>10. OneOutcome'
  BY <1>2, <1>3, <1>5 DEF RequestInv, OneOutcome, AnswerOrInterrupt, ReplyMatchesHistory, TypeInv, TypeOK
<1>11. WaitingIsResolvable'
  <2> SUFFICES ASSUME NEW u \in Turns, pc'[u] = "waiting", reply'[Asked(u)'] = "none"
               PROVE  Asked(u)' \in pending' \/ \E h \in Hosts : HoldsRequest(h, Asked(u))'
    BY DEF WaitingIsResolvable
  <2>1. u # t /\ pc[u] = "waiting" /\ Asked(u)' = Asked(u)
    BY DEF Ask, Goto, Asked, TypeInv, TypeOK
  <2>2. reply[Asked(u)] = "none" /\ Asked(u) \in Requests
    BY <1>2, <2>1, AskedIsRequest
  <2> QED BY <1>2, <2>1, <2>2 DEF RequestInv, WaitingIsResolvable, HoldsRequest
<1> QED BY <1>8, <1>9, <1>10, <1>11 DEF RequestInv

\* It is with the broker once it is registered.
LEMMA RequestRegister ==
  ASSUME TypeInv, RequestInv, NEW t \in Turns, Register(t)
  PROVE  RequestInv'
<1> DEFINE new == Asked(t)
<1>1. new \in Requests /\ Unasked(new) /\ new[1] = t
  BY AskedIsRequest DEF Register, Unasked, Asked
<1>2. UNCHANGED <<asks, reply, bubble, answered, host>> /\ pending' = pending \cup {new}
  BY DEF Register
<1>3. Open(new) /\ new \notin answered /\ \A h \in Hosts : ~HoldsRequest(h, new)
  BY <1>1 DEF RequestInv, PlaceInv
<1>4. \A q \in Requests : Unasked(q)' => Unasked(q) /\ q # new
  BY AskedIsRequest DEF Unasked, Register, Goto, Asked, TypeInv, TypeOK
<1>5. \A h \in Hosts, q \in Requests : HoldsRequest(h, q)' <=> HoldsRequest(h, q)
  BY <1>2 DEF HoldsRequest
<1>6. PlaceInv'
  BY <1>1, <1>2, <1>3, <1>4, <1>5 DEF RequestInv, PlaceInv, Open
<1>7. MarkInv' /\ OneOutcome'
  BY <1>2 DEF RequestInv, MarkInv, Open, OneOutcome, AnswerOrInterrupt, ReplyMatchesHistory
<1>8. WaitingIsResolvable'
  <2> SUFFICES ASSUME NEW u \in Turns, pc'[u] = "waiting", reply'[Asked(u)'] = "none"
               PROVE  Asked(u)' \in pending' \/ \E h \in Hosts : HoldsRequest(h, Asked(u))'
    BY DEF WaitingIsResolvable
  <2>1. Asked(u)' = Asked(u)
    BY <1>2 DEF Asked
  <2>2. CASE u = t
    BY <1>2, <2>1, <2>2
  <2>3. CASE u # t
    <3>1. pc[u] = "waiting" /\ reply[Asked(u)] = "none"
      BY <1>2, <2>1, <2>3 DEF Register, Goto, TypeInv, TypeOK
    <3> QED BY <1>2, <1>5, <2>1, <3>1, AskedIsRequest DEF RequestInv, WaitingIsResolvable, HoldsRequest
  <2> QED BY <2>2, <2>3
<1> QED BY <1>6, <1>7, <1>8 DEF RequestInv

\* What a turn does keeps every request at one place.
LEMMA RequestTurn ==
  ASSUME TypeInv, RequestInv, NEW t \in Turns, TurnStep(t)
  PROVE  RequestInv'
<1>1. CASE Begin(t)
  BY <1>1, RequestElsewhere DEF Begin
<1>2. CASE Activate(t) \/ Drain(t) \/ Resume(t)
  BY <1>2, RequestElsewhere DEF Activate, Drain, Resume
<1>3. CASE StopOnCancel(t) \/ Answered(t)
  BY <1>3, RequestElsewhere DEF StopOnCancel, Answered
<1>4. CASE DropGuard(t)
  BY <1>4, RequestElsewhere DEF DropGuard
<1> QED BY <1>1, <1>2, <1>3, <1>4, RequestAsk, RequestRegister DEF TurnStep

Engaged == {"answerRow", "answerSend", "cancelEach", "cancelSend"}

\* What a host call does with one task concerns no other host thread.
LEMMA OtherHosts ==
  ASSUME TypeInv, NEW h \in Hosts, NEW task, HostDoes(h, task)
  PROVE  /\ host'[h] = task
         /\ \A k \in Hosts : k # h => host'[k] = host[k]
BY DEF HostDoes, TypeInv

\* Somebody can still tell the turn.
InReach(q) == q \in pending \/ \E h \in Hosts : HoldsRequest(h, q)

\* Turns that waited can still be told if nobody lets go of a request untold.
LEMMA StillResolvable ==
  ASSUME TypeInv, WaitingIsResolvable, UNCHANGED <<pc, asks>>,
         \A x \in Requests : reply'[x] = "none" =>
           reply[x] = "none" /\ (InReach(x) => InReach(x)')
  PROVE  WaitingIsResolvable'
<1> SUFFICES ASSUME NEW u \in Turns, pc[u] = "waiting", (reply[Asked(u)] = "none")'
             PROVE  InReach(Asked(u))'
  BY DEF WaitingIsResolvable, InReach
<1>1. Asked(u)' = Asked(u) /\ Asked(u) \in Requests
  BY AskedIsRequest DEF Asked
<1>2. reply'[Asked(u)] = "none"
  BY <1>1
<1>3. InReach(Asked(u))
  BY <1>1, <1>2 DEF WaitingIsResolvable, InReach
<1> DEFINE x == Asked(u)
<1>4. PICK y \in Requests : y = x
  BY <1>1
<1>5. InReach(y)'
  BY <1>2, <1>3, <1>4
<1> QED BY <1>1, <1>4, <1>5 DEF InReach, HoldsRequest

\* A host call that has nothing to do with a request leaves the requests alone.
LEMMA RequestAside ==
  ASSUME TypeInv, RequestInv, NEW h \in Hosts, UNCHANGED <<pc, asks, askVars>>,
         NEW task, HostDoes(h, task), task.op \notin Engaged,
         host[h].op \notin Engaged \/ (host[h].op = "cancelEach" /\ host[h].todo = {})
  PROVE  RequestInv'
<1>1. \A q \in Requests : Unasked(q)' <=> Unasked(q)
  BY DEF Unasked
<1>2. \A k \in Hosts, q \in Requests : HoldsRequest(k, q)' <=> HoldsRequest(k, q)
  BY OtherHosts DEF HoldsRequest, Engaged
<1>3. PlaceInv'
  BY <1>1, <1>2 DEF RequestInv, PlaceInv, Open, askVars
<1>4. MarkInv'
  BY OtherHosts DEF RequestInv, MarkInv, Open, Engaged, askVars
<1>5. OneOutcome'
  BY DEF RequestInv, OneOutcome, AnswerOrInterrupt, ReplyMatchesHistory, askVars
<1>6. WaitingIsResolvable'
  <2>1. \A x \in Requests : reply'[x] = "none" =>
          reply[x] = "none" /\ (InReach(x) => InReach(x)')
    BY <1>2 DEF InReach, askVars
  <2> QED BY <2>1, <1>2, StillResolvable DEF RequestInv
<1> QED BY <1>3, <1>4, <1>5, <1>6 DEF RequestInv

\* An answer takes the request out of the broker.
LEMMA RequestAnswer ==
  ASSUME TypeInv, RequestInv, NEW h \in Hosts, NEW q \in Requests, Answer(h, q)
  PROVE  RequestInv'
<1>1. /\ UNCHANGED <<pc, asks, reply, bubble, answered>> /\ pending' = pending \ {q}
      /\ q \in pending /\ host[h] = Idle
      /\ host'[h] = [op |-> "answerRow", q |-> q]
      /\ \A k \in Hosts : k # h => host'[k] = host[k]
  BY OtherHosts DEF Answer
<1>2. Open(q) /\ q \notin answered /\ ~Unasked(q) /\ \A k \in Hosts : ~HoldsRequest(k, q)
  BY <1>1 DEF RequestInv, PlaceInv
<1>3. \A x \in Requests : Unasked(x)' <=> Unasked(x)
  BY <1>1 DEF Unasked
<1>4. \A k \in Hosts, x \in Requests :
        HoldsRequest(k, x)' <=> IF k = h THEN x = q ELSE HoldsRequest(k, x)
  BY <1>1 DEF HoldsRequest
<1>5. \A x \in Requests : ~HoldsRequest(h, x)
  BY <1>1 DEF HoldsRequest, Idle
<1>6. PlaceInv'
  BY <1>1, <1>2, <1>3, <1>4, <1>5 DEF RequestInv, PlaceInv, Open
<1>7. MarkInv'
  BY <1>1, <1>2 DEF RequestInv, MarkInv, Open
<1>8. OneOutcome'
  BY <1>1 DEF RequestInv, OneOutcome, AnswerOrInterrupt, ReplyMatchesHistory
<1>9. WaitingIsResolvable'
  <2>1. \A x \in Requests : reply'[x] = "none" =>
          reply[x] = "none" /\ (InReach(x) => InReach(x)')
    BY <1>1, <1>4, <1>5 DEF InReach
  <2> QED BY <2>1, <1>1, StillResolvable DEF RequestInv
<1> QED BY <1>6, <1>7, <1>8, <1>9 DEF RequestInv

\* The row of an answer is written while the call alone holds the request.
LEMMA RequestAnswerRow ==
  ASSUME TypeInv, RequestInv, NEW h \in Hosts, AnswerRow(h)
  PROVE  RequestInv'
<1> DEFINE q == host[h].q
<1>1. q \in Requests /\ host[h] = [op |-> "answerRow", q |-> q]
  BY TaskFacts DEF AnswerRow
<1>2. [host[h] EXCEPT !.op = "answerSend"] = [op |-> "answerSend", q |-> q]
  BY <1>1, Renamed
<1>3. /\ UNCHANGED <<pc, asks, pending, reply, bubble>> /\ answered' = answered \cup {q}
      /\ host'[h] = [op |-> "answerSend", q |-> q]
      /\ \A k \in Hosts : k # h => host'[k] = host[k]
  BY <1>2, OtherHosts DEF AnswerRow
<1>4. host[h].op = "answerRow" /\ Open(q) /\ HoldsRequest(h, q)
  BY <1>1 DEF RequestInv, MarkInv, HoldsRequest
<1> HIDE DEF q
<1>5. q \notin pending /\ ~Unasked(q) /\ \A k \in Hosts : HoldsRequest(k, q) => k = h
  BY <1>1, <1>4 DEF RequestInv, PlaceInv
<1>6. \A x \in Requests : Unasked(x)' <=> Unasked(x)
  BY <1>3 DEF Unasked
<1>7. \A k \in Hosts, x \in Requests : HoldsRequest(k, x)' <=> HoldsRequest(k, x)
  BY <1>1, <1>3 DEF HoldsRequest
<1>8. PlaceInv'
  BY <1>3, <1>5, <1>6, <1>7 DEF RequestInv, PlaceInv, Open
<1>9. MarkInv'
  <2> SUFFICES ASSUME NEW k \in Hosts, k # h
               PROVE  /\ host[k].op = "answerRow" => host[k].q # q
                      /\ host[k].op \in {"cancelEach", "cancelSend"} => q \notin host[k].todo
    BY <1>3, <1>4 DEF RequestInv, MarkInv, Open
  <2> QED BY <1>5 DEF HoldsRequest
<1>10. OneOutcome'
  BY <1>3, <1>4 DEF RequestInv, OneOutcome, AnswerOrInterrupt, ReplyMatchesHistory, Open
<1>11. WaitingIsResolvable'
  <2>1. \A x \in Requests : reply'[x] = "none" =>
          reply[x] = "none" /\ (InReach(x) => InReach(x)')
    BY <1>3, <1>7 DEF InReach
  <2> QED BY <2>1, <1>3, StillResolvable DEF RequestInv
<1> QED BY <1>8, <1>9, <1>10, <1>11 DEF RequestInv

\* Then the turn is told, and the request is nowhere any more.
LEMMA RequestAnswerSend ==
  ASSUME TypeInv, RequestInv, NEW h \in Hosts, AnswerSend(h)
  PROVE  RequestInv'
<1> DEFINE q == host[h].q
<1>1. q \in Requests
  BY TaskFacts DEF AnswerSend
<1>2. /\ UNCHANGED <<pc, asks, pending, bubble, answered>>
      /\ \A x \in Requests : reply'[x] = IF x = q THEN "answer" ELSE reply[x]
      /\ host'[h] = Idle
      /\ \A k \in Hosts : k # h => host'[k] = host[k]
  BY <1>1, OtherHosts DEF AnswerSend, TypeInv, TypeOK
<1>3. host[h].op = "answerSend" /\ q \in answered /\ bubble[q] # "interrupted" /\ HoldsRequest(h, q)
  BY DEF AnswerSend, RequestInv, MarkInv, HoldsRequest, Open
<1>4. \A x \in Requests : HoldsRequest(h, x) => x = q
  BY <1>3 DEF HoldsRequest
<1> HIDE DEF q
<1>5. q \notin pending /\ ~Unasked(q) /\ \A k \in Hosts : HoldsRequest(k, q) => k = h
  BY <1>1, <1>3 DEF RequestInv, PlaceInv
<1>6. \A x \in Requests : Unasked(x)' <=> Unasked(x)
  BY <1>2 DEF Unasked
<1>7. \A k \in Hosts, x \in Requests : HoldsRequest(k, x)' <=> k # h /\ HoldsRequest(k, x)
  BY <1>2 DEF HoldsRequest, Idle
<1>8. PlaceInv'
  BY <1>2, <1>5, <1>6, <1>7, TypeInv DEF RequestInv, PlaceInv, Open, TypeInv, TypeOK
<1>9. MarkInv'
  <2>1. ASSUME NEW k \in Hosts, k # h, host[k].op \in {"answerRow", "answerSend"}
        PROVE  host[k].q \in Requests /\ host[k].q # q
    BY <1>5, <2>1, TaskFacts DEF HoldsRequest
  <2> QED BY <1>2, <2>1 DEF RequestInv, MarkInv, Open, Idle
<1>10. OneOutcome'
  BY <1>2, <1>3 DEF RequestInv, OneOutcome, AnswerOrInterrupt, ReplyMatchesHistory
<1>11. WaitingIsResolvable'
  <2>1. \A x \in Requests : reply'[x] = "none" =>
          reply[x] = "none" /\ (InReach(x) => InReach(x)')
    BY <1>2, <1>4, <1>7 DEF InReach
  <2> QED BY <2>1, <1>2, StillResolvable DEF RequestInv
<1> QED BY <1>8, <1>9, <1>10, <1>11 DEF RequestInv

\* A cancel takes every request out of the broker.
LEMMA RequestCancelTake ==
  ASSUME TypeInv, RequestInv, NEW h \in Hosts, CancelTake(h)
  PROVE  RequestInv'
<1>1. /\ UNCHANGED <<pc, asks, reply, bubble, answered>> /\ pending' = {}
      /\ host[h] = Idle
      /\ host'[h] = [op |-> "cancelEach", todo |-> pending]
      /\ \A k \in Hosts : k # h => host'[k] = host[k]
  BY OtherHosts DEF CancelTake
<1>2. \A x \in Requests : Unasked(x)' <=> Unasked(x)
  BY <1>1 DEF Unasked
<1>3. \A k \in Hosts, x \in Requests :
        HoldsRequest(k, x)' <=> IF k = h THEN x \in pending ELSE HoldsRequest(k, x)
  BY <1>1 DEF HoldsRequest
<1>4. \A x \in Requests : ~HoldsRequest(h, x)
  BY <1>1 DEF HoldsRequest, Idle
<1>5. PlaceInv'
  BY <1>1, <1>2, <1>3, <1>4 DEF RequestInv, PlaceInv, Open, TypeInv, TypeOK
<1>6. MarkInv'
  BY <1>1 DEF RequestInv, PlaceInv, MarkInv, Open
<1>7. OneOutcome'
  BY <1>1 DEF RequestInv, OneOutcome, AnswerOrInterrupt, ReplyMatchesHistory
<1>8. WaitingIsResolvable'
  <2>1. \A x \in Requests : reply'[x] = "none" =>
          reply[x] = "none" /\ (InReach(x) => InReach(x)')
    BY <1>1, <1>3, <1>4 DEF InReach
  <2> QED BY <2>1, <1>1, StillResolvable DEF RequestInv
<1> QED BY <1>5, <1>6, <1>7, <1>8 DEF RequestInv

\* It marks the row of one of those it holds, which nobody has answered.
LEMMA RequestCancelMark ==
  ASSUME TypeInv, RequestInv, NEW h \in Hosts, CancelMark(h)
  PROVE  RequestInv'
<1>1. host[h].todo \subseteq Requests /\ host[h].op = "cancelEach"
  BY TaskFacts DEF CancelMark
<1>2. PICK q \in host[h].todo :
        /\ bubble' = [bubble EXCEPT ![q] = "interrupted"]
        /\ HostDoes(h, [op |-> "cancelSend", todo |-> host[h].todo, q |-> q])
  BY DEF CancelMark
<1>3. /\ UNCHANGED <<pc, asks, pending, reply, answered>>
      /\ \A x \in Requests : bubble'[x] = IF x = q THEN "interrupted" ELSE bubble[x]
      /\ host'[h] = [op |-> "cancelSend", todo |-> host[h].todo, q |-> q]
      /\ \A k \in Hosts : k # h => host'[k] = host[k]
  BY <1>2, OtherHosts DEF CancelMark, TypeInv, TypeOK
<1>4. q \in Requests /\ HoldsRequest(h, q) /\ host[h].todo \cap answered = {}
  BY <1>1 DEF HoldsRequest, RequestInv, MarkInv
<1>5. /\ q \notin pending /\ ~Unasked(q) /\ q \notin answered /\ reply[q] = "none"
      /\ \A k \in Hosts : HoldsRequest(k, q) => k = h
  BY <1>4 DEF RequestInv, PlaceInv
<1>6. \A x \in Requests : Unasked(x)' <=> Unasked(x)
  BY <1>3 DEF Unasked
<1>7. \A k \in Hosts, x \in Requests : HoldsRequest(k, x)' <=> HoldsRequest(k, x)
  BY <1>1, <1>3 DEF HoldsRequest
<1>8. PlaceInv'
  BY <1>3, <1>5, <1>6, <1>7 DEF RequestInv, PlaceInv, Open, TypeInv, TypeOK
<1>9. MarkInv'
  <2>1. ASSUME NEW k \in Hosts, k # h, host[k].op \in {"answerRow", "answerSend"}
        PROVE  host[k].q \in Requests /\ host[k].q # q
    BY <1>5, <2>1, TaskFacts DEF HoldsRequest
  <2>2. ASSUME NEW k \in Hosts, k # h, host[k].op = "cancelSend"
        PROVE  bubble'[host[k].q] = "interrupted"
    BY <1>3, <2>2, TaskFacts DEF RequestInv, MarkInv
  <2> QED BY <1>3, <1>4, <2>1, <2>2 DEF RequestInv, MarkInv, Open
<1>10. OneOutcome'
  BY <1>3, <1>5 DEF RequestInv, OneOutcome, AnswerOrInterrupt, ReplyMatchesHistory, TypeInv, TypeOK
<1>11. WaitingIsResolvable'
  <2>1. \A x \in Requests : reply'[x] = "none" =>
          reply[x] = "none" /\ (InReach(x) => InReach(x)')
    BY <1>3, <1>7 DEF InReach
  <2> QED BY <2>1, <1>3, StillResolvable DEF RequestInv
<1> QED BY <1>8, <1>9, <1>10, <1>11 DEF RequestInv

\* Then the turn is told, and that request is nowhere any more.
LEMMA RequestCancelSend ==
  ASSUME TypeInv, RequestInv, NEW h \in Hosts, CancelSend(h)
  PROVE  RequestInv'
<1> DEFINE q == host[h].q
           rest == host[h].todo \ {q}
<1>1. q \in Requests /\ host[h].todo \subseteq Requests
  BY TaskFacts DEF CancelSend
<1>2. /\ UNCHANGED <<pc, asks, pending, bubble, answered>>
      /\ \A x \in Requests : reply'[x] = IF x = q THEN "cancel" ELSE reply[x]
      /\ host'[h] = [op |-> "cancelEach", todo |-> rest]
      /\ \A k \in Hosts : k # h => host'[k] = host[k]
  BY <1>1, OtherHosts DEF CancelSend, TypeInv, TypeOK
<1>3. /\ host[h].op = "cancelSend" /\ bubble[q] = "interrupted" /\ HoldsRequest(h, q)
      /\ rest \cap answered = {}
  BY DEF CancelSend, RequestInv, MarkInv, HoldsRequest
<1>4. \A x \in Requests : HoldsRequest(h, x) <=> x = q \/ x \in rest
  BY <1>3 DEF HoldsRequest
<1>5. q \notin rest
  OBVIOUS
<1> HIDE DEF q, rest
<1>6. q \notin pending /\ ~Unasked(q) /\ \A k \in Hosts : HoldsRequest(k, q) => k = h
  BY <1>1, <1>3 DEF RequestInv, PlaceInv
<1>7. \A x \in Requests : Unasked(x)' <=> Unasked(x)
  BY <1>2 DEF Unasked
<1>8. \A k \in Hosts, x \in Requests :
        HoldsRequest(k, x)' <=> IF k = h THEN x \in rest ELSE HoldsRequest(k, x)
  BY <1>2 DEF HoldsRequest
<1>9. PlaceInv'
  BY <1>2, <1>4, <1>5, <1>6, <1>7, <1>8 DEF RequestInv, PlaceInv, Open, TypeInv, TypeOK
<1>10. MarkInv'
  <2>1. ASSUME NEW k \in Hosts, k # h, host[k].op \in {"answerRow", "answerSend"}
        PROVE  host[k].q \in Requests /\ host[k].q # q
    BY <1>6, <2>1, TaskFacts DEF HoldsRequest
  <2> QED BY <1>2, <1>3, <2>1 DEF RequestInv, MarkInv, Open
<1>11. OneOutcome'
  BY <1>2, <1>3 DEF RequestInv, OneOutcome, AnswerOrInterrupt, ReplyMatchesHistory
<1>12. WaitingIsResolvable'
  <2>1. \A x \in Requests : reply'[x] = "none" =>
          reply[x] = "none" /\ (InReach(x) => InReach(x)')
    BY <1>2, <1>4, <1>8 DEF InReach
  <2> QED BY <2>1, <1>2, StillResolvable DEF RequestInv
<1> QED BY <1>9, <1>10, <1>11, <1>12 DEF RequestInv

\* So does a step of a host call.
LEMMA RequestHost ==
  ASSUME TypeInv, RequestInv, NEW h \in Hosts, HostContinues(h) \/ HostCalls(h)
  PROVE  RequestInv'
<1>1. ASSUME NEW m \in Messages, Inject(h, m) \/ Retract(h, m)
      PROVE  RequestInv'
  BY <1>1, RequestAside DEF Inject, Retract, Idle, Engaged
<1>2. CASE InjectRow(h) \/ RetractRow(h) \/ CancelFlag(h)
  BY <1>2, RequestAside DEF InjectRow, RetractRow, CancelFlag, Idle, Engaged
<1> QED BY <1>1, <1>2, RequestAnswer, RequestAnswerRow, RequestAnswerSend, RequestCancelTake,
           RequestCancelMark, RequestCancelSend DEF HostContinues, HostCalls

\* Every step keeps the requests in place.
LEMMA RequestStep == TypeInv /\ RequestInv /\ [Next]_vars => RequestInv'
<1> SUFFICES ASSUME TypeInv, RequestInv, [Next]_vars PROVE RequestInv'
  OBVIOUS
<1>1. CASE UNCHANGED vars
  BY <1>1 DEF vars, askVars, RequestInv, PlaceInv, MarkInv, OneOutcome, AnswerOrInterrupt,
     ReplyMatchesHistory, WaitingIsResolvable, HoldsRequest, Unasked, Open, Asked
<1> QED BY <1>1, RequestTurn, RequestHost DEF Next, Quiet

-----------------------------------------------------------------------------
(* The queue has a reader *)

LEMMA ReaderStep == TypeInv /\ QueueHasReader /\ [Next]_vars => QueueHasReader'
<1> SUFFICES ASSUME TypeInv, QueueHasReader, [Next]_vars, active'
             PROVE  \E t \in Turns : pc'[t] \in Guarded
  BY DEF QueueHasReader
<1>1. ASSUME NEW t \in Turns, TurnStep(t)
      PROVE  \E u \in Turns : pc'[u] \in Guarded
  <2>1. CASE Activate(t)
    BY <2>1 DEF Activate, Goto, Guarded, TypeInv, TypeOK
  <2>2. CASE Begin(t)
    BY <2>2 DEF Begin, Goto, Guarded, queueVars, QueueHasReader, TypeInv, TypeOK
  <2>3. CASE Drain(t)
    BY <2>3 DEF Drain, QueueHasReader
  <2>4. CASE StopOnCancel(t) \/ Ask(t) \/ Register(t) \/ Resume(t) \/ Answered(t)
    BY <2>4 DEF StopOnCancel, Ask, Register, Resume, Answered, Goto, Guarded, queueVars,
       QueueHasReader, TypeInv, TypeOK
  <2>5. CASE DropGuard(t)
    BY <2>5 DEF DropGuard
  <2> QED BY <1>1, <2>1, <2>2, <2>3, <2>4, <2>5 DEF TurnStep
<1>2. ASSUME NEW h \in Hosts, HostContinues(h) \/ HostCalls(h)
      PROVE  \E u \in Turns : pc'[u] \in Guarded
  <2>1. pc' = pc /\ active
    BY <1>2 DEF HostContinues, HostCalls, Inject, InjectRow, Retract, RetractRow, Answer,
       AnswerRow, AnswerSend, CancelTake, CancelMark, CancelSend, CancelFlag, queueVars
  <2> QED BY <2>1 DEF QueueHasReader
<1>3. CASE UNCHANGED vars
  BY <1>3 DEF vars, queueVars, QueueHasReader
<1> QED BY <1>1, <1>2, <1>3 DEF Next, Quiet

-----------------------------------------------------------------------------
(* Messages *)

\* Nothing is queued before the first step.
LEMMA MessageInit == Init => MessageInv
BY DEF Init, MessageInv, QueueInv, CallInv, MessageOnce, DeliveredOnce, RetractedIsGone,
       Contents, Writes, Idle

\* An empty queue holds nothing.
LEMMA EmptyQueue == Contents(<<>>) = {} /\ Len(<<>>) = 0
BY DEF Contents

\* A turn takes the whole queue, or drops it, or leaves it.
LEMMA MessageTurn ==
  ASSUME TypeInv, MessageInv, NEW t \in Turns, TurnStep(t)
  PROVE  MessageInv'
<1>1. UNCHANGED <<rows, injected, retracted, host>>
  BY DEF TurnStep, Begin, Activate, StopOnCancel, Drain, Ask, Register, Resume, Answered,
     DropGuard, messageVars
<1>2. \/ queue' \in {queue, <<>>} /\ delivered' = delivered
      \/ queue' = <<>> /\ delivered' = delivered \cup Contents(queue)
  BY DEF TurnStep, Begin, Activate, StopOnCancel, Drain, Ask, Register, Resume, Answered,
     DropGuard, messageVars, queueVars
<1>3. Contents(queue)' \subseteq Contents(queue) /\ Contents(queue)' \cap delivered' = {}
  BY <1>2, EmptyQueue DEF MessageInv, MessageOnce, DeliveredOnce, Contents
<1>4. Contents(queue)' \cup delivered' \subseteq Contents(queue) \cup delivered
  BY <1>2, <1>3
<1>5. QueueInv'
  <2>1. \A i, j \in 1 .. Len(queue') : queue'[i] = queue'[j] => i = j
    BY <1>2, EmptyQueue DEF MessageInv, QueueInv
  <2> QED BY <1>1, <1>4, <2>1 DEF MessageInv, QueueInv
<1>6. CallInv'
  BY <1>1, <1>3, <1>4 DEF MessageInv, CallInv, Writes
<1>7. MessageOnce'
  BY <1>1, <1>3, <1>4 DEF MessageInv, CallInv, MessageOnce, DeliveredOnce, RetractedIsGone,
  QueueInv
<1> QED BY <1>5, <1>6, <1>7 DEF MessageInv

\* A message is injected when it was not before.
LEMMA MessageInject ==
  ASSUME TypeInv, MessageInv, NEW h \in Hosts, NEW m \in Messages, Inject(h, m)
  PROVE  MessageInv'
<1>1. /\ UNCHANGED <<rows, delivered, retracted>>
      /\ injected' = injected \cup {m} /\ m \notin injected
      /\ queue' = Append(queue, m)
      /\ host[h] = Idle /\ host'[h] = [op |-> "injectRow", m |-> m]
      /\ \A k \in Hosts : k # h => host'[k] = host[k]
  BY OtherHosts DEF Inject
<1>2. /\ Len(queue') = Len(queue) + 1 /\ Len(queue) \in Nat
      /\ \A i \in 1 .. Len(queue') : queue'[i] = IF i <= Len(queue) THEN queue[i] ELSE m
  BY <1>1 DEF TypeInv, TypeOK
<1>3. Contents(queue)' = Contents(queue) \cup {m} /\ m \notin Contents(queue)
  <2>1. m \notin Contents(queue)
    BY <1>1 DEF MessageInv, QueueInv
  <2>2. Contents(queue)' \subseteq Contents(queue) \cup {m}
    BY <1>2 DEF Contents
  <2>3. m \in Contents(queue)'
    BY <1>2 DEF Contents
  <2>4. Contents(queue) \subseteq Contents(queue)'
    BY <1>2 DEF Contents
  <2> QED BY <2>1, <2>2, <2>3, <2>4
<1>4. QueueInv'
  <2>1. \A i, j \in 1 .. Len(queue') : queue'[i] = queue'[j] => i = j
    BY <1>2, <1>3 DEF MessageInv, QueueInv, Contents
  <2> QED BY <1>1, <1>3, <2>1 DEF MessageInv, QueueInv
<1>5. \A k \in Hosts, x \in Messages :
        Writes(k, x)' <=> IF k = h THEN x = m ELSE Writes(k, x)
  BY <1>1 DEF Writes
<1>6. \A k \in Hosts : ~Writes(k, m)
  BY <1>1 DEF MessageInv, CallInv
<1>7. CallInv'
  <2>1. ASSUME NEW k \in Hosts, NEW x \in Messages, Writes(k, x)'
        PROVE  x \in injected' \ rows' /\ \A l \in Hosts : Writes(l, x)' => l = k
    BY <1>1, <1>5, <1>6, <2>1 DEF MessageInv, CallInv, QueueInv
  <2>2. ASSUME NEW k \in Hosts, host'[k].op = "retractRow"
        PROVE  host'[k].m \in injected' /\ host'[k].m \notin Contents(queue)' \cup delivered'
    BY <1>1, <1>3, <2>2 DEF MessageInv, CallInv
  <2>3. ASSUME NEW r \in retracted', r.ok
        PROVE  r.m \notin Contents(queue)' /\ \A k \in Hosts : ~Writes(k, r.m)'
    <3>1. r.m \in Messages /\ r.m # m
      BY <1>1, <2>3 DEF MessageInv, QueueInv, TypeInv, TypeOK
    <3> QED BY <1>1, <1>3, <1>5, <2>3, <3>1 DEF MessageInv, CallInv
  <2> QED BY <2>1, <2>2, <2>3 DEF CallInv, Writes
<1>8. MessageOnce'
  BY <1>1, <1>3 DEF MessageInv, MessageOnce, DeliveredOnce, RetractedIsGone, QueueInv
<1> QED BY <1>4, <1>7, <1>8 DEF MessageInv

\* Its row is written by the one call that is about to.
LEMMA MessageInjectRow ==
  ASSUME TypeInv, MessageInv, NEW h \in Hosts, InjectRow(h)
  PROVE  MessageInv'
<1> DEFINE m == host[h].m
<1>1. m \in Messages
  BY TaskFacts DEF InjectRow
<1>2. /\ UNCHANGED <<queue, delivered, retracted, injected>>
      /\ rows' = rows \cup {m}
      /\ host'[h] = Idle
      /\ \A k \in Hosts : k # h => host'[k] = host[k]
  BY OtherHosts DEF InjectRow, queueVars
<1>3. Writes(h, m)
  BY DEF InjectRow, Writes
<1> HIDE DEF m
<1>4. m \in injected \ rows /\ \A k \in Hosts : Writes(k, m) => k = h
  BY <1>1, <1>3 DEF MessageInv, CallInv
<1>5. \A k \in Hosts, x \in Messages : Writes(k, x)' <=> k # h /\ Writes(k, x)
  BY <1>2 DEF Writes, Idle
<1>6. QueueInv'
  BY <1>2, <1>4 DEF MessageInv, QueueInv, Contents
<1>7. CallInv'
  <2>1. ASSUME NEW k \in Hosts, NEW x \in Messages, Writes(k, x)'
        PROVE  x \in injected' \ rows' /\ \A l \in Hosts : Writes(l, x)' => l = k
    BY <1>2, <1>4, <1>5, <2>1 DEF MessageInv, CallInv
  <2>2. ASSUME NEW k \in Hosts, host'[k].op = "retractRow"
        PROVE  host'[k].m \in injected' /\ host'[k].m \notin Contents(queue)' \cup delivered'
    BY <1>2, <2>2 DEF MessageInv, CallInv, Idle, Contents
  <2>3. ASSUME NEW r \in retracted', r.ok
        PROVE  r.m \notin Contents(queue)' /\ \A k \in Hosts : ~Writes(k, r.m)'
    <3>1. r.m \in Messages
      BY <1>2 DEF TypeInv, TypeOK
    <3> QED BY <1>2, <1>5, <2>3, <3>1 DEF MessageInv, CallInv, Contents
  <2> QED BY <2>1, <2>2, <2>3 DEF CallInv, Writes
<1>8. MessageOnce'
  <2>1. \A r \in retracted : r.ok => r.m # m
    BY <1>1, <1>3 DEF MessageInv, CallInv
  <2> QED BY <1>2, <2>1 DEF MessageInv, MessageOnce, DeliveredOnce, RetractedIsGone, Contents
<1> QED BY <1>6, <1>7, <1>8 DEF MessageInv

\* A message that is taken off the queue was there once.
LEMMA MessageRetract ==
  ASSUME TypeInv, MessageInv, NEW h \in Hosts, NEW m \in Messages, Retract(h, m)
  PROVE  MessageInv'
<1>1. /\ UNCHANGED <<rows, delivered, retracted, injected>>
      /\ host[h] = Idle /\ host'[h] = [op |-> "retractRow", m |-> m]
      /\ \A k \in Hosts : k # h => host'[k] = host[k]
  BY OtherHosts DEF Retract, messageVars
<1>2. PICK i \in 1 .. Len(queue) : queue[i] = m /\ queue' = RemoveAt(queue, i)
  BY DEF Retract, IsLatest
<1>3. /\ Len(queue') = Len(queue) - 1 /\ Len(queue) \in Nat
      /\ \A j \in 1 .. Len(queue') :
           queue'[j] = IF j < i THEN queue[j] ELSE queue[j + 1]
  <2>1. queue \in Seq(Messages) /\ Len(queue) \in Nat
    BY DEF TypeInv, TypeOK
  <2>2. /\ Len(RemoveAt(queue, i)) = Len(queue) - 1
        /\ \A j \in 1 .. (Len(queue) - 1) :
             RemoveAt(queue, i)[j] = IF j < i THEN queue[j] ELSE queue[j + 1]
    BY <2>1, Remaining
  <2> QED BY <1>2, <2>1, <2>2
<1>4. \A j \in 1 .. Len(queue') : \E k \in 1 .. Len(queue) :
        k = (IF j < i THEN j ELSE j + 1) /\ k # i /\ queue'[j] = queue[k]
  BY <1>3
<1>5. m \in Contents(queue) /\ Contents(queue)' \subseteq Contents(queue) \ {m}
  <2>1. \A k \in 1 .. Len(queue) : k # i => queue[k] # m
    BY <1>2 DEF MessageInv, QueueInv
  <2>2. \A j \in 1 .. Len(queue') : queue'[j] \in Contents(queue) \ {m}
    BY <1>4, <2>1 DEF Contents
  <2>3. Contents(queue)' \subseteq Contents(queue) \ {m}
    BY <2>2 DEF Contents
  <2> QED BY <1>2, <2>3 DEF Contents
<1>6. m \in injected /\ m \notin delivered
  BY <1>5 DEF MessageInv, QueueInv, MessageOnce, DeliveredOnce
<1>7. \A k \in Hosts, x \in Messages : Writes(k, x)' <=> Writes(k, x)
  BY <1>1 DEF Writes, Idle
<1>8. QueueInv'
  <2>1. \A j, k \in 1 .. Len(queue') : queue'[j] = queue'[k] => j = k
    BY <1>3, <1>4 DEF MessageInv, QueueInv
  <2> QED BY <1>1, <1>5, <2>1 DEF MessageInv, QueueInv
<1>9. CallInv'
  <2>1. ASSUME NEW k \in Hosts, NEW x \in Messages, Writes(k, x)'
        PROVE  x \in injected' \ rows' /\ \A l \in Hosts : Writes(l, x)' => l = k
    BY <1>1, <1>7, <2>1 DEF MessageInv, CallInv
  <2>2. ASSUME NEW k \in Hosts, host'[k].op = "retractRow"
        PROVE  host'[k].m \in injected' /\ host'[k].m \notin Contents(queue)' \cup delivered'
    BY <1>1, <1>5, <1>6, <2>2 DEF MessageInv, CallInv
  <2>3. ASSUME NEW r \in retracted', r.ok
        PROVE  r.m \notin Contents(queue)' /\ \A k \in Hosts : ~Writes(k, r.m)'
    <3>1. r.m \in Messages
      BY <1>1 DEF TypeInv, TypeOK
    <3> QED BY <1>1, <1>5, <1>7, <2>3, <3>1 DEF MessageInv, CallInv
  <2> QED BY <2>1, <2>2, <2>3 DEF CallInv, Writes
<1>10. MessageOnce'
  BY <1>1, <1>5 DEF MessageInv, MessageOnce, DeliveredOnce, RetractedIsGone
<1> QED BY <1>8, <1>9, <1>10 DEF MessageInv

\* If its row is there, the row goes, and no call is about to write it again.
LEMMA MessageRetractRow ==
  ASSUME TypeInv, MessageInv, NEW h \in Hosts, RetractRow(h)
  PROVE  MessageInv'
<1> DEFINE m == host[h].m
<1>1. m \in Messages
  BY TaskFacts DEF RetractRow
<1>2. /\ UNCHANGED <<queue, delivered, injected>>
      /\ rows' = rows \ {m}
      /\ retracted' = retracted \cup {[m |-> m, ok |-> m \in rows]}
      /\ host'[h] = Idle
      /\ \A k \in Hosts : k # h => host'[k] = host[k]
  BY OtherHosts DEF RetractRow, queueVars
<1>3. m \in injected /\ m \notin Contents(queue) \cup delivered
  BY DEF RetractRow, MessageInv, CallInv
<1> HIDE DEF m
<1>4. m \in rows => \A k \in Hosts : ~Writes(k, m)
  BY <1>1 DEF MessageInv, CallInv
<1>5. \A k \in Hosts, x \in Messages : Writes(k, x)' => Writes(k, x)
  BY <1>2 DEF Writes, Idle
<1>6. \A r \in retracted' : r \in retracted \/ (r.m = m /\ (r.ok => m \in rows))
  <2>1. [m |-> m, ok |-> m \in rows].m = m /\ [m |-> m, ok |-> m \in rows].ok = (m \in rows)
    OBVIOUS
  <2> DEFINE r0 == [m |-> m, ok |-> m \in rows]
  <2> HIDE DEF r0
  <2>2. r0.m = m /\ (r0.ok => m \in rows)
    BY <2>1, Zenon DEF r0
  <2>3. retracted' = retracted \cup {r0}
    BY <1>2 DEF r0
  <2> QED BY <2>2, <2>3
<1>7. QueueInv'
  BY <1>2, <1>3, <1>6 DEF MessageInv, QueueInv, Contents
<1>8. CallInv'
  <2>1. ASSUME NEW k \in Hosts, NEW x \in Messages, Writes(k, x)'
        PROVE  x \in injected' \ rows' /\ \A l \in Hosts : Writes(l, x)' => l = k
    BY <1>2, <1>5, <2>1 DEF MessageInv, CallInv
  <2>2. ASSUME NEW k \in Hosts, host'[k].op = "retractRow"
        PROVE  host'[k].m \in injected' /\ host'[k].m \notin Contents(queue)' \cup delivered'
    BY <1>2, <2>2 DEF MessageInv, CallInv, Idle, Contents
  <2>3. ASSUME NEW r \in retracted', r.ok
        PROVE  r.m \notin Contents(queue)' /\ \A k \in Hosts : ~Writes(k, r.m)'
    <3>1. CASE r \in retracted
      <4>1. r.m \in Messages
        BY <3>1 DEF TypeInv, TypeOK
      <4> QED BY <1>2, <1>5, <2>3, <3>1, <4>1 DEF MessageInv, CallInv, Contents
    <3>2. CASE r.m = m /\ m \in rows
      BY <1>1, <1>2, <1>3, <1>4, <1>5, <3>2 DEF Contents
    <3> QED BY <1>6, <2>3, <3>1, <3>2
  <2> QED BY <2>1, <2>2, <2>3 DEF CallInv, Writes
<1>9. MessageOnce'
  BY <1>2, <1>3, <1>6 DEF MessageInv, MessageOnce, DeliveredOnce, RetractedIsGone, Contents
<1> QED BY <1>7, <1>8, <1>9 DEF MessageInv

\* A host call about a request, or a cancel, at most drops the queue.
LEMMA MessageAside ==
  ASSUME TypeInv, MessageInv, NEW h \in Hosts, UNCHANGED messageVars,
         queue' \in {queue, <<>>}, NEW task, HostDoes(h, task),
         task.op \in {"idle"} \cup Engaged, host[h].op \in {"idle"} \cup Engaged
  PROVE  MessageInv'
<1>1. Contents(queue)' \subseteq Contents(queue)
  BY EmptyQueue DEF Contents
<1>2. \A k \in Hosts, x \in Messages : Writes(k, x)' <=> Writes(k, x)
  BY OtherHosts DEF Writes, Engaged
<1>3. UNCHANGED <<rows, injected, delivered, retracted>>
  BY DEF messageVars
<1>4. QueueInv'
  <2>1. \A i, j \in 1 .. Len(queue') : queue'[i] = queue'[j] => i = j
    BY EmptyQueue DEF MessageInv, QueueInv
  <2> QED BY <1>1, <1>3, <2>1 DEF MessageInv, QueueInv
<1>5. CallInv'
  <2>1. ASSUME NEW k \in Hosts, NEW x \in Messages, Writes(k, x)'
        PROVE  x \in injected' \ rows' /\ \A l \in Hosts : Writes(l, x)' => l = k
    BY <1>2, <1>3, <2>1 DEF MessageInv, CallInv
  <2>2. ASSUME NEW k \in Hosts, host'[k].op = "retractRow"
        PROVE  host'[k].m \in injected' /\ host'[k].m \notin Contents(queue)' \cup delivered'
    BY <1>1, <1>3, <2>2, OtherHosts DEF MessageInv, CallInv, Engaged
  <2>3. ASSUME NEW r \in retracted', r.ok
        PROVE  r.m \notin Contents(queue)' /\ \A k \in Hosts : ~Writes(k, r.m)'
    <3>1. r.m \in Messages
      BY <1>3 DEF TypeInv, TypeOK
    <3> QED BY <1>1, <1>2, <1>3, <2>3, <3>1 DEF MessageInv, CallInv
  <2> QED BY <2>1, <2>2, <2>3 DEF CallInv, Writes
<1>6. MessageOnce'
  BY <1>1, <1>3 DEF MessageInv, MessageOnce, DeliveredOnce, RetractedIsGone
<1> QED BY <1>4, <1>5, <1>6 DEF MessageInv

\* What a host call does keeps the messages in one place.
LEMMA MessageHost ==
  ASSUME TypeInv, MessageInv, NEW h \in Hosts, HostContinues(h) \/ HostCalls(h)
  PROVE  MessageInv'
<1>1. ASSUME NEW q \in Requests, Answer(h, q)
      PROVE  MessageInv'
  BY <1>1, MessageAside DEF Answer, queueVars, Idle, Engaged
<1>2. CASE AnswerRow(h)
  <2>1. host[h] = [op |-> "answerRow", q |-> host[h].q]
    BY <1>2, TaskFacts DEF AnswerRow
  <2>2. [host[h] EXCEPT !.op = "answerSend"] = [op |-> "answerSend", q |-> host[h].q]
    BY <2>1, Renamed
  <2> QED BY <1>2, <2>2, MessageAside DEF AnswerRow, queueVars, Engaged
<1>3. CASE AnswerSend(h) \/ CancelFlag(h)
  BY <1>3, MessageAside DEF AnswerSend, CancelFlag, queueVars, Idle, Engaged
<1>4. CASE CancelTake(h) \/ CancelSend(h)
  BY <1>4, MessageAside DEF CancelTake, CancelSend, queueVars, Idle, Engaged
<1>5. CASE CancelMark(h)
  <2>1. PICK q \in host[h].todo :
          HostDoes(h, [op |-> "cancelSend", todo |-> host[h].todo, q |-> q])
    BY <1>5 DEF CancelMark
  <2> QED BY <1>5, <2>1, MessageAside DEF CancelMark, queueVars, Engaged
<1> QED BY <1>1, <1>2, <1>3, <1>4, <1>5, MessageInject, MessageInjectRow, MessageRetract,
           MessageRetractRow DEF HostContinues, HostCalls

\* Every step keeps the messages in one place.
LEMMA MessageStep == TypeInv /\ MessageInv /\ [Next]_vars => MessageInv'
<1> SUFFICES ASSUME TypeInv, MessageInv, [Next]_vars PROVE MessageInv'
  OBVIOUS
<1>1. CASE UNCHANGED vars
  BY <1>1 DEF vars, messageVars, queueVars, MessageInv, QueueInv, CallInv, MessageOnce,
     DeliveredOnce, RetractedIsGone, Contents, Writes
<1> QED BY <1>1, MessageTurn, MessageHost DEF Next, Quiet

-----------------------------------------------------------------------------
(* The theorems *)

\* The inductive invariant behind the theorems below: every request and every
\* message is at one place, and what is done there is what history says.
THEOREM InductiveInvariant == Spec => []IInv
<1>1. Init => IInv
  BY TypeInit, RequestInit, MessageInit DEF Init, IInv, QueueHasReader
<1>2. IInv /\ [Next]_vars => IInv'
  BY TypeStep, RequestStep, ReaderStep, MessageStep DEF IInv
<1> QED BY <1>1, <1>2, PTL DEF Spec

\* Every variable of the broker keeps its type (human_loop.rs, runtime/sessions.rs).
THEOREM TypeCorrect == Spec => []TypeOK
<1>1. IInv => TypeOK
  BY DEF IInv, TypeInv
<1> QED BY <1>1, InductiveInvariant, PTL

\* Whoever wins the race between an answer and a cancel of one request, the turn
\* and session history hear of that one outcome (human_loop.rs:118-146, 271-290).
THEOREM OutcomesAgree == Spec => []OneOutcome
<1>1. IInv => OneOutcome
  BY DEF IInv, RequestInv
<1> QED BY <1>1, InductiveInvariant, PTL

\* No turn waits for an answer nobody can give any more, and no queue accepts
\* messages that no turn is there to read (human_loop.rs:42-79, 118-146).
THEOREM NobodyLeftBehind == Spec => []NobodyStranded
<1>1. IInv => NobodyStranded
  BY DEF IInv, RequestInv, NobodyStranded
<1> QED BY <1>1, InductiveInvariant, PTL

\* A message reaches a model input or is taken back for good, never both, and
\* none is queued again after it was delivered (human_loop.rs:65-116).
THEOREM MessagesOnce == Spec => []MessageOnce
<1>1. IInv => MessageOnce
  BY DEF IInv, MessageInv
<1> QED BY <1>1, InductiveInvariant, PTL
=============================================================================
