---------------------------- MODULE PeerTasksProofs ----------------------------
(***************************************************************************)
(* Proofs about what comes from outside.  PeerTasks, for any number of      *)
(* tasks and of runs at once, and whatever the bounds on messages, failures *)
(* and kills are.  Channels, at the end, for any number of messages and of  *)
(* pumps that overlap: that each message has one turn for each time it is   *)
(* queued and is let go of with a word, and that questions, answers and     *)
(* replies stay in their conversation.                                      *)
(***************************************************************************)
EXTENDS PeerTasks, Channels, SequenceTheorems, FiniteSetTheorems, WellFoundedInduction, TLAPS

Final == {"succeeded", "failed", "cancelled", "rejected"}
Statuses == Final \cup {"none", "pending", "accepted", "running"}

\* What the proofs use of a message: its number does not matter to them.
Proper(m) ==
  /\ m.kind \in {"request", "progress", "result"}
  /\ m.task \in Tasks
  /\ m.kind = "result" => m.status \in Statuses \cup {"unreadable"}

TypeInv ==
  /\ task \in [Engines -> [Tasks -> Statuses]]
  /\ DOMAIN log = Engines /\ DOMAIN handling = Engines
  /\ \A e \in Engines : \A m \in log[e] : Proper(m)
  /\ \A e \in Engines : handling[e] # Nothing => Proper(handling[e].msg)
  /\ runs \in [Runs -> {NoRun} \cup [pc : {"loaded", "running"}, task : Tasks]]
  /\ taken \in [Tasks -> Nat]
  /\ ran \subseteq Tasks /\ said \subseteq Tasks /\ stuck \subseteq Tasks

\* A message that had its effect is in the log of its receiver, and the one a
\* call has still to act on is in the log and had none: so it has one only once.
\* A task without a record was never taken up.
OnceInv ==
  /\ \A m \in applied : m \in log[Receiver(m)]
  /\ \A e \in Engines :
       handling[e].write = "got" =>
         /\ handling[e].msg \in log[e] \ applied
         /\ Receiver(handling[e].msg) = e
  /\ repeated = {}
  /\ \A t \in Tasks : taken[t] <= 1
  /\ \A t \in Tasks : task["worker"][t] = "none" => taken[t] = 0

\* A message that is taken for a success, and the tasks that one has a ground for.
TellsSuccess(m) == m.kind = "result" /\ m.status \in {"succeeded", "unreadable"}
Grounds == ran \cup said

\* A success has a ground wherever it is written: in a record, in a message, and in a
\* call that is about to write one.
TruthInv ==
  /\ SuccessIsTrue
  /\ \A e \in Engines : \A m \in log[e] : TellsSuccess(m) => m.task \in Grounds
  /\ \A e \in Engines :
       handling[e] # Nothing /\ TellsSuccess(handling[e].msg)
         => handling[e].msg.task \in Grounds

-----------------------------------------------------------------------------
\* The initial state is well typed.
LEMMA TypeInit == Init => TypeInv
BY DEF Init, TypeInv, Engines, Statuses, Final, Nothing

\* What the second half of a delivery does to the record of the task, to the count of
\* those taken up, and to the messages that had an effect.
LEMMA ApplyEffect ==
  ASSUME TypeInv, NEW e \in Engines, Apply(e), NEW m, m = handling[e].msg
  PROVE  /\ Proper(m) /\ handling[e].write = "got"
         /\ handling' = [handling EXCEPT ![e] = Nothing]
         /\ applied' = applied \cup {m}
         /\ repeated' = IF m \in applied THEN repeated \cup {m} ELSE repeated
         /\ \E v \in Statuses :
              /\ task' = [task EXCEPT ![e][m.task] = v]
              /\ v = IF m.kind = "request"
                     THEN IF task[e][m.task] = "none" THEN "pending" ELSE task[e][m.task]
                     ELSE IF task[e][m.task] = "none" THEN "none" ELSE StatusTold(m)
         /\ \E k \in Nat :
              /\ taken' = [taken EXCEPT ![m.task] = k]
              /\ k = IF m.kind = "request" /\ task[e][m.task] = "none"
                     THEN taken[m.task] + 1 ELSE taken[m.task]
         /\ UNCHANGED <<log, runs, arrived, lost, ran, said, stuck, started, faults>>
<1>1. handling[e].write = "got" /\ handling[e] # Nothing
  BY DEF Apply, Nothing
<1>2. Proper(m)
  BY <1>1 DEF TypeInv
<1>3. /\ handling' = [handling EXCEPT ![e] = Nothing]
      /\ applied' = applied \cup {m}
      /\ repeated' = IF m \in applied THEN repeated \cup {m} ELSE repeated
      /\ UNCHANGED <<log, runs, arrived, lost, ran, said, stuck, started, faults>>
  BY DEF Apply, counts
<1>4. \E v \in Statuses :
        /\ task' = [task EXCEPT ![e][m.task] = v]
        /\ v = IF m.kind = "request"
               THEN IF task[e][m.task] = "none" THEN "pending" ELSE task[e][m.task]
               ELSE IF task[e][m.task] = "none" THEN "none" ELSE StatusTold(m)
  <2> DEFINE v == IF m.kind = "request"
                  THEN IF task[e][m.task] = "none" THEN "pending" ELSE task[e][m.task]
                  ELSE IF task[e][m.task] = "none" THEN "none" ELSE StatusTold(m)
  <2>1. v \in Statuses
    BY <1>2 DEF TypeInv, Proper, Statuses, StatusTold, Final
  <2>2. task' = [task EXCEPT ![e][m.task] = v]
    BY DEF Apply, Recorded
  <2> HIDE DEF v
  <2> QED BY <2>1, <2>2 DEF v
<1>5. \E k \in Nat :
        /\ taken' = [taken EXCEPT ![m.task] = k]
        /\ k = IF m.kind = "request" /\ task[e][m.task] = "none"
               THEN taken[m.task] + 1 ELSE taken[m.task]
  <2> DEFINE k == IF m.kind = "request" /\ task[e][m.task] = "none"
                  THEN taken[m.task] + 1 ELSE taken[m.task]
  <2>1. k \in Nat
    BY <1>2 DEF TypeInv, Proper
  <2>2. taken' = [taken EXCEPT ![m.task] = k]
    BY DEF Apply
  <2> HIDE DEF k
  <2> QED BY <2>1, <2>2 DEF k
<1> QED BY <1>1, <1>2, <1>3, <1>4, <1>5

\* What a result that is told does to the record, to the call and to the grounds.
LEMMA ResultEffect ==
  ASSUME TypeInv, NEW t \in Tasks, NEW word \in Words, TellResult(t, word)
  PROVE  /\ Free("worker")
         /\ \E m :
              /\ Proper(m) /\ m.task = t
              /\ m.status \in Statuses \ {"none", "pending", "accepted"}
              /\ TellsSuccess(m) => t \in Grounds'
              /\ handling' = [handling EXCEPT !["worker"] = [write |-> "result", msg |-> m]]
              /\ task' = task \/ task' = [task EXCEPT !["worker"][t] = m.status]
              /\ task["worker"][t] = "none" => task' = task
              /\ m.status = "running" => t \in stuck'
              /\ m.status = "succeeded" => t \in Grounds'
         /\ said \subseteq said' /\ said' \subseteq Tasks /\ ran' = ran
         /\ stuck \subseteq stuck' /\ stuck' \subseteq Tasks
         /\ UNCHANGED <<log, runs, arrived, applied, repeated, taken, lost>>
<1> DEFINE s == ResultStatus(word)
           m == Message("result", t, s)
<1>1. s \in Statuses \ {"none", "pending", "accepted"}
  BY PeerTasksAssumption DEF ResultStatus, Statuses, Final
<1>2. /\ Free("worker")
      /\ IF task["worker"][t] = "none" THEN UNCHANGED <<task, faults>>
         ELSE Saves([task EXCEPT !["worker"][t] = s])
      /\ handling' = [handling EXCEPT !["worker"] = [write |-> "result", msg |-> m]]
      /\ said' = said \cup Claims(t, s)
      /\ stuck' = stuck \cup (IF s = "running" THEN {t} ELSE {})
      /\ UNCHANGED <<log, runs, arrived, applied, repeated, taken, lost, ran>>
  BY DEF TellResult
<1> HIDE DEF s
<1>3. task' = task \/ task' = [task EXCEPT !["worker"][t] = s]
  BY <1>2 DEF Saves
<1>4. s = "succeeded" => t \in Grounds'
  BY <1>2 DEF Claims, Grounds
<1>5. PICK n : m = [kind |-> "result", task |-> t, status |-> s, n |-> n]
  BY DEF Message
<1>6. Proper(m) /\ (TellsSuccess(m) => t \in Grounds')
  BY <1>1, <1>4, <1>5 DEF Proper, TellsSuccess, Statuses, Final
<1>7. said \subseteq said' /\ said' \subseteq Tasks /\ stuck \subseteq stuck' /\ stuck' \subseteq Tasks
  BY <1>2 DEF Claims, TypeInv
<1>8. m.task = t /\ m.status = s
  BY <1>5
<1> HIDE DEF m
<1> QED BY <1>1, <1>2, <1>3, <1>4, <1>6, <1>7, <1>8

\* Every action keeps the types.
LEMMA TypeStep == TypeInv /\ [Next]_vars => TypeInv'
<1> SUFFICES ASSUME TypeInv, [Next]_vars PROVE TypeInv'
  OBVIOUS
<1> USE DEF TypeInv, Engines, Statuses, Final, Proper, Nothing, NoRun
<1>1. ASSUME NEW t \in Tasks, Ask(t) PROVE TypeInv'
  BY <1>1 DEF Ask, Message, past, counts
<1>2. CASE RecordAsked
  BY <1>2 DEF RecordAsked, Saves, past, counts
<1>3. CASE RecordResult
  BY <1>3 DEF RecordResult, past, counts
<1>4. ASSUME NEW t \in Tasks, NEW word \in Words, TellProgress(t, word)
      PROVE TypeInv'
  BY <1>4 DEF TellProgress, Message, past, counts
<1>5. ASSUME NEW t \in Tasks, NEW word \in Words, TellResult(t, word)
      PROVE TypeInv'
  <2>1. PICK m :
          /\ Proper(m) /\ m.task = t
          /\ m.status \in Statuses \ {"none", "pending", "accepted"}
          /\ TellsSuccess(m) => t \in Grounds'
          /\ handling' = [handling EXCEPT !["worker"] = [write |-> "result", msg |-> m]]
          /\ task' = task \/ task' = [task EXCEPT !["worker"][t] = m.status]
          /\ task["worker"][t] = "none" => task' = task
          /\ m.status = "running" => t \in stuck'
          /\ m.status = "succeeded" => t \in Grounds'
    BY <1>5, ResultEffect
  <2>2. /\ said \subseteq said' /\ said' \subseteq Tasks /\ ran' = ran
        /\ stuck \subseteq stuck' /\ stuck' \subseteq Tasks
        /\ UNCHANGED <<log, runs, arrived, applied, repeated, taken, lost>>
    BY <1>5, ResultEffect
  <2> QED BY <1>5, <2>1, <2>2 DEF Statuses, Final
<1>5a. ASSUME NEW t \in Tasks, TellUnreadable(t) PROVE TypeInv'
  BY <1>5a DEF TellUnreadable, Message, Claims, counts
<1>6. ASSUME NEW m \in log["asker"] \cup log["worker"], SendFails(m) PROVE TypeInv'
  BY <1>6 DEF SendFails, Sender, past
<1>7. ASSUME NEW m \in log["asker"] \cup log["worker"], Deliver(m) PROVE TypeInv'
  BY <1>7 DEF Deliver, Receiver, counts
<1>8. ASSUME NEW e \in Engines, Apply(e) PROVE TypeInv'
  <2>1. PICK m : m = handling[e].msg
    OBVIOUS
  <2>2. task' \in [Engines -> [Tasks -> Statuses]] /\ taken' \in [Tasks -> Nat]
    BY <1>8, <2>1, ApplyEffect
  <2>3. handling' = [handling EXCEPT ![e] = Nothing]
        /\ UNCHANGED <<log, runs, ran, said, stuck>>
    BY <1>8, <2>1, ApplyEffect
  <2> QED BY <2>2, <2>3
<1>8a. ASSUME NEW e \in Engines, ApplyFails(e) PROVE TypeInv'
  BY <1>8a DEF ApplyFails, files
<1>9. ASSUME NEW e \in Engines, Crash(e) PROVE TypeInv'
  BY <1>9 DEF Crash, files
<1>10. ASSUME NEW r \in Runs, NEW t \in Tasks, NEW mode, Load(r, t, mode)
       PROVE TypeInv'
  BY <1>10 DEF Load, files, past
<1>11. ASSUME NEW r \in Runs, Start(r) PROVE TypeInv'
  BY <1>11 DEF Start, counts
<1>11a. ASSUME NEW r \in Runs, StartFails(r) PROVE TypeInv'
  BY <1>11a DEF StartFails, files, past
<1>12. ASSUME NEW r \in Runs, NEW s \in {"succeeded", "failed"}, Finish(r, s)
       PROVE TypeInv'
  BY <1>12 DEF Finish, counts
<1>12a. ASSUME NEW r \in Runs, NEW s \in {"succeeded", "failed"}, FinishUnsaved(r, s)
       PROVE TypeInv'
  BY <1>12a DEF FinishUnsaved, files
<1>13. CASE UNCHANGED vars
  BY <1>13 DEF vars, files, past, counts
<1> HIDE DEF TypeInv, Engines, Statuses, Final, Proper, Nothing, NoRun
<1> QED
  BY <1>1, <1>2, <1>3, <1>4, <1>5, <1>5a, <1>6, <1>7, <1>8, <1>8a, <1>9, <1>10, <1>11,
     <1>11a, <1>12, <1>12a, <1>13 DEF Next
-----------------------------------------------------------------------------
\* At first no message had an effect.
LEMMA OnceInit == Init => OnceInv
BY DEF Init, OnceInv, Engines, Nothing

\* A message that had its effect is seen when it comes again.
LEMMA OnceStep == TypeInv /\ OnceInv /\ [Next]_vars => OnceInv'
<1> SUFFICES ASSUME TypeInv, OnceInv, [Next]_vars PROVE OnceInv'
  OBVIOUS
<1> USE DEF OnceInv, TypeInv, Engines, Nothing, Proper
<1>1. ASSUME NEW t \in Tasks, Ask(t)
      PROVE OnceInv'
  BY <1>1 DEF Ask, Message, past, counts
<1>2. CASE RecordAsked
  BY <1>2 DEF RecordAsked, Saves, past, counts
<1>3. CASE RecordResult
  BY <1>3 DEF RecordResult, past, counts
<1>4. ASSUME NEW t \in Tasks, NEW word \in Words, TellProgress(t, word)
      PROVE OnceInv'
  BY <1>4 DEF TellProgress, Message, past, counts
<1>5. ASSUME NEW t \in Tasks, NEW word \in Words, TellResult(t, word)
      PROVE OnceInv'
  <2>1. PICK m :
          /\ Proper(m) /\ m.task = t
          /\ m.status \in Statuses \ {"none", "pending", "accepted"}
          /\ TellsSuccess(m) => t \in Grounds'
          /\ handling' = [handling EXCEPT !["worker"] = [write |-> "result", msg |-> m]]
          /\ task' = task \/ task' = [task EXCEPT !["worker"][t] = m.status]
          /\ task["worker"][t] = "none" => task' = task
          /\ m.status = "running" => t \in stuck'
          /\ m.status = "succeeded" => t \in Grounds'
    BY <1>5, ResultEffect
  <2>2. /\ said \subseteq said' /\ said' \subseteq Tasks /\ ran' = ran
        /\ stuck \subseteq stuck' /\ stuck' \subseteq Tasks
        /\ UNCHANGED <<log, runs, arrived, applied, repeated, taken, lost>>
    BY <1>5, ResultEffect
  <2> QED BY <1>5, <2>1, <2>2 DEF Statuses, Final
<1>5a. ASSUME NEW t \in Tasks, TellUnreadable(t) PROVE OnceInv'
  BY <1>5a DEF TellUnreadable, Message, Claims, counts
<1>6. ASSUME NEW m \in log["asker"] \cup log["worker"], SendFails(m)
      PROVE OnceInv'
  BY <1>6 DEF SendFails, Sender, past
<1>7. ASSUME NEW m \in log["asker"] \cup log["worker"], Deliver(m)
      PROVE OnceInv'
  BY <1>7 DEF Deliver, Seen, Receiver, Sendable, Sender, Free, counts
<1>8. ASSUME NEW e \in Engines, Apply(e)
      PROVE OnceInv'
  <2>1. PICK m : m = handling[e].msg
    OBVIOUS
  <2>2. m \in log[e] \ applied /\ Receiver(m) = e
    BY <1>8, <2>1, ApplyEffect
  <2>3. /\ \A x \in applied' : x \in log'[Receiver(x)]
        /\ repeated' = {}
    BY <1>8, <2>1, <2>2, ApplyEffect
  <2>4. ASSUME NEW d \in Engines, handling'[d].write = "got"
        PROVE  handling'[d].msg \in log'[d] \ applied' /\ Receiver(handling'[d].msg) = d
    <3>1. d # e /\ handling'[d] = handling[d] /\ log' = log /\ applied' = applied \cup {m}
      BY <1>8, <2>1, <2>4, ApplyEffect
    <3> QED BY <2>2, <2>4, <3>1
  <2>5. /\ \A t \in Tasks : taken'[t] <= 1
        /\ \A t \in Tasks : task'["worker"][t] = "none" => taken'[t] = 0
    <3>1. PICK v \in Statuses :
            /\ task' = [task EXCEPT ![e][m.task] = v]
            /\ v = IF m.kind = "request"
                   THEN IF task[e][m.task] = "none" THEN "pending" ELSE task[e][m.task]
                   ELSE IF task[e][m.task] = "none" THEN "none" ELSE StatusTold(m)
      BY <1>8, <2>1, ApplyEffect
    <3>2. PICK k \in Nat :
            /\ taken' = [taken EXCEPT ![m.task] = k]
            /\ k = IF m.kind = "request" /\ task[e][m.task] = "none"
                   THEN taken[m.task] + 1 ELSE taken[m.task]
      BY <1>8, <2>1, ApplyEffect
    <3>3. m.task \in Tasks
      BY <1>8, <2>1, ApplyEffect
    <3>4. CASE m.kind = "request"
      <4>1. e = "worker"
        BY <2>2, <3>4 DEF Receiver
      <4>2. k <= 1 /\ v # "none"
        BY <3>1, <3>2, <3>3, <3>4, <4>1 DEF Statuses
      <4> QED BY <3>1, <3>2, <3>3, <4>1, <4>2
    <3>5. CASE m.kind # "request"
      <4>1. e = "asker"
        BY <2>2, <3>5 DEF Receiver
      <4> QED BY <3>1, <3>2, <3>3, <3>5, <4>1
    <3> QED BY <3>4, <3>5
  <2> QED BY <2>3, <2>4, <2>5
<1>8a. ASSUME NEW e \in Engines, ApplyFails(e) PROVE OnceInv'
  BY <1>8a DEF ApplyFails, files
<1>9. ASSUME NEW e \in Engines, Crash(e)
      PROVE OnceInv'
  BY <1>9 DEF Crash, files
<1>10. ASSUME NEW r \in Runs, NEW t \in Tasks, NEW mode, Load(r, t, mode)
      PROVE OnceInv'
  BY <1>10 DEF Load, files, past
<1>11. ASSUME NEW r \in Runs, Start(r)
      PROVE OnceInv'
  BY <1>11 DEF Start, counts
<1>11a. ASSUME NEW r \in Runs, StartFails(r) PROVE OnceInv'
  BY <1>11a DEF StartFails, files, past
<1>12. ASSUME NEW r \in Runs, NEW s \in {"succeeded", "failed"}, Finish(r, s)
      PROVE OnceInv'
  BY <1>12 DEF Finish, counts
<1>12a. ASSUME NEW r \in Runs, NEW s \in {"succeeded", "failed"}, FinishUnsaved(r, s)
       PROVE OnceInv'
  BY <1>12a DEF FinishUnsaved, files
<1>13. CASE UNCHANGED vars
  BY <1>13 DEF vars, files, past, counts
<1> QED
  BY <1>1, <1>2, <1>3, <1>4, <1>5, <1>5a, <1>6, <1>7, <1>8, <1>8a, <1>9, <1>10, <1>11,
     <1>11a, <1>12, <1>12a, <1>13 DEF Next

-----------------------------------------------------------------------------
\* At first nothing is said to have succeeded.
LEMMA TruthInit == Init => TruthInv
BY DEF Init, TruthInv, SuccessIsTrue, Engines, Nothing

\* A delivery writes down as a success only what its message says, or the record
\* said before.
LEMMA ApplyTruth ==
  ASSUME TypeInv, TruthInv, NEW e \in Engines, Apply(e)
  PROVE  TruthInv'
<1>1. PICK m : m = handling[e].msg
  OBVIOUS
<1>2. /\ Proper(m) /\ handling[e] # Nothing
      /\ handling' = [handling EXCEPT ![e] = Nothing]
      /\ UNCHANGED <<log, ran, said>>
  <2>1. handling[e] # Nothing
    BY DEF Apply, Nothing
  <2> QED BY <1>1, <2>1, ApplyEffect
<1>3. PICK v \in Statuses :
        /\ task' = [task EXCEPT ![e][m.task] = v]
        /\ v = IF m.kind = "request"
               THEN IF task[e][m.task] = "none" THEN "pending" ELSE task[e][m.task]
               ELSE IF task[e][m.task] = "none" THEN "none" ELSE StatusTold(m)
  BY <1>1, ApplyEffect
<1>4. m.kind # "request" /\ StatusTold(m) = "succeeded" => m.task \in Grounds
  BY <1>1, <1>2 DEF TruthInv, TellsSuccess, StatusTold, Proper
<1>5. task[e][m.task] = "succeeded" => m.task \in Grounds
  BY <1>2 DEF TruthInv, SuccessIsTrue, Proper, Grounds
<1>6. v = "succeeded" => m.task \in Grounds
  BY <1>3, <1>4, <1>5
<1>7. SuccessIsTrue'
  <2> SUFFICES ASSUME NEW d \in Engines, NEW t \in Tasks, task'[d][t] = "succeeded"
               PROVE  t \in Grounds
    BY <1>2 DEF SuccessIsTrue, Grounds
  <2>1. CASE d = e /\ t = m.task
    BY <1>3, <1>6, <2>1 DEF TypeInv
  <2>2. CASE ~ (d = e /\ t = m.task)
    <3>1. task'[d][t] = task[d][t]
      BY <1>3, <2>2 DEF TypeInv
    <3> QED BY <3>1 DEF TruthInv, SuccessIsTrue, Grounds
  <2> QED BY <2>1, <2>2
<1>8. \A d \in Engines : \A n \in log'[d] : TellsSuccess(n) => n.task \in Grounds'
  BY <1>2 DEF TruthInv, Grounds
<1>9. \A d \in Engines : handling'[d] # Nothing => handling'[d] = handling[d]
  BY <1>2 DEF TypeInv
<1> QED BY <1>2, <1>7, <1>8, <1>9 DEF TruthInv, Grounds

\* A success is only written down where one is known.
LEMMA TruthStep == TypeInv /\ TruthInv /\ [Next]_vars => TruthInv'
<1> SUFFICES ASSUME TypeInv, TruthInv, [Next]_vars PROVE TruthInv'
  OBVIOUS
<1> USE DEF TruthInv, SuccessIsTrue, TypeInv, Engines, Nothing, Proper, TellsSuccess, Grounds
<1>1. ASSUME NEW t \in Tasks, Ask(t)
      PROVE TruthInv'
  BY <1>1 DEF Ask, Message, past, counts
<1>2. CASE RecordAsked
  BY <1>2 DEF RecordAsked, Saves, past, counts
<1>3. CASE RecordResult
  BY <1>3 DEF RecordResult, past, counts
<1>4. ASSUME NEW t \in Tasks, NEW word \in Words, TellProgress(t, word)
      PROVE TruthInv'
  BY <1>4 DEF TellProgress, Message, past, counts
<1>5. ASSUME NEW t \in Tasks, NEW word \in Words, TellResult(t, word)
      PROVE TruthInv'
  <2>1. PICK m :
          /\ Proper(m) /\ m.task = t
          /\ m.status \in Statuses \ {"none", "pending", "accepted"}
          /\ TellsSuccess(m) => t \in Grounds'
          /\ handling' = [handling EXCEPT !["worker"] = [write |-> "result", msg |-> m]]
          /\ task' = task \/ task' = [task EXCEPT !["worker"][t] = m.status]
          /\ task["worker"][t] = "none" => task' = task
          /\ m.status = "running" => t \in stuck'
          /\ m.status = "succeeded" => t \in Grounds'
    BY <1>5, ResultEffect
  <2>2. /\ said \subseteq said' /\ said' \subseteq Tasks /\ ran' = ran
        /\ stuck \subseteq stuck' /\ stuck' \subseteq Tasks
        /\ UNCHANGED <<log, runs, arrived, applied, repeated, taken, lost>>
    BY <1>5, ResultEffect
  <2> QED BY <1>5, <2>1, <2>2 DEF Statuses, Final
<1>5a. ASSUME NEW t \in Tasks, TellUnreadable(t) PROVE TruthInv'
  BY <1>5a DEF TellUnreadable, Message, Claims, counts
<1>6. ASSUME NEW m \in log["asker"] \cup log["worker"], SendFails(m)
      PROVE TruthInv'
  BY <1>6 DEF SendFails, Sender, past
<1>7. ASSUME NEW m \in log["asker"] \cup log["worker"], Deliver(m)
      PROVE TruthInv'
  BY <1>7 DEF Deliver, Seen, Receiver, Sendable, Sender, Free, counts
<1>8. ASSUME NEW e \in Engines, Apply(e)
      PROVE TruthInv'
  BY <1>8, ApplyTruth
<1>8a. ASSUME NEW e \in Engines, ApplyFails(e) PROVE TruthInv'
  BY <1>8a DEF ApplyFails, files
<1>9. ASSUME NEW e \in Engines, Crash(e)
      PROVE TruthInv'
  BY <1>9 DEF Crash, files
<1>10. ASSUME NEW r \in Runs, NEW t \in Tasks, NEW mode, Load(r, t, mode)
      PROVE TruthInv'
  BY <1>10 DEF Load, files, past
<1>11. ASSUME NEW r \in Runs, Start(r)
      PROVE TruthInv'
  BY <1>11 DEF Start, counts
<1>11a. ASSUME NEW r \in Runs, StartFails(r) PROVE TruthInv'
  BY <1>11a DEF StartFails, files, past
<1>12. ASSUME NEW r \in Runs, NEW s \in {"succeeded", "failed"}, Finish(r, s)
      PROVE TruthInv'
  BY <1>12 DEF Finish, counts
<1>12a. ASSUME NEW r \in Runs, NEW s \in {"succeeded", "failed"}, FinishUnsaved(r, s)
       PROVE TruthInv'
  BY <1>12a DEF FinishUnsaved, files
<1>13. CASE UNCHANGED vars
  BY <1>13 DEF vars, files, past, counts
<1> QED
  BY <1>1, <1>2, <1>3, <1>4, <1>5, <1>5a, <1>6, <1>7, <1>8, <1>8a, <1>9, <1>10, <1>11,
     <1>11a, <1>12, <1>12a, <1>13 DEF Next

-----------------------------------------------------------------------------
\* A run that has begun to work, as the record of a run says it.
Works(r, t) == runs[r].pc = "running" /\ runs[r].task = t

RunInv ==
  \A t \in Tasks : task["worker"][t] = "running" =>
    t \in stuck \/ \E r \in Runs : Works(r, t)

\* At first no task is running.
LEMMA RunningInit == Init => RunInv
BY DEF Init, RunInv, Engines

\* A delivery marks no task running at the worker: only requests reach it.
LEMMA ApplyRunsNothing ==
  ASSUME TypeInv, OnceInv, NEW e \in Engines, Apply(e), NEW t \in Tasks,
         task'["worker"][t] = "running"
  PROVE  task["worker"][t] = "running"
<1>1. PICK m : m = handling[e].msg
  OBVIOUS
<1>2. Proper(m) /\ handling[e].write = "got"
  BY <1>1, ApplyEffect
<1>3. PICK v \in Statuses :
        /\ task' = [task EXCEPT ![e][m.task] = v]
        /\ v = IF m.kind = "request"
               THEN IF task[e][m.task] = "none" THEN "pending" ELSE task[e][m.task]
               ELSE IF task[e][m.task] = "none" THEN "none" ELSE StatusTold(m)
  BY <1>1, ApplyEffect
<1>4. CASE e = "worker" /\ t = m.task
  <2>1. m.kind = "request"
    BY <1>1, <1>2, <1>4 DEF OnceInv, Receiver
  <2>2. v = "running"
    BY <1>3, <1>4 DEF TypeInv, Engines
  <2> QED BY <1>3, <1>4, <2>1, <2>2
<1>5. CASE ~ (e = "worker" /\ t = m.task)
  BY <1>3, <1>5 DEF TypeInv, Engines
<1> QED BY <1>4, <1>5

\* A task is running because of a run, or was when the process ended.
LEMMA RunningStep == TypeInv /\ OnceInv /\ RunInv /\ [Next]_vars => RunInv'
<1> SUFFICES ASSUME TypeInv, OnceInv, RunInv, [Next]_vars PROVE RunInv'
  OBVIOUS
<1> USE DEF RunInv, Works, TypeInv, Engines, Nothing, Proper, NoRun
<1>1. ASSUME NEW t \in Tasks, Ask(t)
      PROVE RunInv'
  BY <1>1 DEF Ask, Message, past, counts
<1>2. CASE RecordAsked
  BY <1>2 DEF RecordAsked, Saves, past, counts
<1>3. CASE RecordResult
  BY <1>3 DEF RecordResult, past, counts
<1>4. ASSUME NEW t \in Tasks, NEW word \in Words, TellProgress(t, word)
      PROVE RunInv'
  BY <1>4 DEF TellProgress, Message, past, counts
<1>5. ASSUME NEW t \in Tasks, NEW word \in Words, TellResult(t, word)
      PROVE RunInv'
  <2>1. PICK m :
          /\ Proper(m) /\ m.task = t
          /\ m.status \in Statuses \ {"none", "pending", "accepted"}
          /\ TellsSuccess(m) => t \in Grounds'
          /\ handling' = [handling EXCEPT !["worker"] = [write |-> "result", msg |-> m]]
          /\ task' = task \/ task' = [task EXCEPT !["worker"][t] = m.status]
          /\ task["worker"][t] = "none" => task' = task
          /\ m.status = "running" => t \in stuck'
          /\ m.status = "succeeded" => t \in Grounds'
    BY <1>5, ResultEffect
  <2>2. /\ said \subseteq said' /\ said' \subseteq Tasks /\ ran' = ran
        /\ stuck \subseteq stuck' /\ stuck' \subseteq Tasks
        /\ UNCHANGED <<log, runs, arrived, applied, repeated, taken, lost>>
    BY <1>5, ResultEffect
  <2> QED BY <1>5, <2>1, <2>2 DEF Statuses, Final
<1>5a. ASSUME NEW t \in Tasks, TellUnreadable(t) PROVE RunInv'
  BY <1>5a DEF TellUnreadable, Message, Claims, counts
<1>6. ASSUME NEW m \in log["asker"] \cup log["worker"], SendFails(m)
      PROVE RunInv'
  BY <1>6 DEF SendFails, Sender, past
<1>7. ASSUME NEW m \in log["asker"] \cup log["worker"], Deliver(m)
      PROVE RunInv'
  BY <1>7 DEF Deliver, Seen, Receiver, Sendable, Sender, Free, counts
<1>8. ASSUME NEW e \in Engines, Apply(e)
      PROVE RunInv'
  BY <1>8, ApplyRunsNothing, ApplyEffect
<1>8a. ASSUME NEW e \in Engines, ApplyFails(e) PROVE RunInv'
  BY <1>8a DEF ApplyFails, files
<1>9. ASSUME NEW e \in Engines, Crash(e)
      PROVE RunInv'
  BY <1>9 DEF Crash, files
<1>10. ASSUME NEW r \in Runs, NEW t \in Tasks, NEW mode, Load(r, t, mode)
      PROVE RunInv'
  BY <1>10 DEF Load, files, past
<1>11. ASSUME NEW r \in Runs, Start(r)
      PROVE RunInv'
  BY <1>11 DEF Start, counts
<1>11a. ASSUME NEW r \in Runs, StartFails(r) PROVE RunInv'
  BY <1>11a DEF StartFails, files, past
<1>12. ASSUME NEW r \in Runs, NEW s \in {"succeeded", "failed"}, Finish(r, s)
      PROVE RunInv'
  BY <1>12 DEF Finish, counts
<1>12a. ASSUME NEW r \in Runs, NEW s \in {"succeeded", "failed"}, FinishUnsaved(r, s)
       PROVE RunInv'
  BY <1>12a DEF FinishUnsaved, files
<1>13. CASE UNCHANGED vars
  BY <1>13 DEF vars, files, past, counts
<1> QED
  BY <1>1, <1>2, <1>3, <1>4, <1>5, <1>5a, <1>6, <1>7, <1>8, <1>8a, <1>9, <1>10, <1>11,
     <1>11a, <1>12, <1>12a, <1>13 DEF Next

-----------------------------------------------------------------------------
IInv == TypeInv /\ OnceInv /\ TruthInv /\ RunInv

\* Together they are inductive.
LEMMA Invariance == Spec => []IInv
<1>1. Init => IInv
  BY TypeInit, OnceInit, TruthInit, RunningInit DEF IInv
<1>2. IInv /\ [Next]_vars => IInv'
  BY TypeStep, OnceStep, TruthStep, RunningStep DEF IInv
<1> QED BY <1>1, <1>2, PTL DEF Spec

\* Every reachable state of the two stores, of the calls under way and of the
\* runs is well typed (the files of a2a/store.rs).
THEOREM TypeCorrect == Spec => []TypeInv
<1>1. IInv => TypeInv
  BY DEF IInv
<1> QED BY <1>1, Invariance, PTL

\* record_peer_message and record_task_request: however often and in whatever
\* order messages arrive, each has its effect once and the worker takes a task
\* up once.
THEOREM TakenOnceAlways == Spec => []TakenOnce
<1>1. IInv => TakenOnce
  BY DEF IInv, OnceInv, TakenOnce
<1> QED BY <1>1, Invariance, PTL

\* run_task and create_task_result_message: a success that a device records has a
\* ground, whatever sends and saves fail, messages come late and processes end.
THEOREM SuccessIsTrueAlways == Spec => []SuccessIsTrue
<1>1. IInv => SuccessIsTrue
  BY DEF IInv, TruthInv
<1> QED BY <1>1, Invariance, PTL

\* run_task: a task marked running has a run that works on it, but for the three
\* things that leave it so, with any number of runs at once.
THEOREM RunningIsRunAlways == Spec => []RunningIsRun
<1>1. IInv => RunningIsRun
  <2> SUFFICES ASSUME TypeInv, NEW r \in Runs, NEW t \in Tasks, Works(r, t)
               PROVE  runs[r] = [pc |-> "running", task |-> t]
    BY DEF IInv, RunInv, RunningIsRun
  <2>1. runs[r] \in [pc : {"loaded", "running"}, task : Tasks]
    BY DEF TypeInv, Works, NoRun
  <2> QED BY <2>1 DEF Works
<1> QED BY <1>1, Invariance, PTL

-----------------------------------------------------------------------------
(* Channels: the invariant, which names what the files, the pumps and the   *)
(* steps they have still to do owe each other                               *)

Entries == [msg : Messages,
            status : {"queued", "leased", "acknowledged", "failed"}]

Operations ==
  [op : {"reply"}, at : Nat] \cup
  [op : {"settle"}, at : Nat, status : {"acknowledged", "failed"}] \cup
  [op : {"upsert", "dropRequest"}, request : Nat] \cup
  [op : {"dropSession"}]

PumpLabels == {"idle", "message", "note", "answer", "turn", "waiting", "next"}
Outcomes   == {"none", "answered", "cancelled"}

IsMapping(m) ==
  m \in [at : Nat, request : Nat, session : {m.session}, answer : Inbounds \cup {0}]

Finding(p) == pump[p].pc \in {"note", "answer"}
Asking(p)  == turn[p].asking # 0
Busy(p)    == pump[p].work # <<>> \/ pump[p].pc = "next"
Steps(p)   == {pump[p].work[n] : n \in 1 .. Len(pump[p].work)}

\* Places in the file do not grow without a bound.
MappingsOK ==
  /\ \A m \in mappings : IsMapping(m)
  /\ \E n \in Nat : \A m \in mappings : m.at <= n

FactsOK ==
  /\ DOMAIN facts = {"drives", "released", "answers", "shared", "stranded", "leftover",
                     "reused"}
  /\ facts.drives \in [Inbounds -> Nat] /\ facts.released \in Nat
  /\ \A a \in facts.answers : a.by \in Inbounds /\ a.to \in Inbounds
  /\ facts.shared \subseteq Inbounds /\ facts.stranded \subseteq Inbounds
  /\ facts.leftover \subseteq Nat /\ facts.reused \subseteq Inbounds

\* The files and what is remembered of the past are well formed.
StoresInv ==
  /\ inbox \in Seq(Entries)
  /\ \A o \in outbox : o.re \in Inbounds /\ o.for \in Inbounds
  /\ MappingsOK
  /\ counter \in Nat \ {0} /\ requests \subseteq 1 .. counter - 1
  /\ FactsOK
  /\ life \in Nat /\ rerouted \in Nat

\* A pump holds messages exactly while it is at work, and a turn while it drives one.
PumpOK(p) ==
  /\ pump[p] \in [pc : PumpLabels, work : Seq(Operations), batch : SUBSET Inbounds,
                  session : {pump[p].session}, found : {pump[p].found}]
  /\ pump[p].pc = "idle" <=> pump[p].batch = {}
  /\ pump[p].work # <<>> => pump[p].pc \in {"waiting", "next"}
  /\ Finding(p) => IsMapping(pump[p].found)

TurnOK(p) ==
  /\ turn[p] \in [target : Inbounds \cup {0}, asks : Nat, asking : Nat, outcome : Outcomes]
  /\ pump[p].pc \notin {"turn", "waiting", "next"} => turn[p] = NoTurn
  /\ pump[p].pc \in {"turn", "waiting"} => Driving(p)
  /\ pump[p].pc = "turn" => ~Asking(p)
  /\ pump[p].pc = "waiting" => Asking(p)
  /\ Asking(p) => Driving(p)

PumpsInv ==
  /\ DOMAIN pump = Pumps /\ DOMAIN turn = Pumps
  /\ \A p \in Pumps : PumpOK(p) /\ TurnOK(p)

\* While a pump has steps to do no other has, and nothing else happens.
OneBusy == \A p, q \in Pumps : Busy(p) /\ Busy(q) => p = q

ChannelTypes == StoresInv /\ PumpsInv /\ OneBusy

\* What a step refers to is there, and what it does suits the pump that has it.
StepsInv ==
  \A p \in Pumps : \A s \in Steps(p) :
    /\ s.op \in {"reply", "settle"} => s.at \in Inbounds
    /\ s.op = "upsert" => pump[p].pc = "waiting" /\ s.request = turn[p].asking
    /\ s.op = "dropRequest" => s.request \notin requests
    /\ s.op = "dropSession" => pump[p].pc = "next" /\ Driving(p)

\* A message is held by one pump and is not queued, so that nobody else takes it.
BatchInv ==
  /\ \A p \in Pumps : \A i \in pump[p].batch : inbox[i].status # "queued"
  /\ \A p, q \in Pumps : p # q => pump[p].batch \cap pump[q].batch = {}

\* Only the message at hand has had its turn.
DriveInv ==
  /\ \A i \in Inbounds : inbox[i].status = "queued" => facts.drives[i] = 0
  /\ \A p \in Pumps : \A i \in pump[p].batch :
       i # Current(p) \/ ~Driving(p) => facts.drives[i] = 0
  /\ DrivenOnce

\* p is done with its message, or is about to be.
IsLetGo(p) ==
  \/ inbox[Current(p)].status # "leased"
  \/ \E s \in Steps(p) : s.op = "settle" /\ s.at = Current(p)

LeaseInv ==
  /\ \A p \in Pumps :
       /\ pump[p].pc \in {"waiting", "next"} => IsLetGo(p)
       /\ Driving(p) /\ turn[p].target # Current(p) =>
            inbox[Current(p)].status # "leased"
  /\ LeasedIsHeld

IsTold(i) ==
  \/ \E o \in outbox : o.re = i
  \/ \E a \in facts.answers : a.by = i

\* The reply comes before the acknowledgement.
ToldInv ==
  /\ \A p \in Pumps : \A n \in 1 .. Len(pump[p].work) :
       pump[p].work[n].op = "settle" /\ pump[p].work[n].status = "acknowledged" =>
         \/ IsTold(pump[p].work[n].at)
         \/ \E k \in 1 .. n - 1 : pump[p].work[k] = Reply(pump[p].work[n].at)
  /\ SettledIsTold

\* A request of this process, or one an earlier process left a mapping of.
IsKnown(r) == r < counter \/ r \in facts.leftover

\* A request belongs to one turn, and is there as long as the turn waits.
AskInv ==
  /\ \A p \in Pumps : turn[p].asking < counter
  /\ \A p, q \in Pumps : Asking(p) /\ turn[p].asking = turn[q].asking => p = q
  /\ \A p \in Pumps : Asking(p) /\ turn[p].outcome = "none" => turn[p].asking \in requests
  /\ \A m \in mappings : IsKnown(m.request)
  /\ \A p \in Pumps : Finding(p) => IsKnown(pump[p].found.request)

IsFresh(p) == Asking(p) /\ Current(p) \notin facts.reused

\* Whatever leads to the request of a turn has the session of that turn, unless the id
\* is one of an earlier process; and a session is of the conversation of its message.
SessionInv ==
  /\ \A p \in Pumps : IsFresh(p) =>
       /\ \A m \in mappings : m.request = turn[p].asking => m.session = pump[p].session
       /\ \A q \in Pumps : Finding(q) /\ pump[q].found.request = turn[p].asking =>
            pump[q].found.session = pump[p].session
  /\ \A p \in Pumps : Driving(p) => pump[p].session[1] = ConversationOf(Current(p))
  /\ \A p \in Pumps : Finding(p) => pump[p].found.session[1] = ConversationOf(Current(p))
  /\ \A m \in mappings : m.answer # 0 => ConversationOf(m.answer) = m.session[1]

IsHome(p, i) ==
  ConversationOf(i) = ConversationOf(Current(p)) \/ Current(p) \in facts.reused

HomeInv ==
  /\ \A p \in Pumps : Driving(p) => IsHome(p, turn[p].target)
  /\ \A p \in Pumps : \A s \in Steps(p) : s.op = "reply" => IsHome(p, s.at)
  /\ AnswersStayHome

\* Turns of one session that overlap are remembered.
SharedInv ==
  \A p, q \in Pumps :
    p # q /\ Driving(p) /\ Driving(q) /\ pump[p].session = pump[q].session =>
      Current(p) \in facts.shared

\* A turn that waits has its mapping, or is about to write it.
KeptInv ==
  \A p \in Pumps :
    /\ pump[p].pc = "waiting" /\ turn[p].outcome = "none"
    /\ Current(p) \notin facts.reused \cup facts.shared
    => \/ Upsert(turn[p].asking) \in Steps(p)
       \/ \E m \in mappings : /\ m.request = turn[p].asking
                              /\ m.session = pump[p].session

ChannelInv ==
  /\ ChannelTypes /\ StepsInv
  /\ BatchInv /\ DriveInv /\ LeaseInv /\ ToldInv
  /\ AskInv /\ SessionInv /\ HomeInv /\ SharedInv /\ KeptInv

-----------------------------------------------------------------------------
(* Places, numbers and sequences *)

\* A set of numbers that is not empty has a least one.
LEMMA LeastNumber ==
  ASSUME NEW S \in SUBSET Nat, S # {}
  PROVE  \E x \in S : \A y \in S : x <= y
<1>1. IsWellFoundedOn(OpToRel(<, Nat), Nat)
  BY NatLessThanWellFounded
<1>2. PICK x \in S : \A y \in S : ~ (<<y, x>> \in OpToRel(<, Nat))
  BY <1>1, WFMin
<1>3. ASSUME NEW y \in S PROVE x <= y
  <2>1. ~ (<<y, x>> \in {ss \in Nat \X Nat : ss[1] < ss[2]})
    BY <1>2 DEF OpToRel
  <2> QED BY <2>1
<1> QED BY <1>3

\* Min is that number.
LEMMA MinIsLeast ==
  ASSUME NEW S \in SUBSET Nat, S # {}
  PROVE  Min(S) \in S /\ \A y \in S : Min(S) <= y
BY LeastNumber DEF Min

\* A bounded set of numbers with 0 has a greatest one, which Max is.
LEMMA MaxIsGreatest ==
  ASSUME NEW S \in SUBSET Nat, 0 \in S, NEW b \in Nat, \A y \in S : y <= b
  PROVE  Max(S) \in S /\ \A y \in S : y <= Max(S)
<1> DEFINE U == {n \in Nat : \A y \in S : y <= n}
<1>1. PICK u \in U : \A n \in U : u <= n
  <2>1. b \in U /\ U \subseteq Nat
    OBVIOUS
  <2> HIDE DEF U
  <2> QED BY <2>1, LeastNumber
<1>2. u \in S
  <2> SUFFICES ASSUME u \notin S PROVE FALSE
    OBVIOUS
  <2>1. \A y \in S : y < u
    BY <1>1
  <2>2. u - 1 \in Nat /\ \A y \in S : y <= u - 1
    BY <2>1
  <2>3. u - 1 \in U
    BY <2>2
  <2> QED BY <1>1, <2>3
<1>3. \E x \in S : \A y \in S : x >= y
  BY <1>1, <1>2
<1> QED BY <1>3 DEF Max

\* A new mapping is behind all others.
LEMMA EndIsBehind ==
  ASSUME StoresInv
  PROVE  End \in Nat /\ \A m \in mappings : m.at <= End
<1> DEFINE S == {m.at : m \in mappings} \cup {0}
<1>1. \A m \in mappings : m.at \in Nat
  BY DEF StoresInv, MappingsOK, IsMapping
<1>2. S \in SUBSET Nat /\ 0 \in S
  BY <1>1
<1>3. PICK n \in Nat : \A m \in mappings : m.at <= n
  BY DEF StoresInv, MappingsOK
<1>4. \A y \in S : y <= n
  BY <1>3
<1>5. Max(S) \in S /\ \A y \in S : y <= Max(S)
  <2> HIDE DEF S
  <2> QED BY <1>2, <1>3, <1>4, MaxIsGreatest
<1>6. End = 1 + Max(S)
  BY DEF End
<1>7. \A m \in mappings : m.at <= Max(S)
  BY <1>5
<1>8. Max(S) \in Nat
  BY <1>5, <1>2
<1> HIDE DEF S
<1> QED BY <1>1, <1>6, <1>7, <1>8

\* The first of some mappings is one of them.
LEMMA FirstIsOne ==
  ASSUME StoresInv, NEW own \in SUBSET mappings, own # {}
  PROVE  FirstOf(own) \in own
<1> DEFINE S == {m.at : m \in own}
<1>1. S \in SUBSET Nat /\ S # {}
  BY DEF StoresInv, MappingsOK, IsMapping
<1>2. PICK x \in S : \A y \in S : x <= y
  <2> HIDE DEF S
  <2> QED BY <1>1, LeastNumber
<1>3. PICK m \in own : m.at = x
  OBVIOUS
<1>4. \A o \in own : m.at <= o.at
  BY <1>2, <1>3
<1>5. \E f \in own : \A o \in own : f.at <= o.at
  BY <1>4
<1> QED BY <1>5 DEF FirstOf

\* The message at hand is one the pump holds.
LEMMA CurrentIsHeld ==
  ASSUME PumpsInv, NEW p \in Pumps, pump[p].batch # {}
  PROVE  Current(p) \in pump[p].batch /\ Current(p) \in Inbounds /\ Current(p) # 0
<1>1. pump[p].batch \in SUBSET Nat /\ pump[p].batch \subseteq Inbounds
  BY DEF PumpsInv, PumpOK, Inbounds
<1> QED BY <1>1, MinIsLeast DEF Current, Inbounds

\* A function on the places of a sequence is one.
LEMMA AsLong ==
  ASSUME NEW S, NEW s \in Seq(S), NEW t \in [1 .. Len(s) -> S]
  PROVE  t \in Seq(S) /\ Len(t) = Len(s)
<1>1. Len(s) \in Nat
  BY LenProperties
<1>2. t \in Seq(S)
  BY <1>1, SeqDef
<1>3. DOMAIN t = 1 .. Len(t) /\ DOMAIN t = 1 .. Len(s) /\ Len(t) \in Nat
  BY <1>2, LenProperties
<1> QED BY <1>1, <1>2, <1>3
-----------------------------------------------------------------------------
(* What the actions do to the pumps *)

\* A step of its work leaves the rest of a pump and all other pumps alone.
LEMMA PerformEffect ==
  ASSUME PumpsInv, NEW p \in Pumps, Perform(p)
  PROVE  /\ Busy(p) /\ pump[p].pc \in {"waiting", "next"}
         /\ DOMAIN pump' = Pumps /\ \A q \in Pumps \ {p} : pump'[q] = pump[q]
         /\ pump'[p] = [pump[p] EXCEPT !.work = Tail(pump[p].work)]
         /\ pump'[p].work \in Seq(Operations)
         /\ Len(pump[p].work) >= 1 /\ Len(pump'[p].work) = Len(pump[p].work) - 1
         /\ \A n \in 1 .. Len(pump'[p].work) : pump'[p].work[n] = pump[p].work[n + 1]
         /\ Head(pump[p].work) = pump[p].work[1]
         /\ Head(pump[p].work) \in Steps(p) /\ Steps(p)' \subseteq Steps(p)
         /\ pump[p].batch # {}
         /\ UNCHANGED <<turn, loop, facts, routes, life, rerouted>>
<1>1. pump[p].work \in Seq(Operations) /\ pump[p].work # <<>>
  BY DEF PumpsInv, PumpOK, Perform
<1>2. pump' = [pump EXCEPT ![p].work = Tail(@)] /\ DOMAIN pump = Pumps
  BY DEF PumpsInv, PumpOK, Perform
<1>3. pump[p] \in [pc : PumpLabels, work : Seq(Operations), batch : SUBSET Inbounds,
                   session : {pump[p].session}, found : {pump[p].found}]
  BY DEF PumpsInv, PumpOK
<1>4. /\ DOMAIN pump' = Pumps /\ \A q \in Pumps \ {p} : pump'[q] = pump[q]
      /\ pump'[p] = [pump[p] EXCEPT !.work = Tail(pump[p].work)]
  BY <1>2
<1>5. pump'[p].work = Tail(pump[p].work)
  BY <1>3, <1>4
<1>6. /\ Tail(pump[p].work) \in Seq(Operations)
      /\ Len(pump[p].work) >= 1 /\ Len(Tail(pump[p].work)) = Len(pump[p].work) - 1
      /\ \A n \in 1 .. Len(Tail(pump[p].work)) :
           Tail(pump[p].work)[n] = pump[p].work[n + 1]
      /\ Head(pump[p].work) = pump[p].work[1]
  BY <1>1
<1>7. Busy(p) /\ pump[p].pc \in {"waiting", "next"}
  BY <1>1 DEF Busy, PumpsInv, PumpOK
<1>8. Head(pump[p].work) \in Steps(p) /\ Steps(p)' \subseteq Steps(p)
  BY <1>1, <1>5, <1>6, LenProperties DEF Steps
<1>9. pump[p].batch # {}
  BY <1>7 DEF PumpsInv, PumpOK
<1> QED BY <1>4, <1>5, <1>6, <1>7, <1>8, <1>9 DEF Perform

\* The step it does is the first: a reply, a status, or a change of the mappings.
LEMMA PerformDoes ==
  ASSUME NEW p \in Pumps, Perform(p), NEW s, s = Head(pump[p].work)
  PROVE  /\ s.op = "reply" =>
              outbox' = outbox \cup {[re |-> s.at, for |-> Current(p),
                                     nth |-> Said(Current(p)) + 1]}
         /\ s.op = "settle" => inbox' = [inbox EXCEPT ![s.at].status = s.status]
         /\ s.op = "upsert" => mappings' = Upserted(p, s.request)
<1> DEFINE A == outbox' = outbox \cup {[re |-> s.at, for |-> Current(p),
                                       nth |-> Said(Current(p)) + 1]}
           B == inbox' = [inbox EXCEPT ![s.at].status = s.status]
           C == mappings' = Upserted(p, s.request)
<1>1. \/ s.op = "reply" /\ A
      \/ s.op = "settle" /\ B
      \/ s.op = "upsert" /\ C
      \/ s.op \in {"dropRequest", "dropSession"}
  BY DEF Perform
<1> HIDE DEF A, B, C
<1>2. (s.op = "reply" => A) /\ (s.op = "settle" => B) /\ (s.op = "upsert" => C)
  BY <1>1
<1> QED BY <1>2 DEF A, B, C

\* When an action that waits for all work to be done happens, no pump has a step left.
LEMMA NothingLeft ==
  ASSUME Settled
  PROVE  \A p \in Pumps : pump[p].work = <<>> /\ pump[p].pc # "next" /\ Steps(p) = {}
BY DEF Settled, Steps

\* An operation is one of its four kinds.
LEMMA OperationKinds ==
  /\ \A i \in Nat : Reply(i) \in Operations
  /\ \A i \in Nat : Settle(i, "acknowledged") \in Operations
  /\ \A i \in Nat : Settle(i, "failed") \in Operations
  /\ \A r \in Nat : Upsert(r) \in Operations /\ DropRequest(r) \in Operations
  /\ DropSession \in Operations
BY DEF Reply, Settle, Upsert, DropRequest, DropSession, Operations

\* Messages stay what they are.
LEMMA InboxGrows ==
  ASSUME StoresInv, PumpsInv, ChannelsNext
  PROVE  /\ inbox' \in Seq(Entries) /\ Len(inbox) \in Nat /\ Len(inbox') \in Nat
         /\ Inbounds \subseteq Inbounds'
         /\ Inbounds' = Inbounds \/ \E m \in Messages : Submit(m)
         /\ \A i \in Inbounds : inbox'[i].msg = inbox[i].msg
<1> DEFINE Grown == /\ inbox' \in Seq(Entries)
                    /\ Len(inbox') >= Len(inbox)
                    /\ Len(inbox') = Len(inbox) \/ \E m \in Messages : Submit(m)
                    /\ \A i \in 1 .. Len(inbox) : inbox'[i].msg = inbox[i].msg
<1>0. inbox \in Seq(Entries) /\ Len(inbox) \in Nat /\ inbox \in [1 .. Len(inbox) -> Entries]
  BY LenProperties DEF StoresInv
<1>1. ASSUME NEW m \in Messages, Submit(m) PROVE Grown
  <2>1. inbox' = Append(inbox, [msg |-> m, status |-> "queued"])
    BY <1>1 DEF Submit, Push
  <2>2. [msg |-> m, status |-> "queued"] \in Entries
    BY DEF Entries
  <2>3. \E k \in Messages : Submit(k)
    BY <1>1
  <2>4. /\ inbox' \in Seq(Entries) /\ Len(inbox') = Len(inbox) + 1
        /\ \A i \in 1 .. Len(inbox) : inbox'[i].msg = inbox[i].msg
    BY <1>0, <2>1, <2>2, AppendProperties
  <2>5. Len(inbox') >= Len(inbox)
    BY <1>0, <2>4
  <2> QED BY <2>3, <2>4, <2>5
<1>2. ASSUME inbox' \in [1 .. Len(inbox) -> Entries],
             \A i \in 1 .. Len(inbox) : inbox'[i].msg = inbox[i].msg
      PROVE  Grown
  BY <1>0, <1>2, AsLong
<1>3. ASSUME NEW i, NEW t \in {"queued", "acknowledged", "failed"},
             inbox' = [inbox EXCEPT ![i].status = t]
      PROVE  Grown
  <2>1. inbox' \in [1 .. Len(inbox) -> Entries]
    BY <1>0, <1>3 DEF Entries
  <2>2. \A k \in 1 .. Len(inbox) : inbox'[k].msg = inbox[k].msg
    BY <1>0, <1>3 DEF Entries
  <2> QED BY <1>2, <2>1, <2>2
<1>4. ASSUME NEW i \in Inbounds, Release(i) PROVE Grown
  BY <1>3, <1>4 DEF Release
<1>5. ASSUME NEW p \in Pumps, Take(p) PROVE Grown
  <2>1. PICK chosen : inbox' = [i \in 1 .. Len(inbox) |->
                       IF i \in chosen THEN [inbox[i] EXCEPT !.status = "leased"]
                       ELSE inbox[i]]
    BY <1>5 DEF Take, Inbounds
  <2>2. inbox' \in [1 .. Len(inbox) -> Entries]
    BY <1>0, <2>1 DEF Entries
  <2>3. \A k \in 1 .. Len(inbox) : inbox'[k].msg = inbox[k].msg
    BY <1>0, <2>1 DEF Entries
  <2> QED BY <1>2, <2>2, <2>3
<1>6. ASSUME inbox' = inbox PROVE Grown
  <2>1. inbox' \in Seq(Entries) /\ Len(inbox') = Len(inbox)
    BY <1>0, <1>6
  <2>2. Len(inbox') >= Len(inbox)
    BY <1>0, <2>1
  <2>3. \A i \in 1 .. Len(inbox) : inbox'[i].msg = inbox[i].msg
    BY <1>6
  <2> QED BY <2>1, <2>2, <2>3
<1>7. ASSUME NEW p \in Pumps, Perform(p) PROVE Grown
  <2>1. Head(pump[p].work) \in Operations
    BY <1>7 DEF Perform, PumpsInv, PumpOK
  <2>2. CASE inbox' # inbox
    <3>1. /\ Head(pump[p].work).op = "settle"
          /\ inbox' = [inbox EXCEPT ![Head(pump[p].work).at].status =
                                      Head(pump[p].work).status]
      BY <1>7, <2>2 DEF Perform
    <3>2. Head(pump[p].work).status \in {"acknowledged", "failed"}
      BY <2>1, <3>1 DEF Operations
    <3> QED BY <1>3, <3>1, <3>2
  <2> QED BY <1>6, <2>2
<1>8. ASSUME NEW p \in Pumps, AskPerson(p) \/ PumpStep(p), ~Perform(p) PROVE inbox' = inbox
  BY <1>8 DEF AskPerson, PumpStep, SessionFails, StartTurn, TurnDown, FindQuestion, Note,
              Accepted, Gone, Answered, TurnEnds, Advance, stores
<1>9. ASSUME NEW p \in Pumps, NEW how, HostResolves(p, how) PROVE inbox' = inbox
  BY <1>9 DEF HostResolves, stores
<1>10. ASSUME ProcessEnds \/ \E r \in Routes : Reroute(r) PROVE inbox' = inbox
  BY <1>10 DEF ProcessEnds, Reroute, stores
<1>11. Grown
  <2> HIDE DEF Grown
  <2>1. ASSUME NEW p \in Pumps, Take(p) \/ AskPerson(p) \/ PumpStep(p) PROVE Grown
    BY <1>5, <1>6, <1>7, <1>8, <2>1
  <2> QED BY <1>1, <1>4, <1>6, <1>9, <1>10, <2>1 DEF ChannelsNext
<1> QED BY <1>0, <1>11, LenProperties DEF Inbounds

-----------------------------------------------------------------------------
(* The files and the past are well formed *)

\* Whoever writes the file of mappings leaves whole mappings in it.
LEMMA MappingsStep ==
  ASSUME StoresInv, PumpsInv, ChannelsNext
  PROVE  MappingsOK'
<1>0. Inbounds \subseteq Inbounds' /\ Inbounds \subseteq Nat
  BY InboxGrows DEF Inbounds
<1>1. /\ \A m \in mappings : IsMapping(m)
      /\ End \in Nat /\ \A m \in mappings : m.at <= End
  BY EndIsBehind DEF StoresInv, MappingsOK
<1>2. ASSUME NEW S, mappings' = S,
             \A m \in S : /\ m \in [at : Nat, request : Nat, session : {m.session},
                                    answer : Inbounds \cup {0}]
                          /\ m.at <= End
      PROVE  MappingsOK'
  BY <1>0, <1>1, <1>2 DEF MappingsOK, IsMapping
<1>3. ASSUME mappings' \subseteq mappings PROVE MappingsOK'
  BY <1>1, <1>2, <1>3 DEF IsMapping
<1>4. ASSUME NEW p \in Pumps, Note(p) PROVE MappingsOK'
  <2> DEFINE m == [pump[p].found EXCEPT !.answer = Current(p)]
             same == {o \in mappings : o.request = m.request}
             new  == (mappings \ same) \cup
                       IF same = {} THEN {[m EXCEPT !.at = End]}
                       ELSE {[m EXCEPT !.at = o.at] : o \in same}
  <2>1. mappings' = new /\ pump[p].pc = "note"
    BY <1>4 DEF Note, At
  <2>2. IsMapping(pump[p].found) /\ pump[p].batch # {}
    BY <2>1 DEF PumpsInv, PumpOK, Finding
  <2>3. Current(p) \in Inbounds
    BY <2>2, CurrentIsHeld
  <2>4. m \in [at : Nat, request : Nat, session : {m.session}, answer : Inbounds \cup {0}]
    BY <2>2, <2>3 DEF IsMapping
  <2>5. ASSUME NEW k \in new PROVE IsMapping(k) /\ k.at <= End
    <3> HIDE DEF m
    <3>1. CASE k \in mappings
      BY <1>1, <3>1
    <3>2. ASSUME NEW a \in Nat, a <= End, k = [m EXCEPT !.at = a]
          PROVE  IsMapping(k) /\ k.at <= End
      BY <2>4, <3>2 DEF IsMapping
    <3>3. \A o \in same : o.at \in Nat /\ o.at <= End
      BY <1>1 DEF IsMapping
    <3> QED BY <1>1, <2>5, <3>1, <3>2, <3>3
  <2> HIDE DEF new
  <2> QED BY <1>2, <2>1, <2>5 DEF IsMapping
<1>5. ASSUME NEW p \in Pumps, Perform(p) PROVE MappingsOK'
  <2> DEFINE step == Head(pump[p].work)
             same == {m \in mappings : m.request = step.request}
  <2>1. step \in Operations
    BY <1>5 DEF Perform, PumpsInv, PumpOK
  <2>2. CASE step.op = "upsert" /\ mappings' = Upserted(p, step.request)
    <3>1. step.request \in Nat
      BY <2>1, <2>2 DEF Operations
    <3>2. ASSUME NEW k \in mappings'
          PROVE  /\ k \in [at : Nat, request : Nat, session : {k.session},
                           answer : Inbounds \cup {0}]
                 /\ k.at <= End
      <4> HIDE DEF step
      <4>1. CASE k \in mappings
        BY <1>1, <4>1 DEF IsMapping
      <4>2. CASE k = [at |-> End, request |-> step.request,
                      session |-> pump[p].session, answer |-> 0]
        BY <1>1, <3>1, <4>2
      <4>3. ASSUME NEW m \in mappings, k = [m EXCEPT !.answer = 0]
            PROVE  /\ k \in [at : Nat, request : Nat, session : {k.session},
                             answer : Inbounds \cup {0}]
                   /\ k.at <= End
        BY <1>1, <4>3 DEF IsMapping
      <4> QED BY <2>2, <3>2, <4>1, <4>2, <4>3 DEF Upserted
    <3> QED BY <1>2, <3>2
  <2>3. CASE mappings' \subseteq mappings
    BY <1>3, <2>3
  <2> QED BY <1>5, <2>2, <2>3 DEF Perform, MappingsOfOthers
<1>6. ASSUME NEW p \in Pumps, Take(p) \/ AskPerson(p) \/ PumpStep(p), ~Note(p), ~Perform(p)
      PROVE  mappings' = mappings
  BY <1>6 DEF Take, AskPerson, PumpStep, SessionFails, StartTurn, TurnDown, FindQuestion,
              Accepted, Gone, Answered, TurnEnds, Advance, stores
<1>7. ASSUME NEW p \in Pumps, Take(p) \/ AskPerson(p) \/ PumpStep(p) PROVE MappingsOK'
  BY <1>3, <1>4, <1>5, <1>6, <1>7
<1>8. ASSUME \/ \E m \in Messages : Submit(m)
             \/ \E i \in Inbounds : Release(i)
             \/ \E r \in Routes : Reroute(r)
             \/ \E p \in Pumps, how \in {"answered", "cancelled"} : HostResolves(p, how)
             \/ ProcessEnds
      PROVE  mappings' = mappings
  BY <1>8 DEF Submit, Push, Release, Reroute, HostResolves, ProcessEnds, stores
<1> QED BY <1>3, <1>7, <1>8 DEF ChannelsNext

\* What is remembered of the past.
LEMMA FactsStep ==
  ASSUME StoresInv, PumpsInv, ChannelsNext
  PROVE  FactsOK'
<1> USE DEF FactsOK
<1>0. /\ Inbounds \subseteq Inbounds' /\ Inbounds \subseteq Nat /\ FactsOK
      /\ Len(inbox) \in Nat /\ Len(inbox') \in Nat
      /\ Inbounds' = Inbounds \/ \E m \in Messages : Submit(m)
  BY InboxGrows DEF StoresInv, Inbounds
<1>1. ASSUME facts' = facts, Inbounds' = Inbounds PROVE FactsOK'
  BY <1>0, <1>1
<1>2. ASSUME NEW m \in Messages, Submit(m) PROVE FactsOK'
  <2>1. /\ facts' = [facts EXCEPT !.drives = Append(@, 0)]
        /\ inbox' = Append(inbox, [msg |-> m, status |-> "queued"])
    BY <1>2 DEF Submit, Push
  <2>2. Len(inbox') = Len(inbox) + 1
    BY <2>1, AppendProperties DEF StoresInv, Entries
  <2>3. facts.drives \in Seq(Nat) /\ Len(facts.drives) = Len(inbox)
    <3>1. facts.drives \in [1 .. Len(inbox) -> Nat]
      BY <1>0 DEF Inbounds
    <3>2. facts.drives \in Seq(Nat)
      BY <1>0, <3>1, SeqDef
    <3>3. DOMAIN facts.drives = 1 .. Len(facts.drives) /\ Len(facts.drives) \in Nat
      BY <3>2, LenProperties
    <3> QED BY <1>0, <3>1, <3>2, <3>3
  <2>4. facts'.drives = Append(facts.drives, 0)
    BY <1>0, <2>1
  <2>5. facts'.drives \in Seq(Nat) /\ Len(facts'.drives) = Len(inbox')
    BY <2>2, <2>3, <2>4, AppendProperties
  <2>6. facts'.drives \in [Inbounds' -> Nat]
    BY <2>5, LenProperties DEF Inbounds
  <2> QED BY <1>0, <2>1, <2>6
<1>3. ASSUME NEW i \in Inbounds, Release(i) PROVE FactsOK'
  <2>1. facts' = [facts EXCEPT !.released = @ + 1, !.drives[i] = 0] /\ Len(inbox') = Len(inbox)
    BY <1>3 DEF Release, StoresInv
  <2>2. facts'.drives = [facts.drives EXCEPT ![i] = 0] /\ facts'.released = facts.released + 1
    BY <1>0, <2>1
  <2>3. Inbounds' = Inbounds
    BY <2>1 DEF Inbounds
  <2> QED BY <1>0, <2>1, <2>2, <2>3
<1>4. ASSUME NEW p \in Pumps, Take(p) PROVE FactsOK'
  <2>1. \E chosen : facts' = [facts EXCEPT !.stranded = @ \ chosen]
    BY <1>4 DEF Take
  <2>2. pump'[p].pc = "message" /\ pump[p].pc = "idle"
    BY <1>4 DEF Take, At, PumpsInv, PumpOK
  <2>3. Inbounds' = Inbounds
    BY <1>0, <2>2 DEF Submit, Push
  <2> QED BY <1>0, <2>1, <2>3
<1>5. ASSUME NEW p \in Pumps, AskPerson(p) PROVE FactsOK'
  <2>1. pump[p].batch # {} /\ Inbounds' = Inbounds
    BY <1>5 DEF AskPerson, At, PumpsInv, PumpOK, stores, Inbounds
  <2>2. Current(p) \in Inbounds
    BY <2>1, CurrentIsHeld
  <2> QED BY <1>0, <1>5, <2>1, <2>2 DEF AskPerson
<1>6. ASSUME NEW p \in Pumps, StartTurn(p) PROVE FactsOK'
  <2>1. pump[p].batch # {} /\ Inbounds' = Inbounds
    BY <1>6 DEF StartTurn, At, PumpsInv, PumpOK, stores, Inbounds
  <2>2. Current(p) \in Inbounds
    BY <2>1, CurrentIsHeld
  <2>3. \A q \in Pumps : Driving(q) => Current(q) \in Inbounds
    BY CurrentIsHeld DEF PumpsInv, PumpOK, TurnOK, Driving, NoTurn
  <2>4. PICK met \in SUBSET {q \in Pumps : Driving(q)} :
          facts' = [facts EXCEPT
                      !.drives[Current(p)] = @ + 1,
                      !.shared = @ \cup (IF met = {} THEN {} ELSE
                                         {Current(p)} \cup {Current(q) : q \in met})]
    BY <1>6 DEF StartTurn
  <2>5. /\ facts'.drives = [facts.drives EXCEPT ![Current(p)] = @ + 1]
        /\ facts'.shared \subseteq facts.shared \cup {Current(p)} \cup {Current(q) : q \in met}
    BY <1>0, <2>4
  <2>6. facts'.drives \in [Inbounds -> Nat]
    BY <1>0, <2>2, <2>5
  <2> QED BY <1>0, <2>1, <2>2, <2>3, <2>4, <2>5, <2>6
<1>7. ASSUME NEW p \in Pumps, Accepted(p) PROVE FactsOK'
  <2>1. pump[p].batch # {} /\ Inbounds' = Inbounds
    BY <1>7 DEF Accepted, At, PumpsInv, PumpOK, stores, Inbounds
  <2>2. Current(p) \in Inbounds
    BY <2>1, CurrentIsHeld
  <2>3. PICK q \in Pumps : /\ turn[q].asking = pump[p].found.request
                           /\ pump[p].found.request \in requests
                           /\ facts' = [facts EXCEPT !.answers = @ \cup
                                {[by |-> Current(p), to |-> Current(q),
                                  said |-> Said(Current(q)), life |-> life]}]
    BY <1>7 DEF Accepted
  <2>4. Current(q) \in Inbounds
    <3>1. Asking(q)
      BY <2>3 DEF StoresInv, Asking
    <3>2. pump[q].batch # {}
      BY <3>1 DEF PumpsInv, PumpOK, TurnOK, Asking, NoTurn
    <3> QED BY <3>2, CurrentIsHeld
  <2>5. facts'.answers = facts.answers \cup {[by |-> Current(p), to |-> Current(q),
                                              said |-> Said(Current(q)), life |-> life]}
    BY <1>0, <2>3
  <2>6. \A a \in facts'.answers : a.by \in Inbounds /\ a.to \in Inbounds
    BY <1>0, <2>2, <2>4, <2>5
  <2> QED BY <1>0, <2>1, <2>3, <2>6
<1>8. ASSUME ProcessEnds PROVE FactsOK'
  <2>1. \A m \in mappings : m.request \in Nat
    BY DEF StoresInv, MappingsOK, IsMapping
  <2>2. UNION {pump[p].batch : p \in Pumps} \subseteq Inbounds
    BY DEF PumpsInv, PumpOK
  <2>3. Inbounds' = Inbounds
    BY <1>8 DEF ProcessEnds, stores, Inbounds
  <2>4. facts' = [facts EXCEPT
                !.stranded = @ \cup UNION {pump[p].batch : p \in Pumps},
                !.leftover = @ \cup {m.request : m \in mappings}]
    BY <1>8 DEF ProcessEnds
  <2>5. /\ facts'.stranded = facts.stranded \cup UNION {pump[p].batch : p \in Pumps}
        /\ facts'.leftover = facts.leftover \cup {m.request : m \in mappings}
    BY <1>0, <2>4
  <2>6. facts'.stranded \subseteq Inbounds /\ facts'.leftover \subseteq Nat
    BY <1>0, <2>1, <2>2, <2>5
  <2> QED BY <1>0, <2>3, <2>4, <2>6
<1>9. ASSUME NEW p \in Pumps, PumpStep(p), ~StartTurn(p), ~Accepted(p) PROVE FactsOK'
  <2>1. facts' = facts
    BY <1>9 DEF PumpStep, SessionFails, TurnDown, FindQuestion, Note, Gone, Answered, TurnEnds,
                Perform, Advance
  <2>2. CASE ~Perform(p)
    <3>1. inbox' = inbox
      BY <1>9, <2>2 DEF PumpStep, SessionFails, TurnDown, FindQuestion, Note, Gone, Answered,
                        TurnEnds, Advance, stores
    <3> QED BY <1>1, <2>1, <3>1 DEF Inbounds
  <2>3. CASE Perform(p)
    <3>1. Inbounds' = Inbounds
      BY <1>0, <2>3 DEF Perform, Submit, Push, Settled
    <3> QED BY <1>1, <2>1, <3>1
  <2> QED BY <2>2, <2>3
<1>10. ASSUME \/ \E r \in Routes : Reroute(r)
              \/ \E p \in Pumps, how \in {"answered", "cancelled"} : HostResolves(p, how)
       PROVE  FactsOK'
  BY <1>1, <1>10 DEF Reroute, HostResolves, stores, Inbounds
<1> HIDE DEF FactsOK
<1>11. ASSUME NEW p \in Pumps, PumpStep(p) PROVE FactsOK'
  BY <1>6, <1>7, <1>9, <1>11
<1> QED BY <1>2, <1>3, <1>4, <1>5, <1>8, <1>10, <1>11 DEF ChannelsNext

\* An inductive step for the files, and the past.
LEMMA StoresStep ==
  ASSUME StoresInv, PumpsInv, StepsInv, ChannelsNext
  PROVE  StoresInv'
<1>0. Inbounds \subseteq Inbounds' /\ inbox' \in Seq(Entries)
  BY InboxGrows
<1>1. \A o \in outbox' : o.re \in Inbounds' /\ o.for \in Inbounds'
  <2>0. \A o \in outbox : o.re \in Inbounds /\ o.for \in Inbounds
    BY DEF StoresInv
  <2>1. ASSUME NEW p \in Pumps, Perform(p), outbox' # outbox
        PROVE  \A o \in outbox' : o.re \in Inbounds' /\ o.for \in Inbounds'
    <3> DEFINE step == Head(pump[p].work)
    <3>1. /\ step.op = "reply"
          /\ outbox' = outbox \cup {[re |-> step.at, for |-> Current(p),
                                     nth |-> Said(Current(p)) + 1]}
      BY <2>1 DEF Perform
    <3>2. step \in Steps(p) /\ pump[p].batch # {}
      BY <2>1, PerformEffect DEF Steps, PumpsInv, PumpOK
    <3>3. step.at \in Inbounds /\ Current(p) \in Inbounds
      BY <3>1, <3>2, CurrentIsHeld DEF StepsInv
    <3> HIDE DEF step
    <3> QED BY <1>0, <2>0, <3>1, <3>3
  <2>2. ASSUME NEW p \in Pumps, Take(p) \/ AskPerson(p) \/ PumpStep(p), ~Perform(p)
        PROVE  outbox' = outbox
    BY <2>2 DEF Take, AskPerson, PumpStep, SessionFails, StartTurn, TurnDown, FindQuestion, Note,
                Accepted, Gone, Answered, TurnEnds, Advance, stores
  <2>3. ASSUME \/ \E m \in Messages : Submit(m)
               \/ \E i \in Inbounds : Release(i)
               \/ \E r \in Routes : Reroute(r)
               \/ \E p \in Pumps, how \in {"answered", "cancelled"} : HostResolves(p, how)
               \/ ProcessEnds
        PROVE  outbox' = outbox
    BY <2>3 DEF Submit, Push, Release, Reroute, HostResolves, ProcessEnds, stores
  <2>4. outbox' = outbox \/ \E p \in Pumps : Perform(p)
    BY <2>2, <2>3 DEF ChannelsNext
  <2> QED BY <1>0, <2>0, <2>1, <2>4
<1>2. counter' \in Nat \ {0} /\ requests' \subseteq 1 .. counter' - 1
  <2>0. counter \in Nat \ {0} /\ requests \subseteq 1 .. counter - 1
    BY DEF StoresInv
  <2>1. CASE requests' \subseteq requests /\ counter' = counter
    BY <2>0, <2>1
  <2>2. CASE requests' = requests \cup {counter} /\ counter' = counter + 1
    BY <2>0, <2>2
  <2>3. CASE requests' = {} /\ counter' = 1
    BY <2>3
  <2>4. ASSUME NEW p \in Pumps, Take(p) \/ AskPerson(p) \/ PumpStep(p)
        PROVE  \/ requests' \subseteq requests /\ counter' = counter
               \/ requests' = requests \cup {counter} /\ counter' = counter + 1
    BY <2>4 DEF Take, AskPerson, PumpStep, SessionFails, StartTurn, TurnDown, FindQuestion, Note,
                Accepted, Gone, Answered, TurnEnds, Perform, Advance, loop
  <2>5. ASSUME \/ \E m \in Messages : Submit(m)
               \/ \E i \in Inbounds : Release(i)
               \/ \E r \in Routes : Reroute(r)
               \/ \E p \in Pumps, how \in {"answered", "cancelled"} : HostResolves(p, how)
               \/ ProcessEnds
        PROVE  \/ requests' \subseteq requests /\ counter' = counter
               \/ requests' = {} /\ counter' = 1
    BY <2>5 DEF Submit, Push, Release, Reroute, HostResolves, ProcessEnds, loop
  <2> QED BY <2>1, <2>2, <2>3, <2>4, <2>5 DEF ChannelsNext
<1>3. life' \in Nat /\ rerouted' \in Nat
  <2>0. life \in Nat /\ rerouted \in Nat
    BY DEF StoresInv
  <2>1. ASSUME NEW p \in Pumps, Take(p) \/ AskPerson(p) \/ PumpStep(p)
        PROVE  UNCHANGED <<life, rerouted>>
    BY <2>1 DEF Take, AskPerson, PumpStep, SessionFails, StartTurn, TurnDown, FindQuestion, Note,
                Accepted, Gone, Answered, TurnEnds, Perform, Advance
  <2>2. ASSUME \/ \E m \in Messages : Submit(m)
               \/ \E i \in Inbounds : Release(i)
               \/ \E r \in Routes : Reroute(r)
               \/ \E p \in Pumps, how \in {"answered", "cancelled"} : HostResolves(p, how)
               \/ ProcessEnds
        PROVE  life' \in {life, life + 1} /\ rerouted' \in {rerouted, rerouted + 1}
    BY <2>2 DEF Submit, Push, Release, Reroute, HostResolves, ProcessEnds
  <2> QED BY <2>0, <2>1, <2>2 DEF ChannelsNext
<1> QED BY <1>0, <1>1, <1>2, <1>3, MappingsStep, FactsStep DEF StoresInv

-----------------------------------------------------------------------------
(* What a pump holds at each of its labels *)

\* A pump an action does not touch stays as it is.
LEMMA OthersKeep ==
  ASSUME StoresInv, PumpsInv, ChannelsNext, NEW q \in Pumps,
         pump'[q] = pump[q], turn'[q] = turn[q]
  PROVE  PumpOK(q)' /\ TurnOK(q)'
<1>1. Inbounds \subseteq Inbounds'
  BY InboxGrows
<1> QED BY <1>1 DEF PumpsInv, PumpOK, TurnOK, Finding, IsMapping, Driving, Asking

\* Every action keeps the pumps well formed.
LEMMA PumpsStep ==
  ASSUME StoresInv, PumpsInv, StepsInv, ChannelsNext
  PROVE  PumpsInv'
<1>0. Inbounds \subseteq Inbounds' /\ Inbounds \subseteq Nat /\ 0 \notin Inbounds
  BY InboxGrows DEF Inbounds
<1>a. DOMAIN pump = Pumps /\ DOMAIN turn = Pumps /\ \A p \in Pumps : PumpOK(p) /\ TurnOK(p)
  BY DEF PumpsInv
<1>b. ASSUME NEW p \in Pumps,
             DOMAIN pump' = Pumps, DOMAIN turn' = Pumps, PumpOK(p)', TurnOK(p)',
             \A q \in Pumps \ {p} : pump'[q] = pump[q] /\ turn'[q] = turn[q]
      PROVE  PumpsInv'
  BY <1>b, OthersKeep DEF PumpsInv
<1>c. ASSUME UNCHANGED <<pump, turn>> PROVE PumpsInv'
  BY <1>a, <1>c, OthersKeep DEF PumpsInv
<1>d. ASSUME NEW p \in Pumps, At(p, "message") \/ At(p, "turn") \/ At(p, "waiting")
      PROVE  pump[p].batch # {} /\ Current(p) \in Inbounds /\ Current(p) # 0
  BY <1>a, <1>d, CurrentIsHeld DEF PumpsInv, PumpOK, At
<1>1. ASSUME NEW p \in Pumps, Take(p) PROVE PumpsInv'
  <2>1. PICK chosen \in SUBSET Inbounds :
          chosen # {} /\ pump' = [pump EXCEPT ![p].pc = "message", ![p].batch = chosen]
    BY <1>1 DEF Take
  <2>2. turn' = turn /\ pump[p].pc = "idle" /\ pump[p].work = <<>>
    BY <1>1 DEF Take, At, Settled
  <2>3. PumpOK(p)' /\ TurnOK(p)'
    <3>1. PumpOK(p) /\ TurnOK(p) /\ turn'[p] = NoTurn
      BY <1>a, <2>2 DEF TurnOK
    <3>2. pump'[p] = [pump[p] EXCEPT !.pc = "message", !.batch = chosen]
      BY <1>a, <2>1
    <3>3. pump'[p] = [pc |-> "message", work |-> <<>>, batch |-> chosen,
                      session |-> pump[p].session, found |-> pump[p].found]
      BY <2>2, <3>1, <3>2 DEF PumpOK
    <3>4. PumpOK(p)'
      <4>1. chosen \in SUBSET Inbounds' /\ <<>> \in Seq(Operations)
            /\ "message" \in PumpLabels
        BY <1>0, <2>1 DEF PumpLabels
      <4>2. /\ pump'[p].pc = "message" /\ pump'[p].work = <<>> /\ pump'[p].batch = chosen
            /\ pump'[p] \in [pc : PumpLabels, work : Seq(Operations), batch : SUBSET Inbounds',
                             session : {pump'[p].session}, found : {pump'[p].found}]
        BY <3>3, <4>1
      <4> QED BY <2>1, <4>2 DEF PumpOK, Finding
    <3>5. TurnOK(p)'
      BY <3>1, <3>3 DEF TurnOK, Outcomes, Driving, Asking, NoTurn
    <3> QED BY <3>4, <3>5
  <2> QED BY <1>a, <1>b, <2>1, <2>2, <2>3
<1>2. ASSUME NEW p \in Pumps, SessionFails(p) \/ TurnDown(p) \/ Gone(p) PROVE PumpsInv'
  <2>1. PICK ops \in Seq(Operations) :
          pump' = [pump EXCEPT ![p].work = ops, ![p].pc = "next"]
    <3>1. pump[p].pc \in {"message", "answer"} /\ Current(p) \in Nat
      BY <1>0, <1>2, <1>a, CurrentIsHeld DEF SessionFails, TurnDown, Gone, At, PumpsInv, PumpOK
    <3>2. Gone(p) => pump[p].found.request \in Nat
      BY <1>a DEF Gone, At, PumpOK, Finding, IsMapping
    <3>3. /\ <<Settle(Current(p), "failed")>> \in Seq(Operations)
          /\ <<Reply(Current(p)), Settle(Current(p), "acknowledged")>> \in Seq(Operations)
          /\ Gone(p) => <<DropRequest(pump[p].found.request), Reply(Current(p)),
                          Settle(Current(p), "failed")>> \in Seq(Operations)
      BY <3>1, <3>2, OperationKinds
    <3> QED BY <1>2, <3>3 DEF SessionFails, TurnDown, Gone, Then
  <2>2. turn' = turn /\ pump[p].pc \in {"message", "answer"}
    BY <1>2 DEF SessionFails, TurnDown, Gone, At
  <2>3. PumpOK(p)' /\ TurnOK(p)'
    BY <1>0, <1>a, <2>1, <2>2 DEF PumpOK, TurnOK, PumpLabels, Finding, Driving, Asking, NoTurn
  <2> QED BY <1>a, <1>b, <2>1, <2>2, <2>3
<1>3. ASSUME NEW p \in Pumps, StartTurn(p) PROVE PumpsInv'
  <2>1. PICK s : pump' = [pump EXCEPT ![p].pc = "turn", ![p].session = s]
    BY <1>3 DEF StartTurn
  <2>2. turn' = [turn EXCEPT ![p].target = Current(p)] /\ At(p, "message")
    BY <1>3 DEF StartTurn
  <2>3. pump[p].pc = "message" /\ pump[p].work = <<>> /\ turn[p] = NoTurn
    BY <1>a, <2>2 DEF At, Settled, TurnOK
  <2>4. PumpOK(p)' /\ TurnOK(p)'
    <3>1. pump'[p] = [pump[p] EXCEPT !.pc = "turn", !.session = s]
      BY <1>a, <2>1
    <3>2. PumpOK(p)'
      BY <1>0, <1>a, <2>3, <3>1 DEF PumpOK, PumpLabels, Finding
    <3>3. turn'[p] = [NoTurn EXCEPT !.target = Current(p)]
      BY <1>a, <2>2, <2>3
    <3>4. pump'[p].pc = "turn"
      BY <1>a, <3>1 DEF PumpOK
    <3>5. TurnOK(p)'
      BY <1>0, <1>d, <2>2, <3>3, <3>4 DEF TurnOK, Driving, Asking, NoTurn, Outcomes
    <3> QED BY <3>2, <3>5
  <2> QED BY <1>a, <1>b, <2>1, <2>2, <2>4
<1>4. ASSUME NEW p \in Pumps, FindQuestion(p) PROVE PumpsInv'
  <2> DEFINE own == {m \in mappings : m.session = SessionOf(Current(p))}
  <2>1. /\ pump' = [pump EXCEPT ![p].pc = "note",
                                ![p].found = MappingOf(SessionOf(Current(p)))]
        /\ turn' = turn /\ pump[p].pc = "message" /\ pump[p].work = <<>>
        /\ MappingOf(SessionOf(Current(p))) # NoMapping
    BY <1>4 DEF FindQuestion, At, Settled
  <2>2. MappingOf(SessionOf(Current(p))) \in mappings
    <3>1. own \in SUBSET mappings /\ MappingOf(SessionOf(Current(p))) = FirstOf(own)
      BY DEF MappingOf
    <3>2. own # {}
      BY <2>1, <3>1 DEF FirstOf
    <3> HIDE DEF own
    <3> QED BY <3>1, <3>2, FirstIsOne
  <2>3. PICK f \in mappings : pump' = [pump EXCEPT ![p].pc = "note", ![p].found = f]
    BY <2>1, <2>2
  <2>4. PumpOK(p)' /\ TurnOK(p)'
    <3>1. f \in [at : Nat, request : Nat, session : {f.session}, answer : Inbounds \cup {0}]
      BY DEF StoresInv, MappingsOK, IsMapping
    <3>2. PumpOK(p) /\ pump[p].batch # {}
      BY <1>a, <2>1 DEF PumpOK
    <3>3. pump'[p] = [pump[p] EXCEPT !.pc = "note", !.found = f]
      BY <1>a, <2>3
    <3>4. pump'[p] = [pc |-> "note", work |-> <<>>, batch |-> pump[p].batch,
                      session |-> pump[p].session, found |-> f]
      BY <2>1, <3>2, <3>3, ZenonT(40) DEF PumpOK
    <3>5. pump'[p] \in [pc : PumpLabels, work : Seq(Operations), batch : SUBSET Inbounds',
                        session : {pump'[p].session}, found : {pump'[p].found}]
      <4>2. pump[p].batch \in SUBSET Inbounds
        BY <3>2 DEF PumpOK
      <4>3. pump[p].batch \in SUBSET Inbounds'
        BY <1>0, <4>2
      <4> QED BY <3>4, <4>3 DEF PumpLabels
    <3>6. pump'[p].found \in [at : Nat, request : Nat, session : {pump'[p].found.session},
                             answer : Inbounds' \cup {0}]
      BY <1>0, <3>1, <3>4
    <3>7. PumpOK(p)'
      BY <3>2, <3>4, <3>5, <3>6 DEF PumpOK, Finding, IsMapping
    <3>8. TurnOK(p)'
      BY <1>0, <1>a, <2>1, <3>4 DEF TurnOK, Driving, Asking, NoTurn
    <3> QED BY <3>7, <3>8
  <2> QED BY <1>a, <1>b, <2>1, <2>4
<1>5. ASSUME NEW p \in Pumps, Note(p) PROVE PumpsInv'
  <2>1. /\ pump' = [pump EXCEPT ![p].pc = "answer"]
        /\ turn' = turn /\ pump[p].pc = "note" /\ pump[p].work = <<>>
    BY <1>5 DEF Note, At, Settled, Goto
  <2>2. PumpOK(p)' /\ TurnOK(p)'
    <3>1. PumpOK(p) /\ TurnOK(p) /\ pump'[p] = [pump[p] EXCEPT !.pc = "answer"]
      BY <1>a, <2>1
    <3>2. PumpOK(p)'
      BY <1>0, <2>1, <3>1 DEF PumpOK, PumpLabels, Finding, IsMapping
    <3>3. TurnOK(p)'
      <4>1. pump'[p].pc = "answer" /\ turn'[p] = NoTurn
        BY <2>1, <3>1 DEF PumpOK, TurnOK
      <4> QED BY <4>1 DEF TurnOK, Outcomes, Driving, Asking, NoTurn
    <3> QED BY <3>2, <3>3
  <2> QED BY <1>a, <1>b, <2>1, <2>2
<1>6. ASSUME NEW p \in Pumps, Accepted(p) PROVE PumpsInv'
  <2>1. PICK q \in Pumps : /\ turn[q].asking = pump[p].found.request
                           /\ pump[p].found.request \in requests
                           /\ turn' = [turn EXCEPT ![q].outcome = "answered"]
    BY <1>6 DEF Accepted
  <2>2. /\ pump' = [pump EXCEPT ![p].work = <<Settle(Current(p), "acknowledged")>>,
                                ![p].pc = "next"]
        /\ pump[p].pc = "answer"
    BY <1>6 DEF Accepted, Then, At
  <2>3. Asking(q) /\ q # p
    BY <1>a, <2>1, <2>2 DEF StoresInv, Asking, TurnOK, NoTurn
  <2>4. <<Settle(Current(p), "acknowledged")>> \in Seq(Operations)
    BY <1>0, <1>a, <2>2, CurrentIsHeld, OperationKinds DEF PumpsInv, PumpOK
  <2>5. PumpOK(p)' /\ TurnOK(p)'
    BY <1>0, <1>a, <2>1, <2>2, <2>3, <2>4
       DEF PumpOK, TurnOK, PumpLabels, Finding, Driving, Asking, NoTurn
  <2>6. PumpOK(q)' /\ TurnOK(q)'
    <3>1. pump'[q] = pump[q] /\ turn'[q] = [turn[q] EXCEPT !.outcome = "answered"]
      BY <1>a, <2>1, <2>2, <2>3
    <3>2. PumpOK(q)'
      BY <1>0, <1>a, <3>1 DEF PumpOK, Finding, IsMapping
    <3>3. TurnOK(q)'
      BY <1>0, <1>a, <2>3, <3>1 DEF TurnOK, Driving, Asking, NoTurn, Outcomes
    <3> QED BY <3>2, <3>3
  <2>7. ASSUME NEW r \in Pumps, r # p, r # q PROVE PumpOK(r)' /\ TurnOK(r)'
    BY <1>a, <2>1, <2>2, <2>7, OthersKeep
  <2> QED BY <1>a, <2>1, <2>2, <2>5, <2>6, <2>7 DEF PumpsInv
<1>7. ASSUME NEW p \in Pumps, AskPerson(p) PROVE PumpsInv'
  <2>1. /\ turn' = [turn EXCEPT ![p].asks = @ + 1, ![p].asking = counter,
                                ![p].outcome = "none"]
        /\ pump[p].pc = "turn" /\ At(p, "turn")
    BY <1>7 DEF AskPerson, At
  <2>2. PICK ops \in Seq(Operations) :
          pump' = [pump EXCEPT ![p].work = ops, ![p].pc = "waiting"]
    <3>1. /\ Upsert(counter) \in Operations /\ Reply(Current(p)) \in Operations
          /\ Settle(Current(p), "acknowledged") \in Operations
      BY <1>0, <1>d, <2>1, OperationKinds DEF StoresInv
    <3>2. <<Upsert(counter), Reply(Current(p)), Settle(Current(p), "acknowledged")>>
            \in Seq(Operations)
      BY <3>1
    <3> QED BY <1>7, <3>2 DEF AskPerson, Then
  <2>3. PumpOK(p)' /\ TurnOK(p)'
    BY <1>0, <1>a, <1>d, <2>1, <2>2
       DEF PumpOK, TurnOK, PumpLabels, Finding, Driving, Asking, NoTurn, Outcomes, StoresInv
  <2> QED BY <1>a, <1>b, <2>1, <2>2, <2>3
<1>8. ASSUME NEW p \in Pumps, Answered(p) PROVE PumpsInv'
  <2> DEFINE own == {m \in mappings : m.request = turn[p].asking}
             answer == FirstOf(own).answer
  <2>1. /\ turn' = [turn EXCEPT ![p].target = IF answer # 0 THEN answer ELSE @,
                                ![p].asking = 0]
        /\ pump' = [pump EXCEPT ![p].pc = "turn"]
        /\ pump[p].pc = "waiting" /\ pump[p].work = <<>>
    BY <1>8 DEF Answered, At, Settled, Goto
  <2>2. answer \in Inbounds \cup {0}
    <3>1. CASE own = {}
      BY <3>1 DEF FirstOf, NoMapping
    <3>2. CASE own # {}
      <4>1. FirstOf(own) \in mappings
        <5>1. own \in SUBSET mappings
          OBVIOUS
        <5> HIDE DEF own
        <5> QED BY <3>2, <5>1, FirstIsOne
      <4> QED BY <4>1 DEF StoresInv, MappingsOK, IsMapping
    <3> QED BY <3>1, <3>2
  <2> HIDE DEF answer
  <2>3. PumpOK(p)' /\ TurnOK(p)'
    BY <1>0, <1>a, <2>1, <2>2 DEF PumpOK, TurnOK, PumpLabels, Finding, Driving, Asking, NoTurn
  <2> QED BY <1>a, <1>b, <2>1, <2>3
<1>9. ASSUME NEW p \in Pumps, TurnEnds(p) PROVE PumpsInv'
  <2>1. turn' = turn /\ pump[p].pc \in {"turn", "waiting"}
    BY <1>9 DEF TurnEnds, At
  <2>2. PICK ops \in Seq(Operations) :
          pump' = [pump EXCEPT ![p].work = ops, ![p].pc = "next"]
    <3>0. At(p, "turn") \/ At(p, "waiting")
      BY <1>9 DEF TurnEnds
    <3>1. turn[p].target \in Nat /\ Current(p) \in Nat
      <4>0. turn[p].target \in Inbounds \cup {0}
        BY <1>a DEF TurnOK
      <4>1. turn[p].target \in Nat
        <5>1. \A i \in Inbounds \cup {0} : i \in Nat
          BY DEF Inbounds
        <5> QED BY <4>0, <5>1
      <4>2. Current(p) \in Inbounds
        BY <1>d, <3>0
      <4> QED BY <1>0, <4>1, <4>2
    <3>2. Completed(p) \in Seq(Operations) /\ Failed(p) \in Seq(Operations)
      BY <3>1, OperationKinds DEF Completed, Failed
    <3> QED BY <1>9, <3>2 DEF TurnEnds, Then
  <2>3. PumpOK(p)' /\ TurnOK(p)'
    BY <1>0, <1>a, <2>1, <2>2 DEF PumpOK, TurnOK, PumpLabels, Finding, Driving, Asking, NoTurn
  <2> QED BY <1>a, <1>b, <2>1, <2>2, <2>3
<1>10. ASSUME NEW p \in Pumps, Perform(p) PROVE PumpsInv'
  <2>1. PumpOK(p)' /\ TurnOK(p)'
    <3>1. /\ pump'[p] = [pump[p] EXCEPT !.work = Tail(pump[p].work)] /\ turn'[p] = turn[p]
          /\ pump'[p].work \in Seq(Operations) /\ pump[p].pc \in {"waiting", "next"}
      BY <1>10, PerformEffect
    <3>2. /\ pump'[p].pc = pump[p].pc /\ pump'[p].batch = pump[p].batch
          /\ Tail(pump[p].work) \in Seq(Operations)
      BY <1>a, <3>1 DEF PumpOK
    <3>3. PumpOK(p)'
      BY <1>0, <1>a, <3>1, <3>2 DEF PumpOK, Finding
    <3>4. TurnOK(p)'
      BY <1>0, <1>a, <3>1, <3>2 DEF TurnOK, Driving, Asking
    <3> QED BY <3>3, <3>4
  <2> QED BY <1>10, <1>a, <1>b, <2>1, PerformEffect
<1>11. ASSUME NEW p \in Pumps, Advance(p) PROVE PumpsInv'
  <2>1. PICK rest \in SUBSET Inbounds :
          pump' = [pump EXCEPT ![p] = IF rest = {} THEN IdlePump
                                      ELSE [IdlePump EXCEPT !.pc = "message", !.batch = rest]]
    BY <1>11, <1>a DEF Advance, PumpOK
  <2>2. turn' = [turn EXCEPT ![p] = NoTurn]
    BY <1>11 DEF Advance
  <2>3. /\ pump'[p].pc = IF rest = {} THEN "idle" ELSE "message"
        /\ pump'[p].work = <<>> /\ pump'[p].batch = rest
        /\ pump'[p] \in [pc : PumpLabels, work : Seq(Operations), batch : SUBSET Inbounds,
                         session : {pump'[p].session}, found : {pump'[p].found}]
    <3>1. CASE rest = {}
      BY <1>a, <2>1, <3>1 DEF IdlePump, PumpLabels
    <3>2. CASE rest # {}
      <4>1. pump'[p] = [IdlePump EXCEPT !.pc = "message", !.batch = rest]
        BY <1>a, <2>1, <3>2
      <4>2. pump'[p] = [pc |-> "message", work |-> <<>>, batch |-> rest, session |-> <<>>,
                        found |-> NoMapping]
        BY <4>1 DEF IdlePump
      <4> QED BY <3>2, <4>2 DEF PumpLabels
    <3> QED BY <3>1, <3>2
  <2>4. PumpOK(p)'
    BY <1>0, <2>3 DEF PumpOK, Finding
  <2>5. TurnOK(p)'
    BY <1>a, <2>2, <2>3 DEF TurnOK, Driving, Asking, NoTurn, Outcomes
  <2> QED BY <1>a, <1>b, <2>1, <2>2, <2>4, <2>5
<1>12. ASSUME NEW p \in Pumps, NEW how \in {"answered", "cancelled"}, HostResolves(p, how)
       PROVE  PumpsInv'
  <2>1. /\ turn' = [turn EXCEPT ![p].outcome = how] /\ pump' = pump
        /\ turn[p].asking \in requests
    BY <1>12 DEF HostResolves
  <2>2. Asking(p)
    BY <2>1 DEF StoresInv, Asking
  <2>3. turn'[p] = [turn[p] EXCEPT !.outcome = how] /\ pump'[p] = pump[p]
    BY <1>a, <2>1
  <2>4. PumpOK(p)'
    BY <1>0, <1>a, <2>3 DEF PumpOK, Finding, IsMapping
  <2>5. TurnOK(p)'
    BY <1>0, <1>a, <2>2, <2>3 DEF TurnOK, Driving, Asking, NoTurn, Outcomes
  <2> QED BY <1>a, <1>b, <2>1, <2>4, <2>5
<1>13. ASSUME ProcessEnds PROVE PumpsInv'
  <2>1. pump' = [p \in Pumps |-> IdlePump] /\ turn' = [p \in Pumps |-> NoTurn]
    BY <1>13 DEF ProcessEnds
  <2> QED BY <1>0, <2>1 DEF PumpsInv, PumpOK, TurnOK, PumpLabels, Finding, Driving, Asking,
                            NoTurn, Outcomes, IdlePump
<1>14. ASSUME \/ \E m \in Messages : Submit(m)
              \/ \E i \in Inbounds : Release(i)
              \/ \E r \in Routes : Reroute(r)
       PROVE  UNCHANGED <<pump, turn>>
  BY <1>14 DEF Submit, Push, Release, Reroute
<1>15. ASSUME NEW p \in Pumps, PumpStep(p) PROVE PumpsInv'
  BY <1>15, <1>2, <1>3, <1>4, <1>5, <1>6, <1>8, <1>9, <1>10, <1>11 DEF PumpStep
<1> QED BY <1>c, <1>1, <1>7, <1>12, <1>13, <1>14, <1>15 DEF ChannelsNext

\* A pump's action leaves the other pumps alone.
LEMMA OneActs ==
  ASSUME PumpsInv, NEW p \in Pumps, Take(p) \/ AskPerson(p) \/ PumpStep(p)
  PROVE  \A q \in Pumps \ {p} : pump'[q] = pump[q]
<1>1. CASE Take(p) \/ AskPerson(p)
  BY <1>1 DEF PumpsInv, Take, AskPerson, Then
<1>2. CASE PumpStep(p)
  BY <1>2 DEF PumpsInv, PumpStep, SessionFails, StartTurn, TurnDown, FindQuestion, Note, Accepted,
              Gone, Answered, TurnEnds, Perform, Advance, Then, Goto
<1> QED BY <1>1, <1>2

\* All but the steps of its work wait until no pump has work.
LEMMA OthersWait ==
  ASSUME ChannelsNext
  PROVE  \/ Settled
         \/ \E p \in Pumps : Perform(p) \/ Advance(p)
         \/ ProcessEnds
<1>1. ASSUME NEW p \in Pumps, PumpStep(p), ~Perform(p), ~Advance(p) PROVE Settled
  BY <1>1 DEF PumpStep, SessionFails, StartTurn, TurnDown, FindQuestion, Note, Accepted, Gone,
              Answered, TurnEnds, At
<1>2. ASSUME NEW p \in Pumps, Take(p) \/ AskPerson(p) PROVE Settled
  BY <1>2 DEF Take, AskPerson, At
<1>3. ASSUME \/ \E m \in Messages : Submit(m)
             \/ \E i \in Inbounds : Release(i)
             \/ \E r \in Routes : Reroute(r)
             \/ \E p \in Pumps, how \in {"answered", "cancelled"} : HostResolves(p, how)
      PROVE  Settled
  BY <1>3 DEF Submit, Push, Release, Reroute, HostResolves
<1> QED BY <1>1, <1>2, <1>3 DEF ChannelsNext

\* After the step of a pump no other one has any work.
LEMMA OneBusyStep ==
  ASSUME StoresInv, PumpsInv, PumpsInv', OneBusy, ChannelsNext
  PROVE  OneBusy'
<1>1. ASSUME NEW p \in Pumps, \A q \in Pumps \ {p} : ~Busy(q)' PROVE OneBusy'
  BY <1>1 DEF OneBusy
<1>2. ASSUME NEW p \in Pumps, Take(p) \/ AskPerson(p) \/ PumpStep(p) PROVE OneBusy'
  <2>1. \A q \in Pumps \ {p} : pump'[q] = pump[q]
    BY <1>2, OneActs
  <2>2. \A q \in Pumps \ {p} : ~Busy(q)
    <3>1. CASE Settled
      BY <3>1 DEF Settled, Busy
    <3>2. CASE Perform(p) \/ Advance(p)
      <4>1. Busy(p)
        BY <3>2 DEF Perform, Advance, Busy
      <4> QED BY <4>1 DEF OneBusy
    <3> QED BY <1>2, <3>1, <3>2 DEF Take, AskPerson, PumpStep, SessionFails, StartTurn, TurnDown,
                                    FindQuestion, Note, Accepted, Gone, Answered, TurnEnds, At
  <2> QED BY <1>1, <2>1, <2>2 DEF Busy
<1>3. ASSUME \/ \E m \in Messages : Submit(m)
             \/ \E i \in Inbounds : Release(i)
             \/ \E r \in Routes : Reroute(r)
             \/ \E p \in Pumps, how \in {"answered", "cancelled"} : HostResolves(p, how)
      PROVE  OneBusy'
  <2>1. pump' = pump
    BY <1>3 DEF Submit, Push, Release, Reroute, HostResolves
  <2> QED BY <2>1 DEF OneBusy, Busy
<1>4. ASSUME ProcessEnds PROVE OneBusy'
  BY <1>4 DEF ProcessEnds, OneBusy, Busy, IdlePump
<1> QED BY <1>2, <1>3, <1>4 DEF ChannelsNext

\* What a step refers to stays true until it is done.
LEMMA StepsStep ==
  ASSUME StoresInv, PumpsInv, PumpsInv', OneBusy, StepsInv, ChannelsNext
  PROVE  StepsInv'
<1> DEFINE StepOK(p, s) == 
             /\ s.op \in {"reply", "settle"} => s.at \in Inbounds
             /\ s.op = "upsert" => pump[p].pc = "waiting" /\ s.request = turn[p].asking
             /\ s.op = "dropRequest" => s.request \notin requests
             /\ s.op = "dropSession" => pump[p].pc = "next" /\ Driving(p)
<1>0. Inbounds \subseteq Inbounds' /\ DOMAIN pump = Pumps
  BY InboxGrows DEF PumpsInv
<1>a. ASSUME \A p \in Pumps : Steps(p)' = {} PROVE StepsInv'
  BY <1>a DEF StepsInv
<1>b. ASSUME NEW p \in Pumps, Settled, Take(p) \/ AskPerson(p) \/ PumpStep(p),
             \A s \in Steps(p)' : StepOK(p, s)'
      PROVE  StepsInv'
  <2>1. \A q \in Pumps \ {p} : Steps(q)' = {}
    BY <1>b, OneActs, NothingLeft DEF Steps
  <2> QED BY <1>b, <2>1 DEF StepsInv
<1>c. ASSUME NEW p \in Pumps, Settled, Take(p) \/ AskPerson(p) \/ PumpStep(p),
             pump'[p].work = pump[p].work
      PROVE  StepsInv'
  <2>1. Steps(p)' = {}
    BY <1>c, NothingLeft DEF Steps
  <2> QED BY <1>b, <1>c, <2>1
<1>d. ASSUME NEW p \in Pumps, pump[p].pc # "idle" PROVE Current(p) \in Inbounds
  BY <1>d, CurrentIsHeld DEF PumpsInv, PumpOK
<1>1. ASSUME NEW p \in Pumps, Take(p) \/ StartTurn(p) \/ FindQuestion(p) \/ Note(p) \/ Answered(p)
      PROVE  StepsInv'
  <2>1. pump'[p].work = pump[p].work
    <3>0. PumpOK(p)
      BY DEF PumpsInv
    <3>1. CASE Take(p)
      BY <1>0, <3>0, <3>1 DEF Take, PumpOK
    <3>2. CASE StartTurn(p)
      BY <1>0, <3>0, <3>2 DEF StartTurn, PumpOK
    <3>3. CASE FindQuestion(p)
      BY <1>0, <3>0, <3>3 DEF FindQuestion, PumpOK
    <3>4. CASE Note(p) \/ Answered(p)
      BY <1>0, <3>0, <3>4 DEF Note, Answered, Goto, PumpOK
    <3> QED BY <1>1, <3>1, <3>2, <3>3, <3>4
  <2> QED BY <1>1, <1>c, <2>1
          DEF Take, StartTurn, FindQuestion, Note, Answered, At, PumpStep
<1>2. ASSUME NEW p \in Pumps, SessionFails(p) \/ TurnDown(p) PROVE StepsInv'
  <2>1. /\ Settled /\ Current(p) \in Inbounds
        /\ \/ pump' = [pump EXCEPT ![p].work = <<Settle(Current(p), "failed")>>, ![p].pc = "next"]
           \/ pump' = [pump EXCEPT ![p].work = <<Reply(Current(p)),
                                                 Settle(Current(p), "acknowledged")>>,
                                   ![p].pc = "next"]
    BY <1>2, <1>d DEF SessionFails, TurnDown, At, Then
  <2>2. \/ pump'[p].work = <<Settle(Current(p), "failed")>>
        \/ pump'[p].work = <<Reply(Current(p)), Settle(Current(p), "acknowledged")>>
    BY <1>0, <2>1 DEF PumpsInv, PumpOK
  <2>3. \A s \in Steps(p)' : s.op \in {"reply", "settle"} /\ s.at = Current(p)
    BY <2>2 DEF Steps, Settle, Reply
  <2> QED BY <1>0, <1>2, <1>b, <2>1, <2>3 DEF PumpStep
<1>3. ASSUME NEW p \in Pumps, Accepted(p) PROVE StepsInv'
  <2>1. /\ Settled /\ Current(p) \in Inbounds
        /\ pump' = [pump EXCEPT ![p].work = <<Settle(Current(p), "acknowledged")>>,
                                ![p].pc = "next"]
    BY <1>3, <1>d DEF Accepted, At, Then
  <2>2. pump'[p].work = <<Settle(Current(p), "acknowledged")>>
    BY <1>0, <2>1 DEF PumpsInv, PumpOK
  <2>3. \A s \in Steps(p)' : s.op = "settle" /\ s.at = Current(p)
    BY <2>2 DEF Steps, Settle
  <2> QED BY <1>0, <1>3, <1>b, <2>1, <2>3 DEF PumpStep
<1>4. ASSUME NEW p \in Pumps, Gone(p) PROVE StepsInv'
  <2> DEFINE r == pump[p].found.request
  <2>1. /\ Settled /\ Current(p) \in Inbounds /\ r \notin requests /\ requests' = requests
        /\ pump' = [pump EXCEPT ![p].work = <<DropRequest(r), Reply(Current(p)),
                                              Settle(Current(p), "failed")>>,
                                ![p].pc = "next"]
    BY <1>4, <1>d DEF Gone, At, Then, loop
  <2>2. pump'[p].work = <<DropRequest(r), Reply(Current(p)), Settle(Current(p), "failed")>>
    BY <1>0, <2>1 DEF PumpsInv, PumpOK
  <2> HIDE DEF r
  <2>3. \A s \in Steps(p)' : \/ s.op \in {"reply", "settle"} /\ s.at = Current(p)
                             \/ s.op = "dropRequest" /\ s.request = r
    BY <2>2 DEF Steps, Settle, Reply, DropRequest
  <2> QED BY <1>0, <1>4, <1>b, <2>1, <2>3 DEF PumpStep
<1>5. ASSUME NEW p \in Pumps, AskPerson(p) PROVE StepsInv'
  <2>1. /\ Settled /\ Current(p) \in Inbounds
        /\ turn' = [turn EXCEPT ![p].asks = @ + 1, ![p].asking = counter,
                                ![p].outcome = "none"]
        /\ pump' = [pump EXCEPT ![p].work = <<Upsert(counter), Reply(Current(p)),
                                              Settle(Current(p), "acknowledged")>>,
                                ![p].pc = "waiting"]
    BY <1>5, <1>d DEF AskPerson, At, Then
  <2>2. /\ pump'[p].work = <<Upsert(counter), Reply(Current(p)),
                             Settle(Current(p), "acknowledged")>>
        /\ pump'[p].pc = "waiting" /\ turn'[p].asking = counter
    BY <1>0, <2>1 DEF PumpsInv, PumpOK, TurnOK
  <2>3. \A s \in Steps(p)' : \/ s.op \in {"reply", "settle"} /\ s.at = Current(p)
                             \/ s.op = "upsert" /\ s.request = counter
    BY <2>2 DEF Steps, Settle, Reply, Upsert
  <2> QED BY <1>0, <1>5, <1>b, <2>1, <2>2, <2>3
<1>6. ASSUME NEW p \in Pumps, TurnEnds(p) PROVE StepsInv'
  <2>1. /\ Settled /\ Current(p) \in Inbounds /\ turn' = turn
        /\ pump[p].pc \in {"turn", "waiting"}
        /\ \/ pump' = [pump EXCEPT ![p].work = Completed(p), ![p].pc = "next"]
           \/ pump' = [pump EXCEPT ![p].work = Failed(p), ![p].pc = "next"]
    BY <1>6, <1>d DEF TurnEnds, At, Then
  <2>2. /\ pump'[p].work = Completed(p) \/ pump'[p].work = Failed(p)
        /\ pump'[p].pc = "next"
    BY <1>0, <2>1 DEF PumpsInv, PumpOK
  <2>3. Driving(p) /\ turn[p].target \in Inbounds
    BY <2>1 DEF PumpsInv, TurnOK, Driving
  <2>4. \A s \in Steps(p)' : \/ s.op \in {"reply", "settle"} /\ s.at \in {Current(p), turn[p].target}
                             \/ s.op = "dropSession"
    BY <2>2 DEF Steps, Completed, Failed, Settle, Reply, DropSession
  <2> QED BY <1>0, <1>6, <1>b, <2>1, <2>2, <2>3, <2>4 DEF PumpStep, Driving
<1>7. ASSUME NEW p \in Pumps, Perform(p) PROVE StepsInv'
  <2>1. /\ \A q \in Pumps : pump'[q].pc = pump[q].pc
        /\ \A q \in Pumps : Steps(q)' \subseteq Steps(q)
        /\ turn' = turn /\ requests' = requests
    <3>1. /\ \A q \in Pumps \ {p} : pump'[q] = pump[q]
          /\ pump'[p] = [pump[p] EXCEPT !.work = Tail(pump[p].work)]
          /\ Steps(p)' \subseteq Steps(p) /\ UNCHANGED <<turn, loop>>
      BY <1>7, PerformEffect
    <3>2. pump'[p].pc = pump[p].pc
      BY <3>1 DEF PumpsInv, PumpOK
    <3>3. \A q \in Pumps \ {p} : Steps(q)' = Steps(q)
      BY <3>1 DEF Steps
    <3> QED BY <3>1, <3>2, <3>3 DEF loop
  <2> QED BY <1>0, <2>1 DEF StepsInv, Driving
<1>8. ASSUME NEW p \in Pumps, Advance(p) PROVE StepsInv'
  <2>1. pump'[p].work = <<>>
    BY <1>0, <1>8 DEF Advance, IdlePump
  <2>2. \A q \in Pumps \ {p} : pump'[q].work = <<>>
    BY <1>8, OneActs DEF OneBusy, Busy, Advance, PumpStep
  <2> QED BY <1>a, <2>1, <2>2 DEF Steps
<1>9. ASSUME \/ \E m \in Messages : Submit(m)
             \/ \E i \in Inbounds : Release(i)
             \/ \E r \in Routes : Reroute(r)
             \/ \E p \in Pumps, how \in {"answered", "cancelled"} : HostResolves(p, how)
      PROVE  StepsInv'
  <2>1. pump' = pump /\ Settled
    BY <1>9 DEF Submit, Push, Release, Reroute, HostResolves
  <2> QED BY <1>a, <2>1, NothingLeft DEF Steps
<1>10. ASSUME ProcessEnds PROVE StepsInv'
  BY <1>a, <1>10 DEF ProcessEnds, Steps, IdlePump
<1> QED BY <1>1, <1>2, <1>3, <1>4, <1>5, <1>6, <1>7, <1>8, <1>9, <1>10 DEF ChannelsNext, PumpStep

-----------------------------------------------------------------------------
(* What the actions change *)

\* The status of a message changes when it is released, taken or settled.
LEMMA StatusChanges ==
  ASSUME StoresInv, PumpsInv, PumpsInv', StepsInv, ChannelsNext, NEW i \in Inbounds
  PROVE  \/ inbox'[i].status = inbox[i].status
         \/ Release(i) /\ inbox'[i].status = "queued" /\ facts'.drives[i] = 0
         \/ \E p \in Pumps : /\ Take(p) /\ i \in pump'[p].batch
                             /\ inbox[i].status = "queued" /\ inbox'[i].status = "leased"
         \/ \E p \in Pumps : /\ Perform(p)
                             /\ Head(pump[p].work).op = "settle"
                             /\ Head(pump[p].work).at = i
                             /\ inbox'[i].status = Head(pump[p].work).status
                             /\ inbox'[i].status \in {"acknowledged", "failed"}
<1> DEFINE Changes ==
         \/ inbox'[i].status = inbox[i].status
         \/ Release(i) /\ inbox'[i].status = "queued" /\ facts'.drives[i] = 0
         \/ \E p \in Pumps : /\ Take(p) /\ i \in pump'[p].batch
                             /\ inbox[i].status = "queued" /\ inbox'[i].status = "leased"
         \/ \E p \in Pumps : /\ Perform(p)
                             /\ Head(pump[p].work).op = "settle"
                             /\ Head(pump[p].work).at = i
                             /\ inbox'[i].status = Head(pump[p].work).status
                             /\ inbox'[i].status \in {"acknowledged", "failed"}
<1>0. /\ inbox \in [Inbounds -> Entries] /\ DOMAIN pump = Pumps
      /\ \A p \in Pumps : PumpOK(p)
  BY LenProperties DEF StoresInv, PumpsInv, Inbounds
<1>1. ASSUME NEW m \in Messages, Submit(m) PROVE Changes
  <2>1. inbox' = Append(inbox, [msg |-> m, status |-> "queued"])
    BY <1>1 DEF Submit, Push
  <2>2. inbox'[i] = inbox[i]
    BY <2>1, AppendProperties DEF StoresInv, Entries, Inbounds
  <2> QED BY <2>2
<1>2. ASSUME NEW k \in Inbounds, Release(k) PROVE Changes
  <2>1. /\ inbox' = [inbox EXCEPT ![k].status = "queued"]
        /\ facts' = [facts EXCEPT !.released = @ + 1, !.drives[k] = 0]
    BY <1>2 DEF Release
  <2>2. CASE k = i
    <3>1. inbox'[i].status = "queued"
      BY <1>0, <2>1, <2>2 DEF Entries
    <3>2. facts'.drives = [facts.drives EXCEPT ![k] = 0]
      BY <2>1 DEF StoresInv, FactsOK
    <3>3. facts'.drives[i] = 0
      BY <2>2, <3>2 DEF StoresInv, FactsOK
    <3> QED BY <1>2, <2>2, <3>1, <3>3
  <2>3. CASE k # i
    BY <1>0, <2>1, <2>3
  <2> QED BY <2>2, <2>3
<1>3. ASSUME NEW p \in Pumps, Take(p) PROVE Changes
  <2>1. PICK chosen : /\ inbox' = [k \in Inbounds |->
                          IF k \in chosen THEN [inbox[k] EXCEPT !.status = "leased"]
                          ELSE inbox[k]]
                     /\ pump' = [pump EXCEPT ![p].pc = "message", ![p].batch = chosen]
                     /\ \A k \in chosen : inbox[k].status = "queued"
    BY <1>3 DEF Take
  <2>2. CASE i \in chosen
    <3>1. inbox'[i].status = "leased" /\ inbox[i].status = "queued"
      BY <1>0, <2>1, <2>2 DEF Entries
    <3>2. pump'[p].batch = chosen
      BY <1>0, <2>1 DEF PumpOK
    <3> QED BY <1>3, <2>2, <3>1, <3>2
  <2>3. CASE i \notin chosen
    BY <1>0, <2>1, <2>3
  <2> QED BY <2>2, <2>3
<1>4. ASSUME NEW p \in Pumps, Perform(p), inbox' # inbox PROVE Changes
  <2> DEFINE s == Head(pump[p].work)
  <2>1. s.op = "settle" /\ inbox' = [inbox EXCEPT ![s.at].status = s.status]
    BY <1>4 DEF Perform
  <2>2. s.status \in {"acknowledged", "failed"}
    <3>1. s \in Operations
      BY <1>0, <1>4 DEF Perform, PumpOK
    <3> QED BY <2>1, <3>1 DEF Operations
  <2>3. CASE s.at = i
    <3>1. inbox'[i].status = s.status
      BY <1>0, <2>1, <2>3 DEF Entries
    <3> QED BY <1>4, <2>1, <2>2, <2>3, <3>1
  <2>4. CASE s.at # i
    BY <1>0, <2>1, <2>4
  <2> QED BY <2>3, <2>4
<1>5. ASSUME inbox' = inbox PROVE Changes
  BY <1>5
<1>6. ASSUME NEW p \in Pumps, AskPerson(p) \/ PumpStep(p), ~Perform(p) PROVE inbox' = inbox
  BY <1>6 DEF AskPerson, PumpStep, SessionFails, StartTurn, TurnDown, FindQuestion, Note,
              Accepted, Gone, Answered, TurnEnds, Advance, stores
<1>7. ASSUME \/ \E r \in Routes : Reroute(r)
             \/ \E p \in Pumps, how \in {"answered", "cancelled"} : HostResolves(p, how)
             \/ ProcessEnds
      PROVE  inbox' = inbox
  BY <1>7 DEF Reroute, HostResolves, ProcessEnds, stores
<1> HIDE DEF Changes
<1>8. ASSUME NEW p \in Pumps, Take(p) \/ AskPerson(p) \/ PumpStep(p) PROVE Changes
  <2>1. CASE Take(p)
    BY <1>3, <2>1
  <2>2. CASE inbox' = inbox
    BY <1>5, <2>2
  <2>3. CASE ~Take(p) /\ inbox' # inbox
    <3>1. Perform(p)
      BY <1>6, <1>8, <2>3
    <3> QED BY <1>4, <2>3, <3>1
  <2> QED BY <2>1, <2>2, <2>3
<1>9. Changes
  <2>1. CASE \/ \E r \in Routes : Reroute(r)
             \/ \E p \in Pumps, how \in {"answered", "cancelled"} : HostResolves(p, how)
             \/ ProcessEnds
    BY <1>5, <1>7, <2>1
  <2> QED BY <1>1, <1>2, <1>8, <2>1 DEF ChannelsNext
<1> QED BY <1>9 DEF Changes

\* A new message is queued and has had no turn.
LEMMA NewIsQueued ==
  ASSUME StoresInv, PumpsInv, ChannelsNext, NEW i \in Inbounds' \ Inbounds
  PROVE  /\ inbox'[i].status = "queued" /\ facts'.drives[i] = 0
         /\ \A k \in Inbounds : inbox[k].msg # inbox'[i].msg
         /\ i = Len(inbox) + 1
<1>1. PICK m \in Messages : Submit(m)
  BY InboxGrows
<1>2. /\ inbox' = Append(inbox, [msg |-> m, status |-> "queued"])
      /\ facts' = [facts EXCEPT !.drives = Append(@, 0)]
      /\ \A k \in Inbounds : inbox[k].msg # m
  BY <1>1 DEF Submit, Push
<1>3. /\ Len(inbox') = Len(inbox) + 1 /\ Len(inbox) \in Nat
      /\ inbox'[Len(inbox) + 1] = [msg |-> m, status |-> "queued"]
  BY <1>2, AppendProperties, LenProperties DEF StoresInv, Entries
<1>4. i = Len(inbox) + 1
  BY <1>3 DEF Inbounds
<1>5. facts.drives \in Seq(Nat) /\ Len(facts.drives) = Len(inbox)
  <2>1. facts.drives \in [1 .. Len(inbox) -> Nat]
    BY DEF StoresInv, FactsOK, Inbounds
  <2>2. facts.drives \in Seq(Nat)
    BY <1>3, <2>1, SeqDef
  <2>3. DOMAIN facts.drives = 1 .. Len(facts.drives) /\ Len(facts.drives) \in Nat
    BY <2>2, LenProperties
  <2> QED BY <1>3, <2>1, <2>2, <2>3
<1>6. facts'.drives = Append(facts.drives, 0)
  BY <1>2 DEF StoresInv, FactsOK
<1>7. facts'.drives[i] = 0
  BY <1>4, <1>5, <1>6, AppendProperties
<1>8. inbox'[i].status = "queued" /\ inbox'[i].msg = m
  BY <1>3, <1>4
<1> QED BY <1>2, <1>4, <1>7, <1>8

\* A message is counted when its turn starts, and forgotten when it is released.
LEMMA DrivesChange ==
  ASSUME StoresInv, PumpsInv, ChannelsNext, NEW i \in Inbounds
  PROVE  \/ facts'.drives[i] = facts.drives[i]
         \/ facts'.drives[i] = 0
         \/ \E p \in Pumps : /\ StartTurn(p) /\ i = Current(p)
                             /\ facts'.drives[i] = facts.drives[i] + 1
<1> DEFINE Changes ==
         \/ facts'.drives[i] = facts.drives[i]
         \/ facts'.drives[i] = 0
         \/ \E p \in Pumps : /\ StartTurn(p) /\ i = Current(p)
                             /\ facts'.drives[i] = facts.drives[i] + 1
<1>0. FactsOK
  BY DEF StoresInv
<1>1. ASSUME NEW m \in Messages, Submit(m) PROVE Changes
  <2>1. facts.drives \in Seq(Nat) /\ Len(facts.drives) = Len(inbox)
    <3>0. Len(inbox) \in Nat
      BY InboxGrows
    <3>1. facts.drives \in [1 .. Len(inbox) -> Nat]
      BY DEF StoresInv, FactsOK, Inbounds
    <3>2. facts.drives \in Seq(Nat)
      BY <3>0, <3>1, SeqDef
    <3>3. DOMAIN facts.drives = 1 .. Len(facts.drives) /\ Len(facts.drives) \in Nat
      BY <3>2, LenProperties
    <3> QED BY <3>0, <3>1, <3>2, <3>3
  <2>2. facts'.drives = Append(facts.drives, 0)
    BY <1>0, <1>1 DEF Submit, Push, FactsOK
  <2> QED BY <2>1, <2>2, AppendProperties DEF Inbounds
<1>2. ASSUME NEW k \in Inbounds, Release(k) PROVE Changes
  <2>1. facts'.drives = [facts.drives EXCEPT ![k] = 0]
    BY <1>0, <1>2 DEF Release, FactsOK
  <2> QED BY <1>0, <2>1 DEF FactsOK
<1>3. ASSUME NEW p \in Pumps, StartTurn(p) PROVE Changes
  <2>1. PICK sh : facts' = [facts EXCEPT !.drives[Current(p)] = @ + 1, !.shared = sh]
    BY <1>3 DEF StartTurn
  <2>2. facts'.drives = [facts.drives EXCEPT ![Current(p)] = @ + 1]
    BY <1>0, <2>1 DEF FactsOK
  <2> QED BY <1>0, <1>3, <2>2 DEF FactsOK
<1>4. ASSUME NEW p \in Pumps, Take(p) \/ AskPerson(p) PROVE facts'.drives = facts.drives
  BY <1>0, <1>4 DEF Take, AskPerson, FactsOK
<1>5. ASSUME NEW p \in Pumps, PumpStep(p), ~StartTurn(p) PROVE facts'.drives = facts.drives
  <2>1. CASE Accepted(p)
    BY <1>0, <2>1 DEF Accepted, FactsOK
  <2>2. CASE ~Accepted(p)
    <3>1. facts' = facts
      BY <1>5, <2>2 DEF PumpStep, SessionFails, TurnDown, FindQuestion, Note, Gone, Answered,
                        TurnEnds, Perform, Advance
    <3> QED BY <3>1
  <2> QED BY <2>1, <2>2
<1>6. ASSUME \/ \E r \in Routes : Reroute(r)
             \/ \E p \in Pumps, how \in {"answered", "cancelled"} : HostResolves(p, how)
             \/ ProcessEnds
      PROVE  facts'.drives = facts.drives
  BY <1>0, <1>6 DEF Reroute, HostResolves, ProcessEnds, FactsOK
<1>7. ASSUME facts'.drives = facts.drives PROVE Changes
  BY <1>7
<1> HIDE DEF Changes
<1>8. Changes
  BY <1>1, <1>2, <1>3, <1>4, <1>5, <1>6, <1>7 DEF ChannelsNext
<1> QED BY <1>8 DEF Changes

\* A pump keeps its messages and its turn, but for the actions that are named.
LEMMA HoldingChanges ==
  ASSUME PumpsInv, ChannelsNext, NEW q \in Pumps
  PROVE  \/ /\ pump'[q].batch = pump[q].batch /\ Current(q)' = Current(q)
            /\ \/ Driving(q)' <=> Driving(q)
               \/ StartTurn(q)
         \/ Take(q)
         \/ Advance(q)
         \/ ProcessEnds
<1> DEFINE Same == /\ pump'[q].batch = pump[q].batch
                   /\ (Driving(q)' <=> Driving(q)) \/ StartTurn(q)
<1>0. DOMAIN pump = Pumps /\ DOMAIN turn = Pumps /\ PumpOK(q) /\ TurnOK(q)
  BY DEF PumpsInv
<1>1. ASSUME NEW p \in Pumps, AskPerson(p) PROVE Same
  <2>1. pump'[q].batch = pump[q].batch
    BY <1>0, <1>1 DEF AskPerson, Then, PumpOK
  <2>2. turn'[q].target = turn[q].target
    BY <1>0, <1>1 DEF AskPerson, TurnOK
  <2> QED BY <2>1, <2>2 DEF Driving
<1>2. ASSUME NEW p \in Pumps, SessionFails(p) \/ TurnDown(p) \/ FindQuestion(p) \/ Note(p) \/ Gone(p) \/ TurnEnds(p)
      PROVE  Same
  <2>1. turn' = turn
    BY <1>2 DEF SessionFails, TurnDown, FindQuestion, Note, Gone, TurnEnds
  <2>2. CASE FindQuestion(p) \/ Note(p)
    <3>1. pump'[q].batch = pump[q].batch
      <4>1. CASE FindQuestion(p)
        BY <1>0, <4>1 DEF FindQuestion, PumpOK
      <4>2. CASE Note(p)
        BY <1>0, <4>2 DEF Note, Goto, PumpOK
      <4> QED BY <2>2, <4>1, <4>2
    <3> QED BY <2>1, <3>1 DEF Driving
  <2>3. CASE ~(FindQuestion(p) \/ Note(p))
    <3>1. pump'[q].batch = pump[q].batch
      BY <1>0, <1>2, <2>3 DEF SessionFails, TurnDown, Gone, TurnEnds, Then, PumpOK
    <3> QED BY <2>1, <3>1 DEF Driving
  <2> QED BY <2>2, <2>3
<1>3. ASSUME NEW p \in Pumps, Accepted(p) PROVE Same
  <2>1. pump'[q].batch = pump[q].batch
    BY <1>0, <1>3 DEF Accepted, Then, PumpOK
  <2>2. turn'[q].target = turn[q].target
    <3>1. PICK r \in Pumps : turn' = [turn EXCEPT ![r].outcome = "answered"]
      BY <1>3 DEF Accepted
    <3> QED BY <1>0, <3>1 DEF TurnOK
  <2> QED BY <2>1, <2>2 DEF Driving
<1>4. ASSUME NEW p \in Pumps, StartTurn(p) PROVE Same
  <2>1. pump'[q].batch = pump[q].batch
    BY <1>0, <1>4 DEF StartTurn, PumpOK
  <2>2. p # q => turn'[q].target = turn[q].target
    BY <1>0, <1>4 DEF StartTurn
  <2> QED BY <1>4, <2>1, <2>2 DEF Driving
<1>5. ASSUME NEW p \in Pumps, Answered(p) PROVE Same
  <2>1. pump'[q].batch = pump[q].batch
    BY <1>0, <1>5 DEF Answered, Goto, PumpOK
  <2> DEFINE a == FirstOf({m \in mappings : m.request = turn[p].asking}).answer
  <2>2. turn' = [turn EXCEPT ![p].target = IF a # 0 THEN a ELSE @, ![p].asking = 0]
    BY <1>5 DEF Answered
  <2> HIDE DEF a
  <2>3. TurnOK(p) /\ pump[p].pc = "waiting"
    BY <1>5 DEF PumpsInv, Answered, At
  <2>4. Driving(q)' <=> Driving(q)
    BY <1>0, <2>2, <2>3 DEF Driving, TurnOK
  <2> QED BY <2>1, <2>4
<1>6. ASSUME NEW p \in Pumps, Perform(p) PROVE Same
  <2>1. /\ \A r \in Pumps \ {p} : pump'[r] = pump[r]
        /\ pump'[p] = [pump[p] EXCEPT !.work = Tail(pump[p].work)] /\ turn' = turn
    BY <1>6, PerformEffect
  <2>2. pump'[q].batch = pump[q].batch
    BY <1>0, <2>1 DEF PumpOK
  <2> QED BY <2>1, <2>2 DEF Driving
<1>7. ASSUME NEW p \in Pumps, Take(p) \/ Advance(p), p # q PROVE Same
  <2>1. pump'[q] = pump[q]
    BY <1>7, OneActs DEF PumpStep
  <2>2. turn'[q] = turn[q]
    BY <1>0, <1>7 DEF Take, Advance
  <2> QED BY <2>1, <2>2 DEF Driving
<1>8. ASSUME NEW p \in Pumps, NEW how \in {"answered", "cancelled"}, HostResolves(p, how)
      PROVE  Same
  <2>1. pump' = pump /\ turn' = [turn EXCEPT ![p].outcome = how]
    BY <1>8 DEF HostResolves
  <2>2. turn'[q].target = turn[q].target
    BY <1>0, <2>1 DEF TurnOK
  <2> QED BY <2>1, <2>2 DEF Driving
<1>9. ASSUME \/ \E m \in Messages : Submit(m)
             \/ \E i \in Inbounds : Release(i)
             \/ \E r \in Routes : Reroute(r)
      PROVE  Same
  <2>1. pump' = pump /\ turn' = turn
    BY <1>9 DEF Submit, Push, Release, Reroute
  <2> QED BY <2>1 DEF Driving
<1>10. ASSUME Same
       PROVE  /\ pump'[q].batch = pump[q].batch /\ Current(q)' = Current(q)
              /\ \/ Driving(q)' <=> Driving(q)
                 \/ StartTurn(q)
  BY <1>10 DEF Current
<1> HIDE DEF Same
<1>11. Same \/ Take(q) \/ Advance(q) \/ ProcessEnds
  <2>1. ASSUME NEW p \in Pumps, PumpStep(p) PROVE Same \/ Advance(q)
    BY <2>1, <1>2, <1>3, <1>4, <1>5, <1>6, <1>7 DEF PumpStep
  <2> QED BY <2>1, <1>1, <1>7, <1>8, <1>9 DEF ChannelsNext
<1> QED BY <1>10, <1>11

-----------------------------------------------------------------------------
(* One pump holds a message, starts one turn for it, and lets go of it in the end *)

\* What a pump takes was queued, and is leased now.
LEMMA TakeEffect ==
  ASSUME StoresInv, PumpsInv, NEW p \in Pumps, Take(p)
  PROVE  /\ \A i \in pump'[p].batch : /\ i \in Inbounds /\ inbox[i].status = "queued"
                                      /\ inbox'[i].status = "leased"
         /\ facts'.stranded = facts.stranded \ pump'[p].batch
         /\ facts'.drives = facts.drives
         /\ turn' = turn /\ turn[p] = NoTurn
         /\ pump'[p].pc = "message" /\ pump'[p].work = <<>>
<1>0. /\ inbox \in [Inbounds -> Entries] /\ DOMAIN pump = Pumps
      /\ PumpOK(p) /\ TurnOK(p) /\ FactsOK
  BY LenProperties DEF StoresInv, PumpsInv, Inbounds
<1>1. PICK chosen \in SUBSET Inbounds :
         /\ inbox' = [k \in Inbounds |->
                        IF k \in chosen THEN [inbox[k] EXCEPT !.status = "leased"]
                        ELSE inbox[k]]
         /\ pump' = [pump EXCEPT ![p].pc = "message", ![p].batch = chosen]
         /\ \A k \in chosen : inbox[k].status = "queued"
         /\ facts' = [facts EXCEPT !.stranded = @ \ chosen]
  BY DEF Take
<1>2. pump'[p].batch = chosen /\ pump'[p].pc = "message" /\ pump'[p].work = <<>>
  <2>1. pump[p].work = <<>>
    BY DEF Take, At, Settled
  <2> QED BY <1>0, <1>1, <2>1 DEF PumpOK
<1>3. \A i \in chosen : inbox'[i].status = "leased"
  BY <1>0, <1>1 DEF Entries
<1>4. facts'.stranded = facts.stranded \ chosen /\ facts'.drives = facts.drives
  BY <1>0, <1>1 DEF FactsOK
<1>5. turn' = turn /\ turn[p] = NoTurn
  BY <1>0 DEF Take, At, TurnOK
<1> QED BY <1>1, <1>2, <1>3, <1>4, <1>5

\* A pump that advances goes on with the rest of its messages.
LEMMA AdvanceEffect ==
  ASSUME PumpsInv, NEW p \in Pumps, Advance(p)
  PROVE  /\ pump'[p].batch = pump[p].batch \ {Current(p)}
         /\ pump'[p].work = <<>> /\ pump'[p].pc \in {"idle", "message"}
         /\ turn' = [turn EXCEPT ![p] = NoTurn]
         /\ inbox' = inbox /\ facts' = facts
         /\ pump[p].pc = "next" /\ pump[p].work = <<>>
<1>1. PICK rest :
         /\ rest = pump[p].batch \ {Current(p)}
         /\ pump' = [pump EXCEPT ![p] = IF rest = {} THEN IdlePump
                                     ELSE [IdlePump EXCEPT !.pc = "message", !.batch = rest]]
  BY DEF Advance
<1>2. pump'[p] = IF rest = {} THEN IdlePump
                 ELSE [IdlePump EXCEPT !.pc = "message", !.batch = rest]
  BY <1>1 DEF PumpsInv
<1>3. pump'[p].batch = rest /\ pump'[p].work = <<>> /\ pump'[p].pc \in {"idle", "message"}
  BY <1>2 DEF IdlePump
<1> QED BY <1>1, <1>3 DEF Advance, stores

\* What is left in a batch was there, or has just been taken.
LEMMA BatchChanges ==
  ASSUME PumpsInv, ChannelsNext, NEW q \in Pumps
  PROVE  pump'[q].batch \subseteq pump[q].batch \/ Take(q)
<1>1. CASE Advance(q)
  BY <1>1, AdvanceEffect
<1>2. CASE ProcessEnds
  BY <1>2 DEF ProcessEnds, IdlePump
<1> QED BY <1>1, <1>2, HoldingChanges

\* No two pumps hold a message, and nobody else can take it.
LEMMA BatchStep ==
  ASSUME ChannelTypes, ChannelTypes', StepsInv, BatchInv, ChannelsNext
  PROVE  BatchInv'
<1> USE DEF ChannelTypes
<1>0. \A p \in Pumps : pump[p].batch \subseteq Inbounds
  BY DEF PumpsInv, PumpOK
<1>1. ASSUME NEW p \in Pumps, NEW i \in pump'[p].batch PROVE inbox'[i].status # "queued"
  <2>1. CASE Take(p)
    BY <1>1, <2>1, TakeEffect
  <2>2. CASE i \in pump[p].batch
    <3>1. i \in Inbounds /\ inbox[i].status # "queued" /\ ~Release(i)
      BY <1>0, <2>2 DEF BatchInv, Release
    <3> QED BY <3>1, StatusChanges
  <2> QED BY <1>1, <2>1, <2>2, BatchChanges
<1>2. ASSUME NEW p \in Pumps, NEW q \in Pumps, p # q,
             NEW i \in pump'[p].batch, i \in pump'[q].batch
      PROVE  FALSE
  <2>1. ASSUME NEW a \in Pumps, NEW b \in Pumps, a # b, Take(a),
               i \in pump'[a].batch, i \in pump'[b].batch
        PROVE  FALSE
    <3>1. pump'[b] = pump[b]
      BY <2>1, OneActs
    <3>2. inbox[i].status = "queued"
      BY <2>1, TakeEffect
    <3> QED BY <2>1, <3>1, <3>2 DEF BatchInv
  <2>2. CASE Take(p) \/ Take(q)
    BY <1>2, <2>1, <2>2
  <2>3. CASE i \in pump[p].batch /\ i \in pump[q].batch
    BY <1>2, <2>3 DEF BatchInv
  <2> QED BY <1>2, <2>2, <2>3, BatchChanges
<1> QED BY <1>1, <1>2 DEF BatchInv

\* A message is driven once for each time it was queued.
LEMMA DriveStep ==
  ASSUME ChannelTypes, ChannelTypes', StepsInv, BatchInv, DriveInv, ChannelsNext
  PROVE  DriveInv'
<1> USE DEF ChannelTypes
<1>0. \A p \in Pumps : pump[p].batch \subseteq Inbounds
  BY DEF PumpsInv, PumpOK
<1>a. ASSUME NEW p \in Pumps, StartTurn(p)
      PROVE  /\ Current(p) \in pump[p].batch /\ ~Driving(p) /\ Driving(p)'
             /\ facts.drives[Current(p)] = 0 /\ inbox[Current(p)].status # "queued"
  <2>1. pump[p].pc = "message"
    BY <1>a DEF StartTurn, At
  <2>2. Current(p) \in pump[p].batch /\ Current(p) # 0 /\ turn[p] = NoTurn
    BY <2>1, CurrentIsHeld DEF PumpsInv, PumpOK, TurnOK
  <2>3. turn'[p].target = Current(p)
    BY <1>a DEF StartTurn, PumpsInv, TurnOK
  <2> QED BY <2>2, <2>3 DEF Driving, NoTurn, DriveInv, BatchInv
<1>1. ASSUME NEW i \in Inbounds', inbox'[i].status = "queued" PROVE facts'.drives[i] = 0
  <2>1. CASE i \notin Inbounds
    BY <1>1, <2>1, NewIsQueued
  <2>2. CASE i \in Inbounds
    <3>1. inbox[i].status = "queued" \/ facts'.drives[i] = 0
      BY <1>1, <2>2, StatusChanges
    <3>2. inbox[i].status = "queued" => facts.drives[i] = 0
      BY <2>2 DEF DriveInv
    <3> QED BY <1>a, <2>2, <3>1, <3>2, DrivesChange
  <2> QED BY <2>1, <2>2
<1>2. ASSUME NEW p \in Pumps, NEW i \in pump'[p].batch, i # Current(p)' \/ ~Driving(p)'
      PROVE  facts'.drives[i] = 0
  <2>1. CASE Take(p)
    BY <1>2, <2>1, TakeEffect DEF DriveInv
  <2>2. CASE Advance(p)
    <3>1. i \in pump[p].batch /\ i # Current(p) /\ facts' = facts
      BY <1>2, <2>2, AdvanceEffect
    <3> QED BY <3>1 DEF DriveInv
  <2>3. CASE /\ pump'[p].batch = pump[p].batch /\ Current(p)' = Current(p)
             /\ \/ Driving(p)' <=> Driving(p)
                \/ StartTurn(p)
    <3>1. i \in Inbounds /\ i \in pump[p].batch
      BY <1>0, <1>2, <2>3
    <3>2. facts.drives[i] = 0
      BY <1>2, <1>a, <2>3, <3>1 DEF DriveInv
    <3>3. ASSUME NEW q \in Pumps, StartTurn(q), i = Current(q) PROVE FALSE
      <4>1. q = p
        BY <1>a, <3>1, <3>3 DEF BatchInv
      <4> QED BY <1>2, <1>a, <2>3, <3>3, <4>1
    <3> QED BY <3>1, <3>2, <3>3, DrivesChange
  <2>4. CASE ProcessEnds
    BY <1>2, <2>4 DEF ProcessEnds, IdlePump
  <2> QED BY <2>1, <2>2, <2>3, <2>4, HoldingChanges
<1>3. ASSUME NEW i \in Inbounds', NEW k \in Inbounds', inbox'[i].msg = inbox'[k].msg PROVE i = k
  <2>1. \A j \in Inbounds : inbox'[j].msg = inbox[j].msg
    BY InboxGrows
  <2>2. CASE i \in Inbounds /\ k \in Inbounds
    BY <1>3, <2>1, <2>2 DEF DriveInv, DrivenOnce
  <2>3. CASE i \notin Inbounds /\ k \notin Inbounds
    BY <2>3, NewIsQueued
  <2>4. CASE i \in Inbounds /\ k \notin Inbounds
    BY <1>3, <2>1, <2>4, NewIsQueued
  <2>5. CASE i \notin Inbounds /\ k \in Inbounds
    BY <1>3, <2>1, <2>5, NewIsQueued
  <2> QED BY <2>2, <2>3, <2>4, <2>5
<1>4. ASSUME NEW i \in Inbounds' PROVE facts'.drives[i] <= 1
  <2>1. CASE i \notin Inbounds
    BY <2>1, NewIsQueued
  <2>2. CASE i \in Inbounds
    <3>1. facts.drives[i] <= 1
      BY <2>2 DEF DriveInv, DrivenOnce
    <3> QED BY <1>a, <2>2, <3>1, DrivesChange
  <2> QED BY <2>1, <2>2
<1>5. DrivenOnce'
  BY <1>3, <1>4 DEF DrivenOnce
<1> QED BY <1>1, <1>2, <1>5 DEF DriveInv

-----------------------------------------------------------------------------
(* What a pump that acts has then *)

\* A pump stays as it is unless it acts, or the process ends.
LEMMA Untouched ==
  ASSUME PumpsInv, ChannelsNext, NEW q \in Pumps
  PROVE  \/ pump'[q] = pump[q]
         \/ Take(q) \/ AskPerson(q) \/ PumpStep(q)
         \/ ProcessEnds
<1>1. ASSUME \/ \E m \in Messages : Submit(m)
             \/ \E i \in Inbounds : Release(i)
             \/ \E r \in Routes : Reroute(r)
             \/ \E p \in Pumps, how \in {"answered", "cancelled"} : HostResolves(p, how)
      PROVE  pump' = pump
  BY <1>1 DEF Submit, Push, Release, Reroute, HostResolves
<1> QED BY <1>1, OneActs DEF ChannelsNext

\* A pump that is given work has exactly this, and keeps its message.
LEMMA ThenEffect ==
  ASSUME PumpsInv, NEW p \in Pumps, NEW ops, NEW label, Then(p, ops, label)
  PROVE  /\ pump'[p].work = ops /\ pump'[p].pc = label
         /\ pump'[p].batch = pump[p].batch /\ Current(p)' = Current(p)
         /\ pump'[p].session = pump[p].session /\ pump'[p].found = pump[p].found
         /\ Steps(p)' = {ops[n] : n \in 1 .. Len(ops)}
<1>1. pump' = [pump EXCEPT ![p].work = ops, ![p].pc = label] /\ DOMAIN pump = Pumps
  BY DEF Then, PumpsInv
<1>2. PumpOK(p)
  BY DEF PumpsInv
<1>3. /\ pump'[p].work = ops /\ pump'[p].pc = label
      /\ pump'[p].batch = pump[p].batch
      /\ pump'[p].session = pump[p].session /\ pump'[p].found = pump[p].found
  BY <1>1, <1>2 DEF PumpOK
<1> QED BY <1>3 DEF Current, Steps

\* One that goes on without work changes nothing else.
LEMMA GotoEffect ==
  ASSUME PumpsInv, NEW p \in Pumps, NEW label, Goto(p, label)
  PROVE  /\ pump'[p].work = pump[p].work /\ pump'[p].pc = label
         /\ pump'[p].batch = pump[p].batch /\ Current(p)' = Current(p)
         /\ pump'[p].session = pump[p].session /\ pump'[p].found = pump[p].found
<1>1. pump' = [pump EXCEPT ![p].pc = label] /\ DOMAIN pump = Pumps
  BY DEF Goto, PumpsInv
<1>2. PumpOK(p)
  BY DEF PumpsInv
<1>3. /\ pump'[p].work = pump[p].work /\ pump'[p].pc = label
      /\ pump'[p].batch = pump[p].batch
      /\ pump'[p].session = pump[p].session /\ pump'[p].found = pump[p].found
  BY <1>1, <1>2 DEF PumpOK
<1> QED BY <1>3 DEF Current

\* A turn starts in the session of its message and is its own.
LEMMA StartEffect ==
  ASSUME PumpsInv, NEW p \in Pumps, StartTurn(p)
  PROVE  /\ pump'[p].work = <<>> /\ pump'[p].pc = "turn" /\ pump[p].pc = "message"
         /\ pump'[p].batch = pump[p].batch /\ Current(p)' = Current(p)
         /\ pump'[p].session = SessionOf(Current(p))
         /\ turn'[p] = [NoTurn EXCEPT !.target = Current(p)]
         /\ \A q \in Pumps \ {p} : turn'[q] = turn[q]
<1> DEFINE s == SessionOf(Current(p))
<1>1. /\ pump' = [pump EXCEPT ![p].pc = "turn", ![p].session = s]
      /\ turn' = [turn EXCEPT ![p].target = Current(p)]
      /\ pump[p].pc = "message" /\ pump[p].work = <<>>
  BY DEF StartTurn, At, Settled
<1> HIDE DEF s
<1>2. PumpOK(p) /\ TurnOK(p) /\ DOMAIN pump = Pumps /\ DOMAIN turn = Pumps
  BY DEF PumpsInv
<1>3. /\ pump'[p].work = <<>> /\ pump'[p].pc = "turn"
      /\ pump'[p].batch = pump[p].batch /\ pump'[p].session = s
  BY <1>1, <1>2 DEF PumpOK
<1>4. turn[p] = NoTurn
  BY <1>1, <1>2 DEF TurnOK
<1> QED BY <1>1, <1>2, <1>3, <1>4 DEF Current, s

\* A pump that found a question keeps it.
LEMMA FindEffect ==
  ASSUME PumpsInv, NEW p \in Pumps, FindQuestion(p)
  PROVE  /\ pump'[p].work = <<>> /\ pump'[p].pc = "note"
         /\ pump'[p].batch = pump[p].batch /\ Current(p)' = Current(p)
         /\ pump'[p].found = MappingOf(SessionOf(Current(p)))
         /\ turn' = turn
<1> DEFINE f == MappingOf(SessionOf(Current(p)))
<1>1. /\ pump' = [pump EXCEPT ![p].pc = "note", ![p].found = f]
      /\ turn' = turn /\ pump[p].work = <<>>
  BY DEF FindQuestion, At, Settled
<1> HIDE DEF f
<1>2. PumpOK(p) /\ DOMAIN pump = Pumps
  BY DEF PumpsInv
<1>3. /\ pump'[p].work = <<>> /\ pump'[p].pc = "note"
      /\ pump'[p].batch = pump[p].batch /\ pump'[p].found = f
  BY <1>1, <1>2 DEF PumpOK
<1> QED BY <1>1, <1>3 DEF Current, f

\* What becomes of a turn: it starts, asks, gets its answer, goes on after it, or is over.
LEMMA TurnChanges ==
  ASSUME StoresInv, PumpsInv, ChannelsNext, NEW q \in Pumps
  PROVE  \/ turn'[q] = turn[q]
         \/ StartTurn(q) /\ turn'[q] = [NoTurn EXCEPT !.target = Current(q)]
         \/ /\ AskPerson(q) /\ turn'[q].target = turn[q].target
            /\ turn'[q].asking = counter /\ turn'[q].outcome = "none"
         \/ /\ Answered(q) /\ turn'[q].asking = 0
            /\ LET a == FirstOf({m \in mappings : m.request = turn[q].asking}).answer
               IN  turn'[q].target = IF a # 0 THEN a ELSE turn[q].target
         \/ /\ turn'[q].target = turn[q].target /\ turn'[q].asking = turn[q].asking
            /\ turn'[q].outcome # "none"
            /\ requests' = requests \ {turn[q].asking}
         \/ turn'[q] = NoTurn /\ (Advance(q) \/ ProcessEnds)
<1> DEFINE Changes ==
         \/ turn'[q] = turn[q]
         \/ StartTurn(q) /\ turn'[q] = [NoTurn EXCEPT !.target = Current(q)]
         \/ /\ AskPerson(q) /\ turn'[q].target = turn[q].target
            /\ turn'[q].asking = counter /\ turn'[q].outcome = "none"
         \/ /\ Answered(q) /\ turn'[q].asking = 0
            /\ LET a == FirstOf({m \in mappings : m.request = turn[q].asking}).answer
               IN  turn'[q].target = IF a # 0 THEN a ELSE turn[q].target
         \/ /\ turn'[q].target = turn[q].target /\ turn'[q].asking = turn[q].asking
            /\ turn'[q].outcome # "none"
            /\ requests' = requests \ {turn[q].asking}
         \/ turn'[q] = NoTurn /\ (Advance(q) \/ ProcessEnds)
<1>0. DOMAIN turn = Pumps /\ TurnOK(q)
  BY DEF PumpsInv
<1>1. ASSUME NEW p \in Pumps, AskPerson(p) PROVE Changes
  <2>1. turn' = [turn EXCEPT ![p].asks = @ + 1, ![p].asking = counter,
                             ![p].outcome = "none"]
    BY <1>1 DEF AskPerson
  <2>2. p = q => /\ turn'[q].target = turn[q].target
                 /\ turn'[q].asking = counter /\ turn'[q].outcome = "none"
    BY <1>0, <2>1 DEF TurnOK
  <2>3. p # q => turn'[q] = turn[q]
    BY <1>0, <2>1
  <2> QED BY <1>1, <2>2, <2>3
<1>2. ASSUME NEW p \in Pumps, StartTurn(p) PROVE Changes
  BY <1>2, StartEffect
<1>3. ASSUME NEW p \in Pumps, Answered(p) PROVE Changes
  <2> DEFINE a == FirstOf({m \in mappings : m.request = turn[p].asking}).answer
  <2>1. turn' = [turn EXCEPT ![p].target = IF a # 0 THEN a ELSE @, ![p].asking = 0]
    BY <1>3 DEF Answered
  <2>2. p # q => turn'[q] = turn[q]
    BY <1>0, <2>1
  <2>3. p = q => turn'[q].asking = 0 /\ turn'[q].target = IF a # 0 THEN a ELSE turn[q].target
    <3> HIDE DEF a
    <3> QED BY <1>0, <2>1 DEF TurnOK
  <2> QED BY <1>3, <2>2, <2>3
<1>4. ASSUME NEW p \in Pumps, NEW how \in {"answered", "cancelled"},
             turn' = [turn EXCEPT ![p].outcome = how],
             requests' = requests \ {turn[p].asking}
      PROVE  Changes
  <2>1. p # q => turn'[q] = turn[q]
    BY <1>0, <1>4
  <2>2. p = q => /\ turn'[q].target = turn[q].target /\ turn'[q].asking = turn[q].asking
                 /\ turn'[q].outcome # "none"
    BY <1>0, <1>4 DEF TurnOK
  <2> QED BY <1>4, <2>1, <2>2
<1>5. ASSUME NEW p \in Pumps, Accepted(p) PROVE Changes
  <2>1. PICK r \in Pumps : /\ turn' = [turn EXCEPT ![r].outcome = "answered"]
                           /\ requests' = requests \ {turn[r].asking}
    BY <1>5 DEF Accepted
  <2> HIDE DEF Changes
  <2> QED BY <1>4, <2>1
<1>6. ASSUME NEW p \in Pumps, NEW how \in {"answered", "cancelled"}, HostResolves(p, how)
      PROVE Changes
  <2>1. turn' = [turn EXCEPT ![p].outcome = how] /\ requests' = requests \ {turn[p].asking}
    BY <1>6 DEF HostResolves
  <2> HIDE DEF Changes
  <2> QED BY <1>4, <2>1
<1>7. ASSUME NEW p \in Pumps, Advance(p) PROVE Changes
  <2>1. turn' = [turn EXCEPT ![p] = NoTurn]
    BY <1>7 DEF Advance
  <2> QED BY <1>0, <1>7, <2>1
<1>8. ASSUME ProcessEnds PROVE Changes
  BY <1>8 DEF ProcessEnds
<1>9. ASSUME turn' = turn PROVE Changes
  BY <1>9
<1>10. ASSUME \/ \E m \in Messages : Submit(m)
              \/ \E i \in Inbounds : Release(i)
              \/ \E r \in Routes : Reroute(r)
              \/ \E p \in Pumps : \/ Take(p) \/ SessionFails(p) \/ TurnDown(p) \/ FindQuestion(p)
                                  \/ Note(p) \/ Gone(p) \/ TurnEnds(p) \/ Perform(p)
       PROVE  turn' = turn
  BY <1>10 DEF Submit, Push, Release, Reroute, Take, SessionFails, TurnDown, FindQuestion, Note,
               Gone, TurnEnds, Perform
<1> HIDE DEF Changes
<1>11. ASSUME NEW p \in Pumps, PumpStep(p) PROVE Changes
  BY <1>11, <1>2, <1>3, <1>5, <1>7, <1>9, <1>10 DEF PumpStep
<1>12. Changes
  BY <1>1, <1>6, <1>8, <1>9, <1>10, <1>11 DEF ChannelsNext
<1> QED BY <1>12 DEF Changes

\* Of its steps a pump does the first; the others are left.
LEMMA StepsLeft ==
  ASSUME PumpsInv, NEW p \in Pumps, Perform(p), NEW s \in Steps(p)
  PROVE  s = Head(pump[p].work) \/ s \in Steps(p)'
<1>1. /\ Len(pump[p].work) >= 1 /\ Len(pump'[p].work) = Len(pump[p].work) - 1
      /\ \A n \in 1 .. Len(pump'[p].work) : pump'[p].work[n] = pump[p].work[n + 1]
      /\ Head(pump[p].work) = pump[p].work[1]
  BY PerformEffect
<1>2. PICK n \in 1 .. Len(pump[p].work) : s = pump[p].work[n]
  BY DEF Steps
<1>3. pump[p].work \in Seq(Operations)
  BY DEF PumpsInv, PumpOK
<1>4. Len(pump[p].work) \in Nat
  BY <1>3, LenProperties
<1>5. CASE n = 1
  BY <1>1, <1>2, <1>5
<1>6. CASE n # 1
  <2>1. n - 1 \in 1 .. Len(pump'[p].work) /\ pump'[p].work[n - 1] = s
    BY <1>1, <1>2, <1>4, <1>6
  <2> QED BY <2>1 DEF Steps
<1> QED BY <1>5, <1>6

-----------------------------------------------------------------------------
(* A message that was taken is let go of in the end *)

\* What a pump holds that is no longer leased is never leased again.
LEMMA StaysLetGo ==
  ASSUME ChannelTypes, ChannelTypes', StepsInv, BatchInv, ChannelsNext,
         NEW p \in Pumps, NEW i \in pump[p].batch, inbox[i].status # "leased"
  PROVE  inbox'[i].status # "leased"
<1>1. i \in Inbounds /\ inbox[i].status # "queued"
  BY DEF ChannelTypes, PumpsInv, PumpOK, BatchInv
<1> QED BY <1>1, StatusChanges DEF ChannelTypes

\* A pump that waits, or turns to its next message, is done with the one at hand.
LEMMA LetGoStep ==
  ASSUME ChannelTypes, ChannelTypes', StepsInv, BatchInv, LeaseInv, ChannelsNext,
         NEW q \in Pumps, pump'[q].pc \in {"waiting", "next"}
  PROVE  IsLetGo(q)'
<1> USE DEF ChannelTypes
<1>a. ASSUME NEW s \in Steps(q)', s.op = "settle", s.at = Current(q)' PROVE IsLetGo(q)'
  BY <1>a DEF IsLetGo
<1>b. ASSUME pump[q].batch # {}, Current(q)' = Current(q), inbox[Current(q)].status # "leased"
      PROVE  IsLetGo(q)'
  <2>1. Current(q) \in pump[q].batch
    BY <1>b, CurrentIsHeld
  <2> QED BY <1>b, <2>1, StaysLetGo DEF IsLetGo
<1>1. CASE pump'[q] = pump[q]
  <2>1. IsLetGo(q) /\ pump[q].batch # {}
    BY <1>1 DEF LeaseInv, PumpsInv, PumpOK
  <2>2. Steps(q)' = Steps(q) /\ Current(q)' = Current(q)
    BY <1>1 DEF Steps, Current
  <2>3. CASE inbox[Current(q)].status # "leased"
    BY <1>b, <2>1, <2>2, <2>3
  <2>4. ASSUME NEW s \in Steps(q), s.op = "settle", s.at = Current(q) PROVE IsLetGo(q)'
    BY <1>a, <2>2, <2>4
  <2> QED BY <2>1, <2>3, <2>4 DEF IsLetGo
<1>2. CASE SessionFails(q) \/ TurnDown(q) \/ Gone(q) \/ Accepted(q) \/ AskPerson(q)
  <2> DEFINE c == Current(q)
  <2>1. PICK ops, label :
          /\ Then(q, ops, label)
          /\ \/ ops = <<Settle(c, "failed")>>
             \/ ops = <<Reply(c), Settle(c, "acknowledged")>>
             \/ ops = <<DropRequest(pump[q].found.request), Reply(c), Settle(c, "failed")>>
             \/ ops = <<Settle(c, "acknowledged")>>
             \/ ops = <<Upsert(counter), Reply(c), Settle(c, "acknowledged")>>
    BY <1>2 DEF SessionFails, TurnDown, Gone, Accepted, AskPerson
  <2>2. Steps(q)' = {ops[n] : n \in 1 .. Len(ops)} /\ Current(q)' = c
    BY <2>1, ThenEffect
  <2>3. \E n \in 1 .. Len(ops) : ops[n] \in {Settle(c, "failed"), Settle(c, "acknowledged")}
    <3> HIDE DEF c
    <3>1. CASE ops = <<Settle(c, "failed")>>
      <4>1. 1 \in 1 .. Len(ops) /\ ops[1] = Settle(c, "failed")
        BY <3>1
      <4> QED BY <4>1
    <3>2. CASE ops = <<Reply(c), Settle(c, "acknowledged")>>
      <4>1. 2 \in 1 .. Len(ops) /\ ops[2] = Settle(c, "acknowledged")
        BY <3>2
      <4> QED BY <4>1
    <3>3. CASE ops = <<DropRequest(pump[q].found.request), Reply(c), Settle(c, "failed")>>
      <4>1. 3 \in 1 .. Len(ops) /\ ops[3] = Settle(c, "failed")
        BY <3>3
      <4> QED BY <4>1
    <3>4. CASE ops = <<Settle(c, "acknowledged")>>
      <4>1. 1 \in 1 .. Len(ops) /\ ops[1] = Settle(c, "acknowledged")
        BY <3>4
      <4> QED BY <4>1
    <3>5. CASE ops = <<Upsert(counter), Reply(c), Settle(c, "acknowledged")>>
      <4>1. 3 \in 1 .. Len(ops) /\ ops[3] = Settle(c, "acknowledged")
        BY <3>5
      <4> QED BY <4>1
    <3> QED BY <2>1, <3>1, <3>2, <3>3, <3>4, <3>5
  <2>4. PICK s \in Steps(q)' : s \in {Settle(c, "failed"), Settle(c, "acknowledged")}
    BY <2>2, <2>3
  <2>5. s.op = "settle" /\ s.at = Current(q)'
    BY <2>2, <2>4 DEF Settle
  <2> QED BY <1>a, <2>5
<1>3. CASE TurnEnds(q)
  <2> DEFINE c == Current(q)
             t == turn[q].target
  <2>1. PICK ops : Then(q, ops, "next") /\ ops \in {Completed(q), Failed(q)}
    BY <1>3 DEF TurnEnds
  <2>2. /\ Steps(q)' = {ops[n] : n \in 1 .. Len(ops)} /\ Current(q)' = c
    BY <2>1, ThenEffect
  <2>3. pump[q].pc \in {"turn", "waiting"} /\ inbox' = inbox
    BY <1>3 DEF TurnEnds, At, stores
  <2>4. Driving(q) /\ pump[q].batch # {}
    BY <2>3 DEF PumpsInv, PumpOK, TurnOK
  <2>5. CASE t # c
    <3>1. inbox[Current(q)].status # "leased"
      BY <2>4, <2>5 DEF LeaseInv
    <3> QED BY <1>b, <2>2, <2>4, <3>1
  <2>6. CASE t = c
    <3>1. ops = Failed(q) => 1 \in 1 .. Len(ops) /\ ops[1] = Settle(c, "failed")
      BY DEF Failed
    <3>2. ops = Completed(q) => 2 \in 1 .. Len(ops) /\ ops[2] = Settle(t, "acknowledged")
      BY DEF Completed
    <3>3. \E s \in Steps(q)' : s \in {Settle(c, "failed"), Settle(t, "acknowledged")}
      BY <2>1, <2>2, <3>1, <3>2
    <3> QED BY <1>a, <2>2, <2>6, <3>3 DEF Settle
  <2> QED BY <2>5, <2>6
<1>4. CASE Perform(q)
  <2>1. /\ pump'[q] = [pump[q] EXCEPT !.work = Tail(pump[q].work)]
        /\ pump[q].pc \in {"waiting", "next"} /\ pump[q].batch # {}
    BY <1>4, PerformEffect
  <2>2. Current(q)' = Current(q) /\ IsLetGo(q)
    BY <2>1 DEF Current, PumpsInv, PumpOK, LeaseInv
  <2>3. CASE inbox[Current(q)].status # "leased"
    BY <1>b, <2>1, <2>2, <2>3
  <2>4. ASSUME NEW s \in Steps(q), s.op = "settle", s.at = Current(q) PROVE IsLetGo(q)'
    <3>1. CASE s \in Steps(q)'
      BY <1>a, <2>2, <2>4, <3>1
    <3>2. CASE s = Head(pump[q].work)
      <4>1. inbox' = [inbox EXCEPT ![Current(q)].status = s.status]
        BY <1>4, <2>4, <3>2, PerformDoes
      <4>2. s.status \in {"acknowledged", "failed"}
        <5>1. s \in Operations
          <6>1. pump[q].work \in Seq(Operations) /\ pump[q].work # <<>>
            BY <1>4 DEF Perform, PumpsInv, PumpOK
          <6> QED BY <3>2, <6>1
        <5> QED BY <2>4, <5>1 DEF Operations
      <4>3. Current(q) \in Inbounds
        BY <2>1, CurrentIsHeld
      <4>4. inbox \in [Inbounds -> Entries]
        BY LenProperties DEF StoresInv, Inbounds
      <4>5. inbox'[Current(q)].status = s.status
        BY <4>1, <4>3, <4>4 DEF Entries
      <4> QED BY <2>2, <4>2, <4>5 DEF IsLetGo
    <3> QED BY <1>4, <2>4, <3>1, <3>2, StepsLeft
  <2> QED BY <2>2, <2>3, <2>4 DEF IsLetGo
<1>5. CASE Take(q) \/ StartTurn(q) \/ FindQuestion(q) \/ Note(q) \/ Answered(q) \/ Advance(q)
  <2>1. pump'[q].pc \notin {"waiting", "next"}
    <3>1. CASE Take(q) \/ Advance(q)
      BY <3>1, TakeEffect, AdvanceEffect
    <3>2. CASE StartTurn(q) \/ FindQuestion(q)
      BY <3>2, StartEffect, FindEffect
    <3>3. CASE Note(q)
      <4>1. Goto(q, "answer")
        BY <3>3 DEF Note
      <4> QED BY <4>1, GotoEffect
    <3>4. CASE Answered(q)
      BY <3>4, GotoEffect DEF Answered
    <3> QED BY <1>5, <3>1, <3>2, <3>3, <3>4
  <2> QED BY <2>1
<1>6. CASE ProcessEnds
  BY <1>6 DEF ProcessEnds, IdlePump
<1> QED BY <1>1, <1>2, <1>3, <1>4, <1>5, <1>6, Untouched DEF PumpStep

\* Whatever fails, a pump does not forget a message it took.
LEMMA LeaseStep ==
  ASSUME ChannelTypes, ChannelTypes', StepsInv, BatchInv, LeaseInv, ChannelsNext
  PROVE  LeaseInv'
<1> USE DEF ChannelTypes
<1>1. ASSUME NEW p \in Pumps, Driving(p)', turn'[p].target # Current(p)'
      PROVE  inbox'[Current(p)'].status # "leased"
  <2>1. CASE Advance(p) \/ ProcessEnds \/ Take(p)
    <3>1. turn'[p] = NoTurn
      BY <2>1, AdvanceEffect, TakeEffect DEF PumpsInv, ProcessEnds
    <3> QED BY <1>1, <3>1 DEF Driving, NoTurn
  <2>2. CASE ~ (Advance(p) \/ ProcessEnds \/ Take(p))
    <3>1. pump'[p].batch = pump[p].batch /\ Current(p)' = Current(p)
      BY <2>2, HoldingChanges
    <3>2. pump[p].batch # {}
      <4>1. PumpOK(p)' /\ TurnOK(p)'
        BY DEF PumpsInv
      <4>2. turn'[p] # NoTurn
        BY <1>1 DEF Driving, NoTurn
      <4>3. pump'[p].pc # "idle"
        BY <4>1, <4>2 DEF TurnOK
      <4> QED BY <3>1, <4>1, <4>3 DEF PumpOK
    <3>3. Current(p) \in pump[p].batch
      BY <3>2, CurrentIsHeld
    <3>4. CASE turn'[p].target = turn[p].target
      <4>1. inbox[Current(p)].status # "leased"
        BY <1>1, <3>1, <3>4 DEF LeaseInv, Driving
      <4> QED BY <3>1, <3>3, <4>1, StaysLetGo
    <3>5. CASE StartTurn(p)
      BY <1>1, <3>5, StartEffect DEF NoTurn
    <3>6. CASE Answered(p)
      <4>1. pump[p].pc = "waiting" /\ Steps(p) = {}
        BY <3>6, NothingLeft DEF Answered, At
      <4>2. inbox[Current(p)].status # "leased"
        BY <4>1 DEF LeaseInv, IsLetGo
      <4> QED BY <3>1, <3>3, <4>2, StaysLetGo
    <3> QED BY <2>2, <3>4, <3>5, <3>6, TurnChanges
  <2> QED BY <2>1, <2>2
<1>2. ASSUME NEW i \in Inbounds', inbox'[i].status = "leased"
      PROVE  i \in facts'.stranded \/ \E p \in Pumps : i \in pump'[p].batch
  <2>1. i \in Inbounds
    BY <1>2, NewIsQueued
  <2>2. CASE \E p \in Pumps : Take(p) /\ i \in pump'[p].batch
    BY <2>2
  <2>3. CASE inbox[i].status = "leased"
    <3>1. CASE i \in facts.stranded
      <4>1. CASE \E p \in Pumps : Take(p)
        BY <3>1, <4>1, TakeEffect
      <4>2. CASE ~ \E p \in Pumps : Take(p)
        <5>1. facts.stranded \subseteq facts'.stranded
          <6>1. ASSUME \/ \E m \in Messages : Submit(m)
                       \/ \E k \in Inbounds : Release(k)
                       \/ \E r \in Routes : Reroute(r)
                       \/ \E p \in Pumps, how \in {"answered", "cancelled"} : HostResolves(p, how)
                       \/ ProcessEnds
                PROVE  facts.stranded \subseteq facts'.stranded
            BY <6>1 DEF Submit, Push, Release, Reroute, HostResolves, ProcessEnds, StoresInv, FactsOK
          <6>2. ASSUME NEW p \in Pumps, AskPerson(p) \/ StartTurn(p) \/ Accepted(p)
                PROVE  facts.stranded \subseteq facts'.stranded
            BY <6>2 DEF AskPerson, StartTurn, Accepted, StoresInv, FactsOK
          <6>3. ASSUME NEW p \in Pumps, PumpStep(p), ~StartTurn(p), ~Accepted(p)
                PROVE  facts' = facts
            BY <6>3 DEF PumpStep, SessionFails, TurnDown, FindQuestion, Note, Gone, Answered,
                        TurnEnds, Perform, Advance
          <6> QED BY <4>2, <6>1, <6>2, <6>3 DEF ChannelsNext
        <5> QED BY <3>1, <5>1
      <4> QED BY <4>1, <4>2
    <3>2. ASSUME NEW p \in Pumps, i \in pump[p].batch
          PROVE  i \in facts'.stranded \/ \E q \in Pumps : i \in pump'[q].batch
      <4>1. CASE pump'[p].batch = pump[p].batch
        BY <3>2, <4>1
      <4>2. CASE Take(p)
        <5>1. pump[p].pc = "idle"
          BY <4>2 DEF Take, At
        <5> QED BY <3>2, <5>1 DEF PumpsInv, PumpOK
      <4>3. CASE Advance(p)
        <5>1. /\ pump'[p].batch = pump[p].batch \ {Current(p)} /\ inbox' = inbox
              /\ pump[p].pc = "next" /\ pump[p].work = <<>>
          BY <4>3, AdvanceEffect
        <5>2. Steps(p) = {}
          BY <5>1 DEF Steps
        <5>3. inbox[Current(p)].status # "leased"
          BY <5>1, <5>2 DEF LeaseInv, IsLetGo
        <5> QED BY <2>3, <3>2, <5>1, <5>3
      <4>4. CASE ProcessEnds
        <5>1. facts'.stranded = facts.stranded \cup UNION {pump[q].batch : q \in Pumps}
          BY <4>4 DEF ProcessEnds, StoresInv, FactsOK
        <5> QED BY <3>2, <5>1
      <4> QED BY <4>1, <4>2, <4>3, <4>4, HoldingChanges
    <3> QED BY <2>1, <2>3, <3>1, <3>2 DEF LeaseInv, LeasedIsHeld
  <2> QED BY <1>2, <2>1, <2>2, <2>3, StatusChanges
<1>3. LeasedIsHeld'
  BY <1>2 DEF LeasedIsHeld
<1> QED BY <1>1, <1>3, LetGoStep DEF LeaseInv

-----------------------------------------------------------------------------
(* Nothing is put away untold *)

\* What was said stays said.
LEMMA StaysTold ==
  ASSUME StoresInv, PumpsInv, ChannelsNext, NEW i, IsTold(i)
  PROVE  IsTold(i)'
<1>1. outbox \subseteq outbox'
  <2>1. ASSUME NEW p \in Pumps, PumpStep(p), ~Perform(p) PROVE outbox' = outbox
    BY <2>1 DEF PumpStep, SessionFails, StartTurn, TurnDown, FindQuestion, Note, Accepted, Gone,
                Answered, TurnEnds, Advance, stores
  <2>2. ASSUME NEW p \in Pumps, Perform(p) PROVE outbox \subseteq outbox'
    BY <2>2 DEF Perform
  <2>3. ASSUME NEW p \in Pumps, Take(p) \/ AskPerson(p) PROVE outbox' = outbox
    BY <2>3 DEF Take, AskPerson, stores
  <2> QED BY <2>1, <2>2, <2>3 DEF ChannelsNext, Submit, Push, Release, Reroute, HostResolves,
                                  ProcessEnds, stores
<1>2. facts.answers \subseteq facts'.answers
  <2> USE DEF StoresInv, FactsOK
  <2>1. ASSUME \/ \E m \in Messages : Submit(m)
               \/ \E k \in Inbounds : Release(k)
               \/ \E r \in Routes : Reroute(r)
               \/ \E p \in Pumps, how \in {"answered", "cancelled"} : HostResolves(p, how)
               \/ ProcessEnds
        PROVE  facts'.answers = facts.answers
    BY <2>1 DEF Submit, Push, Release, Reroute, HostResolves, ProcessEnds
  <2>2. ASSUME NEW p \in Pumps, Take(p) \/ AskPerson(p) PROVE facts'.answers = facts.answers
    BY <2>2 DEF Take, AskPerson
  <2>3. ASSUME NEW p \in Pumps, StartTurn(p) PROVE facts'.answers = facts.answers
    BY <2>3 DEF StartTurn
  <2>4. ASSUME NEW p \in Pumps, Accepted(p) PROVE facts.answers \subseteq facts'.answers
    BY <2>4 DEF Accepted
  <2>5. ASSUME NEW p \in Pumps, PumpStep(p), ~StartTurn(p), ~Accepted(p) PROVE facts' = facts
    BY <2>5 DEF PumpStep, SessionFails, TurnDown, FindQuestion, Note, Gone, Answered,
                TurnEnds, Perform, Advance
  <2> QED BY <2>1, <2>2, <2>3, <2>4, <2>5 DEF ChannelsNext
<1> QED BY <1>1, <1>2 DEF IsTold

\* A reply that was the next thing to do has been given.
LEMMA ReplyTells ==
  ASSUME NEW p \in Pumps, Perform(p), NEW i, Head(pump[p].work) = Reply(i)
  PROVE  IsTold(i)'
<1>1. outbox' = outbox \cup {[re |-> i, for |-> Current(p), nth |-> Said(Current(p)) + 1]}
  <2> DEFINE s == Head(pump[p].work)
  <2>1. s.op = "reply" /\ s.at = i
    BY DEF Reply
  <2> HIDE DEF s
  <2> QED BY <2>1, PerformDoes DEF s
<1>2. [re |-> i, for |-> Current(p), nth |-> Said(Current(p)) + 1] \in outbox'
  BY <1>1
<1>3. \E o \in outbox' : o.re = i
  BY <1>2
<1> QED BY <1>3 DEF IsTold

\* An acknowledgement comes after what it stands for.
LEMMA WordFirstStep ==
  ASSUME ChannelTypes, ChannelTypes', ToldInv, ChannelsNext,
         NEW p \in Pumps, NEW n \in 1 .. Len(pump'[p].work), NEW i,
         pump'[p].work[n].op = "settle", pump'[p].work[n].status = "acknowledged",
         pump'[p].work[n].at = i
  PROVE  IsTold(i)' \/ \E k \in 1 .. n - 1 : pump'[p].work[k] = Reply(i)
<1> USE DEF ChannelTypes
<1> DEFINE Goal == IsTold(i)' \/ \E k \in 1 .. n - 1 : pump'[p].work[k] = Reply(i)
           c == Current(p)
<1>1. CASE pump'[p] = pump[p]
  <2>1. IsTold(i) \/ \E k \in 1 .. n - 1 : pump[p].work[k] = Reply(i)
    BY <1>1 DEF ToldInv
  <2> QED BY <1>1, <2>1, StaysTold
<1>2. CASE SessionFails(p) \/ TurnDown(p) \/ Gone(p) \/ AskPerson(p) \/ TurnEnds(p)
  <2>1. PICK ops, label, t :
          /\ Then(p, ops, label)
          /\ \/ ops = <<Settle(c, "failed")>>
             \/ ops = <<Reply(c), Settle(c, "acknowledged")>>
             \/ ops = <<DropRequest(pump[p].found.request), Reply(c), Settle(c, "failed")>>
             \/ ops = <<Upsert(counter), Reply(c), Settle(c, "acknowledged")>>
             \/ ops = <<Reply(t), Settle(t, "acknowledged"), DropSession>>
             \/ ops = <<Settle(c, "failed"), Reply(t), DropSession>>
    BY <1>2 DEF SessionFails, TurnDown, Gone, AskPerson, TurnEnds, Completed, Failed
  <2>2. pump'[p].work = ops
    BY <2>1, ThenEffect
  <2>3. /\ n \in 1 .. Len(ops) /\ ops[n].op = "settle" /\ ops[n].status = "acknowledged"
    BY <2>2
  <2> HIDE DEF c
  <2>4. \E k \in 1 .. n - 1 : ops[k] = Reply(ops[n].at)
    <3>1. CASE ops = <<Settle(c, "failed")>>
      <4>1. n = 1
        BY <2>3, <3>1
      <4> QED BY <2>3, <3>1, <4>1 DEF Settle
    <3>2. CASE ops = <<Reply(c), Settle(c, "acknowledged")>>
      <4>1. n = 1 \/ n = 2
        BY <2>3, <3>2
      <4>2. CASE n = 1
        BY <2>3, <3>2, <4>2 DEF Reply
      <4>3. CASE n = 2
        BY <3>2, <4>3 DEF Settle
      <4> QED BY <4>1, <4>2, <4>3
    <3>3. CASE ops = <<DropRequest(pump[p].found.request), Reply(c), Settle(c, "failed")>>
      <4>1. n = 1 \/ n = 2 \/ n = 3
        BY <2>3, <3>3
      <4> QED BY <2>3, <3>3, <4>1 DEF Settle, Reply, DropRequest
    <3>4. CASE ops = <<Upsert(counter), Reply(c), Settle(c, "acknowledged")>>
      <4>1. n = 1 \/ n = 2 \/ n = 3
        BY <2>3, <3>4
      <4>2. CASE n = 1 \/ n = 2
        BY <2>3, <3>4, <4>2 DEF Reply, Upsert
      <4>3. CASE n = 3
        <5>1. 2 \in 1 .. n - 1 /\ ops[2] = Reply(c) /\ ops[n].at = c
          BY <3>4, <4>3 DEF Settle
        <5> QED BY <5>1
      <4> QED BY <4>1, <4>2, <4>3
    <3>5. CASE ops = <<Reply(t), Settle(t, "acknowledged"), DropSession>>
      <4>1. n = 1 \/ n = 2 \/ n = 3
        BY <2>3, <3>5
      <4>2. CASE n = 1 \/ n = 3
        BY <2>3, <3>5, <4>2 DEF Reply, DropSession
      <4>3. CASE n = 2
        <5>1. 1 \in 1 .. n - 1 /\ ops[1] = Reply(t) /\ ops[n].at = t
          BY <3>5, <4>3 DEF Settle
        <5> QED BY <5>1
      <4> QED BY <4>1, <4>2, <4>3
    <3>6. CASE ops = <<Settle(c, "failed"), Reply(t), DropSession>>
      <4>1. n = 1 \/ n = 2 \/ n = 3
        BY <2>3, <3>6
      <4> QED BY <2>3, <3>6, <4>1 DEF Settle, Reply, DropSession
    <3> QED BY <2>1, <3>1, <3>2, <3>3, <3>4, <3>5, <3>6
  <2> QED BY <2>2, <2>4
<1>3. CASE Accepted(p)
  <2>1. pump'[p].work = <<Settle(c, "acknowledged")>>
    BY <1>3, ThenEffect DEF Accepted
  <2>2. pump'[p].work[n].at = c
    <3> HIDE DEF c
    <3>1. n = 1
      BY <2>1
    <3> QED BY <2>1, <3>1 DEF Settle
  <2>3. \E a \in facts'.answers : a.by = c
    <3> HIDE DEF c
    <3>1. PICK t, s : facts' = [facts EXCEPT !.answers = @ \cup
                        {[by |-> c, to |-> t, said |-> s, life |-> life]}]
      BY <1>3 DEF Accepted, c
    <3>2. [by |-> c, to |-> t, said |-> s, life |-> life] \in facts'.answers
      BY <3>1 DEF StoresInv, FactsOK
    <3> QED BY <3>2
  <2>4. i = c
    BY <2>2
  <2> HIDE DEF c
  <2> QED BY <2>3, <2>4 DEF IsTold
<1>4. CASE Perform(p)
  <2>1. /\ Len(pump[p].work) >= 1 /\ Len(pump'[p].work) = Len(pump[p].work) - 1
        /\ \A k \in 1 .. Len(pump'[p].work) : pump'[p].work[k] = pump[p].work[k + 1]
        /\ Head(pump[p].work) = pump[p].work[1]
        /\ pump[p].work \in Seq(Operations)
    BY <1>4, PerformEffect DEF PumpsInv, PumpOK
  <2>2. Len(pump[p].work) \in Nat /\ n \in Nat
    BY <2>1, LenProperties
  <2>3. n + 1 \in 1 .. Len(pump[p].work) /\ pump'[p].work[n] = pump[p].work[n + 1]
    BY <2>1, <2>2
  <2>4. IsTold(i) \/ \E k \in 1 .. (n + 1) - 1 : pump[p].work[k] = Reply(i)
    <3>1. /\ pump[p].work[n + 1].op = "settle" /\ pump[p].work[n + 1].at = i
          /\ pump[p].work[n + 1].status = "acknowledged"
      BY <2>3
    <3> QED BY <2>3, <3>1 DEF ToldInv
  <2>5. CASE IsTold(i)
    BY <2>3, <2>5, StaysTold
  <2>6. ASSUME NEW k \in 1 .. (n + 1) - 1, pump[p].work[k] = Reply(i) PROVE Goal
    <3>1. CASE k = 1
      <4>1. IsTold(i)'
        BY <1>4, <2>1, <2>6, <3>1, ReplyTells
      <4> QED BY <4>1
    <3>2. CASE k # 1
      <4>1. k - 1 \in 1 .. n - 1 /\ k - 1 \in 1 .. Len(pump'[p].work) /\ (k - 1) + 1 = k
        BY <2>1, <2>2, <2>6, <3>2
      <4>2. pump'[p].work[k - 1] = Reply(i)
        BY <2>1, <2>6, <4>1
      <4> QED BY <2>3, <4>1, <4>2
    <3> QED BY <3>1, <3>2
  <2> QED BY <2>4, <2>5, <2>6
<1>5. CASE Take(p) \/ StartTurn(p) \/ FindQuestion(p) \/ Note(p) \/ Answered(p) \/ Advance(p)
  <2>1. pump'[p].work = <<>>
    <3>1. CASE Take(p) \/ StartTurn(p) \/ FindQuestion(p) \/ Advance(p)
      BY <3>1, TakeEffect, StartEffect, FindEffect, AdvanceEffect
    <3>2. ASSUME NEW label, Goto(p, label), Settled PROVE pump'[p].work = <<>>
      BY <3>2, GotoEffect DEF Settled
    <3>3. CASE Note(p) \/ Answered(p)
      <4>1. Settled /\ \E label : Goto(p, label)
        BY <3>3 DEF Note, Answered, At
      <4> QED BY <3>2, <4>1
    <3> QED BY <1>5, <3>1, <3>3
  <2> QED BY <2>1
<1>6. CASE ProcessEnds
  BY <1>6 DEF ProcessEnds, IdlePump
<1> QED BY <1>1, <1>2, <1>3, <1>4, <1>5, <1>6, Untouched DEF PumpStep

\* Nothing is acknowledged that nobody reacted to.
LEMMA ToldStep ==
  ASSUME ChannelTypes, ChannelTypes', StepsInv, ToldInv, ChannelsNext
  PROVE  ToldInv'
<1> USE DEF ChannelTypes
<1>1. ASSUME NEW i \in Inbounds', inbox'[i].status = "acknowledged"
      PROVE  IsTold(i)'
  <2>1. i \in Inbounds
    BY <1>1, NewIsQueued
  <2>2. CASE inbox[i].status = "acknowledged"
    <3>1. IsTold(i)
      BY <2>1, <2>2 DEF ToldInv, SettledIsTold, IsTold
    <3> QED BY <3>1, StaysTold
  <2>3. ASSUME NEW p \in Pumps, Perform(p), Head(pump[p].work).op = "settle",
               Head(pump[p].work).at = i, Head(pump[p].work).status = "acknowledged"
        PROVE  IsTold(i)'
    <3>1. Len(pump[p].work) >= 1 /\ Head(pump[p].work) = pump[p].work[1]
      BY <2>3, PerformEffect
    <3>2. Len(pump[p].work) \in Nat
      BY LenProperties DEF PumpsInv, PumpOK
    <3>3. 1 \in 1 .. Len(pump[p].work)
      BY <3>1, <3>2
    <3>4. \/ IsTold(pump[p].work[1].at)
          \/ \E k \in 1 .. 1 - 1 : pump[p].work[k] = Reply(pump[p].work[1].at)
      BY <2>3, <3>1, <3>3 DEF ToldInv
    <3>5. IsTold(i)
      BY <2>3, <3>1, <3>4
    <3> QED BY <3>5, StaysTold
  <2> QED BY <1>1, <2>1, <2>2, <2>3, StatusChanges
<1>2. SettledIsTold'
  BY <1>1 DEF SettledIsTold, IsTold
<1>3. ASSUME NEW p \in Pumps, NEW n \in 1 .. Len(pump'[p].work), NEW i,
             pump'[p].work[n].op = "settle", pump'[p].work[n].status = "acknowledged",
             pump'[p].work[n].at = i
      PROVE  IsTold(i)' \/ \E k \in 1 .. n - 1 : pump'[p].work[k] = Reply(i)
  BY <1>3, WordFirstStep
<1> QED BY <1>2, <1>3 DEF ToldInv, IsTold, Reply

-----------------------------------------------------------------------------
(* A request belongs to the turn that waits for it *)

\* How a mapping gets into the file.
LEMMA WhereMappingsComeFrom ==
  ASSUME StoresInv, PumpsInv, StepsInv, ChannelsNext, NEW m \in mappings'
  PROVE  \/ m \in mappings
         \/ \E p \in Pumps : /\ Note(p) /\ m.request = pump[p].found.request
                             /\ m.session = pump[p].found.session
                             /\ m.answer = Current(p)
         \/ \E p \in Pumps : /\ Perform(p) /\ m.request = turn[p].asking /\ m.answer = 0
                             /\ pump[p].pc = "waiting"
                             /\ Head(pump[p].work) = Upsert(turn[p].asking)
                             /\ \/ m.session = pump[p].session
                                \/ \E o \in mappings : /\ o.request = turn[p].asking
                                                       /\ m.session = o.session
<1> DEFINE Source ==
         \/ m \in mappings
         \/ \E p \in Pumps : /\ Note(p) /\ m.request = pump[p].found.request
                             /\ m.session = pump[p].found.session
                             /\ m.answer = Current(p)
         \/ \E p \in Pumps : /\ Perform(p) /\ m.request = turn[p].asking /\ m.answer = 0
                             /\ pump[p].pc = "waiting"
                             /\ Head(pump[p].work) = Upsert(turn[p].asking)
                             /\ \/ m.session = pump[p].session
                                \/ \E o \in mappings : /\ o.request = turn[p].asking
                                                       /\ m.session = o.session
<1>1. ASSUME NEW p \in Pumps, Note(p) PROVE Source
  <2> DEFINE f == [pump[p].found EXCEPT !.answer = Current(p)]
             same == {o \in mappings : o.request = f.request}
  <2>1. m \in (mappings \ same) \cup
           IF same = {} THEN {[f EXCEPT !.at = End]}
           ELSE {[f EXCEPT !.at = o.at] : o \in same}
    BY <1>1 DEF Note
  <2>2. IsMapping(pump[p].found)
    BY <1>1 DEF Note, At, PumpsInv, PumpOK, Finding
  <2>3. /\ f.request = pump[p].found.request /\ f.session = pump[p].found.session
        /\ f.answer = Current(p) /\ f \in [at : Nat, request : Nat, session : {f.session},
                                           answer : {Current(p)}]
    BY <2>2 DEF IsMapping
  <2>4. ASSUME NEW a, m = [f EXCEPT !.at = a]
        PROVE  /\ m.request = pump[p].found.request /\ m.session = pump[p].found.session
               /\ m.answer = Current(p)
    <3> HIDE DEF f
    <3> QED BY <2>3, <2>4
  <2>5. m \in mappings \/ \E a : m = [f EXCEPT !.at = a]
    <3> HIDE DEF f
    <3>1. CASE same = {}
      BY <2>1, <3>1
    <3>2. CASE same # {}
      BY <2>1, <3>2
    <3> QED BY <3>1, <3>2
  <2> HIDE DEF f
  <2> QED BY <1>1, <2>4, <2>5
<1>2. ASSUME NEW p \in Pumps, Perform(p) PROVE Source
  <2> DEFINE s == Head(pump[p].work)
  <2>1. s \in Steps(p) /\ s \in Operations
    <3>1. pump[p].work \in Seq(Operations) /\ pump[p].work # <<>>
      BY <1>2 DEF PumpsInv, PumpOK, Perform
    <3>2. Head(pump[p].work) \in Steps(p)
      BY <1>2, PerformEffect
    <3> QED BY <3>1, <3>2
  <2>2. CASE s.op = "upsert" /\ mappings' = Upserted(p, s.request)
    <3> DEFINE r == s.request
               same == {o \in mappings : o.request = r}
    <3>1. pump[p].pc = "waiting" /\ r = turn[p].asking
      BY <2>1, <2>2 DEF StepsInv
    <3>2. m \in (mappings \ same) \cup
            IF same = {}
            THEN {[at |-> End, request |-> r, session |-> pump[p].session, answer |-> 0]}
            ELSE {[o EXCEPT !.answer = 0] : o \in same}
      BY <2>2 DEF Upserted
    <3>3. s = Upsert(turn[p].asking)
      BY <2>1, <2>2, <3>1 DEF Operations, Upsert
    <3> HIDE DEF s
    <3>4. CASE m = [at |-> End, request |-> r, session |-> pump[p].session, answer |-> 0]
      BY <1>2, <3>1, <3>3, <3>4 DEF s
    <3>5. ASSUME NEW o \in same, m = [o EXCEPT !.answer = 0] PROVE Source
      <4>1. m.request = r /\ m.session = o.session /\ m.answer = 0
        BY <3>5 DEF StoresInv, MappingsOK, IsMapping
      <4> QED BY <1>2, <3>1, <3>3, <3>5, <4>1 DEF s
    <3> QED BY <3>2, <3>4, <3>5
  <2>3. CASE mappings' \subseteq mappings
    BY <2>3
  <2> QED BY <1>2, <2>2, <2>3 DEF Perform, MappingsOfOthers
<1>3. ASSUME NEW p \in Pumps, Take(p) \/ AskPerson(p) \/ PumpStep(p), ~Note(p), ~Perform(p)
      PROVE  mappings' = mappings
  BY <1>3 DEF Take, AskPerson, PumpStep, SessionFails, StartTurn, TurnDown, FindQuestion,
              Accepted, Gone, Answered, TurnEnds, Advance, stores
<1>4. ASSUME \/ \E k \in Messages : Submit(k)
             \/ \E i \in Inbounds : Release(i)
             \/ \E r \in Routes : Reroute(r)
             \/ \E p \in Pumps, how \in {"answered", "cancelled"} : HostResolves(p, how)
             \/ ProcessEnds
      PROVE  mappings' = mappings
  BY <1>4 DEF Submit, Push, Release, Reroute, HostResolves, ProcessEnds, stores
<1>5. ASSUME mappings' = mappings PROVE Source
  BY <1>5
<1> HIDE DEF Source
<1>6. Source
  <2>1. ASSUME NEW p \in Pumps, Take(p) \/ AskPerson(p) \/ PumpStep(p) PROVE Source
    BY <1>1, <1>2, <1>3, <1>5, <2>1
  <2> QED BY <1>4, <1>5, <2>1 DEF ChannelsNext
<1> QED BY <1>6 DEF Source

\* What becomes of the request table and its counter.
LEMMA LoopChanges ==
  ASSUME ChannelTypes, ChannelsNext
  PROVE  \/ UNCHANGED loop
         \/ \E p \in Pumps : /\ AskPerson(p) /\ counter' = counter + 1
                             /\ requests' = requests \cup {counter}
         \/ \E p \in Pumps : /\ turn[p].asking \in requests /\ turn'[p].outcome # "none"
                             /\ requests' = requests \ {turn[p].asking}
                             /\ counter' = counter
         \/ ProcessEnds
<1> DEFINE Changes ==
         \/ UNCHANGED loop
         \/ \E p \in Pumps : /\ AskPerson(p) /\ counter' = counter + 1
                             /\ requests' = requests \cup {counter}
         \/ \E p \in Pumps : /\ turn[p].asking \in requests /\ turn'[p].outcome # "none"
                             /\ requests' = requests \ {turn[p].asking}
                             /\ counter' = counter
         \/ ProcessEnds
<1>0. DOMAIN turn = Pumps /\ \A p \in Pumps : TurnOK(p)
  BY DEF ChannelTypes, PumpsInv
<1>1. ASSUME NEW p \in Pumps, AskPerson(p) PROVE Changes
  BY <1>1 DEF AskPerson
<1>2. ASSUME NEW p \in Pumps, NEW how \in {"answered", "cancelled"},
             turn' = [turn EXCEPT ![p].outcome = how], turn[p].asking \in requests,
             requests' = requests \ {turn[p].asking}, counter' = counter
      PROVE  Changes
  <2>1. turn'[p].outcome # "none"
    BY <1>0, <1>2 DEF TurnOK
  <2> QED BY <1>2, <2>1
<1>3. ASSUME UNCHANGED loop PROVE Changes
  BY <1>3
<1> HIDE DEF Changes
<1>4. ASSUME NEW p \in Pumps, Accepted(p) PROVE Changes
  <2>1. PICK r \in Pumps : /\ turn' = [turn EXCEPT ![r].outcome = "answered"]
                           /\ turn[r].asking \in requests
                           /\ requests' = requests \ {turn[r].asking}
    BY <1>4 DEF Accepted
  <2>2. counter' = counter
    BY <1>4 DEF Accepted
  <2> QED BY <1>2, <2>1, <2>2
<1>5. ASSUME NEW p \in Pumps, NEW how \in {"answered", "cancelled"}, HostResolves(p, how)
      PROVE  Changes
  BY <1>2, <1>5 DEF HostResolves
<1>6. ASSUME ProcessEnds PROVE Changes
  BY <1>6 DEF Changes
<1>7. ASSUME NEW p \in Pumps, Take(p) \/ PumpStep(p), ~Accepted(p) PROVE UNCHANGED loop
  BY <1>7 DEF Take, PumpStep, SessionFails, StartTurn, TurnDown, FindQuestion, Note, Gone,
              Answered, TurnEnds, Perform, Advance, loop
<1>8. ASSUME \/ \E m \in Messages : Submit(m)
             \/ \E i \in Inbounds : Release(i)
             \/ \E r \in Routes : Reroute(r)
      PROVE  UNCHANGED loop
  BY <1>8 DEF Submit, Push, Release, Reroute, loop
<1>9. Changes
  BY <1>1, <1>3, <1>4, <1>5, <1>6, <1>7, <1>8 DEF ChannelsNext
<1> QED BY <1>9 DEF Changes

\* A known request stays known; what the file has when the process ends is left over.
LEMMA StaysKnown ==
  ASSUME ChannelTypes, ChannelsNext, NEW r \in Nat, IsKnown(r),
         ProcessEnds => \E m \in mappings : m.request = r
  PROVE  IsKnown(r)'
<1> USE DEF ChannelTypes
<1>0. counter \in Nat /\ facts.leftover \subseteq Nat /\ FactsOK
  BY DEF StoresInv, FactsOK
<1>1. CASE ProcessEnds
  <2>1. facts'.leftover = facts.leftover \cup {m.request : m \in mappings}
    BY <1>0, <1>1 DEF ProcessEnds, FactsOK
  <2> QED BY <1>1, <2>1 DEF IsKnown
<1>2. CASE ~ProcessEnds
  <2>1. counter' = counter \/ counter' = counter + 1
    BY <1>2, LoopChanges DEF loop
  <2>2. facts'.leftover = facts.leftover
    <3> USE DEF FactsOK
    <3>1. ASSUME \/ \E m \in Messages : Submit(m)
                 \/ \E k \in Inbounds : Release(k)
                 \/ \E x \in Routes : Reroute(x)
                 \/ \E p \in Pumps, how \in {"answered", "cancelled"} : HostResolves(p, how)
          PROVE  facts'.leftover = facts.leftover
      BY <1>0, <3>1 DEF Submit, Push, Release, Reroute, HostResolves
    <3>2. ASSUME NEW p \in Pumps, Take(p) \/ AskPerson(p) PROVE facts'.leftover = facts.leftover
      BY <1>0, <3>2 DEF Take, AskPerson
    <3>3. ASSUME NEW p \in Pumps, StartTurn(p) PROVE facts'.leftover = facts.leftover
      BY <1>0, <3>3 DEF StartTurn
    <3>4. ASSUME NEW p \in Pumps, Accepted(p) PROVE facts'.leftover = facts.leftover
      BY <1>0, <3>4 DEF Accepted
    <3>5. ASSUME NEW p \in Pumps, PumpStep(p), ~StartTurn(p), ~Accepted(p) PROVE facts' = facts
      BY <3>5 DEF PumpStep, SessionFails, TurnDown, FindQuestion, Note, Gone, Answered,
                  TurnEnds, Perform, Advance
    <3> QED BY <1>2, <3>1, <3>2, <3>3, <3>4, <3>5 DEF ChannelsNext
  <2> QED BY <1>0, <2>1, <2>2 DEF IsKnown
<1> QED BY <1>1, <1>2

\* What a pump found it keeps, and what it finds is in the file.
LEMMA FindingChanges ==
  ASSUME StoresInv, PumpsInv, ChannelsNext, NEW q \in Pumps, Finding(q)'
  PROVE  \/ /\ Finding(q) /\ pump'[q].found = pump[q].found /\ Current(q)' = Current(q)
         \/ /\ FindQuestion(q) /\ pump'[q].found = MappingOf(SessionOf(Current(q)))
            /\ Current(q)' = Current(q)
<1>1. CASE pump'[q] = pump[q]
  BY <1>1 DEF Finding, Current
<1>2. CASE FindQuestion(q)
  BY <1>2, FindEffect
<1>3. CASE Note(q)
  <2>1. Goto(q, "answer") /\ Finding(q)
    BY <1>3 DEF Note, At, Finding
  <2> QED BY <2>1, GotoEffect
<1>4. CASE \/ SessionFails(q) \/ TurnDown(q) \/ Accepted(q) \/ Gone(q) \/ AskPerson(q) \/ TurnEnds(q)
  <2>1. \E ops, label : Then(q, ops, label) /\ label \in {"next", "waiting"}
    BY <1>4 DEF SessionFails, TurnDown, Accepted, Gone, AskPerson, TurnEnds
  <2>2. pump'[q].pc \in {"next", "waiting"}
    BY <2>1, ThenEffect
  <2> QED BY <2>2 DEF Finding
<1>5. CASE Take(q) \/ StartTurn(q) \/ Advance(q)
  BY <1>5, TakeEffect, StartEffect, AdvanceEffect DEF Finding
<1>6. CASE Answered(q)
  <2>1. Goto(q, "turn")
    BY <1>6 DEF Answered
  <2> QED BY <2>1, GotoEffect DEF Finding
<1>7. CASE Perform(q)
  <2>1. pump'[q] = [pump[q] EXCEPT !.work = Tail(pump[q].work)] /\ pump[q].pc \in {"waiting", "next"}
    BY <1>7, PerformEffect
  <2> QED BY <2>1 DEF Finding, PumpsInv, PumpOK
<1>8. CASE ProcessEnds
  BY <1>8 DEF ProcessEnds, IdlePump, Finding
<1> QED BY <1>1, <1>2, <1>3, <1>4, <1>5, <1>6, <1>7, <1>8, Untouched DEF PumpStep

\* What a search finds is in the file and of the session.
LEMMA MappingFound ==
  ASSUME StoresInv, NEW s, MappingOf(s) # NoMapping
  PROVE  MappingOf(s) \in mappings /\ MappingOf(s).session = s
<1> DEFINE own == {m \in mappings : m.session = s}
<1>1. own \in SUBSET mappings /\ MappingOf(s) = FirstOf(own)
  BY DEF MappingOf
<1>2. own # {}
  BY <1>1 DEF FirstOf
<1>3. FirstOf(own) \in own
  <2> HIDE DEF own
  <2> QED BY <1>1, <1>2, FirstIsOne
<1> QED BY <1>1, <1>3

\* No request belongs to two turns, and each is there while its turn waits.
LEMMA AskStep ==
  ASSUME ChannelTypes, ChannelTypes', StepsInv, AskInv, ChannelsNext
  PROVE  AskInv'
<1> USE DEF ChannelTypes
<1>0. /\ counter \in Nat \ {0} /\ requests \subseteq 1 .. counter - 1
      /\ \A p \in Pumps : turn[p].asking \in Nat /\ TurnOK(p)
      /\ \A m \in mappings : m.request \in Nat
      /\ \A p \in Pumps : Finding(p) => pump[p].found.request \in Nat
  BY DEF StoresInv, PumpsInv, PumpOK, TurnOK, MappingsOK, IsMapping
<1>a. ASSUME NEW p \in Pumps
      PROVE  \/ turn'[p].asking = turn[p].asking
             \/ turn'[p].asking = 0
             \/ AskPerson(p) /\ turn'[p].asking = counter
  <2>1. NoTurn.asking = 0 /\ [NoTurn EXCEPT !.target = Current(p)].asking = 0
    BY DEF NoTurn
  <2> QED BY <2>1, TurnChanges
<1>b. ASSUME NEW p \in Pumps, AskPerson(p) PROVE counter' = counter + 1
  BY <1>b DEF AskPerson
<1>1. ASSUME NEW p \in Pumps PROVE turn'[p].asking < counter'
  <2>1. CASE ProcessEnds
    BY <2>1 DEF ProcessEnds, NoTurn
  <2>2. CASE ~ProcessEnds
    <3>1. counter' = counter \/ counter' = counter + 1
      BY <2>2, LoopChanges DEF loop
    <3>2. turn[p].asking < counter
      BY DEF AskInv
    <3> QED BY <1>0, <1>a, <1>b, <3>1, <3>2
  <2> QED BY <2>1, <2>2
<1>2. ASSUME NEW p \in Pumps, NEW q \in Pumps, Asking(p)', turn'[p].asking = turn'[q].asking
      PROVE  p = q
  <2>1. turn'[p].asking # 0
    BY <1>2 DEF Asking
  <2>2. ASSUME NEW a \in Pumps, NEW b \in Pumps, AskPerson(a), turn'[a].asking = counter,
               turn'[b].asking = counter
        PROVE  a = b
    <3>1. turn[b].asking < counter
      BY DEF AskInv
    <3>2. AskPerson(b)
      BY <1>0, <1>a, <2>2, <3>1
    <3>3. pump'[b].pc = "waiting" /\ pump[b].pc = "turn"
      BY <3>2, ThenEffect DEF AskPerson, At
    <3>4. CASE a # b
      <4>1. pump'[b] = pump[b]
        BY <2>2, <3>4, OneActs
      <4> QED BY <3>3, <4>1
    <3> QED BY <3>4
  <2>3. CASE AskPerson(p) /\ turn'[p].asking = counter
    BY <1>2, <2>2, <2>3
  <2>4. CASE AskPerson(q) /\ turn'[q].asking = counter
    BY <1>2, <2>2, <2>4
  <2>5. CASE turn'[p].asking = turn[p].asking /\ turn'[q].asking = turn[q].asking
    BY <1>2, <2>1, <2>5 DEF AskInv, Asking
  <2> QED BY <1>2, <1>a, <2>1, <2>3, <2>4, <2>5
<1>3. ASSUME NEW p \in Pumps, Asking(p)', turn'[p].outcome = "none"
      PROVE  turn'[p].asking \in requests'
  <2>1. CASE turn'[p] = turn[p]
    <3>1. turn[p].asking \in requests /\ Asking(p)
      BY <1>3, <2>1 DEF AskInv, Asking
    <3>2. CASE UNCHANGED loop
      BY <2>1, <3>1, <3>2 DEF loop
    <3>3. CASE requests \subseteq requests'
      BY <2>1, <3>1, <3>3
    <3>4. ASSUME NEW q \in Pumps, turn'[q].outcome # "none",
                 requests' = requests \ {turn[q].asking}
          PROVE  turn'[p].asking \in requests'
      <4>1. p # q
        BY <1>3, <3>4
      <4>2. turn[p].asking # turn[q].asking
        BY <3>1, <4>1 DEF AskInv
      <4> QED BY <2>1, <3>1, <3>4, <4>2
    <3>5. CASE ProcessEnds
      <4>1. turn'[p] = NoTurn
        BY <3>5 DEF ProcessEnds
      <4> QED BY <1>3, <4>1 DEF Asking, NoTurn
    <3> QED BY <3>2, <3>3, <3>4, <3>5, LoopChanges
  <2>2. CASE AskPerson(p) /\ turn'[p].asking = counter
    BY <2>2 DEF AskPerson
  <2>3. CASE turn'[p].asking = 0
    BY <1>3, <2>3 DEF Asking
  <2>4. NoTurn.asking = 0 /\ [NoTurn EXCEPT !.target = Current(p)].asking = 0
    BY DEF NoTurn
  <2> QED BY <1>3, <2>1, <2>2, <2>3, <2>4, TurnChanges
<1>4. ASSUME NEW m \in mappings' PROVE IsKnown(m.request)'
  <2>1. CASE ProcessEnds
    <3>1. m \in mappings
      BY <2>1 DEF ProcessEnds, stores
    <3>2. IsKnown(m.request) /\ m.request \in Nat
      BY <1>0, <3>1 DEF AskInv
    <3> QED BY <3>1, <3>2, StaysKnown
  <2>2. CASE ~ProcessEnds
    <3>1. CASE m \in mappings
      BY <1>0, <2>2, <3>1, StaysKnown DEF AskInv
    <3>2. ASSUME NEW p \in Pumps, Note(p), m.request = pump[p].found.request
          PROVE  IsKnown(m.request)'
      <4>1. Finding(p)
        BY <3>2 DEF Note, At, Finding
      <4> QED BY <1>0, <2>2, <3>2, <4>1, StaysKnown DEF AskInv
    <3>3. ASSUME NEW p \in Pumps, m.request = turn[p].asking PROVE IsKnown(m.request)'
      <4>1. IsKnown(turn[p].asking)
        BY DEF AskInv, IsKnown
      <4> QED BY <1>0, <2>2, <3>3, <4>1, StaysKnown
    <3> QED BY <3>1, <3>2, <3>3, WhereMappingsComeFrom
  <2> QED BY <2>1, <2>2
<1>5. ASSUME NEW p \in Pumps, Finding(p)' PROVE (IsKnown(pump[p].found.request))'
  <2>0. ~ProcessEnds
    BY <1>5 DEF ProcessEnds, Finding, IdlePump
  <2>1. CASE Finding(p) /\ pump'[p].found = pump[p].found
    BY <1>0, <2>0, <2>1, StaysKnown DEF AskInv, IsKnown
  <2>2. CASE FindQuestion(p) /\ pump'[p].found = MappingOf(SessionOf(Current(p)))
    <3>1. MappingOf(SessionOf(Current(p))) \in mappings
      BY <2>2, MappingFound DEF FindQuestion
    <3> QED BY <1>0, <2>0, <2>2, <3>1, StaysKnown DEF AskInv, IsKnown
  <2> QED BY <1>5, <2>1, <2>2, FindingChanges
<1> QED BY <1>1, <1>2, <1>3, <1>4, <1>5 DEF AskInv

-----------------------------------------------------------------------------
(* Sessions and conversations *)

\* What has happened is not forgotten.
LEMMA FactsGrow ==
  ASSUME StoresInv, ChannelsNext
  PROVE  facts.shared \subseteq facts'.shared /\ facts.reused \subseteq facts'.reused
<1> USE DEF StoresInv, FactsOK
<1>1. ASSUME \/ \E m \in Messages : Submit(m)
             \/ \E k \in Inbounds : Release(k)
             \/ \E r \in Routes : Reroute(r)
             \/ \E p \in Pumps, how \in {"answered", "cancelled"} : HostResolves(p, how)
             \/ ProcessEnds
      PROVE  facts'.shared = facts.shared /\ facts'.reused = facts.reused
  BY <1>1 DEF Submit, Push, Release, Reroute, HostResolves, ProcessEnds
<1>2. ASSUME NEW p \in Pumps, Take(p) PROVE facts'.shared = facts.shared /\ facts'.reused = facts.reused
  BY <1>2 DEF Take
<1>3. ASSUME NEW p \in Pumps, AskPerson(p)
      PROVE  facts'.shared = facts.shared /\ facts.reused \subseteq facts'.reused
  BY <1>3 DEF AskPerson
<1>4. ASSUME NEW p \in Pumps, StartTurn(p)
      PROVE  facts.shared \subseteq facts'.shared /\ facts'.reused = facts.reused
  BY <1>4 DEF StartTurn
<1>5. ASSUME NEW p \in Pumps, Accepted(p)
      PROVE  facts'.shared = facts.shared /\ facts'.reused = facts.reused
  BY <1>5 DEF Accepted
<1>6. ASSUME NEW p \in Pumps, PumpStep(p), ~StartTurn(p), ~Accepted(p) PROVE facts' = facts
  BY <1>6 DEF PumpStep, SessionFails, TurnDown, FindQuestion, Note, Gone, Answered,
              TurnEnds, Perform, Advance
<1> QED BY <1>1, <1>2, <1>3, <1>4, <1>5, <1>6 DEF ChannelsNext

\* A message stays in its conversation.
LEMMA ConversationStays ==
  ASSUME StoresInv, PumpsInv, ChannelsNext, NEW i \in Inbounds, NEW k, k = i
  PROVE  ConversationOf(k)' = ConversationOf(i)
BY InboxGrows DEF ConversationOf

\* A pump that drives a turn is at a message it holds.
LEMMA DrivingHolds ==
  ASSUME PumpsInv, NEW q \in Pumps, Driving(q)
  PROVE  /\ pump[q].pc \in {"turn", "waiting", "next"}
         /\ Current(q) \in pump[q].batch /\ Current(q) \in Inbounds
<1>1. pump[q].pc \in {"turn", "waiting", "next"}
  BY DEF PumpsInv, PumpOK, TurnOK, PumpLabels, Driving, NoTurn
<1>2. pump[q].batch # {}
  BY <1>1 DEF PumpsInv, PumpOK
<1> QED BY <1>1, <1>2, CurrentIsHeld

\* A turn stays with its message and its session.
LEMMA TurnStays ==
  ASSUME StoresInv, PumpsInv, ChannelsNext, NEW q \in Pumps, Driving(q)'
  PROVE  \/ StartTurn(q)
         \/ /\ Driving(q) /\ Current(q)' = Current(q) /\ Current(q) \in Inbounds
            /\ pump'[q].session = pump[q].session
<1>a. ASSUME ~StartTurn(q) PROVE Driving(q)
  <2>1. CASE Advance(q) \/ ProcessEnds
    <3>1. turn'[q] = NoTurn
      BY <2>1, AdvanceEffect DEF PumpsInv, ProcessEnds
    <3> QED BY <3>1 DEF Driving, NoTurn
  <2>2. CASE Take(q)
    BY <2>2, TakeEffect DEF Driving, NoTurn
  <2> QED BY <1>a, <2>1, <2>2, HoldingChanges
<1> SUFFICES ASSUME ~StartTurn(q), Driving(q), Current(q) \in Inbounds,
                    pump[q].pc \in {"turn", "waiting", "next"}
             PROVE  Current(q)' = Current(q) /\ pump'[q].session = pump[q].session
  BY <1>a, DrivingHolds
<1>1. CASE pump'[q] = pump[q]
  BY <1>1 DEF Current
<1>2. CASE \/ SessionFails(q) \/ TurnDown(q) \/ Accepted(q) \/ Gone(q) \/ AskPerson(q) \/ TurnEnds(q)
  <2>1. \E ops, label : Then(q, ops, label)
    BY <1>2 DEF SessionFails, TurnDown, Accepted, Gone, AskPerson, TurnEnds
  <2> QED BY <2>1, ThenEffect
<1>3. CASE Note(q) \/ Answered(q)
  <2>1. \E label : Goto(q, label)
    BY <1>3 DEF Note, Answered
  <2> QED BY <2>1, GotoEffect
<1>4. CASE Perform(q)
  <2>1. pump'[q] = [pump[q] EXCEPT !.work = Tail(pump[q].work)]
    BY <1>4, PerformEffect
  <2> QED BY <2>1 DEF Current, PumpsInv, PumpOK
<1>5. CASE FindQuestion(q)
  BY <1>5 DEF FindQuestion, At
<1>6. CASE Take(q) \/ Advance(q) \/ ProcessEnds
  <2>1. turn'[q] = NoTurn
    BY <1>6, AdvanceEffect, TakeEffect DEF PumpsInv, ProcessEnds
  <2> QED BY <2>1 DEF Driving, NoTurn
<1> QED BY <1>1, <1>2, <1>3, <1>4, <1>5, <1>6, Untouched DEF PumpStep

\* Who asks drives a turn, and asked this before or asks it now.
LEMMA AskingChanges ==
  ASSUME StoresInv, PumpsInv, ChannelsNext, NEW q \in Pumps, Asking(q)'
  PROVE  \/ /\ AskPerson(q) /\ turn'[q].asking = counter
         \/ /\ turn'[q].asking = turn[q].asking /\ Asking(q)
<1>1. NoTurn.asking = 0 /\ [NoTurn EXCEPT !.target = Current(q)].asking = 0
  BY DEF NoTurn
<1>2. turn'[q].asking # 0
  BY DEF Asking
<1> QED BY <1>1, <1>2, TurnChanges DEF Asking

\* Whatever leads to the request of a turn leads there from the turn's session.
LEMMA RequestStep ==
  ASSUME ChannelTypes, ChannelTypes', StepsInv, AskInv, SessionInv, ChannelsNext,
         NEW p \in Pumps, IsFresh(p)'
  PROVE  /\ \A m \in mappings' : m.request = turn'[p].asking => m.session = pump'[p].session
         /\ \A q \in Pumps : Finding(q)' /\ pump'[q].found.request = turn'[p].asking =>
              pump'[q].found.session = pump'[p].session
<1> USE DEF ChannelTypes
<1>0. Asking(p)' /\ Driving(p)' /\ Current(p)' \notin facts'.reused
  BY DEF IsFresh, PumpsInv, TurnOK
<1>a. ~StartTurn(p)
  BY <1>0, StartEffect DEF Asking, NoTurn
<1>b. /\ Current(p)' = Current(p) /\ pump'[p].session = pump[p].session
      /\ Current(p) \notin facts.reused
  BY <1>0, <1>a, TurnStays, FactsGrow
<1>1. CASE AskPerson(p) /\ turn'[p].asking = counter
  <2>1. counter \notin facts.leftover
    <3>1. facts' = [facts EXCEPT !.reused =
                     IF counter \in facts.leftover THEN @ \cup {Current(p)} ELSE @]
      BY <1>1 DEF AskPerson
    <3>2. counter \in facts.leftover => Current(p) \in facts'.reused
      BY <3>1 DEF StoresInv, FactsOK
    <3> QED BY <1>0, <1>b, <3>2
  <2>2. ~IsKnown(counter) /\ mappings' = mappings
    BY <1>1, <2>1 DEF IsKnown, StoresInv, AskPerson, stores
  <2>3. \A m \in mappings : m.request # counter
    BY <2>2 DEF AskInv
  <2>4. ASSUME NEW q \in Pumps, Finding(q)' PROVE pump'[q].found.request # counter
    <3>1. CASE Finding(q) /\ pump'[q].found = pump[q].found
      BY <2>2, <3>1 DEF AskInv
    <3>2. CASE FindQuestion(q) /\ pump'[q].found = MappingOf(SessionOf(Current(q)))
      BY <2>3, <3>2, MappingFound DEF FindQuestion
    <3> QED BY <2>4, <3>1, <3>2, FindingChanges
  <2> QED BY <1>1, <2>2, <2>3, <2>4
<1>2. CASE turn'[p].asking = turn[p].asking /\ Asking(p)
  <2>1. /\ \A m \in mappings : m.request = turn[p].asking => m.session = pump[p].session
        /\ \A q \in Pumps : Finding(q) /\ pump[q].found.request = turn[p].asking =>
             pump[q].found.session = pump[p].session
    BY <1>2, <1>b DEF SessionInv, IsFresh
  <2>2. ASSUME NEW m \in mappings', m.request = turn[p].asking PROVE m.session = pump[p].session
    <3>1. CASE m \in mappings
      BY <2>1, <2>2, <3>1
    <3>2. ASSUME NEW q \in Pumps, Note(q), m.request = pump[q].found.request,
                 m.session = pump[q].found.session
          PROVE  m.session = pump[p].session
      <4>1. Finding(q)
        BY <3>2 DEF Note, At, Finding
      <4> QED BY <2>1, <2>2, <3>2, <4>1
    <3>3. ASSUME NEW q \in Pumps, m.request = turn[q].asking,
                 \/ m.session = pump[q].session
                 \/ \E o \in mappings : o.request = turn[q].asking /\ m.session = o.session
          PROVE  m.session = pump[p].session
      <4>1. p = q
        BY <1>2, <2>2, <3>3 DEF AskInv
      <4> QED BY <2>1, <3>3, <4>1
    <3> QED BY <3>1, <3>2, <3>3, WhereMappingsComeFrom
  <2>3. ASSUME NEW q \in Pumps, Finding(q)', pump'[q].found.request = turn[p].asking
        PROVE  pump'[q].found.session = pump[p].session
    <3>1. CASE Finding(q) /\ pump'[q].found = pump[q].found
      BY <2>1, <2>3, <3>1
    <3>2. CASE FindQuestion(q) /\ pump'[q].found = MappingOf(SessionOf(Current(q)))
      BY <2>1, <2>3, <3>2, MappingFound DEF FindQuestion
    <3> QED BY <2>3, <3>1, <3>2, FindingChanges
  <2> QED BY <1>2, <1>b, <2>2, <2>3
<1> QED BY <1>0, <1>1, <1>2, AskingChanges

\* A session, a mapping and an answer are of the conversation they came from.
LEMMA SessionStep ==
  ASSUME ChannelTypes, ChannelTypes', StepsInv, AskInv, SessionInv, ChannelsNext
  PROVE  SessionInv'
<1> USE DEF ChannelTypes
<1>0. \A i \in Inbounds : ConversationOf(i)' = ConversationOf(i)
  BY ConversationStays
<1>1. ASSUME NEW p \in Pumps, Driving(p)' PROVE pump'[p].session[1] = ConversationOf(Current(p))'
  <2>1. CASE StartTurn(p)
    <3>1. /\ pump'[p].session = SessionOf(Current(p)) /\ Current(p)' = Current(p)
          /\ pump[p].pc = "message"
      BY <2>1, StartEffect
    <3>2. Current(p) \in Inbounds
      BY <3>1, CurrentIsHeld DEF PumpsInv, PumpOK
    <3>3. ConversationOf(Current(p))' = ConversationOf(Current(p))
      BY <3>1, <3>2, ConversationStays
    <3> QED BY <3>1, <3>3 DEF SessionOf
  <2>2. CASE /\ Driving(p) /\ Current(p)' = Current(p) /\ Current(p) \in Inbounds
             /\ pump'[p].session = pump[p].session
    <3>1. ConversationOf(Current(p))' = ConversationOf(Current(p))
      BY <2>2, ConversationStays
    <3> QED BY <2>2, <3>1 DEF SessionInv
  <2> QED BY <1>1, <2>1, <2>2, TurnStays
<1>2. ASSUME NEW p \in Pumps, Finding(p)'
      PROVE  pump'[p].found.session[1] = ConversationOf(Current(p))'
  <2>1. CASE /\ Finding(p) /\ pump'[p].found = pump[p].found /\ Current(p)' = Current(p)
    <3>1. Current(p) \in Inbounds
      BY <2>1, CurrentIsHeld DEF PumpsInv, PumpOK, Finding
    <3>2. ConversationOf(Current(p))' = ConversationOf(Current(p))
      BY <2>1, <3>1, ConversationStays
    <3> QED BY <2>1, <3>2 DEF SessionInv
  <2>2. CASE /\ FindQuestion(p) /\ pump'[p].found = MappingOf(SessionOf(Current(p)))
             /\ Current(p)' = Current(p)
    <3>1. pump'[p].found.session = SessionOf(Current(p))
      BY <2>2, MappingFound DEF FindQuestion
    <3>2. Current(p) \in Inbounds
      BY <2>2, CurrentIsHeld DEF PumpsInv, PumpOK, FindQuestion, At
    <3>3. ConversationOf(Current(p))' = ConversationOf(Current(p))
      BY <2>2, <3>2, ConversationStays
    <3> QED BY <3>1, <3>3 DEF SessionOf
  <2> QED BY <1>2, <2>1, <2>2, FindingChanges
<1>3. ASSUME NEW m \in mappings', m.answer # 0 PROVE ConversationOf(m.answer)' = m.session[1]
  <2>1. CASE m \in mappings
    <3>1. m.answer \in Inbounds /\ ConversationOf(m.answer) = m.session[1]
      BY <1>3, <2>1 DEF StoresInv, MappingsOK, IsMapping, SessionInv
    <3> QED BY <1>0, <3>1
  <2>2. ASSUME NEW p \in Pumps, Note(p), m.session = pump[p].found.session, m.answer = Current(p)
        PROVE  ConversationOf(m.answer)' = m.session[1]
    <3>1. Finding(p) /\ pump[p].batch # {}
      BY <2>2 DEF Note, At, Finding, PumpsInv, PumpOK
    <3>2. Current(p) \in Inbounds
      BY <3>1, CurrentIsHeld
    <3>3. pump[p].found.session[1] = ConversationOf(Current(p))
      BY <3>1 DEF SessionInv
    <3> QED BY <1>0, <2>2, <3>2, <3>3
  <2> QED BY <1>3, <2>1, <2>2, WhereMappingsComeFrom
<1>4. ASSUME NEW p \in Pumps, IsFresh(p)'
      PROVE  /\ \A m \in mappings' : m.request = turn'[p].asking => m.session = pump'[p].session
             /\ \A q \in Pumps : Finding(q)' /\ pump'[q].found.request = turn'[p].asking =>
                  pump'[q].found.session = pump'[p].session
  BY <1>4, RequestStep
<1> QED BY <1>1, <1>2, <1>3, <1>4 DEF SessionInv

-----------------------------------------------------------------------------
(* Replies and answers stay in their conversation *)

\* What is at home stays there as long as the pump is at this message.
LEMMA HomeStays ==
  ASSUME StoresInv, PumpsInv, ChannelsNext, NEW p \in Pumps, NEW i \in Inbounds,
         Current(p) \in Inbounds, Current(p)' = Current(p), IsHome(p, i)
  PROVE  IsHome(p, i)'
<1>1. /\ ConversationOf(i)' = ConversationOf(i)
      /\ ConversationOf(Current(p))' = ConversationOf(Current(p))
      /\ facts.reused \subseteq facts'.reused
  BY ConversationStays, FactsGrow
<1> QED BY <1>1 DEF IsHome

\* A turn that goes on after an answer replies to the message the answer was.
LEMMA TargetIsHome ==
  ASSUME ChannelTypes, ChannelTypes', SessionInv, HomeInv, ChannelsNext,
         NEW p \in Pumps, Driving(p)', NEW t, t = turn'[p].target
  PROVE  IsHome(p, t)'
<1> USE DEF ChannelTypes
<1>1. CASE StartTurn(p)
  <2>1. t = Current(p)'
    BY <1>1, StartEffect DEF NoTurn
  <2> QED BY <2>1 DEF IsHome
<1>2. CASE /\ Driving(p) /\ Current(p)' = Current(p) /\ Current(p) \in Inbounds
  <2>1. turn[p].target \in Inbounds /\ IsHome(p, turn[p].target)
    BY <1>2 DEF PumpsInv, TurnOK, Driving, HomeInv
  <2>2. CASE t = turn[p].target
    BY <1>2, <2>1, <2>2, HomeStays
  <2>3. CASE Answered(p)
    <3> DEFINE own == {m \in mappings : m.request = turn[p].asking}
               a   == FirstOf(own).answer
    <3>1. /\ turn' = [turn EXCEPT ![p].target = IF a # 0 THEN a ELSE @, ![p].asking = 0]
          /\ pump[p].pc = "waiting"
      BY <2>3 DEF Answered, At
    <3>2. turn'[p].target = IF a # 0 THEN a ELSE turn[p].target
      <4> HIDE DEF a
      <4> QED BY <3>1 DEF PumpsInv, TurnOK
    <3>3. CASE a = 0
      BY <2>2, <3>2, <3>3
    <3>4. CASE a # 0
      <4>1. own # {}
        BY <3>4 DEF FirstOf, NoMapping
      <4>2. FirstOf(own) \in own
        <5>1. own \in SUBSET mappings
          OBVIOUS
        <5> HIDE DEF own
        <5> QED BY <4>1, <5>1, FirstIsOne
      <4>3. PICK m \in mappings : m.request = turn[p].asking /\ m.answer = a
        BY <4>2
      <4> HIDE DEF a
      <4>4. a \in Inbounds /\ ConversationOf(a) = m.session[1]
        BY <3>4, <4>3 DEF StoresInv, MappingsOK, IsMapping, SessionInv
      <4>5. Asking(p) /\ pump[p].session[1] = ConversationOf(Current(p))
        BY <1>2, <3>1 DEF PumpsInv, TurnOK, SessionInv
      <4>6. Current(p) \in facts.reused \/ m.session = pump[p].session
        BY <4>3, <4>5 DEF SessionInv, IsFresh
      <4>7. IsHome(p, a)
        BY <4>4, <4>5, <4>6 DEF IsHome
      <4> QED BY <1>2, <3>2, <3>4, <4>4, <4>7, HomeStays
    <3> QED BY <3>3, <3>4
  <2>4. turn'[p] # NoTurn
    BY DEF Driving, NoTurn
  <2>5. CASE StartTurn(p)
    BY <1>1, <2>5
  <2> QED BY <2>2, <2>3, <2>4, <2>5, TurnChanges
<1> QED BY <1>1, <1>2, TurnStays

\* What a pump is about to reply goes where its message came from.
LEMMA ReplyIsHome ==
  ASSUME ChannelTypes, ChannelTypes', StepsInv, HomeInv, ChannelsNext,
         NEW p \in Pumps, NEW s \in Steps(p)', s.op = "reply"
  PROVE  IsHome(p, s.at)'
<1> USE DEF ChannelTypes
<1>a. ASSUME pump[p].batch # {}, Current(p)' = Current(p), s \in Steps(p) PROVE IsHome(p, s.at)'
  <2>1. s.at \in Inbounds /\ IsHome(p, s.at)
    BY <1>a DEF StepsInv, HomeInv
  <2>2. Current(p) \in Inbounds
    BY <1>a, CurrentIsHeld
  <2> QED BY <1>a, <2>1, <2>2, HomeStays
<1>1. CASE pump'[p] = pump[p]
  <2>1. Steps(p)' = Steps(p) /\ Current(p)' = Current(p)
    BY <1>1 DEF Steps, Current
  <2>2. pump[p].batch # {}
    <3>1. pump[p].work # <<>>
      <4>1. Steps(p) # {}
        BY <2>1
      <4>2. pump[p].work = <<>> => Steps(p) = {}
        BY DEF Steps
      <4> QED BY <4>1, <4>2
    <3> QED BY <3>1 DEF PumpsInv, PumpOK
  <2> QED BY <1>a, <2>1, <2>2
<1>2. CASE SessionFails(p) \/ TurnDown(p) \/ Accepted(p) \/ Gone(p) \/ AskPerson(p) \/ TurnEnds(p)
  <2> DEFINE c == Current(p)
             t == turn[p].target
  <2>1. PICK ops, label :
          /\ Then(p, ops, label)
          /\ \/ ops = <<Settle(c, "failed")>>
             \/ ops = <<Reply(c), Settle(c, "acknowledged")>>
             \/ ops = <<Settle(c, "acknowledged")>>
             \/ ops = <<DropRequest(pump[p].found.request), Reply(c), Settle(c, "failed")>>
             \/ ops = <<Upsert(counter), Reply(c), Settle(c, "acknowledged")>>
             \/ TurnEnds(p) /\ ops = <<Reply(t), Settle(t, "acknowledged"), DropSession>>
             \/ TurnEnds(p) /\ ops = <<Settle(c, "failed"), Reply(t), DropSession>>
    BY <1>2 DEF SessionFails, TurnDown, Accepted, Gone, AskPerson, TurnEnds, Completed, Failed
  <2>2. Steps(p)' = {ops[n] : n \in 1 .. Len(ops)} /\ Current(p)' = c
    BY <2>1, ThenEffect
  <2>3. PICK n \in 1 .. Len(ops) : s = ops[n]
    BY <2>2
  <2>4. s.at = c \/ (TurnEnds(p) /\ s.at = t)
    <3> HIDE DEF c, t
    <3>1. CASE ops = <<Settle(c, "failed")>> \/ ops = <<Settle(c, "acknowledged")>>
      BY <2>3, <3>1 DEF Settle
    <3>2. CASE ops = <<Reply(c), Settle(c, "acknowledged")>>
      <4>1. s = Reply(c) \/ s = Settle(c, "acknowledged")
        BY <2>3, <3>2
      <4> QED BY <4>1 DEF Reply, Settle
    <3>3. CASE ops = <<DropRequest(pump[p].found.request), Reply(c), Settle(c, "failed")>>
      <4>1. s = DropRequest(pump[p].found.request) \/ s = Reply(c) \/ s = Settle(c, "failed")
        BY <2>3, <3>3
      <4> QED BY <4>1 DEF Reply, Settle, DropRequest
    <3>4. CASE ops = <<Upsert(counter), Reply(c), Settle(c, "acknowledged")>>
      <4>1. s = Upsert(counter) \/ s = Reply(c) \/ s = Settle(c, "acknowledged")
        BY <2>3, <3>4
      <4> QED BY <4>1 DEF Reply, Settle, Upsert
    <3>5. CASE TurnEnds(p) /\ ops = <<Reply(t), Settle(t, "acknowledged"), DropSession>>
      <4>1. s = Reply(t) \/ s = Settle(t, "acknowledged") \/ s = DropSession
        BY <2>3, <3>5
      <4> QED BY <3>5, <4>1 DEF Reply, Settle, DropSession
    <3>6. CASE TurnEnds(p) /\ ops = <<Settle(c, "failed"), Reply(t), DropSession>>
      <4>1. s = Settle(c, "failed") \/ s = Reply(t) \/ s = DropSession
        BY <2>3, <3>6
      <4> QED BY <3>6, <4>1 DEF Reply, Settle, DropSession
    <3> QED BY <2>1, <3>1, <3>2, <3>3, <3>4, <3>5, <3>6
  <2>5. CASE s.at = c
    <3>1. s.at = Current(p)'
      BY <2>2, <2>5
    <3> QED BY <3>1 DEF IsHome
  <2>6. CASE TurnEnds(p) /\ s.at = t
    <3>1. pump[p].pc \in {"turn", "waiting"}
      BY <2>6 DEF TurnEnds, At
    <3>2. Driving(p) /\ pump[p].batch # {}
      BY <3>1 DEF PumpsInv, PumpOK, TurnOK
    <3>3. t \in Inbounds /\ IsHome(p, t)
      BY <3>2 DEF PumpsInv, TurnOK, Driving, HomeInv
    <3>4. Current(p) \in Inbounds
      BY <3>2, CurrentIsHeld
    <3> QED BY <2>2, <2>6, <3>3, <3>4, HomeStays
  <2> QED BY <2>4, <2>5, <2>6
<1>3. CASE Perform(p)
  <2>1. /\ pump'[p] = [pump[p] EXCEPT !.work = Tail(pump[p].work)]
        /\ Steps(p)' \subseteq Steps(p) /\ pump[p].batch # {}
    BY <1>3, PerformEffect
  <2>2. Current(p)' = Current(p)
    BY <2>1 DEF Current, PumpsInv, PumpOK
  <2> QED BY <1>a, <2>1, <2>2
<1>4. CASE Take(p) \/ StartTurn(p) \/ FindQuestion(p) \/ Note(p) \/ Answered(p) \/ Advance(p)
           \/ ProcessEnds
  <2>1. pump'[p].work = <<>>
    <3>1. CASE Take(p) \/ StartTurn(p) \/ FindQuestion(p) \/ Advance(p)
      BY <3>1, TakeEffect, StartEffect, FindEffect, AdvanceEffect
    <3>2. ASSUME NEW label, Goto(p, label), Settled PROVE pump'[p].work = <<>>
      BY <3>2, GotoEffect DEF Settled
    <3>3. CASE Note(p) \/ Answered(p)
      <4>1. Settled /\ \E label : Goto(p, label)
        BY <3>3 DEF Note, Answered, At
      <4> QED BY <3>2, <4>1
    <3>4. CASE ProcessEnds
      BY <3>4 DEF ProcessEnds, IdlePump
    <3> QED BY <1>4, <3>1, <3>3, <3>4
  <2> QED BY <2>1 DEF Steps
<1> QED BY <1>1, <1>2, <1>3, <1>4, Untouched DEF PumpStep

\* Answers and replies stay in their conversation.
LEMMA HomeStep ==
  ASSUME ChannelTypes, ChannelTypes', StepsInv, SessionInv, HomeInv, ChannelsNext
  PROVE  HomeInv'
<1> USE DEF ChannelTypes
<1>0. /\ \A i \in Inbounds : ConversationOf(i)' = ConversationOf(i)
      /\ facts.reused \subseteq facts'.reused
  BY ConversationStays, FactsGrow
<1>1. ASSUME NEW a \in facts'.answers
      PROVE  \/ ConversationOf(a.by)' = ConversationOf(a.to)'
             \/ a.to \in facts'.reused
  <2>1. CASE a \in facts.answers
    <3>1. a.by \in Inbounds /\ a.to \in Inbounds
      BY <2>1 DEF StoresInv, FactsOK
    <3>2. ConversationOf(a.by) = ConversationOf(a.to) \/ a.to \in facts.reused
      BY <2>1 DEF HomeInv, AnswersStayHome
    <3> QED BY <1>0, <3>1, <3>2
  <2>2. ASSUME NEW p \in Pumps, Accepted(p), a \notin facts.answers
        PROVE  \/ ConversationOf(a.by)' = ConversationOf(a.to)'
               \/ a.to \in facts'.reused
    <3>1. PICK q \in Pumps :
            /\ turn[q].asking = pump[p].found.request
            /\ facts' = [facts EXCEPT !.answers = @ \cup
                  {[by |-> Current(p), to |-> Current(q),
                    said |-> Said(Current(q)), life |-> life]}]
      BY <2>2 DEF Accepted
    <3>2. a.by = Current(p) /\ a.to = Current(q)
      BY <2>2, <3>1 DEF StoresInv, FactsOK
    <3>3. turn[q].asking \in requests /\ Finding(p)
      BY <2>2, <3>1 DEF Accepted, At, Finding
    <3>4. Asking(q) /\ Driving(q) /\ pump[p].batch # {}
      <4>1. Asking(q)
        BY <3>3 DEF StoresInv, Asking
      <4>2. Driving(q)
        BY <4>1 DEF PumpsInv, TurnOK
      <4>3. pump[p].batch # {}
        BY <3>3 DEF PumpsInv, PumpOK, Finding
      <4> QED BY <4>1, <4>2, <4>3
    <3>5. Current(p) \in Inbounds /\ Current(q) \in Inbounds
      BY <3>4, CurrentIsHeld, DrivingHolds
    <3>6. /\ pump[p].found.session[1] = ConversationOf(Current(p))
          /\ pump[q].session[1] = ConversationOf(Current(q))
      BY <3>3, <3>4 DEF SessionInv
    <3>7. Current(q) \in facts.reused \/ pump[p].found.session = pump[q].session
      BY <3>1, <3>3, <3>4 DEF SessionInv, IsFresh
    <3> QED BY <1>0, <3>2, <3>5, <3>6, <3>7
  <2>3. ASSUME \A p \in Pumps : ~Accepted(p) PROVE facts'.answers = facts.answers
    <3> USE DEF StoresInv, FactsOK
    <3>1. ASSUME \/ \E m \in Messages : Submit(m)
                 \/ \E k \in Inbounds : Release(k)
                 \/ \E r \in Routes : Reroute(r)
                 \/ \E p \in Pumps, how \in {"answered", "cancelled"} : HostResolves(p, how)
                 \/ ProcessEnds
          PROVE  facts'.answers = facts.answers
      BY <3>1 DEF Submit, Push, Release, Reroute, HostResolves, ProcessEnds
    <3>2. ASSUME NEW p \in Pumps, Take(p) \/ AskPerson(p) PROVE facts'.answers = facts.answers
      BY <3>2 DEF Take, AskPerson
    <3>3. ASSUME NEW p \in Pumps, StartTurn(p) PROVE facts'.answers = facts.answers
      BY <3>3 DEF StartTurn
    <3>4. ASSUME NEW p \in Pumps, PumpStep(p), ~StartTurn(p) PROVE facts' = facts
      BY <2>3, <3>4 DEF PumpStep, SessionFails, TurnDown, FindQuestion, Note, Gone, Answered,
                        TurnEnds, Perform, Advance
    <3> QED BY <3>1, <3>2, <3>3, <3>4 DEF ChannelsNext
  <2> QED BY <1>1, <2>1, <2>2, <2>3
<1>2. ASSUME NEW o \in outbox'
      PROVE  \/ ConversationOf(o.re)' = ConversationOf(o.for)'
             \/ o.for \in facts'.reused
  <2>1. CASE o \in outbox
    <3>1. o.re \in Inbounds /\ o.for \in Inbounds
      BY <2>1 DEF StoresInv
    <3>2. ConversationOf(o.re) = ConversationOf(o.for) \/ o.for \in facts.reused
      BY <2>1 DEF HomeInv, AnswersStayHome
    <3> QED BY <1>0, <3>1, <3>2
  <2>2. ASSUME NEW p \in Pumps, Perform(p), o \notin outbox
        PROVE  \/ ConversationOf(o.re)' = ConversationOf(o.for)'
               \/ o.for \in facts'.reused
    <3> DEFINE s == Head(pump[p].work)
    <3>1. /\ s.op = "reply"
          /\ outbox' = outbox \cup {[re |-> s.at, for |-> Current(p),
                                     nth |-> Said(Current(p)) + 1]}
      BY <2>2 DEF Perform
    <3>2. o.re = s.at /\ o.for = Current(p)
      <4> HIDE DEF s
      <4> QED BY <2>2, <3>1
    <3>3. s \in Steps(p) /\ pump[p].batch # {}
      BY <2>2, PerformEffect
    <3>4. s.at \in Inbounds /\ IsHome(p, s.at)
      BY <3>1, <3>3 DEF StepsInv, HomeInv
    <3>5. Current(p) \in Inbounds
      BY <3>3, CurrentIsHeld
    <3> HIDE DEF s
    <3> QED BY <1>0, <3>2, <3>4, <3>5 DEF IsHome
  <2>3. ASSUME \A p \in Pumps : ~Perform(p) PROVE outbox' = outbox
    <3>1. ASSUME NEW p \in Pumps, PumpStep(p) PROVE outbox' = outbox
      BY <2>3, <3>1 DEF PumpStep, SessionFails, StartTurn, TurnDown, FindQuestion, Note, Accepted,
                        Gone, Answered, TurnEnds, Advance, stores
    <3>2. ASSUME NEW p \in Pumps, Take(p) \/ AskPerson(p) PROVE outbox' = outbox
      BY <3>2 DEF Take, AskPerson, stores
    <3> QED BY <3>1, <3>2 DEF ChannelsNext, Submit, Push, Release, Reroute, HostResolves,
                              ProcessEnds, stores
  <2> QED BY <1>2, <2>1, <2>2, <2>3
<1>3. AnswersStayHome'
  BY <1>1, <1>2 DEF AnswersStayHome
<1>4. \A p \in Pumps : Driving(p)' => (IsHome(p, turn[p].target))'
  BY TargetIsHome
<1>5. \A p \in Pumps : \A s \in Steps(p)' : s.op = "reply" => IsHome(p, s.at)'
  BY ReplyIsHome
<1> QED BY <1>3, <1>4, <1>5 DEF HomeInv

-----------------------------------------------------------------------------
(* The way from a conversation to its question *)

\* Two turns of one session that overlap are remembered for both.
LEMMA SharedStep ==
  ASSUME ChannelTypes, ChannelTypes', SharedInv, ChannelsNext
  PROVE  SharedInv'
<1> USE DEF ChannelTypes
<1>a. ASSUME NEW a \in Pumps, NEW b \in Pumps, a # b, StartTurn(a), Driving(b)',
             pump'[a].session = pump'[b].session
      PROVE  Current(a)' \in facts'.shared /\ Current(b)' \in facts'.shared
  <2> DEFINE met == {q \in Pumps \ {a} : Driving(q) /\ pump[q].session = SessionOf(Current(a))}
  <2>1. pump'[b] = pump[b] /\ turn'[b] = turn[b]
    BY <1>a, OneActs, StartEffect DEF PumpStep
  <2>2. Driving(b) /\ Current(b)' = Current(b) /\ Current(a)' = Current(a)
    BY <1>a, <2>1, StartEffect DEF Driving, Current
  <2>3. pump[b].session = SessionOf(Current(a))
    BY <1>a, <2>1, StartEffect
  <2>4. b \in met
    BY <1>a, <2>2, <2>3
  <2>5. facts' = [facts EXCEPT
                    !.drives[Current(a)] = @ + 1,
                    !.shared = @ \cup (IF met = {} THEN {} ELSE
                                       {Current(a)} \cup {Current(q) : q \in met})]
    BY <1>a DEF StartTurn
  <2> HIDE DEF met
  <2>6. facts'.shared = facts.shared \cup (IF met = {} THEN {} ELSE
                                       {Current(a)} \cup {Current(q) : q \in met})
    BY <2>5 DEF StoresInv, FactsOK
  <2> QED BY <2>2, <2>4, <2>6
<1>1. ASSUME NEW p \in Pumps, NEW q \in Pumps, p # q, Driving(p)', Driving(q)',
             pump'[p].session = pump'[q].session
      PROVE  Current(p)' \in facts'.shared
  <2>1. CASE StartTurn(p)
    BY <1>1, <1>a, <2>1
  <2>2. CASE StartTurn(q)
    BY <1>1, <1>a, <2>2
  <2>3. CASE ~StartTurn(p) /\ ~StartTurn(q)
    <3>1. /\ Driving(p) /\ Driving(q) /\ Current(p)' = Current(p)
          /\ pump'[p].session = pump[p].session /\ pump'[q].session = pump[q].session
      BY <1>1, <2>3, TurnStays
    <3>2. Current(p) \in facts.shared
      BY <1>1, <3>1 DEF SharedInv
    <3> QED BY <3>1, <3>2, FactsGrow
  <2> QED BY <2>1, <2>2, <2>3
<1> QED BY <1>1 DEF SharedInv

\* A pump that waits asks now, or waited before.
LEMMA WaitingChanges ==
  ASSUME StoresInv, PumpsInv, ChannelsNext, NEW p \in Pumps, pump'[p].pc = "waiting"
  PROVE  \/ AskPerson(p)
         \/ pump[p].pc = "waiting" /\ (pump'[p] = pump[p] \/ Perform(p))
<1>1. CASE SessionFails(p) \/ TurnDown(p) \/ Accepted(p) \/ Gone(p) \/ TurnEnds(p)
  <2>1. \E ops : Then(p, ops, "next")
    BY <1>1 DEF SessionFails, TurnDown, Accepted, Gone, TurnEnds
  <2> QED BY <2>1, ThenEffect
<1>2. CASE Take(p) \/ StartTurn(p) \/ FindQuestion(p) \/ Advance(p)
  BY <1>2, TakeEffect, StartEffect, FindEffect, AdvanceEffect
<1>3. CASE Note(p) \/ Answered(p)
  <2>1. Goto(p, "answer") \/ Goto(p, "turn")
    BY <1>3 DEF Note, Answered
  <2> QED BY <2>1, GotoEffect
<1>4. CASE Perform(p)
  <2>1. pump'[p] = [pump[p] EXCEPT !.work = Tail(pump[p].work)]
    BY <1>4, PerformEffect
  <2>2. pump'[p].pc = pump[p].pc
    BY <2>1 DEF PumpsInv, PumpOK
  <2> QED BY <1>4, <2>2
<1>5. CASE ProcessEnds
  BY <1>5 DEF ProcessEnds, IdlePump
<1> QED BY <1>1, <1>2, <1>3, <1>4, <1>5, Untouched DEF PumpStep

\* A mapping of a turn that waits stays in the file, unless a second turn of the session
\* drops it.
LEMMA MappingStays ==
  ASSUME ChannelTypes, StepsInv, AskInv, SessionInv, SharedInv, ChannelsNext,
         NEW p \in Pumps, pump[p].pc = "waiting", turn[p].outcome = "none",
         Current(p) \notin facts.reused \cup facts.shared,
         NEW m \in mappings, m.request = turn[p].asking, m.session = pump[p].session
  PROVE  \E k \in mappings' : k.request = turn[p].asking /\ k.session = pump[p].session
<1> USE DEF ChannelTypes
<1> DEFINE Goal == \E k \in mappings' : k.request = turn[p].asking /\ k.session = pump[p].session
<1>0. Asking(p) /\ Driving(p) /\ IsFresh(p) /\ turn[p].asking \in requests
  <2>1. Asking(p) /\ Driving(p)
    BY DEF PumpsInv, TurnOK
  <2> QED BY <2>1 DEF IsFresh, AskInv
<1>1. CASE m \in mappings'
  BY <1>1
<1>2. ASSUME NEW q \in Pumps, Note(q) PROVE Goal
  <2> DEFINE f == [pump[q].found EXCEPT !.answer = Current(q)]
             same == {o \in mappings : o.request = f.request}
  <2>1. mappings' = (mappings \ same) \cup
           IF same = {} THEN {[f EXCEPT !.at = End]}
           ELSE {[f EXCEPT !.at = o.at] : o \in same}
    BY <1>2 DEF Note
  <2>2. IsMapping(pump[q].found) /\ Finding(q)
    BY <1>2 DEF Note, At, PumpsInv, PumpOK, Finding
  <2>3. /\ f.request = pump[q].found.request /\ f.session = pump[q].found.session
        /\ f \in [at : Nat, request : Nat, session : {f.session}, answer : {Current(q)}]
    BY <2>2 DEF IsMapping
  <2>4. CASE m \in same
    <3> DEFINE k == [f EXCEPT !.at = m.at]
    <3>1. k \in mappings'
      <4> HIDE DEF f
      <4> QED BY <2>1, <2>4
    <3>2. k.request = f.request /\ k.session = f.session
      <4> HIDE DEF f
      <4> QED BY <2>3
    <3>3. f.request = turn[p].asking
      BY <2>4
    <3>4. f.session = pump[p].session
      BY <1>0, <2>2, <2>3, <3>3 DEF SessionInv
    <3> HIDE DEF k, f
    <3> QED BY <3>1, <3>2, <3>3, <3>4
  <2>5. CASE m \notin same
    <3>1. m \in mappings'
      <4> HIDE DEF f
      <4> QED BY <2>1, <2>5
    <3> QED BY <1>1, <3>1
  <2> QED BY <2>4, <2>5
<1>3. ASSUME NEW q \in Pumps, Perform(q) PROVE Goal
  <2> DEFINE s == Head(pump[q].work)
  <2>1. s \in Steps(q)
    BY <1>3, PerformEffect
  <2>2. CASE mappings' = mappings
    BY <1>1, <2>2
  <2>3. CASE s.op = "upsert" /\ mappings' = Upserted(q, s.request)
    <3> DEFINE same == {o \in mappings : o.request = s.request}
    <3>1. CASE m \in same
      <4>1. [m EXCEPT !.answer = 0] \in mappings'
        <5> HIDE DEF s
        <5> QED BY <2>3, <3>1 DEF Upserted
      <4>2. /\ [m EXCEPT !.answer = 0].request = m.request
            /\ [m EXCEPT !.answer = 0].session = m.session
        BY DEF StoresInv, MappingsOK, IsMapping
      <4> QED BY <4>1, <4>2
    <3>2. CASE m \notin same
      <4>1. m \in mappings'
        <5> HIDE DEF s
        <5> QED BY <2>3, <3>2 DEF Upserted
      <4> QED BY <1>1, <4>1
    <3> QED BY <3>1, <3>2
  <2>4. CASE /\ s.op = "dropRequest"
             /\ mappings' = {k \in mappings : k.request # s.request}
    <3>1. s.request \notin requests
      BY <2>1, <2>4 DEF StepsInv
    <3> HIDE DEF s
    <3>2. m \in mappings'
      BY <1>0, <2>4, <3>1
    <3> QED BY <1>1, <3>2
  <2>5. CASE s.op = "dropSession" /\ mappings' = MappingsOfOthers(q)
    <3>1. pump[q].pc = "next" /\ Driving(q)
      BY <2>1, <2>5 DEF StepsInv
    <3>2. p # q /\ pump[q].session # pump[p].session
      BY <1>0, <3>1 DEF SharedInv
    <3>3. m \in mappings'
      BY <2>5, <3>2 DEF MappingsOfOthers
    <3> QED BY <1>1, <3>3
  <2> HIDE DEF Goal
  <2> QED BY <1>3, <2>2, <2>3, <2>4, <2>5 DEF Perform
<1>4. ASSUME NEW q \in Pumps, Take(q) \/ AskPerson(q) \/ PumpStep(q), ~Note(q), ~Perform(q)
      PROVE  mappings' = mappings
  BY <1>4 DEF Take, AskPerson, PumpStep, SessionFails, StartTurn, TurnDown, FindQuestion,
              Accepted, Gone, Answered, TurnEnds, Advance, stores
<1>5. ASSUME \/ \E k \in Messages : Submit(k)
             \/ \E i \in Inbounds : Release(i)
             \/ \E r \in Routes : Reroute(r)
             \/ \E q \in Pumps, how \in {"answered", "cancelled"} : HostResolves(q, how)
             \/ ProcessEnds
      PROVE  mappings' = mappings
  BY <1>5 DEF Submit, Push, Release, Reroute, HostResolves, ProcessEnds, stores
<1>6. ASSUME mappings' = mappings PROVE Goal
  BY <1>1, <1>6
<1> HIDE DEF Goal
<1>7. Goal
  <2>1. ASSUME NEW q \in Pumps, Take(q) \/ AskPerson(q) \/ PumpStep(q) PROVE Goal
    BY <1>2, <1>3, <1>4, <1>6, <2>1
  <2> QED BY <1>5, <1>6, <2>1 DEF ChannelsNext
<1> QED BY <1>7 DEF Goal

\* While a turn waits the file leads to its request.
LEMMA KeptStep ==
  ASSUME ChannelTypes, ChannelTypes', StepsInv, AskInv, SessionInv, SharedInv, KeptInv,
         ChannelsNext
  PROVE  KeptInv'
<1> USE DEF ChannelTypes
<1> SUFFICES ASSUME NEW p \in Pumps, pump'[p].pc = "waiting", turn'[p].outcome = "none",
                    Current(p)' \notin facts'.reused \cup facts'.shared
             PROVE  \/ Upsert(turn'[p].asking) \in Steps(p)'
                    \/ \E m \in mappings' : /\ m.request = turn'[p].asking
                                            /\ m.session = pump'[p].session
  BY DEF KeptInv, Upsert
<1>1. CASE AskPerson(p)
  <2> DEFINE ops == <<Upsert(counter), Reply(Current(p)), Settle(Current(p), "acknowledged")>>
  <2>1. Then(p, ops, "waiting")
    BY <1>1 DEF AskPerson
  <2>2. Steps(p)' = {ops[n] : n \in 1 .. Len(ops)}
    <3> HIDE DEF ops
    <3> QED BY <2>1, ThenEffect
  <2>3. 1 \in 1 .. Len(ops) /\ ops[1] = Upsert(counter)
    OBVIOUS
  <2>4. Upsert(counter) \in Steps(p)'
    <3> HIDE DEF ops
    <3> QED BY <2>2, <2>3
  <2>5. turn'[p].asking = counter
    BY <1>1 DEF AskPerson, PumpsInv, TurnOK
  <2> QED BY <2>4, <2>5
<1>2. CASE ~AskPerson(p) /\ pump[p].pc = "waiting" /\ (pump'[p] = pump[p] \/ Perform(p))
  <2>1. Driving(p)' /\ Asking(p)'
    BY DEF PumpsInv, TurnOK
  <2>2. ~StartTurn(p)
    BY <1>2 DEF StartTurn, At
  <2>3. /\ Current(p)' = Current(p) /\ pump'[p].session = pump[p].session
        /\ Current(p) \notin facts.reused \cup facts.shared
    BY <2>1, <2>2, TurnStays, FactsGrow
  <2>4. turn'[p] = turn[p]
    <3>1. turn'[p] # NoTurn /\ turn'[p].asking # 0
      BY <2>1 DEF Driving, Asking, NoTurn
    <3> QED BY <1>2, <2>2, <3>1, TurnChanges
  <2>5. ASSUME NEW m \in mappings, m.request = turn[p].asking, m.session = pump[p].session
        PROVE  \E k \in mappings' : k.request = turn'[p].asking /\ k.session = pump'[p].session
    BY <1>2, <2>3, <2>4, <2>5, MappingStays
  <2>6. ASSUME Upsert(turn[p].asking) \in Steps(p)
        PROVE  \/ Upsert(turn'[p].asking) \in Steps(p)'
               \/ \E m \in mappings' : m.request = turn'[p].asking /\ m.session = pump'[p].session
    <3>1. CASE pump'[p] = pump[p]
      BY <2>4, <2>6, <3>1 DEF Steps
    <3>2. CASE Perform(p) /\ Head(pump[p].work) = Upsert(turn[p].asking)
      <4> DEFINE r == turn[p].asking
                 same == {o \in mappings : o.request = r}
      <4>1. mappings' = Upserted(p, r)
        <5> DEFINE s == Head(pump[p].work)
        <5>1. s.op = "upsert" /\ s.request = r
          BY <3>2 DEF Upsert
        <5> HIDE DEF s
        <5> QED BY <3>2, <5>1, PerformDoes DEF s
      <4>2. CASE same = {}
        <5>1. [at |-> End, request |-> r, session |-> pump[p].session, answer |-> 0] \in mappings'
          BY <4>1, <4>2 DEF Upserted
        <5> QED BY <2>3, <2>4, <5>1
      <4>3. CASE same # {}
        <5>1. PICK o \in mappings : o.request = r
          BY <4>3
        <5>2. IsFresh(p)
          BY <2>1, <2>3, <2>4 DEF IsFresh, Asking
        <5>3. o.session = pump[p].session
          BY <5>1, <5>2 DEF SessionInv
        <5> QED BY <2>5, <5>1, <5>3
      <4> QED BY <4>2, <4>3
    <3> QED BY <1>2, <2>4, <2>6, <3>1, <3>2, StepsLeft
  <2> QED BY <1>2, <2>3, <2>4, <2>5, <2>6 DEF KeptInv
<1> QED BY <1>1, <1>2, WaitingChanges

-----------------------------------------------------------------------------
(* What holds of the channels *)

\* The invariant of the channels holds when there are none.
LEMMA ChannelsInitOK == ChannelsInit => ChannelInv
<1> SUFFICES ASSUME ChannelsInit PROVE ChannelInv
  OBVIOUS
<1> USE DEF ChannelsInit
<1>1. /\ inbox = <<>> /\ Inbounds = {} /\ outbox = {} /\ mappings = {}
      /\ \A p \in Pumps : pump[p] = IdlePump /\ turn[p] = NoTurn
      /\ DOMAIN pump = Pumps /\ DOMAIN turn = Pumps
  BY DEF Inbounds
<1>2. /\ DOMAIN facts = {"drives", "released", "answers", "shared", "stranded", "leftover",
                         "reused"}
      /\ facts.drives = <<>> /\ facts.released = 0 /\ facts.answers = {} /\ facts.shared = {}
      /\ facts.stranded = {} /\ facts.leftover = {} /\ facts.reused = {}
  OBVIOUS
<1>3. StoresInv
  <2>1. facts.drives \in [Inbounds -> Nat]
    BY <1>1, <1>2
  <2>2. FactsOK
    BY <1>1, <1>2, <2>1 DEF FactsOK
  <2>3. MappingsOK
    BY <1>1 DEF MappingsOK
  <2> QED BY <1>1, <2>2, <2>3 DEF StoresInv, Entries
<1>4. \A p \in Pumps : Steps(p) = {} /\ ~Busy(p) /\ ~Driving(p) /\ ~Asking(p) /\ ~Finding(p)
  BY <1>1 DEF Steps, Busy, Driving, Asking, Finding, IdlePump, NoTurn
<1>5. PumpsInv
  <2>1. ASSUME NEW p \in Pumps PROVE PumpOK(p)
    BY <1>1, <1>4 DEF PumpOK, PumpLabels, IdlePump
  <2>2. ASSUME NEW p \in Pumps PROVE TurnOK(p)
    BY <1>1, <1>4 DEF TurnOK, Outcomes, IdlePump, NoTurn
  <2> QED BY <1>1, <2>1, <2>2 DEF PumpsInv
<1>6. ChannelTypes /\ StepsInv
  BY <1>3, <1>4, <1>5 DEF ChannelTypes, OneBusy, StepsInv
<1>7. BatchInv /\ DriveInv /\ LeaseInv
  <2>1. \A p \in Pumps : pump[p].batch = {} /\ pump[p].pc = "idle"
    BY <1>1 DEF IdlePump
  <2> QED BY <1>1, <1>4, <2>1 DEF BatchInv, DriveInv, DrivenOnce, LeaseInv, LeasedIsHeld
<1>8. ToldInv
  <2>1. \A p \in Pumps : Len(pump[p].work) = 0
    BY <1>1 DEF IdlePump
  <2> QED BY <1>1, <2>1 DEF ToldInv, SettledIsTold
<1>9. AskInv
  BY <1>1, <1>4 DEF AskInv, NoTurn
<1>10. SessionInv /\ SharedInv
  BY <1>1, <1>4 DEF SessionInv, IsFresh, SharedInv
<1>11. HomeInv
  BY <1>1, <1>2, <1>4 DEF HomeInv, AnswersStayHome
<1>12. KeptInv
  BY <1>1 DEF KeptInv, IdlePump
<1> QED BY <1>6, <1>7, <1>8, <1>9, <1>10, <1>11, <1>12 DEF ChannelInv

\* Each action keeps every part of it.
LEMMA ChannelsStepOK == ChannelInv /\ [ChannelsNext]_channelVars => ChannelInv'
<1> SUFFICES ASSUME ChannelInv, [ChannelsNext]_channelVars PROVE ChannelInv'
  OBVIOUS
<1> USE DEF ChannelInv
<1>1. CASE ChannelsNext
  <2>1. StoresInv' /\ PumpsInv'
    BY <1>1, StoresStep, PumpsStep DEF ChannelTypes
  <2>2. ChannelTypes'
    BY <1>1, <2>1, OneBusyStep DEF ChannelTypes
  <2>3. StepsInv'
    BY <1>1, <2>1, StepsStep DEF ChannelTypes
  <2>4. BatchInv' /\ DriveInv' /\ LeaseInv'
    BY <1>1, <2>2, BatchStep, DriveStep, LeaseStep
  <2>5. ToldInv' /\ AskInv' /\ SessionInv'
    BY <1>1, <2>2, ToldStep, AskStep, SessionStep
  <2>6. HomeInv' /\ SharedInv' /\ KeptInv'
    BY <1>1, <2>2, HomeStep, SharedStep, KeptStep
  <2> QED BY <2>2, <2>3, <2>4, <2>5, <2>6
<1>2. CASE UNCHANGED channelVars
  <2>1. /\ inbox' = inbox /\ outbox' = outbox /\ mappings' = mappings /\ pump' = pump
        /\ turn' = turn /\ counter' = counter /\ requests' = requests /\ facts' = facts
        /\ life' = life /\ rerouted' = rerouted
    BY <1>2 DEF channelVars, stores, loop
  <2>2. Inbounds' = Inbounds /\ \A p \in Pumps : Current(p)' = Current(p)
    BY <2>1 DEF Inbounds, Current
  <2>3. ChannelTypes' /\ StepsInv'
    BY <2>1, <2>2 DEF ChannelTypes, StoresInv, MappingsOK, FactsOK, IsMapping, PumpsInv, PumpOK,
                      TurnOK, Finding, Asking, Driving, OneBusy, Busy, StepsInv, Steps
  <2>4. BatchInv' /\ DriveInv' /\ LeaseInv'
    BY <2>1, <2>2 DEF BatchInv, DriveInv, DrivenOnce, LeaseInv, LeasedIsHeld, IsLetGo, Driving,
                      Steps
  <2>5. ToldInv'
    BY <2>1, <2>2 DEF ToldInv, SettledIsTold, IsTold, Reply
  <2>6. AskInv' /\ SharedInv'
    BY <2>1, <2>2 DEF AskInv, SharedInv, Asking, Finding, IsKnown, Driving
  <2>7. SessionInv' /\ HomeInv'
    BY <2>1, <2>2 DEF SessionInv, IsFresh, HomeInv, IsHome, AnswersStayHome, ConversationOf,
                      Asking, Finding, Driving, Steps
  <2>8. KeptInv'
    BY <2>1, <2>2 DEF KeptInv, Upsert, Steps
  <2> QED BY <2>3, <2>4, <2>5, <2>6, <2>7, <2>8
<1> QED BY <1>1, <1>2

\* The inductive invariant of the channels: it holds of every behaviour.
THEOREM ChannelsAreSound == ChannelsSpec => []ChannelInv
BY ChannelsInitOK, ChannelsStepOK, PTL DEF ChannelsSpec

\* Files, pumps and turns are well formed, and one pump at a time works on the files.
THEOREM ChannelsWellFormed == ChannelsSpec => []ChannelTypes
<1>1. ChannelInv => ChannelTypes
  BY DEF ChannelInv
<1> QED BY <1>1, ChannelsAreSound, PTL

\* A platform message has one entry, however often it is delivered, and one turn for each
\* time it was queued, however pumps overlap and wherever the process ends.
THEOREM MessagesDrivenOnce == ChannelsSpec => []DrivenOnce
<1>1. ChannelInv => DrivenOnce
  BY DEF ChannelInv, DriveInv
<1> QED BY <1>1, ChannelsAreSound, PTL

\* Nothing is acknowledged that was not answered in its conversation and was not an answer.
THEOREM SettledMessagesTold == ChannelsSpec => []SettledIsTold
<1>1. ChannelInv => SettledIsTold
  BY DEF ChannelInv, ToldInv
<1> QED BY <1>1, ChannelsAreSound, PTL

\* While a turn waits for a person, the file leads from its session to its request.
THEOREM QuestionsFound == ChannelsSpec => []MappingKept
<1>1. ChannelInv => MappingKept
  <2> SUFFICES ASSUME ChannelInv, NEW p \in Pumps, At(p, "waiting"), turn[p].outcome = "none",
                      Current(p) \notin facts.reused \cup facts.shared
               PROVE  \E m \in mappings : /\ m.request = turn[p].asking
                                          /\ m.session = pump[p].session
    BY DEF MappingKept
  <2>1. Steps(p) = {} /\ pump[p].pc = "waiting"
    BY NothingLeft DEF At
  <2> QED BY <2>1 DEF ChannelInv, KeptInv
<1> QED BY <1>1, ChannelsAreSound, PTL

\* No answer and no reply leaves the conversation it belongs to, but for a request id that
\* an earlier process left a mapping of.
THEOREM ConversationsApart == ChannelsSpec => []AnswersStayHome
<1>1. ChannelInv => AnswersStayHome
  BY DEF ChannelInv, HomeInv
<1> QED BY <1>1, ChannelsAreSound, PTL

\* A message that is leased is held by a pump, unless the process ended with it.
THEOREM LeasedMessagesHeld == ChannelsSpec => []LeasedIsHeld
<1>1. ChannelInv => LeasedIsHeld
  BY DEF ChannelInv, LeaseInv
<1> QED BY <1>1, ChannelsAreSound, PTL
================================================================================
