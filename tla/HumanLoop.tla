------------------------------ MODULE HumanLoop ------------------------------
(***************************************************************************)
(* The human-in-the-loop broker of one session                             *)
(* (crates/core/src/human_loop.rs) with the turns that ask and drain, the  *)
(* host calls that answer, inject, retract and cancel                      *)
(* (crates/core/src/runtime/sessions.rs), and the cancellation generations *)
(* of SessionRuntime.                                                      *)
(*                                                                         *)
(* The broker is one global mutex; each critical section is one action.    *)
(* A host call that takes the mutex and then touches session history or    *)
(* the cancellation entry is several actions of one host thread, so other  *)
(* calls and the turn run in between.  A history write is one action here; *)
(* SessionHistory splits it into its read and its write.                   *)
(***************************************************************************)
EXTENDS Naturals, Sequences, FiniteSets, SequencesExt

CONSTANTS
  Turns,      \* turns of the session; they may overlap
  Hosts,      \* threads of the host application calling into the engine
  Messages,   \* contents the host may inject, each at most once
  MaxAsks,    \* bound: ask_human calls per turn
  MaxCancels  \* bound: cancel_session_handle calls

ASSUME HumanLoopAssumption ==
  /\ IsFiniteSet(Turns)
  /\ MaxAsks \in Nat
  /\ MaxCancels \in Nat

Requests == Turns \X (1 .. MaxAsks)

VARIABLES
  current, cancelled, status, gen, newest, aimed,   \* of SessionRuntime
  pc,          \* of each turn
  asks,        \* ask_human calls each turn has made (its request ids)
  active,      \* the session has an entry in active_queues
  queue,       \* that entry
  pending,     \* pending_requests
  reply,       \* what the oneshot channel of each request carries
  bubble,      \* the asking_human row of each request in session history
  answered,    \* requests whose answer was written to history as a user row
  rows,        \* injected messages that have a user row in history
  injected,    \* messages enqueue_interjection accepted
  delivered,   \* messages a turn drained into its model input
  retracted,   \* retract calls that took a message off the queue: [m, ok]
  host,        \* what each host thread is doing
  cancels      \* number of cancel calls made

runtimeVars == <<current, cancelled, status, gen, newest, aimed>>
askVars     == <<pending, reply, bubble, answered>>
queueVars   == <<active, queue>>
messageVars == <<rows, injected, delivered, retracted>>
vars == <<runtimeVars, pc, asks, queueVars, askVars, messageVars, host, cancels>>

Runtime == INSTANCE SessionRuntime
             WITH Manuals <- {}, GenSpace <- Cardinality(Turns) + 1

Idle == [op |-> "idle"]

Init ==
  /\ Runtime!Init
  /\ pc = [t \in Turns |-> "idle"]
  /\ asks = [t \in Turns |-> 0]
  /\ active = FALSE /\ queue = <<>>
  /\ pending = {}
  /\ reply = [q \in Requests |-> "none"]
  /\ bubble = [q \in Requests |-> "absent"]
  /\ answered = {}
  /\ rows = {} /\ injected = {} /\ delivered = {} /\ retracted = {}
  /\ host = [h \in Hosts |-> Idle]
  /\ cancels = 0

Contents(s) == {s[i] : i \in 1 .. Len(s)}
Asked(t) == <<t, asks[t]>>             \* the latest request of a turn
Goto(t, label) == pc' = [pc EXCEPT ![t] = label]
HostDoes(h, task) == host' = [host EXCEPT ![h] = task]

-----------------------------------------------------------------------------
(* The turn *)

\* begin_session_turn, then prompt preparation.
Begin(t) ==
  /\ pc[t] = "idle"
  /\ Runtime!Start(t)
  /\ Goto(t, "prepare")
  /\ UNCHANGED <<asks, queueVars, askVars, messageVars, host, cancels>>

\* activate_session_scoped: an existing queue (of an overlapping turn) is kept.
Activate(t) ==
  /\ pc[t] = "prepare"
  /\ active' = TRUE
  /\ queue' = IF active THEN queue ELSE <<>>
  /\ Goto(t, "loop")
  /\ UNCHANGED <<runtimeVars, asks, askVars, messageVars, host, cancels>>

\* should_cancel at the head of the loop and before each tool call.
StopOnCancel(t) ==
  /\ pc[t] = "loop"
  /\ Runtime!ObserveCancel(t)
  /\ Goto(t, "end")
  /\ UNCHANGED <<asks, queueVars, askVars, messageVars, host, cancels>>

\* Mutant: the queue is read, not taken.
DrainCopies(t) ==
  /\ pc[t] = "loop"
  /\ active /\ queue # <<>>
  /\ delivered' = delivered \cup Contents(queue)
  /\ UNCHANGED <<runtimeVars, pc, asks, queueVars, askVars,
                 rows, injected, retracted, host, cancels>>

\* drain_interjections_into_messages.
Drain(t) ==
  /\ pc[t] = "loop"
  /\ active /\ queue # <<>>
  /\ delivered' = delivered \cup Contents(queue)
  /\ queue' = <<>>
  /\ UNCHANGED <<runtimeVars, pc, asks, active, askVars,
                 rows, injected, retracted, host, cancels>>

\* The model calls ask_human and should_cancel says no: the request gets its
\* id and its asking_human row before it is registered.
Ask(t) ==
  /\ pc[t] = "loop"
  /\ asks[t] < MaxAsks
  /\ ~Runtime!Polls(t)
  /\ asks' = [asks EXCEPT ![t] = @ + 1]
  /\ bubble' = [bubble EXCEPT ![<<t, asks[t] + 1>>] = "open"]
  /\ Goto(t, "ask")
  /\ UNCHANGED <<runtimeVars, queueVars, pending, reply, answered,
                 messageVars, host, cancels>>

\* The request enters pending_requests and the turn awaits its channel; the
\* await has no timeout and polls no cancellation.
Register(t) ==
  /\ pc[t] = "ask"
  /\ pending' = pending \cup {Asked(t)}
  /\ Goto(t, "waiting")
  /\ UNCHANGED <<runtimeVars, asks, queueVars, reply, bubble, answered,
                 messageVars, host, cancels>>

\* The channel delivers an answer or "Human request cancelled"; either becomes
\* the tool output and the loop goes on.
Resume(t) ==
  /\ pc[t] = "waiting"
  /\ reply[Asked(t)] # "none"
  /\ Goto(t, "loop")
  /\ UNCHANGED <<runtimeVars, asks, queueVars, askVars, messageVars, host, cancels>>

\* The model answers without tools and the last poll says not cancelled.
Answered(t) ==
  /\ pc[t] = "loop"
  /\ Runtime!LastPoll(t)
  /\ Goto(t, "end")
  /\ UNCHANGED <<asks, queueVars, askVars, messageVars, host, cancels>>

\* Mutant: the guard leaves the queue behind.
DropGuardKeepsQueue(t) ==
  /\ pc[t] = "end"
  /\ Goto(t, "done")
  /\ UNCHANGED <<runtimeVars, asks, queueVars, askVars, messageVars, host, cancels>>

\* Drop of ActiveHumanLoopSessionGuard: the queue goes, whoever activated it.
DropGuard(t) ==
  /\ pc[t] = "end"
  /\ active' = FALSE
  /\ queue' = <<>>
  /\ Goto(t, "done")
  /\ \/ Runtime!Finish(t)
     \/ status[t] = "cancelled" /\ UNCHANGED runtimeVars
  /\ UNCHANGED <<asks, askVars, messageVars, host, cancels>>

TurnStep(t) ==
  \/ Begin(t) \/ Activate(t) \/ StopOnCancel(t) \/ Drain(t)
  \/ Ask(t) \/ Register(t) \/ Resume(t) \/ Answered(t) \/ DropGuard(t)

-----------------------------------------------------------------------------
(* Host calls *)

\* inject_message_handle: enqueue while a queue exists (otherwise the call
\* returns false and changes nothing), ...
Inject(h, m) ==
  /\ host[h] = Idle
  /\ m \notin injected
  /\ active
  /\ queue' = Append(queue, m)
  /\ injected' = injected \cup {m}
  /\ HostDoes(h, [op |-> "injectRow", m |-> m])
  /\ UNCHANGED <<runtimeVars, pc, asks, active, askVars,
                 rows, delivered, retracted, cancels>>

\* ... then inject_user_message writes the user row.
InjectRow(h) ==
  /\ host[h].op = "injectRow"
  /\ rows' = rows \cup {host[h].m}
  /\ HostDoes(h, Idle)
  /\ UNCHANGED <<runtimeVars, pc, asks, queueVars, askVars,
                 injected, delivered, retracted, cancels>>

\* Where rposition finds a message.
IsLatest(s, i, m) == s[i] = m /\ \A j \in (i + 1) .. Len(s) : s[j] # m

\* retract_injected_message_handle_typed: off the queue (when it is not there
\* the call returns Ok(false) and changes nothing), ...
Retract(h, m) ==
  /\ host[h] = Idle
  /\ active
  /\ \E i \in 1 .. Len(queue) :
       IsLatest(queue, i, m) /\ queue' = RemoveAt(queue, i)
  /\ HostDoes(h, [op |-> "retractRow", m |-> m])
  /\ UNCHANGED <<runtimeVars, pc, asks, active, askVars, messageVars, cancels>>

\* Mutant: the row is removed although it is looked up nowhere.
RetractRowUnchecked(h) ==
  /\ host[h].op = "retractRow"
  /\ retracted' = retracted \cup {[m |-> host[h].m, ok |-> TRUE]}
  /\ rows' = rows \ {host[h].m}
  /\ HostDoes(h, Idle)
  /\ UNCHANGED <<runtimeVars, pc, asks, queueVars, askVars,
                 injected, delivered, cancels>>

\* ... then remove_latest_user_message, whose result is the call's result.
RetractRow(h) ==
  /\ host[h].op = "retractRow"
  /\ LET m == host[h].m IN
       /\ retracted' = retracted \cup {[m |-> m, ok |-> m \in rows]}
       /\ rows' = rows \ {m}
  /\ HostDoes(h, Idle)
  /\ UNCHANGED <<runtimeVars, pc, asks, queueVars, askVars,
                 injected, delivered, cancels>>

\* Mutant: the request stays registered while it is being answered.
AnswerPeeks(h, q) ==
  /\ host[h] = Idle
  /\ q \in pending
  /\ HostDoes(h, [op |-> "answerRow", q |-> q])
  /\ UNCHANGED <<runtimeVars, pc, asks, queueVars, askVars, messageVars, cancels>>

\* answer_human_request: take the request out of pending_requests (an unknown
\* id returns false), ...
Answer(h, q) ==
  /\ host[h] = Idle
  /\ q \in pending
  /\ pending' = pending \ {q}
  /\ HostDoes(h, [op |-> "answerRow", q |-> q])
  /\ UNCHANGED <<runtimeVars, pc, asks, queueVars, reply, bubble, answered,
                 messageVars, cancels>>

\* Mutants: the turn is resumed without the row; the request is put back, not told.
AnswerSkipsRow(h) ==
  /\ host[h].op = "answerRow"
  /\ HostDoes(h, [host[h] EXCEPT !.op = "answerSend"])
  /\ UNCHANGED <<runtimeVars, pc, asks, queueVars, askVars, messageVars, cancels>>

AnswerPutsBack(h) ==
  /\ host[h].op = "answerRow"
  /\ answered' = answered \cup {host[h].q}
  /\ pending' = pending \cup {host[h].q}
  /\ HostDoes(h, Idle)
  /\ UNCHANGED <<runtimeVars, pc, asks, queueVars, reply, bubble, messageVars, cancels>>

\* ... write the answer as a user row, ...
AnswerRow(h) ==
  /\ host[h].op = "answerRow"
  /\ answered' = answered \cup {host[h].q}
  /\ HostDoes(h, [host[h] EXCEPT !.op = "answerSend"])
  /\ UNCHANGED <<runtimeVars, pc, asks, queueVars, pending, reply, bubble,
                 messageVars, cancels>>

\* ... and send it to the waiting turn.
AnswerSend(h) ==
  /\ host[h].op = "answerSend"
  /\ reply' = [reply EXCEPT ![host[h].q] = "answer"]
  /\ HostDoes(h, Idle)
  /\ UNCHANGED <<runtimeVars, pc, asks, queueVars, pending, bubble, answered,
                 messageVars, cancels>>

\* Mutant: the cancelled requests stay registered.
CancelCopies(h) ==
  /\ host[h] = Idle
  /\ cancels < MaxCancels
  /\ cancels' = cancels + 1
  /\ active' = FALSE /\ queue' = <<>>
  /\ HostDoes(h, [op |-> "cancelEach", todo |-> pending])
  /\ UNCHANGED <<runtimeVars, pc, asks, askVars, messageVars>>

\* cancel_session_handle_typed: cancel_session_scoped takes the queue and all
\* requests of the session out of the broker under one lock, ...
CancelTake(h) ==
  /\ host[h] = Idle
  /\ cancels < MaxCancels
  /\ cancels' = cancels + 1
  /\ active' = FALSE /\ queue' = <<>>
  /\ pending' = {}
  /\ HostDoes(h, [op |-> "cancelEach", todo |-> pending])
  /\ UNCHANGED <<runtimeVars, pc, asks, reply, bubble, answered, messageVars>>

\* ... marks the row of each of them interrupted ...
CancelMark(h) ==
  /\ host[h].op = "cancelEach"
  /\ \E q \in host[h].todo :
       /\ bubble' = [bubble EXCEPT ![q] = "interrupted"]
       /\ HostDoes(h, [op |-> "cancelSend", todo |-> host[h].todo, q |-> q])
  /\ UNCHANGED <<runtimeVars, pc, asks, queueVars, pending, reply, answered,
                 messageVars, cancels>>

\* Mutant: a marked request is not told.
CancelSkipsSend(h) ==
  /\ host[h].op = "cancelSend"
  /\ HostDoes(h, [op |-> "cancelEach", todo |-> host[h].todo \ {host[h].q}])
  /\ UNCHANGED <<runtimeVars, pc, asks, queueVars, askVars, messageVars, cancels>>

\* ... and sends it the cancellation, one request after the other, ...
CancelSend(h) ==
  /\ host[h].op = "cancelSend"
  /\ reply' = [reply EXCEPT ![host[h].q] = "cancel"]
  /\ HostDoes(h, [op |-> "cancelEach", todo |-> host[h].todo \ {host[h].q}])
  /\ UNCHANGED <<runtimeVars, pc, asks, queueVars, pending, bubble, answered,
                 messageVars, cancels>>

\* ... and only then marks the generation that is current by now.
CancelFlag(h) ==
  /\ host[h].op = "cancelEach" /\ host[h].todo = {}
  /\ Runtime!Cancel
  /\ HostDoes(h, Idle)
  /\ UNCHANGED <<pc, asks, queueVars, askVars, messageVars, cancels>>

\* The steps of a host call already under way.
HostContinues(h) ==
  \/ InjectRow(h) \/ RetractRow(h) \/ AnswerRow(h) \/ AnswerSend(h)
  \/ CancelMark(h) \/ CancelSend(h) \/ CancelFlag(h)

HostCalls(h) ==
  \/ \E m \in Messages : Inject(h, m) \/ Retract(h, m)
  \/ \E q \in Requests : Answer(h, q)
  \/ CancelTake(h)

\* Every turn has ended and no host call is under way.
Quiet ==
  /\ \A t \in Turns : pc[t] = "done"
  /\ \A h \in Hosts : host[h] = Idle
  /\ UNCHANGED vars

Next ==
  \/ \E t \in Turns : TurnStep(t)
  \/ \E h \in Hosts : HostContinues(h) \/ HostCalls(h)
  \/ Quiet

\* The turn's task and a host call under way are scheduled; nothing obliges the
\* host to start a call, so the user may never answer.
Fairness ==
  /\ \A t \in Turns : WF_vars(TurnStep(t))
  /\ \A h \in Hosts : WF_vars(HostContinues(h))

Spec == Init /\ [][Next]_vars /\ Fairness

-----------------------------------------------------------------------------
Guarded == {"loop", "ask", "waiting", "end"}

TypeOK ==
  /\ Runtime!TypeOK
  /\ pc \in [Turns -> {"idle", "prepare", "done"} \cup Guarded]
  /\ asks \in [Turns -> 0 .. MaxAsks]
  /\ active \in BOOLEAN
  /\ queue \in Seq(Messages)
  /\ pending \subseteq Requests
  /\ reply \in [Requests -> {"none", "answer", "cancel"}]
  /\ bubble \in [Requests -> {"absent", "open", "interrupted"}]
  /\ answered \subseteq Requests
  /\ rows \subseteq Messages /\ injected \subseteq Messages
  /\ delivered \subseteq Messages
  /\ retracted \subseteq [m : Messages, ok : BOOLEAN]
  /\ cancels \in 0 .. MaxCancels

\* An answer and a cancel race for one request; the history a reload shows must
\* not hold both the user's answer and an interrupted question.
AnswerOrInterrupt == \A q \in answered : bubble[q] # "interrupted"

\* The turn hears of one outcome, and it is the one history shows.
ReplyMatchesHistory ==
  \A q \in Requests :
    /\ reply[q] = "answer" => q \in answered
    /\ reply[q] = "cancel" => bubble[q] = "interrupted"

\* human_loop.rs:118-146, 271-290: whoever wins the race between an answer and a
\* cancel, turn and history hear of that one outcome.
OneOutcome == AnswerOrInterrupt /\ ReplyMatchesHistory

\* While a turn waits for the user its request can still be resolved: it is
\* registered, or a host call holds it and is going to reply.
HoldsRequest(h, q) ==
  \/ host[h].op \in {"answerRow", "answerSend"} /\ host[h].q = q
  \/ host[h].op \in {"cancelEach", "cancelSend"} /\ q \in host[h].todo

WaitingIsResolvable ==
  \A t \in Turns :
    pc[t] = "waiting" /\ reply[Asked(t)] = "none" =>
      Asked(t) \in pending \/ \E h \in Hosts : HoldsRequest(h, Asked(t))

\* enqueue_interjection accepts a message only while some turn of the session
\* still runs: no queue outlives the turns that could drain it.
QueueHasReader == active => \E t \in Turns : pc[t] \in Guarded

\* human_loop.rs:42-79, 118-146, 238-269: whatever overlaps, neither a turn that
\* waits nor a queue that accepts messages is left without someone to serve it.
NobodyStranded == WaitingIsResolvable /\ QueueHasReader

\* No interjection reaches the model twice or is still queued after it did.
DeliveredOnce == Contents(queue) \cap delivered = {}

\* runtime/sessions.rs:171: a retraction that returned Ok(true) left the message
\* neither in history nor in any model input.
RetractedIsGone ==
  \A r \in retracted : r.ok => r.m \notin rows /\ r.m \notin delivered

\* human_loop.rs:65-116: an interjection is shown to the model once, or taken
\* back by the user, never both (with overlapping turns too).
MessageOnce == DeliveredOnce /\ RetractedIsGone

\* human_loop.rs:118-146, 271-290: the answer and the cancel first leave their
\* mark in history and then wake the turn in another step.  A request that
\* history shows as answered or interrupted no longer blocks a turn.
ResolutionResumes ==
  \A q \in Requests :
    (q \in answered \/ bubble[q] = "interrupted")
      ~> ~(pc[q[1]] = "waiting" /\ Asked(q[1]) = q)
=============================================================================
