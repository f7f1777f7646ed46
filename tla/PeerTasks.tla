------------------------------- MODULE PeerTasks ------------------------------
(***************************************************************************)
(* A task that one device asks another to do over a local transport        *)
(* (crates/core/src/a2a/local.rs, mod.rs and store.rs).  The asker creates *)
(* a request and records the task; the worker records the request once,    *)
(* runs it when its user agrees, and tells progress and a result, which    *)
(* the asker records.  Each engine keeps its tasks and the messages it has *)
(* made or got in files of its own.                                        *)
(*                                                                         *)
(* The transport is the host's: what is handed to it arrives any number of *)
(* times, in any order, or never.  The calls of one host come one after    *)
(* the other; run_task runs beside them on a thread of its own.  Either    *)
(* process may end between two writes of a call.                           *)
(***************************************************************************)
EXTENDS Naturals, FiniteSets

CONSTANTS
  Tasks,        \* task ids; the asker may give one more than once
  Runs,         \* calls of run_task that can be under way at once
  Words,        \* what the host of the worker says of a task; "other" is any other word, or none
  MaxAsks,      \* bound: requests made for one task
  MaxTold,      \* bound: progress and results told of one task
  MaxRuns,      \* bound: runs started
  MaxFaults     \* bound: sends and saves that fail, and ends of a process, together

ASSUME PeerTasksAssumption ==
  /\ IsFiniteSet(Tasks) /\ IsFiniteSet(Runs)
  /\ Words \subseteq {"accepted", "failed", "cancelled", "rejected", "running",
                     "succeeded", "other"}

VARIABLES
  task,      \* tasks/<id>.json of each engine: the status, or "none"
  log,       \* messages/<session>.jsonl of each engine
  handling,  \* what the call of each host still has to write
  runs,      \* the calls of run_task
  arrived,   \* history: messages that came to their receiver in time
  applied,   \* history: messages that had their effect
  repeated,  \* history: messages that had it a second time
  taken,     \* history: times the worker made a record of each task
  lost,      \* history: messages written down when the process ended, or whose
             \* effect could not be saved
  ran,       \* history: tasks a run of which succeeded
  said,      \* history: tasks of which a success was told that no run had had
  stuck,     \* history: tasks that were running when the process ended, whose run
             \* could not save its end, or that the host said are running
  started,   \* runs started so far
  faults     \* sends and saves that failed and processes that ended so far

files  == <<task, log>>
past   == <<arrived, applied, repeated, taken, lost, ran, said, stuck>>
counts == <<started, faults>>
vars   == <<files, handling, runs, past, counts>>

Engines == {"asker", "worker"}

Sender(m)   == IF m.kind = "request" THEN "asker" ELSE "worker"
Receiver(m) == IF m.kind = "request" THEN "worker" ELSE "asker"
Made(kind, t) == {m \in log[IF kind = "request" THEN "asker" ELSE "worker"] :
                    m.kind = kind /\ m.task = t}

\* A new message; its number stands for its message_id.
Message(kind, t, status) ==
  [kind |-> kind, task |-> t, status |-> status,
   n |-> Cardinality(Made(kind, t)) + 1]

Told(t) == Cardinality(Made("progress", t) \cup Made("result", t))

\* save_task: it may fail, which most callers do not look at.
Saves(new) ==
  \/ task' = new /\ UNCHANGED faults
  \/ faults < MaxFaults /\ faults' = faults + 1 /\ UNCHANGED task

Nothing == [write |-> "nothing"]
Free(e) == handling[e] = Nothing
NoRun == [pc |-> "idle"]

Init ==
  /\ task = [e \in Engines |-> [t \in Tasks |-> "none"]]
  /\ log = [e \in Engines |-> {}]
  /\ handling = [e \in Engines |-> Nothing]
  /\ runs = [r \in Runs |-> NoRun]
  /\ arrived = {} /\ applied = {} /\ repeated = {}
  /\ taken = [t \in Tasks |-> 0]
  /\ lost = {} /\ ran = {} /\ said = {} /\ stuck = {}
  /\ started = 0 /\ faults = 0

-----------------------------------------------------------------------------
(* Messages made *)

\* create_task_message: the message is written down, then the task, whatever
\* was recorded for its id before.
Ask(t) ==
  LET m == Message("request", t, "none")
  IN  /\ Free("asker")
      /\ Cardinality(Made("request", t)) < MaxAsks
      /\ log' = [log EXCEPT !["asker"] = @ \cup {m}]
      /\ handling' = [handling EXCEPT !["asker"] = [write |-> "asked", msg |-> m]]
      /\ UNCHANGED <<task, runs, past, counts>>

\* record_outbound_task_request.
RecordAsked ==
  /\ handling["asker"].write = "asked"
  /\ Saves([task EXCEPT !["asker"][handling["asker"].msg.task] = "accepted"])
  /\ handling' = [handling EXCEPT !["asker"] = Nothing]
  /\ UNCHANGED <<log, runs, past, started>>

\* create_task_progress_message: whatever the host says of whatever task.
TellProgress(t, word) ==
  /\ Free("worker")
  /\ Told(t) < MaxTold
  /\ log' = [log EXCEPT !["worker"] = @ \cup {Message("progress", t, word)}]
  /\ UNCHANGED <<task, handling, runs, past, counts>>

\* A word that is not known, or none, is taken for a success.
ResultStatus(word) == IF word \in {"accepted", "other"} THEN "succeeded" ELSE word

Claims(t, status) == IF status = "succeeded" /\ t \notin ran THEN {t} ELSE {}

\* create_task_result_message: the worker's own task first, if it has one, then the
\* message.  Nobody asks whether a run came to that end, or to any.
TellResult(t, word) ==
  LET status == ResultStatus(word)
  IN  /\ Free("worker")
      /\ Told(t) < MaxTold
      /\ IF task["worker"][t] = "none" THEN UNCHANGED <<task, faults>>
         ELSE Saves([task EXCEPT !["worker"][t] = status])
      /\ handling' = [handling EXCEPT !["worker"] =
                        [write |-> "result", msg |-> Message("result", t, status)]]
      /\ said' = said \cup Claims(t, status)
      /\ stuck' = stuck \cup (IF status = "running" THEN {t} ELSE {})
      /\ UNCHANGED <<log, runs, arrived, applied, repeated, taken, lost, ran,
                     started>>

\* A worker of another version tells a result in a form that is not known here.
TellUnreadable(t) ==
  /\ Free("worker")
  /\ Told(t) < MaxTold
  /\ log' = [log EXCEPT !["worker"] = @ \cup {Message("result", t, "unreadable")}]
  /\ said' = said \cup Claims(t, "succeeded")
  /\ UNCHANGED <<task, handling, runs, arrived, applied, repeated, taken, lost, ran,
                 stuck, counts>>

RecordResult ==
  /\ handling["worker"].write = "result"
  /\ log' = [log EXCEPT !["worker"] = @ \cup {handling["worker"].msg}]
  /\ handling' = [handling EXCEPT !["worker"] = Nothing]
  /\ UNCHANGED <<task, runs, past, counts>>

-----------------------------------------------------------------------------
(* The transport *)

\* record_delivery_status "failed": update_outbound_task_delivery fails the task
\* of the sender, whatever the message was.  It finds no task when the peers
\* share a secret: the payload is encrypted by then.
SendFails(m) ==
  /\ Free(Sender(m))
  /\ m \in log[Sender(m)]
  /\ faults < MaxFaults
  /\ faults' = faults + 1
  /\ \/ UNCHANGED task
     \/ /\ task[Sender(m)][m.task] # "none"
        /\ task' = [task EXCEPT ![Sender(m)][m.task] = "failed"]
  /\ UNCHANGED <<log, handling, runs, past, started>>

\* Mutant: a message is known by its task and kind.
SeenByTask(m) ==
  \E k \in log[Receiver(m)] : k.task = m.task /\ Sender(k) = Sender(m)

\* Mutant: the log is not asked.
SeenNever(m) == FALSE

\* message_seen.
Seen(m) == m \in log[Receiver(m)]

\* A message the host may hand to the transport, as often as it likes: its call
\* has returned.  record_delivery_status "sent" changes no task.
Sendable(m) ==
  /\ m \in log[Sender(m)]
  /\ handling[Sender(m)] # [write |-> "asked", msg |-> m]

\* record_peer_message up to append_message: a message that is seen is answered
\* as a duplicate and has no effect.  One that is expired is not looked at, as
\* if it had never arrived.
Deliver(m) ==
  LET e == Receiver(m)
  IN  /\ Sendable(m)
      /\ Free(e)
      /\ arrived' = arrived \cup {m}
      /\ IF Seen(m) THEN UNCHANGED <<log, handling>>
         ELSE /\ log' = [log EXCEPT ![e] = @ \cup {m}]
              /\ handling' = [handling EXCEPT ![e] = [write |-> "got", msg |-> m]]
      /\ UNCHANGED <<task, runs, applied, repeated, taken, lost,
                     ran, said, stuck, counts>>

\* Mutant: only a result that says so is a failure.
StatusToldLoosely(m) ==
  IF m.status = "failed" THEN "failed"
  ELSE IF m.kind = "result" THEN "succeeded" ELSE "running"

\* update_task_from_peer_message: what a message about a task says of it.  Progress
\* is "running" whatever it says, and a result that cannot be read is a success.
StatusTold(m) ==
  IF m.kind = "progress" THEN IF m.status = "accepted" THEN "accepted" ELSE "running"
  ELSE IF m.status = "unreadable" THEN "succeeded" ELSE m.status

\* record_task_request: a task that is there, however it stands, is a duplicate.
Recorded(status) == IF status = "none" THEN "pending" ELSE status

\* The second half of record_peer_message: a request makes a record, anything
\* else changes the one there is.
Apply(e) ==
  LET m == handling[e].msg
      t == m.task
      new == m.kind = "request" /\ task[e][t] = "none"
  IN  /\ handling[e].write = "got"
      /\ task' = [task EXCEPT ![e][t] =
                    IF m.kind = "request" THEN Recorded(@)
                    ELSE IF @ = "none" THEN @ ELSE StatusTold(m)]
      /\ taken' = [taken EXCEPT ![t] = IF new THEN @ + 1 ELSE @]
      /\ applied' = applied \cup {m}
      /\ repeated' = IF m \in applied THEN repeated \cup {m} ELSE repeated
      /\ handling' = [handling EXCEPT ![e] = Nothing]
      /\ UNCHANGED <<log, runs, arrived, lost, ran, said, stuck, counts>>

\* ... or its save fails.
ApplyFails(e) ==
  /\ handling[e].write = "got"
  /\ faults < MaxFaults
  /\ faults' = faults + 1
  /\ lost' = lost \cup {handling[e].msg}
  /\ handling' = [handling EXCEPT ![e] = Nothing]
  /\ UNCHANGED <<files, runs, arrived, applied, repeated, taken, ran, said, stuck,
                 started>>

-----------------------------------------------------------------------------
(* Running a task *)

\* run_task: load and check.  It refuses a task that runs or is over, unless the
\* host says to do it all the same.
Load(r, t, mode) ==
  /\ runs[r] = NoRun
  /\ started < MaxRuns
  /\ task["worker"][t] # "none"
  /\ task["worker"][t] \in {"pending", "accepted", "failed"} \/ mode = "force"
  /\ runs' = [runs EXCEPT ![r] = [pc |-> "loaded", task |-> t]]
  /\ started' = started + 1
  /\ UNCHANGED <<files, handling, past, faults>>

Start(r) ==
  /\ runs[r].pc = "loaded"
  /\ runs' = [runs EXCEPT ![r].pc = "running"]
  /\ task' = [task EXCEPT !["worker"][runs[r].task] = "running"]
  /\ stuck' = stuck \ {runs[r].task}
  /\ UNCHANGED <<log, handling, arrived, applied, repeated, taken,
                 lost, ran, said, counts>>

StartFails(r) ==
  /\ runs[r].pc = "loaded"
  /\ faults < MaxFaults
  /\ faults' = faults + 1
  /\ runs' = [runs EXCEPT ![r] = NoRun]
  /\ UNCHANGED <<files, handling, past, started>>

\* Mutant: a run that fails leaves the task as it is.
FinishOnlyGood(r, status) ==
  /\ runs[r].pc = "running"
  /\ runs' = [runs EXCEPT ![r] = NoRun]
  /\ task' = [task EXCEPT !["worker"][runs[r].task] =
                IF status = "failed" THEN @ ELSE status]
  /\ ran' = IF status = "succeeded" THEN ran \cup {runs[r].task} ELSE ran
  /\ UNCHANGED <<log, handling, arrived, applied, repeated, taken, lost, said, stuck,
                 counts>>

\* The end of execute_task saves the record as it was loaded, with the outcome
\* in it, over whatever the file says by now.
Finish(r, status) ==
  /\ runs[r].pc = "running"
  /\ runs' = [runs EXCEPT ![r] = NoRun]
  /\ task' = [task EXCEPT !["worker"][runs[r].task] = status]
  /\ ran' = IF status = "succeeded" THEN ran \cup {runs[r].task} ELSE ran
  /\ UNCHANGED <<log, handling, arrived, applied, repeated, taken, lost, said, stuck,
                 counts>>

\* ... or returns an error when it cannot, with the task as it was.
FinishUnsaved(r, status) ==
  /\ runs[r].pc = "running"
  /\ faults < MaxFaults
  /\ faults' = faults + 1
  /\ runs' = [runs EXCEPT ![r] = NoRun]
  /\ ran' = IF status = "succeeded" THEN ran \cup {runs[r].task} ELSE ran
  /\ stuck' = stuck \cup {runs[r].task}
  /\ UNCHANGED <<files, handling, arrived, applied, repeated, taken, lost, said,
                 started>>

\* A process ends: what its calls had still to write is gone.
Crash(e) ==
  /\ faults < MaxFaults
  /\ faults' = faults + 1
  /\ handling' = [handling EXCEPT ![e] = Nothing]
  /\ lost' = IF handling[e].write = "got" THEN lost \cup {handling[e].msg}
             ELSE lost
  /\ IF e = "worker"
     THEN /\ runs' = [r \in Runs |-> NoRun]
          /\ stuck' = stuck \cup {t \in Tasks : task["worker"][t] = "running"}
     ELSE UNCHANGED <<runs, stuck>>
  /\ UNCHANGED <<files, arrived, applied, repeated, taken, ran, said, started>>

-----------------------------------------------------------------------------
Next ==
  \/ \E t \in Tasks : Ask(t) \/ TellUnreadable(t)
  \/ RecordAsked \/ RecordResult
  \/ \E t \in Tasks, word \in Words : TellProgress(t, word) \/ TellResult(t, word)
  \/ \E m \in log["asker"] \cup log["worker"] :
       SendFails(m) \/ Deliver(m)
  \/ \E e \in Engines : Apply(e) \/ ApplyFails(e) \/ Crash(e)
  \/ \E r \in Runs, t \in Tasks, mode \in {"normal", "force"} : Load(r, t, mode)
  \/ \E r \in Runs : Start(r) \/ StartFails(r)
  \/ \E r \in Runs, s \in {"succeeded", "failed"} : Finish(r, s) \/ FinishUnsaved(r, s)

\* A call that has begun goes on as long as its process does.  No message has to
\* arrive, no run has to end, and no host has to do anything.
Fairness == \A e \in Engines : WF_vars(Apply(e))

Spec == Init /\ [][Next]_vars /\ Fairness

-----------------------------------------------------------------------------
(* Properties *)

\* However often a message arrives and however often a task is asked for, each
\* message has its effect once and the worker takes each task up once: a task
\* that is done is not begun again by the messages of its request.
TakenOnce ==
  /\ repeated = {}
  /\ \A t \in Tasks : taken[t] <= 1

\* A success that a device records has a ground: a run of the task that succeeded, or
\* the word of the worker's host, which local.rs:174-180 does not check, or a result
\* that could not be read (local.rs:623).  No failure, cancel, rejection or progress
\* ends as one, however late, repeated and out of order the messages are.
SuccessIsTrue ==
  \A e \in Engines, t \in Tasks : task[e][t] = "succeeded" => t \in ran \cup said

\* The worker's task is marked running while a run works on it.  Left so without one
\* it is by three things: the process ended under the run, the end of the run could
\* not be saved (mod.rs:552), or the host told a result "running" (local.rs:178).
RunningIsRun ==
  \A t \in Tasks :
    task["worker"][t] = "running" =>
      t \in stuck \/ \E r \in Runs : runs[r] = [pc |-> "running", task |-> t]

\* A message that came to its receiver in time has its effect, unless the
\* process ends between writing the message down and acting on it, or the task
\* cannot be saved: then no repetition brings it back.
ArrivedIsApplied ==
  LET open == {m \in arrived : m \notin applied \cup lost}
  IN  open # {} ~> open = {}
===============================================================================
