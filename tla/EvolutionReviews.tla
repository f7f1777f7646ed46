--------------------------- MODULE EvolutionReviews ---------------------------
(***************************************************************************)
(* The background reviews of a thread (crates/core/src/evolution/queue.rs  *)
(* and store.rs; called by turn/finalize.rs): a turn that ends counts what *)
(* it did, and each time a count reaches the interval of its type a review *)
(* of that type is recorded and spawned, unless one is in flight.          *)
(*                                                                         *)
(* The counts of a thread are one file, the records of all runs another.   *)
(* Both are loaded, changed and saved with no lock; only the set of reviews*)
(* in flight has one.  A kill clears that set and the tasks, not the files.*)
(*                                                                         *)
(* Whether a run is stale is asked of a monotonic clock in the process and *)
(* of the recorded time after a restart; the two agree here.               *)
(***************************************************************************)
EXTENDS Integers, FiniteSets

CONSTANTS
  Types,      \* types of review, memory and skill; a turn end does them in order
  First,      \* the type done first
  Interval,   \* DEFAULT_MEMORY_REVIEW_INTERVAL, DEFAULT_SKILL_REVIEW_INTERVAL
  Ends,       \* turn ends that may run at once
  Runs,       \* ids of review runs; a turn end waits when none is left
  MaxWriting, \* bound: loads of the records open at once
  MaxTurns    \* bound: turns that end

ASSUME EvolutionReviewsAssumption ==
  /\ First \in Types /\ Cardinality(Types) = 2
  /\ Interval \in Nat \ {0}
  /\ Ends \cap Runs = {} /\ "none" \notin Runs /\ "host" \notin Ends \cup Runs
  /\ {MaxWriting, MaxTurns} \subseteq Nat

VARIABLES
  counts,    \* <thread>.json: turns, or tool calls, since the last review
  runs,      \* runs.json: the status of each run, "absent" where it has none
  inFlight,  \* in_flight_reviews
  end,       \* of each turn end: where it is, its type and the counts it loaded
  task,      \* of each run: where its spawned task is
  copy,      \* of a task, a turn end and the host: the records it has loaded
  kind,      \* of each run: the type it reviews
  aged,      \* runs queued or started 30 minutes ago or more
  turns,     \* bounded: turns that have ended
  outcome,   \* history: of each run, how its review ended in truth
  since,     \* history: what turns counted since the last review was queued
  excuses    \* history: "ends", "records": accesses to the counts or to the
             \* records overlapped; "kill"

vars == <<counts, runs, inFlight, end, task, copy, kind, aged, turns,
          outcome, since, excuses>>

Open == {"queued", "running"}
Statuses == Open \cup {"absent", "completed", "failed"}
Records == [Runs -> Statuses]
Nothing == [r \in Runs |-> "absent"]
Copies == {<<>>} \cup {<<s>> : s \in Records}
NoCounts == [y \in Types |-> 0]
At(step, y, c, r) == [pc |-> step, type |-> y, counts |-> c, run |-> r]
Idle == At("idle", First, NoCounts, "none")
EndStates == [pc : {"idle", "count", "guard", "save", "clear", "queue", "spawn"},
              type : Types, counts : [Types -> Nat], run : Runs \cup {"none"}]
TaskSteps == {"none", "spawned", "starting", "reviewing", "completing", "releasing", "ended"}
Host == "host"
Actors == Runs \cup Ends \cup {Host}

-----------------------------------------------------------------------------
(* store.rs *)

Stale(r) == r \in aged

\* Mutant: every record that has aged is failed.
RefreshClosed == [r \in Runs |-> IF runs[r] # "absent" /\ Stale(r) THEN "failed" ELSE runs[r]]

\* Mutant: only what has started can be stale.
RefreshRunning == [r \in Runs |-> IF runs[r] = "running" /\ Stale(r) THEN "failed" ELSE runs[r]]

\* load_run_store and refresh_stale_runs
Refreshed == [r \in Runs |-> IF runs[r] \in Open /\ Stale(r) THEN "failed" ELSE runs[r]]

\* Actors between a load of the records and the save that follows it.
Writing == {a \in Actors : copy[a] # <<>>}

\* a has loaded the records and is about to save s.
Load(a, s) ==
  /\ Cardinality(Writing) < MaxWriting
  /\ copy' = [copy EXCEPT ![a] = <<s>>]
  /\ excuses' = excuses \cup {"records" : b \in Writing}

\* save_run_store: a's copy replaces the file.
SaveRecords(a) ==
  /\ copy' = [copy EXCEPT ![a] = <<>>]
  /\ runs' = copy[a][1]

\* update_run_record: a run with no record stays without one.
Updated(r, status) ==
  [Refreshed EXCEPT ![r] = IF @ = "absent" THEN @ ELSE status]

Init ==
  /\ counts = NoCounts
  /\ runs = Nothing
  /\ inFlight = {}
  /\ end = [e \in Ends |-> Idle]
  /\ task = [r \in Runs |-> "none"]
  /\ copy = [a \in Actors |-> <<>>]
  /\ kind = [r \in Runs |-> First]
  /\ aged = {}
  /\ turns = 0
  /\ outcome = [r \in Runs |-> "none"]
  /\ since = counts
  /\ excuses = {}

-----------------------------------------------------------------------------
(* queue.rs: a turn ends *)

\* turn/finalize.rs reaches queue_memory_review_after_turn.
TurnEnds(e) ==
  /\ end[e].pc = "idle" /\ turns < MaxTurns
  /\ turns' = turns + 1
  /\ end' = [end EXCEPT ![e] = At("count", First, NoCounts, "none")]
  /\ UNCHANGED <<counts, runs, inFlight, task, copy, kind, aged, outcome, since, excuses>>

\* What follows a turn end's type: the other type, or nothing.
Following(rec) ==
  IF rec.type = First
  THEN At("count", CHOOSE y \in Types : y # First, NoCounts, "none")
  ELSE Idle

\* load_state and the increment: a turn counts one, or its tool calls.
Count(e) ==
  LET y == end[e].type IN
  /\ end[e].pc = "count"
  /\ \E n \in IF y = First THEN {1} ELSE 0 .. Interval :
       IF n = 0
       THEN end' = [end EXCEPT ![e] = Following(@)] /\ UNCHANGED <<since, excuses>>
       ELSE LET c == [counts EXCEPT ![y] = @ + n]
                step == IF c[y] < Interval THEN "save" ELSE "guard" IN
            /\ end' = [end EXCEPT ![e] = At(step, y, c, "none")]
            /\ since' = [since EXCEPT ![y] = @ + n]
            /\ excuses' = excuses \cup
                 {"ends" : d \in {d \in Ends : end[d].pc \in {"guard", "save", "clear"}}}
  /\ UNCHANGED <<counts, runs, inFlight, task, copy, kind, aged, turns, outcome>>

\* Mutant: a review in flight does not keep the next one away.
GuardAlways(e) ==
  /\ end[e].pc = "guard"
  /\ inFlight' = inFlight \cup {end[e].type}
  /\ end' = [end EXCEPT ![e].pc = "clear"]
  /\ UNCHANGED <<counts, runs, task, copy, kind, aged, turns, outcome, since, excuses>>

\* try_mark_review_in_flight
Guard(e) ==
  LET y == end[e].type IN
  /\ end[e].pc = "guard"
  /\ IF y \in inFlight
     THEN end' = [end EXCEPT ![e].pc = "save"] /\ UNCHANGED inFlight
     ELSE /\ inFlight' = inFlight \cup {y}
          /\ end' = [end EXCEPT ![e].pc = "clear"]
  /\ UNCHANGED <<counts, runs, task, copy, kind, aged, turns, outcome, since, excuses>>

\* save_state where no review is queued
SaveCounts(e) ==
  /\ end[e].pc = "save"
  /\ counts' = end[e].counts
  /\ end' = [end EXCEPT ![e] = Following(@)]
  /\ UNCHANGED <<runs, inFlight, task, copy, kind, aged, turns, outcome, since, excuses>>

\* Mutant: the count goes on from where it is.
ClearNothing(e) ==
  LET y == end[e].type IN
  /\ end[e].pc = "clear"
  /\ counts' = end[e].counts
  /\ since' = [since EXCEPT ![y] = 0]
  /\ end' = [end EXCEPT ![e] = At("queue", y, NoCounts, "none")]
  /\ UNCHANGED <<runs, inFlight, task, copy, kind, aged, turns, outcome, excuses>>

\* save_state with the count of the type set back to 0
ClearCount(e) ==
  LET y == end[e].type IN
  /\ end[e].pc = "clear"
  /\ counts' = [end[e].counts EXCEPT ![y] = 0]
  /\ since' = [since EXCEPT ![y] = 0]
  /\ end' = [end EXCEPT ![e] = At("queue", y, NoCounts, "none")]
  /\ UNCHANGED <<runs, inFlight, task, copy, kind, aged, turns, outcome, excuses>>

\* create_queued_run_record: a fresh id and the load of upsert_run_record
Queue(e) ==
  /\ end[e].pc = "queue"
  /\ \E r \in Runs :
       /\ task[r] = "none"
       /\ \A d \in Ends : end[d].run # r
       /\ end' = [end EXCEPT ![e] = At("spawn", @.type, NoCounts, r)]
       /\ kind' = [kind EXCEPT ![r] = end[e].type]
       /\ Load(e, [Refreshed EXCEPT ![r] = "queued"])
  /\ UNCHANGED <<counts, runs, inFlight, task, aged, turns, outcome, since>>

\* The save of upsert_run_record, and the spawn.
Spawn(e) ==
  /\ end[e].pc = "spawn"
  /\ SaveRecords(e)
  /\ task' = [task EXCEPT ![end[e].run] = "spawned"]
  /\ end' = [end EXCEPT ![e] = Following(@)]
  /\ UNCHANGED <<counts, inFlight, kind, aged, turns, outcome, since, excuses>>

-----------------------------------------------------------------------------
(* queue.rs: the spawned task *)

Step(r, from, to) == task[r] = from /\ task' = [task EXCEPT ![r] = to]

\* mark_run_started loads the records, saves them, refreshes the anchor.
Start(r) ==
  /\ Step(r, "spawned", "starting")
  /\ Load(r, Updated(r, "running"))
  /\ UNCHANGED <<counts, runs, inFlight, end, kind, aged, turns, outcome, since>>

SaveStarted(r) ==
  /\ Step(r, "starting", "reviewing")
  /\ SaveRecords(r)
  /\ aged' = aged \ {r}
  /\ UNCHANGED <<counts, inFlight, end, kind, turns, outcome, since, excuses>>

\* Mutant: the error of the review is not looked at.
CompleteAnyway(r) ==
  /\ Step(r, "reviewing", "completing")
  /\ \E o \in {"completed", "failed"} :
       /\ outcome' = [outcome EXCEPT ![r] = o]
       /\ Load(r, Updated(r, "completed"))
  /\ UNCHANGED <<counts, runs, inFlight, end, kind, aged, turns, since>>

\* review_memory_now or review_skill_now returns, with or without an error, and
\* mark_run_completed loads the records and saves them.
Complete(r) ==
  /\ Step(r, "reviewing", "completing")
  /\ \E o \in {"completed", "failed"} :
       /\ outcome' = [outcome EXCEPT ![r] = o]
       /\ Load(r, Updated(r, o))
  /\ UNCHANGED <<counts, runs, inFlight, end, kind, aged, turns, since>>

SaveCompleted(r) ==
  /\ Step(r, "completing", "releasing")
  /\ SaveRecords(r)
  /\ UNCHANGED <<counts, inFlight, end, kind, aged, turns, outcome, since, excuses>>

\* Mutant: a review that failed returns before the release.
ReleaseIfCompleted(r) ==
  /\ Step(r, "releasing", "ended")
  /\ inFlight' = IF outcome[r] = "completed" THEN inFlight \ {kind[r]} ELSE inFlight
  /\ UNCHANGED <<counts, runs, end, copy, kind, aged, turns, outcome, since, excuses>>

\* release_review_in_flight
Release(r) ==
  /\ Step(r, "releasing", "ended")
  /\ inFlight' = inFlight \ {kind[r]}
  /\ UNCHANGED <<counts, runs, end, copy, kind, aged, turns, outcome, since, excuses>>

-----------------------------------------------------------------------------
(* pending_api.rs: list_evolution_runs saves what it found stale. *)

List ==
  /\ copy[Host] = <<>> /\ Refreshed # runs
  /\ Load(Host, Refreshed)
  /\ UNCHANGED <<counts, runs, inFlight, end, task, kind, aged, turns, outcome, since>>

SaveList ==
  /\ copy[Host] # <<>>
  /\ SaveRecords(Host)
  /\ UNCHANGED <<counts, inFlight, end, task, kind, aged, turns, outcome, since, excuses>>

-----------------------------------------------------------------------------
(* Environment *)

\* 30 minutes pass for an open run.
Age(r) ==
  /\ runs[r] \in Open /\ r \notin aged
  /\ aged' = aged \cup {r}
  /\ UNCHANGED <<counts, runs, inFlight, end, task, copy, kind, turns, outcome, since, excuses>>

\* The process is killed and started again, at most once.
Kill ==
  /\ "kill" \notin excuses
  /\ inFlight' = {}
  /\ end' = [e \in Ends |-> Idle]
  /\ task' = [r \in Runs |->
       IF task[r] = "none" /\ \A e \in Ends : end[e].run # r THEN "none" ELSE "ended"]
  /\ copy' = [a \in Actors |-> <<>>]
  /\ excuses' = excuses \cup {"kill"}
  /\ UNCHANGED <<counts, runs, kind, aged, turns, outcome, since>>

EndStep(e) ==
  Count(e) \/ Guard(e) \/ SaveCounts(e) \/ ClearCount(e) \/ Queue(e) \/ Spawn(e)

TaskStep(r) ==
  Start(r) \/ SaveStarted(r) \/ Complete(r) \/ SaveCompleted(r) \/ Release(r)

Next ==
  \/ \E e \in Ends : TurnEnds(e) \/ EndStep(e)
  \/ \E r \in Runs : TaskStep(r) \/ Age(r)
  \/ List \/ SaveList
  \/ Kill

Spec == Init /\ [][Next]_vars

\* The runtime schedules turn ends and tasks, time passes, and the host goes on
\* listing.
Fairness ==
  /\ \A e \in Ends : WF_vars(EndStep(e))
  /\ \A r \in Runs : WF_vars(TaskStep(r)) /\ WF_vars(Age(r))
  /\ WF_vars(List)
  /\ WF_vars(SaveList)

LiveSpec == Spec /\ Fairness

-----------------------------------------------------------------------------
(* Properties *)

\* Each variable has its type, a turn end has a run exactly while its record is
\* being saved (create_queued_run_record), and who saves the records has loaded
\* them.
TypeOK ==
  /\ counts \in [Types -> Nat] /\ since \in [Types -> Nat]
  /\ runs \in Records
  /\ inFlight \subseteq Types
  /\ end \in [Ends -> EndStates]
  /\ \A e \in Ends : end[e].run \in Runs <=> end[e].pc = "spawn"
  /\ task \in [Runs -> TaskSteps]
  /\ copy \in [Actors -> Copies]
  /\ \A e \in Ends : end[e].pc = "spawn" => copy[e] # <<>>
  /\ \A r \in Runs : task[r] \in {"starting", "completing"} => copy[r] # <<>>
  /\ kind \in [Runs -> Types]
  /\ aged \subseteq Runs
  /\ turns \in 0 .. MaxTurns
  /\ outcome \in [Runs -> {"none", "completed", "failed"}]
  /\ excuses \subseteq {"ends", "records", "kill"}

\* Who is at work on a review of type y: a turn end or the task it spawned.
Busy(y) ==
  {e \in Ends : end[e].type = y /\ end[e].pc \in {"clear", "queue", "spawn"}}
    \cup {r \in Runs : kind[r] = y /\ task[r] \notin {"none", "ended"}}

\* Of each type at most one review is being queued or under way, however turn
\* ends, tasks and a restart fall together.
OneReview == \A y \in Types : Cardinality(Busy(y)) <= 1

\* The set of reviews in flight says which types are being reviewed, no more and
\* no less: nothing but its own release lets the next review of a type start,
\* and a review that has ended, with an error too, does not block its type.
GuardMatches == \A y \in Types : y \in inFlight <=> Busy(y) # {}

\* queue.rs:38-61: the guard keeps the reviews of a type apart and keeps none away
\* for longer than the one before it takes.
GuardKeepsApart == GuardMatches /\ OneReview

\* Whatever overlaps or is killed, a record that says completed is of a review
\* that ended without an error.
CompletedIsTrue == \A r \in Runs : runs[r] = "completed" => outcome[r] = "completed"

\* While no two accesses to the records overlap and nothing is killed, the
\* record of a task that has ended says how it ended, also when it had been
\* given up as stale or grows old afterwards.
EndIsRecorded ==
  excuses \subseteq {"ends"} =>
    \A r \in Runs : task[r] = "ended" => runs[r] = outcome[r]

\* While turn ends do not overlap and nothing is killed, the counts are what
\* turns counted since the last review of each type: a review refused because
\* one is in flight does not cost a count.
CountsExact ==
  (excuses \subseteq {"records"} /\ \A e \in Ends : end[e].pc = "idle") => counts = since

\* No record stays open for ever: its task closes it, or the listings of the
\* host once it is stale, after a restart and after overlapping saves too.
RecordCloses == \A r \in Runs : runs[r] \in Open ~> runs[r] \notin Open

=============================================================================
