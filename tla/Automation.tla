------------------------------ MODULE Automation ------------------------------
(***************************************************************************)
(* One scheduled job of the automation service (crates/core/src/automation:*)
(* store.rs, runner.rs, handles.rs): the file that holds the job, the run  *)
(* log, the runs the host starts, and the host's cancel, update, delete.   *)
(*                                                                         *)
(* No lock guards the file.  Every operation loads it (and expires a run   *)
(* that is too old), changes its copy and saves it once or twice; fs::write*)
(* first truncates and then fills.  A call keeps what it still has to save *)
(* in saves; other calls run in between.  A save may fail, and the process *)
(* may be killed, at any point of one.  The run log, a file of its own, is *)
(* only appended to, before the save.                                      *)
(*                                                                         *)
(* Times are a small clock.  One job is modelled, so a store without it    *)
(* stands for every store that lost it.                                    *)
(***************************************************************************)
EXTENDS Integers, Sequences

CONSTANTS
  Runs,         \* runs of the job, in the order the host likes
  Hosts,        \* threads of the host calling the other operations
  Triggers,     \* subset of {"oneShot", "interval", "manual"}
  Serial,       \* the host makes one call at a time; nothing in the code makes it
  Removes,      \* policy.delete_after_success: subset of {"default", "yes", "no"}
  Durations,    \* policy.max_run_duration_ms
  Retries,      \* policy.max_retries
  Backoff,      \* policy.retry_backoff_ms
  Every,        \* period of an interval, and the time of a one-shot
  MaxTime,      \* bound: the clock
  MaxCalls,     \* bound: cancels, updates and deletes, together
  MaxFaults     \* bound: kills and saves that fail, together

ASSUME AutomationAssumption ==
  /\ "none" \notin Runs /\ Runs \cap Hosts = {}
  /\ Serial \in BOOLEAN
  /\ Triggers \subseteq {"oneShot", "interval", "manual"}
  /\ Removes \subseteq {"default", "yes", "no"}
  /\ Durations \subseteq Nat \ {0} /\ Retries \subseteq Nat
  /\ {Every, Backoff} \subseteq Nat \ {0}
  /\ {MaxTime, MaxCalls, MaxFaults} \subseteq Nat

VARIABLES
  now,      \* the clock
  file,     \* jobs.json: the job, NoJob, or Torn
  saves,    \* of each call: the copies it has still to save
  cut,      \* of each call: it has truncated the file and not yet filled it
  pc,       \* of each run: "idle", "woken", "live", "done", "lost"
  end,      \* of each run: status and completed_at once its turn has ended
  log,      \* of each run: what latest_runs makes of its records
  host,     \* the run a cancel is about to clear, or NoRun
  calls,    \* bounded calls made
  faults,   \* kills and failed saves so far
  won,      \* history: the trigger and policy under which runs succeeded
  spent,    \* history: runs that were the one shot of the job, until it is enabled anew
  unsaved,  \* history: runs the log has a start or an end of that was never saved
  excuses   \* history: "overlap", two calls overlapped on the file; "delete";
            \* "second", the host or an expiry made room for a second run;
            \* "torn", a kill or a failure inside a write

truth == <<won, spent, unsaved>>
vars == <<now, file, saves, cut, pc, end, log, host, calls, faults, truth, excuses>>

Procs == Runs \cup Hosts
NoRun == "none"
Never == -1                            \* next_run_at_ms: None
Policies == [remove : Removes, duration : Durations, retries : Retries]
NoJob == [enabled |-> FALSE, next |-> Never, running |-> NoRun, since |-> 0,
          errors |-> 0, exists |-> FALSE, trigger |-> "manual",
          policy |-> [remove |-> "default", duration |-> 0, retries |-> 0]]
Torn == [NoJob EXCEPT !.errors = -1]   \* truncated: no JSON

-----------------------------------------------------------------------------
(* runner.rs *)

\* compute_next_run_at_ms
ComputeNext(job, t) ==
  CASE ~job.enabled             -> Never
    [] job.trigger = "oneShot"  -> Every
    [] job.trigger = "interval" -> (t \div Every + 1) * Every
    [] job.trigger = "manual"   -> Never

Due(job) == job.next # Never /\ now >= job.next

Idle(job) == [job EXCEPT !.running = NoRun, !.since = 0]

\* Mutant: a one-shot that failed is removed like one that succeeded.
AfterOnceGone(job, status, t) ==
  CASE status # "cancelled" /\ job.trigger = "oneShot" -> NoJob
    [] OTHER -> [Idle(job) EXCEPT !.next = ComputeNext(job, t)]

\* Mutant: a one-shot that succeeded is scheduled like any other job.
AfterRearms(job, status, t) ==
  [Idle(job) EXCEPT !.next = ComputeNext(job, t)]

\* Mutant: the policy is not asked.
DeletesOneShots(job) == job.trigger = "oneShot"

\* should_delete_after_success
DeletesAfterSuccess(job) ==
  \/ job.policy.remove = "yes"
  \/ job.policy.remove = "default" /\ job.trigger = "oneShot"

\* finalize_run: what a run that ended at t makes of its job.
After(job, status, t) ==
  IF status = "failed"
    THEN [Idle(job) EXCEPT !.errors = job.errors + 1,
                           !.next = IF job.errors < job.policy.retries THEN t + Backoff ELSE @]
  ELSE IF status = "succeeded" /\ DeletesAfterSuccess(job)
    THEN NoJob
  ELSE IF job.trigger = "oneShot"
    THEN [Idle(job) EXCEPT !.errors = 0, !.enabled = FALSE, !.next = Never]
    ELSE [Idle(job) EXCEPT !.errors = 0, !.next = ComputeNext(job, t)]

-----------------------------------------------------------------------------
(* store.rs *)

\* load_store: what cannot be parsed is an empty store.
Stored == IF file = Torn THEN NoJob ELSE file

Expired == Stored.running # NoRun /\ now - Stored.since > Stored.policy.duration

\* load_store_expiring_runs
Loaded == IF Expired THEN Idle(Stored) ELSE Stored
ExpirySave == IF Expired THEN <<Loaded>> ELSE <<>>

\* latest_runs: of the records of a run the one completed last counts.
Record(l, r, status, at) ==
  IF at >= l[r].at THEN [l EXCEPT ![r] = [status |-> status, at |-> at]] ELSE l

\* Mutant: a run that expires leaves no record.
ExpiryUnlogged == log

ExpiryLogged == IF Expired THEN Record(log, Stored.running, "expired", now) ELSE log

Live(r) == pc[r] = "live"

\* A load while another call is between its own load and its last save.
Overlapping(p) == IF \E q \in Procs \ {p} : saves[q] # <<>> THEN {"overlap"} ELSE {}
LiveExpired == IF Expired /\ Live(Stored.running) THEN {"second"} ELSE {}

\* A call loads, changes its copy to the last of copies, and will save them.
Load(p, copies) ==
  /\ saves[p] = <<>>
  /\ Serial => \A q \in Procs : saves[q] = <<>>
  /\ saves' = [saves EXCEPT ![p] = ExpirySave \o copies]

\* save_store: truncate, ...
Truncate(p) ==
  /\ saves[p] # <<>> /\ ~cut[p]
  /\ file' = Torn
  /\ cut' = [cut EXCEPT ![p] = TRUE]
  /\ UNCHANGED <<now, saves, pc, end, log, host, calls, faults, truth, excuses>>

\* ... then fill; over what someone else filled meanwhile the result may be no JSON.
Fill(p) ==
  /\ cut[p]
  /\ file' \in {Head(saves[p])} \cup (IF file = Torn THEN {} ELSE {Torn})
  /\ cut' = [cut EXCEPT ![p] = FALSE]
  /\ saves' = [saves EXCEPT ![p] = Tail(@)]
  /\ UNCHANGED <<now, pc, end, log, host, calls, faults, truth, excuses>>

\* The runs whose last words the log has already and the file not yet.
Unsaved == {r \in Runs : saves[r] # <<>> /\ (Live(r) \/ end[r].status # "none")}

\* A save fails before it truncates, or half-way: most calls ignore it or report an
\* error, and a run whose start it was does not start (store.rs:33).
SaveFails(p) ==
  /\ saves[p] # <<>>
  /\ faults < MaxFaults
  /\ faults' = faults + 1
  /\ file' \in {file} \cup (IF cut[p] THEN {Torn} ELSE {})
  /\ cut' = [cut EXCEPT ![p] = FALSE]
  /\ saves' = [saves EXCEPT ![p] = Tail(@)]
  /\ LET own == {p} \cap Unsaved \cap {r \in Runs : Len(saves[r]) = 1}
     IN  /\ pc' = [r \in Runs |-> IF r \in own THEN "done" ELSE pc[r]]
         /\ unsaved' = unsaved \cup own
         /\ spent' = spent \ own
  /\ excuses' = excuses \cup (IF cut[p] THEN {"torn"} ELSE {})
  /\ UNCHANGED <<now, end, log, host, calls, won>>

-----------------------------------------------------------------------------
Init ==
  /\ now = 0
  /\ \E trigger \in Triggers, policy \in Policies :
       LET job == [NoJob EXCEPT !.enabled = TRUE, !.exists = TRUE,
                                !.trigger = trigger, !.policy = policy]
       IN  file = [job EXCEPT !.next = ComputeNext(job, 0)]
  /\ saves = [p \in Procs |-> <<>>]
  /\ cut = [p \in Procs |-> FALSE]
  /\ pc = [r \in Runs |-> "idle"]
  /\ end = [r \in Runs |-> [status |-> "none", at |-> 0]]
  /\ log = [r \in Runs |-> [status |-> "none", at |-> 0]]
  /\ host = [h \in Hosts |-> NoRun]
  /\ calls = 0 /\ faults = 0
  /\ won = {} /\ spent = {} /\ unsaved = {} /\ excuses = {}

Tick ==
  /\ now < MaxTime
  /\ now' = now + 1
  /\ UNCHANGED <<file, saves, cut, pc, end, log, host, calls, faults, truth, excuses>>

(* A run: run_automation_job_handle, record_automation_wake_handle *)

\* The wake is recorded in the job before the run is prepared.
Wake(r) ==
  /\ pc[r] = "idle"
  /\ Load(r, <<Loaded>>)
  /\ pc' = [pc EXCEPT ![r] = "woken"]
  /\ log' = ExpiryLogged
  /\ excuses' = excuses \cup Overlapping(r) \cup LiveExpired
  /\ UNCHANGED <<now, file, cut, end, host, calls, faults, truth>>

\* Mutant: a run that is already there is not looked at.
RefusedIfDisabled(mode) ==
  /\ mode # "force"
  /\ ~Loaded.enabled \/ (mode = "due" /\ ~Due(Loaded))

\* The three reasons to skip a run.
Refused(mode) ==
  /\ mode # "force"
  /\ ~Loaded.enabled \/ (mode = "due" /\ ~Due(Loaded)) \/ Loaded.running # NoRun

\* The prepare step; a job that is gone is an error.
Prepare(r, mode) ==
  /\ pc[r] = "idle" \/ (pc[r] = "woken" /\ mode = "due")
  /\ IF ~Loaded.exists
       THEN Load(r, <<>>) /\ log' = ExpiryLogged /\ pc' = [pc EXCEPT ![r] = "done"]
     ELSE IF Refused(mode)
       THEN /\ Load(r, <<Loaded>>)
            /\ log' = Record(ExpiryLogged, r, "skipped", now)
            /\ pc' = [pc EXCEPT ![r] = "done"]
     ELSE /\ Load(r, <<[Loaded EXCEPT !.running = r, !.since = now]>>)
          /\ log' = Record(ExpiryLogged, r, "running", now)
          /\ pc' = [pc EXCEPT ![r] = "live"]
  /\ excuses' = excuses \cup Overlapping(r) \cup LiveExpired
                  \cup (IF mode = "force" THEN {"second"} ELSE {})
  /\ UNCHANGED <<now, file, cut, end, host, calls, faults, truth>>

\* execute_job: the turn ends, cancelled perhaps (by a cancel of its session).
RunEnds(r, status) ==
  /\ Live(r) /\ saves[r] = <<>> /\ end[r].status = "none"
  /\ end' = [end EXCEPT ![r] = [status |-> status, at |-> now]]
  /\ UNCHANGED <<now, file, saves, cut, pc, log, host, calls, faults, truth, excuses>>

\* finalize_run
Finalize(r) ==
  /\ Live(r) /\ end[r].status # "none"
  /\ Load(r, <<IF Loaded.exists THEN After(Loaded, end[r].status, end[r].at) ELSE NoJob>>)
  /\ log' = Record(ExpiryLogged, r, end[r].status, end[r].at)
  /\ IF Loaded.exists /\ end[r].status = "succeeded"
       THEN /\ won' = won \cup {[trigger |-> Loaded.trigger, remove |-> Loaded.policy.remove]}
            /\ spent' = IF Loaded.trigger = "oneShot" THEN spent \cup {r} ELSE spent
       ELSE UNCHANGED <<won, spent>>
  /\ pc' = [pc EXCEPT ![r] = "done"]
  /\ excuses' = excuses \cup Overlapping(r) \cup LiveExpired
  /\ UNCHANGED <<now, file, cut, end, host, calls, faults, unsaved>>

(* The host *)
Call(h) == host[h] = NoRun /\ calls < MaxCalls /\ calls' = calls + 1

\* list, get, next wake: nothing but the expiry.
List(h) ==
  /\ Expired /\ host[h] = NoRun
  /\ Load(h, <<>>)
  /\ log' = ExpiryLogged
  /\ excuses' = excuses \cup Overlapping(h) \cup LiveExpired
  /\ UNCHANGED <<now, file, cut, pc, end, host, calls, faults, truth>>

\* Any part of the job but its state may change.
Patched(enabled, trigger, policy) ==
  LET job == [Loaded EXCEPT !.enabled = enabled, !.trigger = trigger, !.policy = policy]
  IN  [job EXCEPT !.next = ComputeNext(job, now)]

Update(h, enabled, trigger, policy) ==
  /\ Call(h) /\ Loaded.exists
  /\ Load(h, <<Patched(enabled, trigger, policy)>>)
  /\ spent' = IF enabled THEN {} ELSE spent
  /\ log' = ExpiryLogged
  /\ excuses' = excuses \cup Overlapping(h) \cup LiveExpired
  /\ UNCHANGED <<now, file, cut, pc, end, host, faults, won, unsaved>>

Delete(h) ==
  /\ Call(h) /\ Loaded.exists
  /\ Load(h, <<NoJob>>)
  /\ log' = ExpiryLogged
  /\ excuses' = excuses \cup Overlapping(h) \cup LiveExpired \cup {"delete"}
  /\ UNCHANGED <<now, file, cut, pc, end, host, faults, truth>>

\* cancel_automation_job_handle: find the running run, signal its session if the
\* log names it (RunEnds may then say cancelled), log the run as cancelled, ...
CancelRun(h) ==
  /\ Call(h) /\ Loaded.running # NoRun
  /\ Load(h, <<>>)
  /\ LET r == Loaded.running IN
       /\ log' = Record(log, r, "cancelled", now)
       /\ host' = [host EXCEPT ![h] = r]
  /\ excuses' = excuses \cup Overlapping(h) \cup {"second"}
  /\ UNCHANGED <<now, file, cut, pc, end, faults, truth>>

\* ... then clear whatever the job says is running by now.
CancelClears(h) ==
  /\ host[h] # NoRun
  /\ Load(h, <<IF Loaded.exists
                 THEN [Idle(Loaded) EXCEPT !.next = IF Loaded.enabled
                                                      THEN ComputeNext(Loaded, now) ELSE @]
                 ELSE NoJob>>)
  /\ host' = [host EXCEPT ![h] = NoRun]
  /\ log' = ExpiryLogged
  /\ excuses' = excuses \cup Overlapping(h) \cup LiveExpired
  /\ UNCHANGED <<now, file, cut, pc, end, calls, faults, truth>>

\* The process is killed; the file and the log stay, as far as they were written.
Crash ==
  /\ faults < MaxFaults
  /\ faults' = faults + 1
  /\ pc' = [r \in Runs |-> IF pc[r] \in {"live", "woken"} THEN "lost" ELSE pc[r]]
  /\ saves' = [p \in Procs |-> <<>>]
  /\ cut' = [p \in Procs |-> FALSE]
  /\ host' = [h \in Hosts |-> NoRun]
  /\ unsaved' = unsaved \cup Unsaved
  /\ spent' = spent \ Unsaved
  /\ excuses' = excuses \cup (IF \E p \in Procs : cut[p] THEN {"torn"} ELSE {})
  /\ UNCHANGED <<now, file, end, log, calls, won>>

RunStep(r) ==
  \/ Wake(r)
  \/ \E mode \in {"due", "manual", "force"} : Prepare(r, mode)
  \/ \E status \in {"succeeded", "failed", "cancelled"} : RunEnds(r, status)
  \/ Finalize(r)

HostStep(h) ==
  \/ List(h) \/ Delete(h) \/ CancelRun(h) \/ CancelClears(h)
  \/ \E enabled \in BOOLEAN, trigger \in Triggers, policy \in Policies :
       Update(h, enabled, trigger, policy)

Next ==
  \/ Tick \/ Crash
  \/ \E r \in Runs : RunStep(r)
  \/ \E h \in Hosts : HostStep(h)
  \/ \E p \in Procs : Truncate(p) \/ Fill(p) \/ SaveFails(p)

Spec == Init /\ [][Next]_vars

\* For TLC: no step asks which run it is.
RunSymmetry ==
  {f : f \in {g \in [Runs -> Runs] : \A r \in Runs : \E s \in Runs : g[s] = r}}

-----------------------------------------------------------------------------
Statuses == {"none", "running", "skipped", "succeeded", "failed", "cancelled", "expired"}
Jobs == [enabled : BOOLEAN, next : Never .. MaxTime + (IF Every > Backoff THEN Every ELSE Backoff),
         running : Runs \cup {NoRun}, since : 0 .. MaxTime,
         errors : Nat \cup {-1}, exists : BOOLEAN,
         trigger : Triggers \cup {"manual"}, policy : Policies \cup {NoJob.policy}]

TypeOK ==
  /\ now \in 0 .. MaxTime
  /\ file \in Jobs
  /\ \A p \in Procs : Len(saves[p]) <= 2 /\ (cut[p] => saves[p] # <<>>)
  /\ pc \in [Runs -> {"idle", "woken", "live", "done", "lost"}]
  /\ \A r \in Runs : log[r].status \in Statuses /\ log[r].at <= now
  /\ host \in [Hosts -> Runs \cup {NoRun}]
  /\ calls \in 0 .. MaxCalls /\ faults \in 0 .. MaxFaults
  /\ spent \subseteq Runs /\ unsaved \subseteq Runs
  /\ excuses \subseteq {"overlap", "delete", "second", "torn"}

\* runner.rs:82, "automation job is already running": two turns of the job run
\* at once only after one of six things - two calls overlapped on the file, a
\* live run outlived max_run_duration_ms, a run was forced, cancelled, the
\* job deleted or the file torn.  A wake, an update, a save that fails and a kill
\* anywhere but inside a write are not among them.
OneLiveRun ==
  excuses = {} => \A r, s \in Runs : Live(r) /\ Live(s) => r = s

\* A one-shot whose success was saved does not run again, though the policy may
\* keep it in the store (runner.rs:384-411), until the host enables it anew
\* (handles.rs:44).  Where the save failed, or a kill came before it, it does run
\* again, whatever the log says.
OneShotOnce ==
  excuses = {} /\ spent # {} => \A s \in Runs : ~Live(s)

\* runner.rs:51-94, 376-393: a job is at most at one of its runs, and a one-shot
\* that is spent at none.
OneRunAtOnce == OneLiveRun /\ OneShotOnce

\* store.rs:27-37, runner.rs:404: with calls that do not overlap and whole writes the
\* job leaves the store only when it is deleted or when a run succeeded under a
\* policy that removes it then; an expiry, a failure, a cancel, an update, a save
\* that fails or a kill between two steps keeps it.
JobKept ==
  (file = NoJob /\ excuses \cap {"overlap", "delete", "torn"} = {}) =>
    \E w \in won : w.remove = "yes" \/ (w.remove = "default" /\ w.trigger = "oneShot")

\* store.rs:39-89: a run the log calls running is the one the job is marked with, in
\* the file or in what a call is about to save, so that the expiry finds it and
\* closes it - also after a kill.  The exception are runs whose start was logged
\* (runner.rs:115) and not saved, since the save failed or the kill came between.
RunningIsMarked ==
  excuses = {} => \A r \in Runs \ unsaved :
    log[r].status = "running" =>
      \/ file # Torn /\ file.running = r
      \/ \E p \in Procs : \E i \in DOMAIN saves[p] : saves[p][i].running = r
=============================================================================
