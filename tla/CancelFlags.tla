------------------------------ MODULE CancelFlags ------------------------------
(***************************************************************************)
(* What cancelling a session promises, without generations: a cancel flags *)
(* the run that started last, a starting run finds no flag, a turn stops   *)
(* exactly when it is flagged itself, a manual run when any run is.        *)
(* SessionRuntime implements this with two integers per session.           *)
(***************************************************************************)
CONSTANTS
  Turns,   \* runs that stop on their own flag
  Manuals  \* runs that stop on anybody's

VARIABLES
  status,   \* of each run, as in SessionRuntime
  newest,   \* the set holding the run that started last
  flagged   \* the runs a cancel has hit and no later start has spared

vars == <<status, newest, flagged>>

Runs == Turns \cup Manuals

Init ==
  /\ status = [r \in Runs |-> "idle"]
  /\ newest = {}
  /\ flagged = {}

\* Every step of a run changes its status alone, except that a start makes it
\* the newest one.
Goto(r, from, to) ==
  /\ status[r] = from
  /\ status' = [status EXCEPT ![r] = to]

Start(r) ==
  /\ Goto(r, "idle", "running")
  /\ newest' = {r}
  /\ flagged' = {}

Cancel ==
  /\ flagged' = newest
  /\ UNCHANGED <<status, newest>>

MustStop(r) == IF r \in Turns THEN r \in flagged ELSE flagged # {}

Stop(r) ==
  /\ MustStop(r)
  /\ Goto(r, "running", "cancelled")
  /\ UNCHANGED <<newest, flagged>>

GoOn(r) ==
  /\ ~MustStop(r)
  /\ Goto(r, "running", "finishing")
  /\ UNCHANGED <<newest, flagged>>

Finish(r) ==
  /\ Goto(r, "finishing", "done")
  /\ UNCHANGED <<newest, flagged>>

Next ==
  \/ Cancel
  \/ \E r \in Runs : Start(r) \/ Stop(r) \/ GoOn(r) \/ Finish(r)

Spec == Init /\ [][Next]_vars
=============================================================================
