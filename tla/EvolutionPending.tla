--------------------------- MODULE EvolutionPending ---------------------------
(***************************************************************************)
(* The store of pending evolution proposals of an agent (crates/core/src/  *)
(* evolution: store.rs, pending_api.rs): reviews add proposals; the host   *)
(* lists them, rejects one, or applies one, action after action.           *)
(*                                                                         *)
(* Every operation loads the file, marks as expired what is past its time, *)
(* changes its copy and saves that.  The file is replaced by a rename, so  *)
(* it is never torn, but no lock is held from the load to the save, an     *)
(* apply awaits its actions in between, and a save that fails is ignored.  *)
(***************************************************************************)
EXTENDS Integers, FiniteSets

CONSTANTS
  Proposals,   \* proposals the reviews may make, each with an id of its own
  Procs,       \* host threads and review tasks
  Actions,     \* number of actions of a proposal (aggregated_actions)
  MaxCalls     \* bound: operations begun

ASSUME PendingAssumption ==
  /\ Actions \in Nat \ {0}
  /\ MaxCalls \in Nat

VARIABLES
  file,       \* pending.json: the status of each proposal, or "absent"
  late,       \* proposals whose expires_at has passed
  made,       \* proposals a review has made
  pc,         \* of each process: "idle", "apply", "save"
  held,       \* of each process: the store it has loaded and changed
  target,     \* of each process in "apply": its proposal
  done,       \* of each process in "apply": actions applied by this call
  applied,    \* history: how often each action of a proposal was applied
  calls,      \* bounded operations begun
  disturbed   \* history: "overlap" of two calls, "kill" amid one, lost "save"

pendingVars == <<file, late, made, pc, held, target, done, applied, calls, disturbed>>

Handled == {"rejected", "expired", "executed"}      \* PendingStatus
ProposalStatuses == {"absent", "pending"} \cup Handled
NoProposal == "none"

-----------------------------------------------------------------------------
(* store.rs *)

\* refresh_expired
Refresh(store) ==
  [q \in Proposals |-> IF q \in late /\ store[q] = "pending" THEN "expired" ELSE store[q]]

\* What load_pending_store and refresh_expired give an operation.
Loaded == Refresh(file)

PendingInit ==
  /\ file = [q \in Proposals |-> "absent"]
  /\ late = {} /\ made = {}
  /\ pc = [p \in Procs |-> "idle"]
  /\ held = [p \in Procs |-> file]
  /\ target = [p \in Procs |-> NoProposal]
  /\ done = [p \in Procs |-> 0]
  /\ applied = [q \in Proposals |-> [i \in 1 .. Actions |-> 0]]
  /\ calls = 0
  /\ disturbed = {}

\* A call begins: it has loaded the store and will save s.
Begin(p, s, next) ==
  /\ pc[p] = "idle" /\ calls < MaxCalls
  /\ pc' = [pc EXCEPT ![p] = next]
  /\ held' = [held EXCEPT ![p] = s]
  /\ calls' = calls + 1
  /\ disturbed' = disturbed \cup {"overlap" : r \in {r \in Procs : pc[r] # "idle"}}
  /\ UNCHANGED <<file, late, applied>>

\* persist_pending_confirmations: fresh ids are pushed as pending.
Persist(p) ==
  \E Q \in SUBSET (Proposals \ made) :
    /\ Q # {}
    /\ Begin(p, [q \in Proposals |-> IF q \in Q THEN "pending" ELSE Loaded[q]], "save")
    /\ made' = made \cup Q
    /\ UNCHANGED <<target, done>>

\* The save that ends an operation.
Save(p) ==
  /\ pc[p] = "save"
  /\ file' = held[p]
  /\ pc' = [pc EXCEPT ![p] = "idle"]
  /\ UNCHANGED <<late, made, held, target, done, applied, calls, disturbed>>

\* save_pending_store fails; the operations ignore its error.
SaveFails(p) ==
  /\ pc[p] = "save"
  /\ pc' = [pc EXCEPT ![p] = "idle"]
  /\ disturbed' = disturbed \cup {"save"}
  /\ UNCHANGED <<file, late, made, held, target, done, applied, calls>>

-----------------------------------------------------------------------------
(* pending_api.rs *)

\* list_pending_evolution
ListPending(p) == Begin(p, Loaded, "save") /\ UNCHANGED <<made, target, done>>

\* Mutant: what is handled already is rejected too.
RejectHandled(p) ==
  \E q \in Proposals :
    /\ Begin(p, [Loaded EXCEPT ![q] = IF @ = "absent" THEN @ ELSE "rejected"], "save")
    /\ UNCHANGED <<made, target, done>>

\* reject_pending_evolution
Reject(p) ==
  \E q \in Proposals :
    /\ Begin(p, [Loaded EXCEPT ![q] = IF @ = "pending" THEN "rejected" ELSE @], "save")
    /\ UNCHANGED <<made, target, done>>

\* apply_pending_evolution up to its first action: a proposal that is not
\* pending is already handled, or not found.
Apply(p) ==
  \E q \in Proposals :
    /\ Begin(p, Loaded, IF Loaded[q] = "pending" THEN "apply" ELSE "save")
    /\ target' = [target EXCEPT ![p] = q]
    /\ done' = [done EXCEPT ![p] = 0]
    /\ UNCHANGED made

\* apply_mobile_action succeeds; after the last action the proposal is executed.
ActionDone(p) ==
  LET q == target[p]
      n == done[p] + 1
  IN /\ pc[p] = "apply"
     /\ applied' = [applied EXCEPT ![q][n] = @ + 1]
     /\ done' = [done EXCEPT ![p] = n]
     /\ IF n = Actions
        THEN /\ held' = [held EXCEPT ![p][q] = "executed"]
             /\ pc' = [pc EXCEPT ![p] = "save"]
        ELSE UNCHANGED <<held, pc>>
     /\ UNCHANGED <<file, late, made, target, calls, disturbed>>

\* Mutant: a failure leaves the proposal pending whatever was applied.
ActionFailedPending(p) ==
  /\ pc[p] = "apply"
  /\ pc' = [pc EXCEPT ![p] = "save"]
  /\ UNCHANGED <<file, late, made, held, target, done, applied, calls, disturbed>>

\* Mutant: a failure handles the proposal whatever was applied.
ActionFailedHandled(p) ==
  /\ pc[p] = "apply"
  /\ held' = [held EXCEPT ![p][target[p]] = "executed"]
  /\ pc' = [pc EXCEPT ![p] = "save"]
  /\ UNCHANGED <<file, late, made, target, done, applied, calls, disturbed>>

\* Mutant: the action that failed is skipped and the next one tried.
ActionFailedSkip(p) ==
  /\ pc[p] = "apply" /\ done[p] + 1 < Actions
  /\ done' = [done EXCEPT ![p] = @ + 1]
  /\ UNCHANGED <<file, late, made, pc, held, target, applied, calls, disturbed>>

\* apply_mobile_action fails: the rest is not tried, and the proposal counts as
\* executed if some action had been applied.
ActionFailed(p) ==
  /\ pc[p] = "apply"
  /\ held' = IF done[p] > 0 THEN [held EXCEPT ![p][target[p]] = "executed"] ELSE held
  /\ pc' = [pc EXCEPT ![p] = "save"]
  /\ UNCHANGED <<file, late, made, target, done, applied, calls, disturbed>>

-----------------------------------------------------------------------------
(* Environment *)

\* The expires_at of a proposal passes.
Expire ==
  /\ \E q \in made \ late : late' = late \cup {q}
  /\ UNCHANGED <<file, made, pc, held, target, done, applied, calls, disturbed>>

\* The process is killed amid an operation and started again.
ProcessKilled ==
  /\ \E p \in Procs : pc[p] # "idle"
  /\ pc' = [p \in Procs |-> "idle"]
  /\ disturbed' = disturbed \cup {"kill"}
  /\ UNCHANGED <<file, late, made, held, target, done, applied, calls>>

PendingNext ==
  \/ \E p \in Procs :
       \/ Persist(p) \/ ListPending(p) \/ Reject(p) \/ Apply(p)
       \/ ActionDone(p) \/ ActionFailed(p)
       \/ Save(p) \/ SaveFails(p)
  \/ Expire
  \/ ProcessKilled

PendingSpec == PendingInit /\ [][PendingNext]_pendingVars

-----------------------------------------------------------------------------
(* Properties *)

\* Each variable has its type, and a call never counts more actions than there
\* are (the loop of apply_pending_evolution).
PendingTypeOK ==
  /\ file \in [Proposals -> ProposalStatuses]
  /\ late \subseteq made /\ made \subseteq Proposals
  /\ pc \in [Procs -> {"idle", "apply", "save"}]
  /\ held \in [Procs -> [Proposals -> ProposalStatuses]]
  /\ target \in [Procs -> Proposals \cup {NoProposal}]
  /\ done \in [Procs -> 0 .. Actions]
  /\ \A p \in Procs : pc[p] = "apply" => done[p] < Actions
  /\ applied \in [Proposals -> [1 .. Actions -> Nat]]
  /\ calls \in 0 .. MaxCalls
  /\ disturbed \subseteq {"overlap", "kill", "save"}

\* While calls do not overlap, nothing is killed amid one and every save
\* succeeds, no action of a proposal is applied twice: not after a partial
\* failure either, although the host may apply the proposal again.
AppliedOnce ==
  disturbed = {} => \A q \in Proposals, i \in 1 .. Actions : applied[q][i] <= 1

\* Whatever overlaps, fails or is killed, a proposal the store calls executed
\* has had its first action applied: an apply that achieved nothing leaves the
\* proposal to be tried again.
ExecutedWasApplied ==
  \A q \in Proposals : file[q] = "executed" => applied[q][1] > 0

\* Whatever overlaps, fails or is killed, an action was applied no more often
\* than the one before it: actions build on each other (create a skill, then
\* patch it), so a failure ends the apply.
AppliedInOrder ==
  \A q \in Proposals, i, j \in 1 .. Actions : i < j => applied[q][i] >= applied[q][j]

\* Undisturbed like AppliedOnce, what the user rejected or let expire has left
\* no trace in the workspace: a partly applied proposal cannot be refused.
RefusedUntouched ==
  disturbed = {} =>
    \A q \in Proposals, i \in 1 .. Actions :
      file[q] \in {"rejected", "expired"} => applied[q][i] = 0

\* pending_api.rs:148-207: the actions of a proposal reach the workspace in their
\* order and, undisturbed, once, however its applies fail and are repeated.
AppliedAsProposed == AppliedOnce /\ AppliedInOrder

\* pending_api.rs:82-207: what the store says became of a proposal is what did.
StatusIsTrue == ExecutedWasApplied /\ RefusedUntouched

=============================================================================
