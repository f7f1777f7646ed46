---------------------------- MODULE SessionRuntime ----------------------------
(***************************************************************************)
(* Cancellation bookkeeping of one session                                 *)
(* (crates/core/src/runtime/session_runtime.rs).                           *)
(*                                                                         *)
(* An engine holds one entry per session key under one mutex; the entries  *)
(* are independent, so one entry is modelled and every mutex section is    *)
(* one action.  Two kinds of run use it:                                   *)
(*  - a turn (streaming chat) keeps the generation begin_turn gave it and  *)
(*    asks whether THAT generation is cancelled;                           *)
(*  - a manual run (agents, automation, a2a, group) calls                  *)
(*    clear_session_cancellation and later asks whether the CURRENT        *)
(*    generation is cancelled.                                             *)
(* Runs of one session may overlap: nothing in the engine serialises them. *)
(***************************************************************************)
EXTENDS Naturals, FiniteSets

CONSTANTS
  Turns,     \* turn-style runs
  Manuals,   \* manual-style runs
  GenSpace   \* number of generations before wrapping_add returns to 0 (2^64)

Runs == Turns \cup Manuals
Generations == 0 .. GenSpace - 1
NoGen == GenSpace               \* cancelled_generation: None

\* A generation number is reused only after 2^64 runs of one session; fewer
\* than that are ever started during the life of an engine.
ASSUME RunAssumption ==
  /\ IsFiniteSet(Runs)
  /\ Turns \cap Manuals = {}
  /\ GenSpace \in Nat \ {0}
  /\ Cardinality(Runs) < GenSpace

VARIABLES
  current,     \* SessionCancelState.current_generation
  cancelled,   \* SessionCancelState.cancelled_generation, NoGen for None
  status,      \* of each run: "idle", "running", "cancelled", "finishing", "done"
  gen,         \* the generation start_new_generation returned to the run
  newest,      \* history: the set holding the run that started last
  aimed        \* history: runs that were newest when a cancel took the lock

vars == <<current, cancelled, status, gen, newest, aimed>>

Init ==
  /\ current = 0
  /\ cancelled = NoGen
  /\ status = [r \in Runs |-> "idle"]
  /\ gen = [r \in Runs |-> 0]
  /\ newest = {}
  /\ aimed = {}

-----------------------------------------------------------------------------
\* Mutants: the membership-set model (nothing bumped, nothing dropped), and a
\* clear_session_cancellation that only drops the cancel.
StartWithoutGeneration(r) ==
  /\ gen' = [gen EXCEPT ![r] = current]
  /\ UNCHANGED <<current, cancelled>>

StartBumpsTurnsOnly(r) ==
  /\ current' = IF r \in Turns THEN (current + 1) % GenSpace ELSE current
  /\ cancelled' = NoGen
  /\ gen' = [gen EXCEPT ![r] = current']

\* start_new_generation: bump, drop whatever cancel was pending, return.
StartNewGeneration(r) ==
  /\ current' = (current + 1) % GenSpace
  /\ cancelled' = NoGen
  /\ gen' = [gen EXCEPT ![r] = current']

\* begin_turn and clear_session_cancellation at the start of a run.
Start(r) ==
  /\ status[r] = "idle"
  /\ StartNewGeneration(r)
  /\ status' = [status EXCEPT ![r] = "running"]
  /\ newest' = {r}
  /\ UNCHANGED aimed

\* Mutant: the mark is put on the generation after the current one.
CancelNextGeneration ==
  /\ cancelled' = current + 1
  /\ aimed' = aimed \cup newest
  /\ UNCHANGED <<current, status, gen, newest>>

\* cancel_session_key: mark the generation that is current under the lock.
\* It may arrive at any time, also before any run and after the last one.
Cancel ==
  /\ cancelled' = current
  /\ aimed' = aimed \cup newest
  /\ UNCHANGED <<current, status, gen, newest>>

IsGenerationCancelled(r) == cancelled = gen[r]
IsCurrentGenerationCancelled == cancelled = current

\* What the cancel closure of a run answers.
Polls(r) == IF r \in Turns THEN IsGenerationCancelled(r)
                           ELSE IsCurrentGenerationCancelled

\* Mutant: observing the cancel consumes it.
ObserveAndConsume(r) ==
  /\ status[r] = "running"
  /\ Polls(r)
  /\ status' = [status EXCEPT ![r] = "cancelled"]
  /\ cancelled' = NoGen
  /\ UNCHANGED <<current, gen, newest, aimed>>

\* A run that polls TRUE stops; one that polls FALSE goes on unchanged.
ObserveCancel(r) ==
  /\ status[r] = "running"
  /\ Polls(r)
  /\ status' = [status EXCEPT ![r] = "cancelled"]
  /\ UNCHANGED <<current, cancelled, gen, newest, aimed>>

\* The last poll of a run that reaches its natural end answered FALSE; a
\* cancel may still take the lock between that poll and the end.
LastPoll(r) ==
  /\ status[r] = "running"
  /\ ~Polls(r)
  /\ status' = [status EXCEPT ![r] = "finishing"]
  /\ UNCHANGED <<current, cancelled, gen, newest, aimed>>

Finish(r) ==
  /\ status[r] = "finishing"
  /\ status' = [status EXCEPT ![r] = "done"]
  /\ UNCHANGED <<current, cancelled, gen, newest, aimed>>

Next ==
  \/ Cancel
  \/ \E r \in Runs : Start(r) \/ ObserveCancel(r) \/ LastPoll(r) \/ Finish(r)

\* Every run polls its closure over and over (once per tool-loop iteration
\* and every 100 ms while a tool runs).
Fairness == \A r \in Runs : WF_vars(ObserveCancel(r))

Spec == Init /\ [][Next]_vars /\ Fairness

-----------------------------------------------------------------------------
Statuses == {"idle", "running", "cancelled", "finishing", "done"}

TypeOK ==
  /\ current \in Generations
  /\ cancelled \in Generations \cup {NoGen}
  /\ status \in [Runs -> Statuses]
  /\ gen \in [Runs -> Generations]
  /\ newest \in SUBSET Runs
  /\ aimed \in SUBSET Runs

\* docs/module-turn.md, "a cancel issued against turn N can never be observed
\* by turn N+1": a turn stops only if some cancel took the lock while that turn
\* was the newest run, whatever other runs started or were cancelled meanwhile.
NoForeignCancel == \A t \in Turns : status[t] = "cancelled" => t \in aimed

\* A manual run stops only on a cancel that took the lock after it started,
\* although the generation it polls is not its own.
NoStaleCancel ==
  \A m \in Manuals : status[m] = "cancelled" =>
    \E r \in aimed : gen[r] >= gen[m]

\* Together: whatever runs start and are cancelled around it, a run stops only on
\* a cancel that could have been meant for it (session_runtime.rs:17-23).
OnlyOwnCancels == NoForeignCancel /\ NoStaleCancel

\* A cancel that hits the newest run stays visible to it until a later run
\* starts: no finishing run, no second cancel and no poll consumes it.
CancelStaysVisible ==
  \A r \in newest \cap aimed : status[r] = "running" => Polls(r)

\* No two runs of a session hold one generation, so a turn that begins while
\* another still runs cannot share its cancel.
GenerationsDistinct ==
  \A r, s \in Runs :
    status[r] # "idle" /\ status[s] # "idle" /\ gen[r] = gen[s] => r = s

\* A cancel of the newest run makes it stop, unless a later run of the same
\* session starts first and wipes the mark.
CancelledRunStops ==
  \A r \in Runs :
    (r \in aimed /\ r \in newest) ~> (status[r] # "running" \/ r \notin newest)

\* The generations stand for flags on runs: the mark flags whoever holds the
\* marked generation.
Flags == INSTANCE CancelFlags
           WITH flagged <- {r \in Runs : status[r] # "idle" /\ gen[r] = cancelled}

\* Refinement: in every order of starts, cancels and polls the two integers of
\* SessionCancelState behave like one flag per run, which a cancel sets on the
\* newest run only and a start takes off every other (session_runtime.rs:17-31).
ImplementsFlags == Flags!Spec
=============================================================================
