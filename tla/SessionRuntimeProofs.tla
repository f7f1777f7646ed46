------------------------- MODULE SessionRuntimeProofs -------------------------
(***************************************************************************)
(* For every set of runs: a turn stops only on a cancel aimed at it, a      *)
(* manual run never on one older than itself, and a cancel of the newest    *)
(* run stays visible to it.                                                 *)
(*                                                                          *)
(* The argument: fewer than GenSpace runs start, so the generation counts   *)
(* the runs begun and never wraps (CountInv); hence generations are         *)
(* distinct and the newest run holds the current one (NewestInv); a mark    *)
(* always is the current generation and its cancel hit the newest run       *)
(* (MarkInv).                                                               *)
(***************************************************************************)
EXTENDS SessionRuntime, FiniteSetTheorems, TLAPS

Begun == {r \in Runs : status[r] # "idle"}

CountInv ==
  /\ current = Cardinality(Begun)
  /\ \A r \in Begun : gen[r] >= 1 /\ gen[r] <= current

NewestInv ==
  /\ newest \subseteq Begun
  /\ \A r \in newest : gen[r] = current
  /\ newest = {} => current = 0

MarkInv ==
  /\ aimed \subseteq Begun
  /\ cancelled # NoGen => cancelled = current /\ newest \subseteq aimed
  /\ newest \cap aimed # {} => cancelled = current

IInv ==
  /\ TypeOK
  /\ CountInv
  /\ NewestInv
  /\ MarkInv
  /\ GenerationsDistinct
  /\ NoForeignCancel
  /\ NoStaleCancel

\* While a run has yet to start, the next generation does not wrap.
LEMMA NextGeneration ==
  ASSUME TypeOK, CountInv, NEW r \in Runs, status[r] = "idle"
  PROVE  /\ (current + 1) % GenSpace = current + 1
         /\ Cardinality(Begun \cup {r}) = current + 1
         /\ current + 1 \in Generations
         /\ current \in Nat
<1>1. IsFiniteSet(Begun)
  BY RunAssumption, FS_Subset, Begun \subseteq Runs DEF Begun
<1>2. r \notin Begun
  BY DEF Begun
<1>3. Cardinality(Begun \cup {r}) = current + 1
  BY <1>1, <1>2, FS_AddElement DEF CountInv
<1>4. Cardinality(Begun \cup {r}) <= Cardinality(Runs)
  BY RunAssumption, FS_Subset, Begun \cup {r} \subseteq Runs DEF Begun
<1>5. Cardinality(Runs) \in Nat /\ current \in Nat /\ GenSpace \in Nat \ {0}
  BY RunAssumption, FS_CardinalityType DEF TypeOK, Generations
<1>6. current + 1 < GenSpace
  BY <1>3, <1>4, <1>5, RunAssumption
<1>7. (current + 1) % GenSpace = current + 1
  BY <1>5, <1>6
<1> QED BY <1>3, <1>5, <1>6, <1>7 DEF Generations

LEMMA InitInv == Init => IInv
<1> SUFFICES ASSUME Init PROVE IInv
  OBVIOUS
<1>1. Begun = {}
  BY DEF Init, Begun
<1>2. TypeOK
  BY RunAssumption DEF Init, TypeOK, Generations, Statuses
<1>3. CountInv
  BY <1>1, FS_EmptySet DEF Init, CountInv
<1>4. NewestInv /\ MarkInv
  BY DEF Init, NewestInv, MarkInv
<1>5. GenerationsDistinct /\ NoForeignCancel /\ NoStaleCancel
  BY DEF Init, GenerationsDistinct, NoForeignCancel, NoStaleCancel, Runs
<1> QED BY <1>2, <1>3, <1>4, <1>5 DEF IInv

LEMMA StartInv ==
  ASSUME IInv, NEW r \in Runs, Start(r)
  PROVE  IInv'
<1> USE DEF IInv
<1>1. /\ current' = current + 1
      /\ cancelled' = NoGen
      /\ gen' = [gen EXCEPT ![r] = current + 1]
      /\ status' = [status EXCEPT ![r] = "running"]
      /\ newest' = {r}
      /\ aimed' = aimed
      /\ status[r] = "idle"
      /\ current \in Nat
  BY NextGeneration DEF Start, StartNewGeneration
<1>2. Begun' = Begun \cup {r}
  BY <1>1 DEF Begun, TypeOK
<1>3. r \notin Begun
  BY <1>1 DEF Begun
<1>4. TypeOK'
  BY <1>1, NextGeneration DEF TypeOK, Statuses
<1>5. CountInv'
  <2>1. current' = Cardinality(Begun')
    BY <1>1, <1>2, NextGeneration
  <2>2. \A s \in Begun' : gen'[s] >= 1 /\ gen'[s] <= current'
    <3> SUFFICES ASSUME NEW s \in Begun' PROVE gen'[s] >= 1 /\ gen'[s] <= current'
      OBVIOUS
    <3>1. CASE s = r
      BY <1>1, <3>1 DEF TypeOK
    <3>2. CASE s # r
      <4>1. s \in Begun /\ s \in Runs
        BY <1>2, <3>2 DEF Begun
      <4>2. gen'[s] = gen[s] /\ gen[s] \in Nat
        BY <1>1, <3>2, <4>1, RunAssumption DEF TypeOK, Generations
      <4> QED BY <1>1, <4>1, <4>2 DEF CountInv
    <3> QED BY <3>1, <3>2
  <2> QED BY <2>1, <2>2 DEF CountInv
<1>6. NewestInv'
  BY <1>1, <1>2 DEF NewestInv, TypeOK
<1>7. MarkInv'
  BY <1>1, <1>2, <1>3 DEF MarkInv
<1>8. GenerationsDistinct'
  <2> SUFFICES ASSUME NEW s \in Runs, NEW u \in Runs,
                      status'[s] # "idle", status'[u] # "idle", gen'[s] = gen'[u]
               PROVE  s = u
    BY DEF GenerationsDistinct
  <2>1. \A x \in Runs : x # r /\ status'[x] # "idle" =>
           gen'[x] = gen[x] /\ status[x] # "idle" /\ gen[x] \in Nat /\ gen[x] <= current
    BY <1>1, RunAssumption DEF TypeOK, Generations, CountInv, Begun
  <2>2. gen'[r] = current + 1
    BY <1>1 DEF TypeOK
  <2> QED BY <1>1, <2>1, <2>2 DEF GenerationsDistinct
<1>9. NoForeignCancel'
  BY <1>1 DEF NoForeignCancel, TypeOK, Runs
<1>10. NoStaleCancel'
  <2> SUFFICES ASSUME NEW m \in Manuals, status'[m] = "cancelled"
               PROVE  \E s \in aimed' : gen'[s] >= gen'[m]
    BY DEF NoStaleCancel
  <2>1. m # r /\ status[m] = "cancelled" /\ gen'[m] = gen[m]
    BY <1>1 DEF TypeOK, Runs
  <2>2. PICK s \in aimed : gen[s] >= gen[m]
    BY <2>1 DEF NoStaleCancel
  <2>3. s # r /\ s \in Runs
    BY <1>3 DEF MarkInv, Begun
  <2> QED BY <1>1, <2>1, <2>2, <2>3 DEF TypeOK
<1> QED BY <1>4, <1>5, <1>6, <1>7, <1>8, <1>9, <1>10

LEMMA CancelInv ==
  ASSUME IInv, Cancel
  PROVE  IInv'
<1> USE DEF IInv, Cancel
<1>1. Begun' = Begun
  BY DEF Begun
<1>2. TypeOK'
  BY DEF TypeOK
<1>3. CountInv' /\ NewestInv' /\ MarkInv'
  BY <1>1 DEF CountInv, NewestInv, MarkInv
<1>4. GenerationsDistinct' /\ NoForeignCancel'
  BY DEF GenerationsDistinct, NoForeignCancel
<1>5. NoStaleCancel'
  BY DEF NoStaleCancel
<1> QED BY <1>2, <1>3, <1>4, <1>5

\* A run whose poll answers TRUE holds a generation some aimed run reaches.
LEMMA PollHitsNewest ==
  ASSUME IInv, NEW r \in Runs, status[r] = "running", Polls(r)
  PROVE  /\ r \in Turns => r \in aimed
         /\ r \in Manuals => \E s \in aimed : gen[s] >= gen[r]
<1> USE DEF IInv
<1>1. /\ gen[r] \in Nat /\ gen[r] < GenSpace /\ current \in Nat
      /\ current < GenSpace /\ GenSpace \in Nat
  BY RunAssumption DEF TypeOK, Generations
<1>2. cancelled # NoGen
  BY <1>1 DEF Polls, IsGenerationCancelled, IsCurrentGenerationCancelled, NoGen
<1>3. cancelled = current /\ newest \subseteq aimed
  BY <1>2 DEF MarkInv
<1>4. r \in Begun
  BY DEF Begun
<1>5. gen[r] >= 1 /\ gen[r] <= current
  BY <1>4 DEF CountInv
<1>6. newest # {}
  BY <1>1, <1>5 DEF NewestInv
<1>7. PICK x \in newest : gen[x] = current /\ x \in Runs /\ status[x] # "idle" /\ x \in aimed
  BY <1>3, <1>6 DEF NewestInv, Begun
<1>8. ASSUME r \in Turns PROVE r \in aimed
  <2>1. gen[r] = current
    BY <1>3, <1>8 DEF Polls, IsGenerationCancelled
  <2> QED BY <1>7, <2>1 DEF GenerationsDistinct
<1>9. \E s \in aimed : gen[s] >= gen[r]
  BY <1>1, <1>5, <1>7
<1> QED BY <1>8, <1>9

LEMMA ObserveCancelInv ==
  ASSUME IInv, NEW r \in Runs, ObserveCancel(r)
  PROVE  IInv'
<1> USE DEF IInv, ObserveCancel
<1>1. Begun' = Begun
  BY DEF Begun, TypeOK
<1>2. TypeOK'
  BY DEF TypeOK, Statuses
<1>3. CountInv' /\ NewestInv' /\ MarkInv'
  BY <1>1 DEF CountInv, NewestInv, MarkInv
<1>4. GenerationsDistinct'
  BY DEF GenerationsDistinct, TypeOK
<1>5. NoForeignCancel'
  BY PollHitsNewest DEF NoForeignCancel, TypeOK, Runs
<1>6. NoStaleCancel'
  BY PollHitsNewest DEF NoStaleCancel, TypeOK, Runs
<1> QED BY <1>2, <1>3, <1>4, <1>5, <1>6

LEMMA EndInv ==
  ASSUME IInv, NEW r \in Runs, LastPoll(r) \/ Finish(r)
  PROVE  IInv'
<1> USE DEF IInv, LastPoll, Finish
<1>1. Begun' = Begun
  BY DEF Begun, TypeOK
<1>2. TypeOK'
  BY DEF TypeOK, Statuses
<1>3. CountInv' /\ NewestInv' /\ MarkInv'
  BY <1>1 DEF CountInv, NewestInv, MarkInv
<1>4. GenerationsDistinct' /\ NoForeignCancel' /\ NoStaleCancel'
  BY DEF GenerationsDistinct, NoForeignCancel, NoStaleCancel, TypeOK, Runs
<1> QED BY <1>2, <1>3, <1>4

LEMMA StepInv == IInv /\ [Next]_vars => IInv'
<1> SUFFICES ASSUME IInv, [Next]_vars PROVE IInv'
  OBVIOUS
<1>1. CASE Cancel
  BY <1>1, CancelInv
<1>2. ASSUME NEW r \in Runs, Start(r) PROVE IInv'
  BY <1>2, StartInv
<1>3. ASSUME NEW r \in Runs, ObserveCancel(r) PROVE IInv'
  BY <1>3, ObserveCancelInv
<1>4. ASSUME NEW r \in Runs, LastPoll(r) \/ Finish(r) PROVE IInv'
  BY <1>4, EndInv
<1>5. CASE UNCHANGED vars
  BY <1>5 DEF vars, IInv, TypeOK, CountInv, NewestInv, MarkInv, Begun,
              GenerationsDistinct, NoForeignCancel, NoStaleCancel
<1> QED BY <1>1, <1>2, <1>3, <1>4, <1>5 DEF Next

\* The strengthening holds in every reachable state.
THEOREM InductiveInvariant == Spec => []IInv
<1> QED BY InitInv, StepInv, PTL DEF Spec

\* Generations, marks and run states keep their types for every set of runs
\* (session_runtime.rs:24-31).
THEOREM TypeCorrect == Spec => []TypeOK
<1>1. IInv => TypeOK
  BY DEF IInv
<1> QED BY <1>1, InductiveInvariant, PTL

\* A cancel issued against one turn is never observed by another
\* (session_runtime.rs:17-23, docs/module-turn.md:119).
THEOREM ForeignCancelNeverSeen == Spec => []NoForeignCancel
<1>1. IInv => NoForeignCancel
  BY DEF IInv
<1> QED BY <1>1, InductiveInvariant, PTL

\* clear_session_cancellation drops whatever was pending: a manual run never
\* stops on a cancel older than itself (session_runtime.rs:71-82).
THEOREM StaleCancelNeverSeen == Spec => []NoStaleCancel
<1>1. IInv => NoStaleCancel
  BY DEF IInv
<1> QED BY <1>1, InductiveInvariant, PTL

\* Of any number of runs of a session, none stops on a cancel that cannot have
\* been meant for it (session_runtime.rs:17-23).
THEOREM OwnCancelsAlways == Spec => []OnlyOwnCancels
<1>1. NoForeignCancel /\ NoStaleCancel => OnlyOwnCancels
  BY DEF OnlyOwnCancels
<1> QED BY <1>1, ForeignCancelNeverSeen, StaleCancelNeverSeen, PTL

\* start_new_generation gives every run of a session a generation of its own.
THEOREM EveryGenerationDistinct == Spec => []GenerationsDistinct
<1>1. IInv => GenerationsDistinct
  BY DEF IInv
<1> QED BY <1>1, InductiveInvariant, PTL

\* A cancel that hit the newest run is answered TRUE by that run's poll for
\* as long as it runs and stays the newest (session_runtime.rs:99-124).
THEOREM CancelNotConsumed == Spec => []CancelStaysVisible
<1>1. IInv => CancelStaysVisible
  BY DEF IInv, CancelStaysVisible, MarkInv, NewestInv, Polls,
         IsGenerationCancelled, IsCurrentGenerationCancelled
<1> QED BY <1>1, InductiveInvariant, PTL

(* The refinement *)

\* The flags of CancelFlags, in this module's variables.
Flagged == {r \in Runs : status[r] # "idle" /\ gen[r] = cancelled}

\* The marked generation belongs to the newest run or to none.
LEMMA FlaggedIsNewest ==
  ASSUME IInv
  PROVE  Flagged = IF cancelled = NoGen THEN {} ELSE newest
<1> USE DEF IInv, NewestInv
<1>1. \A r \in Runs : gen[r] # NoGen
  BY RunAssumption DEF TypeOK, Generations, NoGen
<1>2. CASE cancelled = NoGen
  BY <1>1, <1>2 DEF Flagged
<1>3. CASE cancelled # NoGen
  <2>1. cancelled = current
    BY <1>3 DEF MarkInv
  <2>2. newest \subseteq Flagged
    BY <2>1 DEF Flagged, Begun
  <2>3. ASSUME NEW r \in Flagged PROVE r \in newest
    <3>1. r \in Begun /\ gen[r] = current
      BY <2>1 DEF Flagged, Begun
    <3>2. current # 0
      BY <3>1 DEF CountInv, TypeOK, Generations
    <3>3. PICK n \in newest : n \in Begun /\ gen[n] = current
      BY <3>2
    <3> QED BY <3>1, <3>3 DEF GenerationsDistinct, Begun
  <2> QED BY <1>3, <2>2, <2>3
<1> QED BY <1>2, <1>3

\* What a poll answers is what the flags say.
LEMMA PollIsFlag ==
  ASSUME IInv, NEW r \in Runs, status[r] = "running"
  PROVE  Polls(r) <=> Flags!MustStop(r)
<1> USE DEF IInv
<1>1. CASE r \in Turns
  BY <1>1 DEF Polls, IsGenerationCancelled, Flags!MustStop
<1>2. CASE r \notin Turns
  <2>1. newest # {} /\ current # NoGen
    BY RunAssumption DEF NewestInv, CountInv, Begun, TypeOK, Generations, NoGen
  <2>2. cancelled = current <=> Flagged # {}
    BY <2>1, FlaggedIsNewest DEF MarkInv
  <2> QED BY <1>2, <2>2 DEF Polls, IsCurrentGenerationCancelled, Flags!MustStop, Flagged
<1> QED BY <1>1, <1>2

LEMMA FlagsInit == Init => Flags!Init
BY DEF Init, Flags!Init, Flags!Runs, Runs

LEMMA FlagsStart ==
  ASSUME IInv, IInv', NEW r \in Runs, Start(r)
  PROVE  Flags!Start(r)
<1>1. cancelled' = NoGen
  BY DEF Start, StartNewGeneration
<1>2. Flagged' = {}
  BY <1>1, RunAssumption DEF Flagged, IInv, TypeOK, Generations, NoGen
<1> QED BY <1>2 DEF Start, Flags!Start, Flags!Goto, Flagged

LEMMA FlagsCancel ==
  ASSUME IInv, IInv', Cancel
  PROVE  Flags!Cancel
<1>1. cancelled' # NoGen
  BY RunAssumption DEF Cancel, IInv, TypeOK, Generations, NoGen
<1>2. Flagged' = newest'
  <2>1. newest' = newest /\ current' = current /\ gen' = gen /\ status' = status
    BY DEF Cancel
  <2>2. \A r \in newest : r \in Flagged'
    BY <2>1 DEF Flagged, Cancel, IInv, NewestInv, Begun
  <2>3. ASSUME NEW r \in Runs, status[r] # "idle", gen[r] = current PROVE r \in newest
    <3>1. current # 0
      BY <2>3 DEF IInv, CountInv, Begun, TypeOK, Generations
    <3>2. PICK n \in newest : n \in Begun /\ gen[n] = current
      BY <3>1 DEF IInv, NewestInv
    <3> QED BY <2>3, <3>2 DEF IInv, GenerationsDistinct, Begun
  <2> QED BY <2>1, <2>2, <2>3 DEF Flagged, Cancel
<1> QED BY <1>2 DEF Cancel, Flags!Cancel, Flagged

\* Every other step keeps the mark and moves one run that has begun.
LEMMA FlagsEnd ==
  ASSUME IInv, NEW r \in Runs, ObserveCancel(r) \/ LastPoll(r) \/ Finish(r)
  PROVE  Flags!Stop(r) \/ Flags!GoOn(r) \/ Flags!Finish(r)
<1>1. Flagged' = Flagged /\ newest' = newest
  BY DEF ObserveCancel, LastPoll, Finish, Flagged, IInv, TypeOK
<1>2. CASE ObserveCancel(r)
  BY <1>1, <1>2, PollIsFlag DEF ObserveCancel, Flags!Stop, Flags!Goto, Flagged
<1>3. CASE LastPoll(r)
  BY <1>1, <1>3, PollIsFlag DEF LastPoll, Flags!GoOn, Flags!Goto, Flagged
<1>4. CASE Finish(r)
  BY <1>1, <1>4 DEF Finish, Flags!Finish, Flags!Goto, Flagged
<1> QED BY <1>2, <1>3, <1>4

LEMMA FlagsStep == IInv /\ IInv' /\ [Next]_vars => [Flags!Next]_(Flags!vars)
<1> SUFFICES ASSUME IInv, IInv', [Next]_vars PROVE [Flags!Next]_(Flags!vars)
  OBVIOUS
<1>1. CASE Cancel
  BY <1>1, FlagsCancel DEF Flags!Next
<1>2. ASSUME NEW r \in Runs, Start(r) PROVE Flags!Next
  BY <1>2, FlagsStart DEF Flags!Next, Flags!Runs, Runs
<1>3. ASSUME NEW r \in Runs, ObserveCancel(r) \/ LastPoll(r) \/ Finish(r)
      PROVE  Flags!Next
  BY <1>3, FlagsEnd DEF Flags!Next, Flags!Runs, Runs
<1>4. CASE UNCHANGED vars
  BY <1>4 DEF vars, Flags!vars
<1> QED BY <1>1, <1>2, <1>3, <1>4 DEF Next

\* For every number of runs the two integers of SessionCancelState behave like
\* one flag per run (session_runtime.rs:17-31).
THEOREM GenerationsAreFlags == Spec => ImplementsFlags
<1>1. Init /\ [][Next]_vars /\ []IInv => Flags!Spec
  BY FlagsInit, FlagsStep, PTL DEF Flags!Spec
<1>2. Spec => Flags!Spec
  BY <1>1, InductiveInvariant, PTL DEF Spec
<1> QED BY <1>2 DEF ImplementsFlags
=============================================================================
