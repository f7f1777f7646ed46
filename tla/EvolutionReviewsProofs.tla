------------------------ MODULE EvolutionReviewsProofs ------------------------
(***************************************************************************)
(* Proofs about the evolution service.  EvolutionReviews, for every set of *)
(* turn ends and of runs: its types, that each type has at most one review *)
(* at work, which the set of reviews in flight knows, that records and     *)
(* counts tell the truth.  EvolutionPending, at the end: that proposals    *)
(* are applied in order and once, and that the store knows what became of  *)
(* each.                                                                   *)
(***************************************************************************)
EXTENDS EvolutionReviews, EvolutionPending, FiniteSetTheorems, TLAPS

-----------------------------------------------------------------------------
(* Type correctness *)

\* What load_run_store gives is a set of records.
LEMMA RefreshedType == TypeOK => Refreshed \in Records
  BY DEF TypeOK, Refreshed, Records, Statuses, Open

\* The state of a turn end that goes on to its second type, or ends, is one.
LEMMA FollowingType ==
  ASSUME NEW rec \in EndStates
  PROVE  /\ Following(rec) \in EndStates
         /\ Following(rec).pc \in {"idle", "count"}
         /\ Following(rec).run = "none"
<1>1. First \in Types
  BY EvolutionReviewsAssumption
<1>2. (CHOOSE y \in Types : y # First) \in Types
  <2>1. \E y \in Types : y # First
    <3>1. SUFFICES ASSUME \A y \in Types : y = First PROVE FALSE
      OBVIOUS
    <3>2. Types = {First}
      BY <1>1, <3>1
    <3>3. Cardinality({First}) = 1
      BY FS_Singleton
    <3> QED
      BY <3>2, <3>3, EvolutionReviewsAssumption
  <2> QED
    BY <2>1
<1>3. Idle \in EndStates
  BY <1>1 DEF Idle, At, EndStates, NoCounts
<1> QED
  BY <1>2, <1>3 DEF Following, Idle, At, EndStates, NoCounts

LEMMA InitType == Init => TypeOK
  BY EvolutionReviewsAssumption
     DEF Init, TypeOK, Idle, At, NoCounts, EndStates, Nothing, Records, Statuses, Copies, TaskSteps

\* What update_run_record makes of the records is a set of records.
LEMMA UpdatedType ==
  ASSUME TypeOK, NEW r \in Runs, NEW status \in Statuses
  PROVE  Updated(r, status) \in Records
  BY RefreshedType DEF Updated, Records

\* A load and a save keep the types of what they touch.
LEMMA LoadType ==
  ASSUME TypeOK, NEW a \in Actors, NEW s \in Records, Load(a, s)
  PROVE  copy' \in [Actors -> Copies] /\ excuses' \subseteq {"ends", "records", "kill"}
<1>1. copy' \in [Actors -> Copies]
  BY DEF Load, TypeOK, Copies
<1>2. excuses' \subseteq {"ends", "records", "kill"}
  BY DEF Load, TypeOK
<1> QED
  BY <1>1, <1>2

LEMMA SaveType ==
  ASSUME TypeOK, NEW a \in Actors, SaveRecords(a), copy[a] # <<>>
  PROVE  copy' \in [Actors -> Copies] /\ runs' \in Records
<1>1. PICK s \in Records : copy[a] = <<s>>
  BY DEF TypeOK, Copies
<1> QED
  BY <1>1 DEF SaveRecords, TypeOK, Copies

\* The states a turn end is put in are states.
LEMMA AtType ==
  ASSUME NEW y \in Types, NEW c \in [Types -> Nat], NEW r \in Runs \cup {"none"},
         NEW p \in {"idle", "count", "guard", "save", "clear", "queue", "spawn"}
  PROVE  /\ At(p, y, c, r) \in EndStates
         /\ At(p, y, c, r).pc = p /\ At(p, y, c, r).run = r /\ At(p, y, c, r).type = y
  BY DEF At, EndStates

\* A step of one turn end that is not at spawning afterwards.
LEMMA EndChange ==
  ASSUME TypeOK, NEW e \in Ends, NEW s \in EndStates, s.pc # "spawn", s.run \notin Runs,
         end' = [end EXCEPT ![e] = s], \A d \in Ends : d # e => copy'[d] = copy[d]
  PROVE  /\ end' \in [Ends -> EndStates]
         /\ \A d \in Ends : (end[d].run \in Runs <=> end[d].pc = "spawn")'
         /\ \A d \in Ends : (end[d].pc = "spawn" => copy[d] # <<>>)'
<1>1. end' \in [Ends -> EndStates]
  BY DEF TypeOK
<1>2. \A d \in Ends : end'[d] = IF d = e THEN s ELSE end[d]
  BY DEF TypeOK
<1> QED
  BY <1>1, <1>2 DEF TypeOK

\* Every step keeps the types: one case per action.
LEMMA NextType == TypeOK /\ [Next]_vars => TypeOK'
<1> SUFFICES ASSUME TypeOK, [Next]_vars
             PROVE  TypeOK'
  OBVIOUS
<1> USE EvolutionReviewsAssumption DEF Actors
<1>1. ASSUME NEW e \in Ends, TurnEnds(e) PROVE TypeOK'
  <2> DEFINE s == At("count", First, NoCounts, "none")
  <2>1. s \in EndStates /\ s.pc # "spawn" /\ s.run \notin Runs
    BY AtType DEF NoCounts
  <2>4. end' = [end EXCEPT ![e] = s] /\ UNCHANGED copy
    BY <1>1 DEF TurnEnds
  <2> HIDE DEF s
  <2>2. turns' \in 0 .. MaxTurns
    <3>1. MaxTurns \in Nat /\ turns \in 0 .. MaxTurns
      BY DEF TypeOK
    <3> QED
      BY <1>1, <3>1 DEF TurnEnds
  <2>3. /\ \A d \in Ends : (end[d].run \in Runs <=> end[d].pc = "spawn")'
        /\ \A d \in Ends : (end[d].pc = "spawn" => copy[d] # <<>>)'
        /\ end' \in [Ends -> EndStates]
    BY <2>1, <2>4, EndChange
  <2> QED
    BY <1>1, <2>2, <2>3 DEF TurnEnds, TypeOK
<1>2. ASSUME NEW e \in Ends, Count(e) PROVE TypeOK'
  <2>1. PICK n \in Nat :
          IF n = 0
          THEN end' = [end EXCEPT ![e] = Following(@)] /\ UNCHANGED <<since, excuses>>
          ELSE LET y == end[e].type
                   c == [counts EXCEPT ![y] = @ + n]
                   step == IF c[y] < Interval THEN "save" ELSE "guard" IN
               /\ end' = [end EXCEPT ![e] = At(step, y, c, "none")]
               /\ since' = [since EXCEPT ![y] = @ + n]
               /\ excuses' = excuses \cup
                    {"ends" : d \in {d \in Ends : end[d].pc \in {"guard", "save", "clear"}}}
    BY <1>2 DEF Count
  <2>2. since' \in [Types -> Nat] /\ excuses' \subseteq {"ends", "records", "kill"}
    <3>1. end[e].type \in Types
      BY DEF TypeOK, EndStates
    <3>2. since' = since \/ since' = [since EXCEPT ![end[e].type] = @ + n]
      BY <2>1
    <3>3. excuses' = excuses \/ excuses' \subseteq excuses \cup {"ends"}
      BY <2>1
    <3>4. since' \in [Types -> Nat]
      BY <3>1, <3>2 DEF TypeOK
    <3>5. excuses' \subseteq {"ends", "records", "kill"}
      BY <3>3 DEF TypeOK
    <3> QED
      BY <3>4, <3>5
  <2>3. \E s \in EndStates :
          s.pc # "spawn" /\ s.run \notin Runs /\ end' = [end EXCEPT ![e] = s]
    <3>1. CASE n = 0
      <4>1. end' = [end EXCEPT ![e] = Following(end[e])]
        BY <2>1, <3>1 DEF TypeOK
      <4> QED
        BY <4>1, FollowingType, EvolutionReviewsAssumption DEF TypeOK
    <3>2. CASE n # 0
      <4> DEFINE y == end[e].type
                 c == [counts EXCEPT ![y] = @ + n]
                 step == IF c[y] < Interval THEN "save" ELSE "guard"
                 s == At(step, y, c, "none")
      <4>1. y \in Types /\ c \in [Types -> Nat]
        BY DEF TypeOK, EndStates
      <4>2. step \in {"save", "guard"}
        OBVIOUS
      <4>3. end' = [end EXCEPT ![e] = s]
        BY <2>1, <3>2
      <4> HIDE DEF c, step, y
      <4>4. s \in EndStates /\ s.pc # "spawn" /\ s.run \notin Runs
        BY <4>1, <4>2, AtType
      <4> QED
        BY <4>3, <4>4
    <3> QED
      BY <3>1, <3>2
  <2>4. UNCHANGED copy
    BY <1>2 DEF Count
  <2> QED
    BY <1>2, <2>2, <2>3, <2>4, EndChange DEF Count, TypeOK
<1>3. ASSUME NEW e \in Ends, Guard(e) PROVE TypeOK'
  <2>1. PICK p \in {"save", "clear"} : end' = [end EXCEPT ![e].pc = p]
    BY <1>3 DEF Guard
  <2> DEFINE s == [end[e] EXCEPT !.pc = p]
  <2>2. s \in EndStates /\ s.pc # "spawn" /\ s.run \notin Runs
    <3>1. end[e] \in EndStates /\ end[e].run \notin Runs
      BY <1>3 DEF Guard, TypeOK
    <3> QED
      BY <3>1 DEF EndStates
  <2>3. end' = [end EXCEPT ![e] = s] /\ UNCHANGED copy
    BY <1>3, <2>1 DEF Guard, TypeOK
  <2>4. inFlight' \subseteq Types
    BY <1>3 DEF Guard, TypeOK, EndStates
  <2> HIDE DEF s
  <2> QED
    BY <1>3, <2>2, <2>3, <2>4, EndChange DEF Guard, TypeOK
<1>4. ASSUME NEW e \in Ends, SaveCounts(e) PROVE TypeOK'
  <2>1. end' = [end EXCEPT ![e] = Following(end[e])] /\ UNCHANGED copy
    BY <1>4 DEF SaveCounts, TypeOK
  <2>2. counts' \in [Types -> Nat]
    BY <1>4 DEF SaveCounts, TypeOK, EndStates
  <2>3. LET s == Following(end[e]) IN s \in EndStates /\ s.pc # "spawn" /\ s.run \notin Runs
    BY FollowingType DEF TypeOK
  <2> QED
    BY <1>4, <2>1, <2>2, <2>3, EndChange DEF SaveCounts, TypeOK
<1>5. ASSUME NEW e \in Ends, ClearCount(e) PROVE TypeOK'
  <2> DEFINE s == At("queue", end[e].type, NoCounts, "none")
  <2>1. NoCounts \in [Types -> Nat]
    BY DEF NoCounts
  <2>2. s \in EndStates /\ s.pc # "spawn" /\ s.run \notin Runs
    <3>1. end[e].type \in Types
      BY DEF TypeOK, EndStates
    <3> QED
      BY <2>1, <3>1, AtType
  <2>3. end' = [end EXCEPT ![e] = s] /\ UNCHANGED copy
    BY <1>5 DEF ClearCount
  <2>4. counts' \in [Types -> Nat] /\ since' \in [Types -> Nat]
    BY <1>5 DEF ClearCount, TypeOK, EndStates
  <2> HIDE DEF s
  <2> QED
    BY <1>5, <2>2, <2>3, <2>4, EndChange DEF ClearCount, TypeOK
<1>6. ASSUME NEW e \in Ends, Queue(e) PROVE TypeOK'
  <2>1. PICK r \in Runs :
          /\ end' = [end EXCEPT ![e] = At("spawn", @.type, NoCounts, r)]
          /\ kind' = [kind EXCEPT ![r] = end[e].type]
          /\ Load(e, [Refreshed EXCEPT ![r] = "queued"])
    BY <1>6 DEF Queue
  <2>2. [Refreshed EXCEPT ![r] = "queued"] \in Records
    BY RefreshedType DEF Records, Statuses, Open
  <2>3. copy' \in [Actors -> Copies] /\ excuses' \subseteq {"ends", "records", "kill"}
    BY <2>1, <2>2, LoadType
  <2> DEFINE s == At("spawn", end[e].type, NoCounts, r)
  <2>4. s \in EndStates /\ s.pc = "spawn" /\ s.run = r
    <3>1. end[e].type \in Types
      BY DEF TypeOK, EndStates
    <3>2. NoCounts \in [Types -> Nat]
      BY DEF NoCounts
    <3> QED
      BY <3>1, <3>2, AtType
  <2>5. end' = [end EXCEPT ![e] = s]
    BY <2>1 DEF TypeOK
  <2>6. kind' \in [Runs -> Types]
    BY <2>1 DEF TypeOK, EndStates
  <2> HIDE DEF s
  <2>7. /\ end' \in [Ends -> EndStates]
        /\ \A d \in Ends : (end[d].run \in Runs <=> end[d].pc = "spawn")'
        /\ \A d \in Ends : (end[d].pc = "spawn" => copy[d] # <<>>)'
        /\ \A q \in Runs : (task[q] \in {"starting", "completing"} => copy[q] # <<>>)'
    BY <1>6, <2>1, <2>4, <2>5 DEF Queue, Load, TypeOK
  <2> QED
    BY <1>6, <2>3, <2>6, <2>7 DEF Queue, TypeOK
<1>7. ASSUME NEW e \in Ends, Spawn(e) PROVE TypeOK'
  <2>1. end[e].run \in Runs /\ copy[e] # <<>>
    BY <1>7 DEF Spawn, TypeOK
  <2>2. copy' \in [Actors -> Copies] /\ runs' \in Records
    BY <1>7, <2>1, SaveType DEF Spawn
  <2>3. end' \in [Ends -> EndStates] /\ task' \in [Runs -> TaskSteps]
    BY <1>7, <2>1, FollowingType DEF Spawn, TypeOK, TaskSteps
  <2>4. /\ \A d \in Ends : (end[d].run \in Runs <=> end[d].pc = "spawn")'
        /\ \A d \in Ends : (end[d].pc = "spawn" => copy[d] # <<>>)'
        /\ \A q \in Runs : (task[q] \in {"starting", "completing"} => copy[q] # <<>>)'
    BY <1>7, <2>1, FollowingType DEF Spawn, SaveRecords, TypeOK
  <2> QED
    BY <1>7, <2>2, <2>3, <2>4 DEF Spawn, TypeOK
<1>8. ASSUME NEW r \in Runs, Start(r) PROVE TypeOK'
  <2>1. Updated(r, "running") \in Records
    BY UpdatedType DEF Statuses, Open
  <2>2. copy' \in [Actors -> Copies] /\ excuses' \subseteq {"ends", "records", "kill"}
    BY <1>8, <2>1, LoadType DEF Start
  <2>3. /\ \A d \in Ends : (end[d].pc = "spawn" => copy[d] # <<>>)'
        /\ \A q \in Runs : (task[q] \in {"starting", "completing"} => copy[q] # <<>>)'
    BY <1>8 DEF Start, Step, Load, TypeOK
  <2> QED
    BY <1>8, <2>2, <2>3 DEF Start, Step, TypeOK, TaskSteps
<1>9. ASSUME NEW r \in Runs, SaveStarted(r) PROVE TypeOK'
  <2>1. copy' \in [Actors -> Copies] /\ runs' \in Records
    BY <1>9, SaveType DEF SaveStarted, Step, TypeOK
  <2>2. /\ \A d \in Ends : (end[d].pc = "spawn" => copy[d] # <<>>)'
        /\ \A q \in Runs : (task[q] \in {"starting", "completing"} => copy[q] # <<>>)'
    BY <1>9 DEF SaveStarted, Step, SaveRecords, TypeOK
  <2> QED
    BY <1>9, <2>1, <2>2 DEF SaveStarted, Step, TypeOK, TaskSteps
<1>10. ASSUME NEW r \in Runs, Complete(r) PROVE TypeOK'
  <2>1. PICK o \in {"completed", "failed"} :
          outcome' = [outcome EXCEPT ![r] = o] /\ Load(r, Updated(r, o))
    BY <1>10 DEF Complete
  <2>2. Updated(r, o) \in Records
    BY UpdatedType DEF Statuses
  <2>3. copy' \in [Actors -> Copies] /\ excuses' \subseteq {"ends", "records", "kill"}
    BY <2>1, <2>2, LoadType
  <2>4. /\ \A d \in Ends : (end[d].pc = "spawn" => copy[d] # <<>>)'
        /\ \A q \in Runs : (task[q] \in {"starting", "completing"} => copy[q] # <<>>)'
    BY <1>10, <2>1 DEF Complete, Step, Load, TypeOK
  <2> QED
    BY <1>10, <2>1, <2>3, <2>4 DEF Complete, Step, TypeOK, TaskSteps
<1>11. ASSUME NEW r \in Runs, SaveCompleted(r) PROVE TypeOK'
  <2>1. copy' \in [Actors -> Copies] /\ runs' \in Records
    BY <1>11, SaveType DEF SaveCompleted, Step, TypeOK
  <2>2. /\ \A d \in Ends : (end[d].pc = "spawn" => copy[d] # <<>>)'
        /\ \A q \in Runs : (task[q] \in {"starting", "completing"} => copy[q] # <<>>)'
    BY <1>11 DEF SaveCompleted, Step, SaveRecords, TypeOK
  <2> QED
    BY <1>11, <2>1, <2>2 DEF SaveCompleted, Step, TypeOK, TaskSteps
<1>12. ASSUME NEW r \in Runs, Release(r) PROVE TypeOK'
  BY <1>12 DEF Release, Step, TypeOK, TaskSteps
<1>13. ASSUME NEW r \in Runs, Age(r) PROVE TypeOK'
  BY <1>13 DEF Age, TypeOK
<1>14. CASE List
  <2>1. copy' \in [Actors -> Copies] /\ excuses' \subseteq {"ends", "records", "kill"}
    BY <1>14, LoadType, RefreshedType DEF List, Host
  <2>2. /\ \A d \in Ends : (end[d].pc = "spawn" => copy[d] # <<>>)'
        /\ \A q \in Runs : (task[q] \in {"starting", "completing"} => copy[q] # <<>>)'
    BY <1>14 DEF List, Load, TypeOK, Host
  <2> QED
    BY <1>14, <2>1, <2>2 DEF List, TypeOK
<1>15. CASE SaveList
  <2>1. copy' \in [Actors -> Copies] /\ runs' \in Records
    BY <1>15, SaveType DEF SaveList, Host
  <2>2. /\ \A d \in Ends : (end[d].pc = "spawn" => copy[d] # <<>>)'
        /\ \A q \in Runs : (task[q] \in {"starting", "completing"} => copy[q] # <<>>)'
    BY <1>15 DEF SaveList, SaveRecords, TypeOK, Host
  <2> QED
    BY <1>15, <2>1, <2>2 DEF SaveList, TypeOK
<1>16. CASE Kill
  BY <1>16 DEF Kill, TypeOK, EndStates, Idle, At, NoCounts, TaskSteps, Copies
<1>17. CASE UNCHANGED vars
  BY <1>17 DEF vars, TypeOK
<1> QED
  BY <1>1, <1>2, <1>3, <1>4, <1>5, <1>6, <1>7, <1>8, <1>9, <1>10, <1>11, <1>12, <1>13,
     <1>14, <1>15, <1>16, <1>17
     DEF Next, EndStep, TaskStep

\* TypeOK of every behaviour: the shapes the state of queue.rs and store.rs can
\* have, and that nobody saves records it has not loaded.
THEOREM TypeCorrect == Spec => []TypeOK
<1>1. Init => TypeOK
  BY InitType
<1>2. TypeOK /\ [Next]_vars => TypeOK'
  BY NextType
<1> QED
  BY <1>1, <1>2, PTL DEF Spec

-----------------------------------------------------------------------------
(* One review of a type at a time *)

\* Nobody else is at work on the type of a review.
Exclusive == \A y \in Types : \A a, b \in Busy(y) : a = b

\* The run a turn end is about to spawn is its own, fresh, and of its type.
Handed ==
  \A e \in Ends : end[e].pc = "spawn" =>
    /\ kind[end[e].run] = end[e].type
    /\ task[end[e].run] = "none"
    /\ \A d \in Ends : end[d].run = end[e].run => d = e

WorkInv == TypeOK /\ GuardMatches /\ Exclusive /\ Handed

LEMMA WorkInit == Init => WorkInv
<1> SUFFICES ASSUME Init PROVE WorkInv
  OBVIOUS
<1>1. TypeOK
  BY InitType
<1>2. \A y \in Types : Busy(y) = {}
  BY DEF Init, Busy, Idle, At
<1>3. inFlight = {} /\ \A e \in Ends : end[e].pc = "idle"
  BY DEF Init, Idle, At
<1> QED
  BY <1>1, <1>2, <1>3 DEF WorkInv, GuardMatches, Exclusive, Handed

\* A step that changes neither who is at work nor the set in flight.
LEMMA SameWork ==
  ASSUME WorkInv, UNCHANGED inFlight, \A y \in Types : Busy(y)' = Busy(y)
  PROVE  GuardMatches' /\ Exclusive'
  BY DEF WorkInv, GuardMatches, Exclusive

\* Every step keeps the invariant: one case per action that touches it.
LEMMA WorkNext == WorkInv /\ [Next]_vars => WorkInv'
<1> SUFFICES ASSUME WorkInv, [Next]_vars
             PROVE  WorkInv'
  OBVIOUS
<1> USE EvolutionReviewsAssumption
<1>0. TypeOK /\ TypeOK'
  BY NextType DEF WorkInv
<1>a. end \in [Ends -> EndStates] /\ task \in [Runs -> TaskSteps] /\ kind \in [Runs -> Types]
  BY <1>0 DEF TypeOK
<1>b. \A e \in Ends : end[e].type \in Types /\ (end[e].run \in Runs <=> end[e].pc = "spawn")
  BY <1>0 DEF TypeOK, EndStates
<1>c. \A e \in Ends : LET s == Following(end[e]) IN
        s \in EndStates /\ s.pc \notin {"clear", "queue", "spawn"} /\ s.run \notin Runs
  BY <1>a, FollowingType
<1>1. ASSUME NEW e \in Ends, NEW s \in EndStates, end' = [end EXCEPT ![e] = s],
             s.pc \notin {"clear", "queue", "spawn"}, s.run \notin Runs,
             end[e].pc \notin {"clear", "queue", "spawn"},
             UNCHANGED <<inFlight, task, kind>>
      PROVE  WorkInv'
  <2>1. \A d \in Ends : end'[d] = IF d = e THEN s ELSE end[d]
    BY <1>a, <1>1
  <2>2. \A y \in Types : Busy(y)' = Busy(y)
    BY <1>1, <2>1 DEF Busy
  <2>3. Handed'
    BY <1>b, <1>1, <2>1 DEF WorkInv, Handed
  <2> QED
    BY <1>0, <1>1, <2>2, <2>3, SameWork DEF WorkInv
<1>2. ASSUME NEW e \in Ends, TurnEnds(e) PROVE WorkInv'
  <2> DEFINE s == At("count", First, NoCounts, "none")
  <2>1. s \in EndStates /\ s.pc = "count" /\ s.run \notin Runs
    BY AtType DEF NoCounts
  <2>2. end' = [end EXCEPT ![e] = s] /\ UNCHANGED <<inFlight, task, kind>> /\ end[e].pc = "idle"
    BY <1>2 DEF TurnEnds
  <2> HIDE DEF s
  <2> QED
    BY <1>1, <2>1, <2>2
<1>3. ASSUME NEW e \in Ends, Count(e) PROVE WorkInv'
  <2>1. UNCHANGED <<inFlight, task, kind>> /\ end[e].pc = "count"
    BY <1>3 DEF Count
  <2>2. \/ end' = [end EXCEPT ![e] = Following(end[e])]
        \/ \E c, step : /\ step \in {"save", "guard"}
                        /\ end' = [end EXCEPT ![e] = At(step, end[e].type, c, "none")]
    BY <1>3 DEF Count
  <2>3. CASE end' = [end EXCEPT ![e] = Following(end[e])]
    BY <1>1, <1>c, <2>1, <2>3
  <2>4. CASE \E c, step : /\ step \in {"save", "guard"}
                          /\ end' = [end EXCEPT ![e] = At(step, end[e].type, c, "none")]
    <3>1. PICK c, step : /\ step \in {"save", "guard"}
                         /\ end' = [end EXCEPT ![e] = At(step, end[e].type, c, "none")]
      BY <2>4
    <3> DEFINE s == At(step, end[e].type, c, "none")
    <3>2. s.pc = step /\ s.run = "none" /\ end'[e] = s
      BY <1>a, <3>1 DEF At
    <3>3. s \in EndStates
      BY <1>0, <3>2 DEF TypeOK
    <3> HIDE DEF s
    <3> QED
      BY <1>1, <2>1, <3>1, <3>2, <3>3 DEF s
  <2> QED
    BY <2>2, <2>3, <2>4
<1>4. ASSUME NEW e \in Ends, SaveCounts(e) PROVE WorkInv'
  <2>1. /\ UNCHANGED <<inFlight, task, kind>> /\ end[e].pc = "save"
        /\ end' = [end EXCEPT ![e] = Following(end[e])]
    BY <1>4 DEF SaveCounts
  <2> QED
    BY <1>1, <1>c, <2>1
<1>5. ASSUME NEW e \in Ends, Guard(e), end[e].type \in inFlight PROVE WorkInv'
  <2> DEFINE s == [end[e] EXCEPT !.pc = "save"]
  <2>1. end' = [end EXCEPT ![e] = s] /\ UNCHANGED <<inFlight, task, kind>> /\ end[e].pc = "guard"
    BY <1>5, <1>a DEF Guard
  <2>2. s \in EndStates /\ s.pc = "save" /\ s.run \notin Runs
    BY <1>a, <1>b, <2>1 DEF EndStates
  <2> HIDE DEF s
  <2> QED
    BY <1>1, <2>1, <2>2
<1>6. ASSUME NEW e \in Ends, Guard(e), end[e].type \notin inFlight PROVE WorkInv'
  <2>1. /\ end[e].pc = "guard" /\ UNCHANGED <<task, kind>>
        /\ end' = [end EXCEPT ![e].pc = "clear"]
        /\ inFlight' = inFlight \cup {end[e].type}
    BY <1>6 DEF Guard
  <2>2. \A d \in Ends : d # e => end'[d] = end[d]
    BY <1>a, <2>1
  <2>3. end'[e].pc = "clear" /\ end'[e].type = end[e].type /\ end'[e].run = end[e].run
    BY <1>a, <2>1 DEF EndStates
  <2>4. \A y \in Types : Busy(y)' = IF y = end[e].type THEN Busy(y) \cup {e} ELSE Busy(y)
    BY <2>1, <2>2, <2>3 DEF Busy
  <2>5. Busy(end[e].type) = {}
    BY <1>6, <1>b DEF WorkInv, GuardMatches
  <2>6. GuardMatches' /\ Exclusive'
    BY <2>1, <2>4, <2>5 DEF WorkInv, GuardMatches, Exclusive
  <2>7. Handed'
    BY <1>b, <2>1, <2>2, <2>3 DEF WorkInv, Handed
  <2> QED
    BY <1>0, <2>6, <2>7 DEF WorkInv
<1>7. ASSUME NEW e \in Ends, ClearCount(e) PROVE WorkInv'
  <2> DEFINE s == At("queue", end[e].type, NoCounts, "none")
  <2>1. end[e].pc = "clear" /\ end' = [end EXCEPT ![e] = s] /\ UNCHANGED <<inFlight, task, kind>>
    BY <1>7 DEF ClearCount
  <2>2. s.pc = "queue" /\ s.type = end[e].type /\ s.run = "none"
    BY DEF At
  <2>3. \A d \in Ends : end'[d] = IF d = e THEN s ELSE end[d]
    BY <1>a, <2>1
  <2> HIDE DEF s
  <2>4. \A y \in Types : Busy(y)' = Busy(y)
    BY <2>1, <2>2, <2>3 DEF Busy
  <2>5. Handed'
    BY <1>b, <2>1, <2>2, <2>3 DEF WorkInv, Handed
  <2> QED
    BY <1>0, <2>1, <2>4, <2>5, SameWork DEF WorkInv
<1>8. ASSUME NEW e \in Ends, Queue(e) PROVE WorkInv'
  <2>1. PICK r \in Runs :
          /\ task[r] = "none" /\ \A d \in Ends : end[d].run # r
          /\ end' = [end EXCEPT ![e] = At("spawn", end[e].type, NoCounts, r)]
          /\ kind' = [kind EXCEPT ![r] = end[e].type]
    BY <1>8 DEF Queue
  <2>2. end[e].pc = "queue" /\ UNCHANGED <<inFlight, task>>
    BY <1>8 DEF Queue
  <2> DEFINE s == At("spawn", end[e].type, NoCounts, r)
  <2>3. s.pc = "spawn" /\ s.type = end[e].type /\ s.run = r
    BY DEF At
  <2>4. \A d \in Ends : end'[d] = IF d = e THEN s ELSE end[d]
    BY <1>a, <2>1
  <2>5. \A q \in Runs : kind'[q] = IF q = r THEN end[e].type ELSE kind[q]
    BY <1>a, <2>1
  <2> HIDE DEF s
  <2>6. \A y \in Types : Busy(y)' = Busy(y)
    BY <2>1, <2>2, <2>3, <2>4, <2>5 DEF Busy
  <2>7. Handed'
    BY <1>b, <2>1, <2>2, <2>3, <2>4, <2>5 DEF WorkInv, Handed
  <2> QED
    BY <1>0, <2>2, <2>6, <2>7, SameWork DEF WorkInv
<1>9. ASSUME NEW e \in Ends, Spawn(e) PROVE WorkInv'
  <2> DEFINE r == end[e].run
             s == Following(end[e])
  <2>1. /\ end[e].pc = "spawn" /\ UNCHANGED <<inFlight, kind>>
        /\ task' = [task EXCEPT ![r] = "spawned"]
        /\ end' = [end EXCEPT ![e] = s]
    BY <1>9 DEF Spawn
  <2>2. r \in Runs /\ task[r] = "none" /\ kind[r] = end[e].type
    BY <1>b, <2>1 DEF WorkInv, Handed
  <2>3. s.pc \in {"idle", "count"} /\ s.run = "none"
    BY <1>a, FollowingType
  <2>4. \A d \in Ends : end'[d] = IF d = e THEN s ELSE end[d]
    BY <1>a, <2>1
  <2>5. \A q \in Runs : task'[q] = IF q = r THEN "spawned" ELSE task[q]
    BY <1>a, <2>1
  <2>6. \A d \in Ends : end[d].run = r => d = e
    BY <2>1 DEF WorkInv, Handed
  <2> HIDE DEF r, s
  <2>7. \A y \in Types :
          Busy(y)' = IF y = end[e].type THEN (Busy(y) \ {e}) \cup {r} ELSE Busy(y)
    BY <1>b, <2>1, <2>2, <2>3, <2>4, <2>5 DEF Busy
  <2>8. e \in Busy(end[e].type)
    BY <1>b, <2>1 DEF Busy
  <2>9. GuardMatches' /\ Exclusive'
    BY <1>b, <2>1, <2>7, <2>8 DEF WorkInv, GuardMatches, Exclusive
  <2>10. Handed'
    BY <1>b, <2>1, <2>2, <2>3, <2>4, <2>5, <2>6 DEF WorkInv, Handed
  <2> QED
    BY <1>0, <2>9, <2>10 DEF WorkInv
<1>10. ASSUME NEW r \in Runs, NEW from \in TaskSteps \ {"none", "ended"},
              NEW to \in TaskSteps \ {"none", "ended"}, Step(r, from, to),
              UNCHANGED <<inFlight, end, kind>>
       PROVE  WorkInv'
  <2>1. \A q \in Runs : task'[q] = IF q = r THEN to ELSE task[q]
    BY <1>a, <1>10 DEF Step
  <2>2. \A y \in Types : Busy(y)' = Busy(y)
    BY <1>10, <2>1 DEF Busy, Step
  <2>3. Handed'
    BY <1>b, <1>10, <2>1 DEF WorkInv, Handed, Step
  <2> QED
    BY <1>0, <1>10, <2>2, <2>3, SameWork DEF WorkInv
<1>11. ASSUME NEW r \in Runs, Start(r) \/ SaveStarted(r) \/ Complete(r) \/ SaveCompleted(r)
       PROVE  WorkInv'
  BY <1>10, <1>11 DEF Start, SaveStarted, Complete, SaveCompleted, TaskSteps
<1>12. ASSUME NEW r \in Runs, Release(r) PROVE WorkInv'
  <2>1. /\ task[r] = "releasing" /\ UNCHANGED <<end, kind>>
        /\ inFlight' = inFlight \ {kind[r]}
    BY <1>12 DEF Release, Step
  <2>2. \A q \in Runs : task'[q] = IF q = r THEN "ended" ELSE task[q]
    BY <1>a, <1>12 DEF Release, Step
  <2>3. \A y \in Types : Busy(y)' = IF y = kind[r] THEN Busy(y) \ {r} ELSE Busy(y)
    BY <2>1, <2>2 DEF Busy
  <2>4. r \in Busy(kind[r])
    BY <2>1 DEF Busy
  <2>5. GuardMatches' /\ Exclusive'
    BY <1>a, <2>1, <2>3, <2>4 DEF WorkInv, GuardMatches, Exclusive
  <2>6. Handed'
    BY <1>b, <2>1, <2>2 DEF WorkInv, Handed
  <2> QED
    BY <1>0, <2>5, <2>6 DEF WorkInv
<1>13. CASE Kill
  <2>1. /\ inFlight' = {} /\ end' = [e \in Ends |-> Idle]
        /\ \A r \in Runs : task'[r] \in {"none", "ended"}
    BY <1>13 DEF Kill
  <2>2. \A e \in Ends : end'[e].pc = "idle"
    BY <2>1 DEF Idle, At
  <2>3. \A y \in Types : Busy(y)' = {}
    BY <2>1, <2>2 DEF Busy
  <2> QED
    BY <1>0, <2>1, <2>2, <2>3 DEF WorkInv, GuardMatches, Exclusive, Handed
<1>14. ASSUME UNCHANGED <<inFlight, end, task, kind>> PROVE WorkInv'
  <2>1. \A y \in Types : Busy(y)' = Busy(y)
    BY <1>14 DEF Busy
  <2>2. Handed'
    BY <1>14 DEF WorkInv, Handed
  <2> QED
    BY <1>0, <1>14, <2>1, <2>2, SameWork DEF WorkInv
<1>15. ASSUME (\E r \in Runs : Age(r)) \/ List \/ SaveList \/ UNCHANGED vars PROVE WorkInv'
  BY <1>14, <1>15 DEF Age, List, SaveList, vars
<1> QED
  BY <1>2, <1>3, <1>4, <1>5, <1>6, <1>7, <1>8, <1>9, <1>11, <1>12, <1>13, <1>15
     DEF Next, EndStep, TaskStep

\* GuardMatches of every behaviour: in_flight_reviews of queue.rs holds a type
\* exactly while a review of it is being queued or under way, so a refusal is
\* never for nothing and nothing but its own release lets the next one in.
THEOREM GuardMatchesAlways == Spec => []GuardMatches
<1>1. WorkInv => GuardMatches
  BY DEF WorkInv
<1> QED
  BY <1>1, WorkInit, WorkNext, PTL DEF Spec

\* OneReview of every behaviour, whatever number of turns of the thread end at
\* once: try_mark_review_in_flight keeps a second review of a type away.
THEOREM OneReviewAlways == Spec => []OneReview
<1>1. WorkInv => OneReview
  <2> SUFFICES ASSUME WorkInv, NEW y \in Types
               PROVE  Cardinality(Busy(y)) <= 1
    BY DEF OneReview
  <2>1. CASE Busy(y) = {}
    BY <2>1, FS_EmptySet
  <2>2. CASE Busy(y) # {}
    <3>1. PICK a : a \in Busy(y)
      BY <2>2
    <3>2. Busy(y) = {a}
      BY <3>1 DEF WorkInv, Exclusive
    <3> QED
      BY <3>2, FS_Singleton
  <2> QED
    BY <2>1, <2>2
<1> QED
  BY <1>1, WorkInit, WorkNext, PTL DEF Spec

\* Both together: the guard keeps the reviews of a type apart and blocks none
\* longer than the one before it takes (queue.rs:38-61).
THEOREM GuardKeepsApartAlways == Spec => []GuardKeepsApart
<1>1. GuardMatches /\ OneReview => GuardKeepsApart
  BY DEF GuardKeepsApart
<1> QED
  BY <1>1, GuardMatchesAlways, OneReviewAlways, PTL

-----------------------------------------------------------------------------
(* A record that says completed *)

\* The records s call a run completed only if its review, by outcome o, was.
Truthful(s, o) == \A r \in Runs : s[r] = "completed" => o[r] = "completed"

TruthInv ==
  /\ WorkInv
  /\ Truthful(runs, outcome)
  /\ \A a \in Actors : copy[a] # <<>> => Truthful(copy[a][1], outcome)
  /\ \A r \in Runs : outcome[r] # "none" => task[r] \in {"completing", "releasing", "ended"}

\* What is loaded is as true as the file.
LEMMA RefreshedTruthful == TypeOK /\ Truthful(runs, outcome) => Truthful(Refreshed, outcome)
  BY DEF Truthful, Refreshed, TypeOK, Records, Open

\* A load of true records, while outcomes are only added.
LEMMA LoadTruthful ==
  ASSUME TruthInv, NEW a \in Actors, NEW s \in Records, Load(a, s), UNCHANGED runs,
         Truthful(s, outcome'),
         \A r \in Runs : outcome[r] = "completed" => outcome'[r] = "completed"
  PROVE  /\ Truthful(runs', outcome')
         /\ \A b \in Actors : copy'[b] # <<>> => Truthful(copy'[b][1], outcome')
<1>1. \A b \in Actors : copy'[b] = IF b = a THEN <<s>> ELSE copy[b]
  BY DEF Load, TruthInv, WorkInv, TypeOK
<1>2. <<s>>[1] = s
  OBVIOUS
<1>3. ASSUME NEW b \in Actors, copy'[b] # <<>> PROVE Truthful(copy'[b][1], outcome')
  <2>1. CASE b = a
    BY <1>1, <1>2, <2>1
  <2>2. CASE b # a
    BY <1>1, <1>3, <2>2 DEF TruthInv, Truthful
  <2> QED
    BY <2>1, <2>2
<1>4. Truthful(runs', outcome')
  BY DEF TruthInv, Truthful
<1> QED
  BY <1>3, <1>4

\* The save of a true copy.
LEMMA SaveTruthful ==
  ASSUME TruthInv, NEW a \in Actors, SaveRecords(a), copy[a] # <<>>, UNCHANGED outcome
  PROVE  /\ Truthful(runs', outcome')
         /\ \A b \in Actors : copy'[b] # <<>> => Truthful(copy'[b][1], outcome')
<1>1. \A b \in Actors : copy'[b] = IF b = a THEN <<>> ELSE copy[b]
  BY DEF SaveRecords, TruthInv, WorkInv, TypeOK
<1> QED
  BY <1>1 DEF SaveRecords, TruthInv

LEMMA TruthInit == Init => TruthInv
<1> SUFFICES ASSUME Init PROVE TruthInv
  OBVIOUS
<1>1. \A a \in Actors : copy[a] = <<>>
  BY DEF Init
<1> QED
  BY <1>1, WorkInit DEF Init, TruthInv, Truthful, Nothing

\* Every step keeps the records true: one case per action that touches them.
LEMMA TruthNext == TruthInv /\ [Next]_vars => TruthInv'
<1> SUFFICES ASSUME TruthInv, [Next]_vars
             PROVE  TruthInv'
  OBVIOUS
<1> USE EvolutionReviewsAssumption
<1>0. TypeOK /\ WorkInv /\ WorkInv'
  BY WorkNext DEF TruthInv, WorkInv
<1>a. task \in [Runs -> TaskSteps] /\ Runs \subseteq Actors /\ Ends \subseteq Actors /\ Host \in Actors
  BY <1>0 DEF TypeOK, Actors
<1>b. Truthful(Refreshed, outcome) /\ Refreshed \in Records
  BY <1>0, RefreshedTruthful, RefreshedType DEF TruthInv
<1>c. \A r \in Runs : outcome[r] # "none" => task[r] \in {"completing", "releasing", "ended"}
  BY DEF TruthInv
<1>1. ASSUME UNCHANGED <<runs, copy, outcome>>,
             \A r \in Runs : task[r] \in {"completing", "releasing", "ended"}
                             => task'[r] \in {"completing", "releasing", "ended"}
      PROVE  TruthInv'
  BY <1>0, <1>1 DEF TruthInv
<1>2. ASSUME NEW a \in Actors, NEW s \in Records, Load(a, s), UNCHANGED <<runs, outcome>>,
             Truthful(s, outcome),
             \A r \in Runs : task[r] \in {"completing", "releasing", "ended"}
                             => task'[r] \in {"completing", "releasing", "ended"}
      PROVE  TruthInv'
  BY <1>0, <1>2, <1>c, LoadTruthful DEF TruthInv
<1>3. ASSUME NEW a \in Actors, SaveRecords(a), copy[a] # <<>>, UNCHANGED outcome,
             \A r \in Runs : task[r] \in {"completing", "releasing", "ended"}
                             => task'[r] \in {"completing", "releasing", "ended"}
      PROVE  TruthInv'
  BY <1>0, <1>3, <1>c, SaveTruthful DEF TruthInv
<1>4. ASSUME NEW e \in Ends, TurnEnds(e) \/ Count(e) \/ Guard(e) \/ SaveCounts(e) \/ ClearCount(e)
      PROVE  TruthInv'
  BY <1>1, <1>4 DEF TurnEnds, Count, Guard, SaveCounts, ClearCount
<1>5. ASSUME NEW e \in Ends, Queue(e) PROVE TruthInv'
  <2>1. PICK r \in Runs : Load(e, [Refreshed EXCEPT ![r] = "queued"])
    BY <1>5 DEF Queue
  <2>2. PICK s \in Records : s = [Refreshed EXCEPT ![r] = "queued"]
    BY <1>b DEF Records, Statuses, Open
  <2>3. Truthful(s, outcome)
    BY <1>b, <2>2 DEF Truthful, Records
  <2> QED
    BY <1>2, <1>5, <1>a, <2>1, <2>2, <2>3 DEF Queue
<1>6. ASSUME NEW e \in Ends, Spawn(e) PROVE TruthInv'
  <2>1. copy[e] # <<>> /\ end[e].run \in Runs
    BY <1>0, <1>6 DEF Spawn, TypeOK
  <2>2. task[end[e].run] = "none"
    BY <1>0, <1>6 DEF Spawn, WorkInv, Handed
  <2>3. \A r \in Runs : task[r] # "none" => task'[r] = task[r]
    BY <1>6, <1>a, <2>1, <2>2 DEF Spawn
  <2> QED
    BY <1>3, <1>6, <1>a, <2>1, <2>3 DEF Spawn
<1>7. ASSUME NEW r \in Runs, Start(r) PROVE TruthInv'
  <2>1. PICK s \in Records : s = Updated(r, "running")
    BY <1>0, UpdatedType DEF Statuses, Open
  <2>2. Truthful(s, outcome)
    BY <1>b, <2>1 DEF Truthful, Updated, Records
  <2>3. \A q \in Runs : task[q] \in {"completing", "releasing", "ended"}
                         => task'[q] \in {"completing", "releasing", "ended"}
    BY <1>7, <1>a DEF Start, Step
  <2> QED
    BY <1>2, <1>7, <1>a, <2>1, <2>2, <2>3 DEF Start
<1>8. ASSUME NEW r \in Runs, SaveStarted(r) \/ SaveCompleted(r) PROVE TruthInv'
  <2>1. copy[r] # <<>> /\ SaveRecords(r) /\ UNCHANGED outcome
    BY <1>0, <1>8 DEF SaveStarted, SaveCompleted, Step, TypeOK
  <2>2. \A q \in Runs : task[q] \in {"completing", "releasing", "ended"}
                         => task'[q] \in {"completing", "releasing", "ended"}
    BY <1>8, <1>a DEF SaveStarted, SaveCompleted, Step
  <2> QED
    BY <1>3, <1>a, <2>1, <2>2
<1>9. ASSUME NEW r \in Runs, Complete(r) PROVE TruthInv'
  <2>1. PICK o \in {"completed", "failed"} :
          outcome' = [outcome EXCEPT ![r] = o] /\ Load(r, Updated(r, o))
    BY <1>9 DEF Complete
  <2>2. PICK s \in Records : s = Updated(r, o)
    BY <1>0, UpdatedType DEF Statuses
  <2>3. outcome[r] = "none"
    BY <1>9, <1>c DEF Complete, Step
  <2>4. \A q \in Runs : outcome'[q] = IF q = r THEN o ELSE outcome[q]
    BY <1>0, <2>1 DEF TypeOK
  <2>5. Truthful(s, outcome')
    BY <1>b, <2>2, <2>3, <2>4 DEF Truthful, Updated, Records
  <2>6. /\ Truthful(runs', outcome')
        /\ \A b \in Actors : copy'[b] # <<>> => Truthful(copy'[b][1], outcome')
    BY <1>9, <1>a, <2>1, <2>2, <2>3, <2>4, <2>5, LoadTruthful DEF Complete
  <2>7. \A q \in Runs : outcome'[q] # "none" => task'[q] \in {"completing", "releasing", "ended"}
    BY <1>9, <1>a, <1>c, <2>4 DEF Complete, Step
  <2> QED
    BY <1>0, <2>6, <2>7 DEF TruthInv
<1>10. ASSUME NEW r \in Runs, Release(r) \/ Age(r) PROVE TruthInv'
  <2>1. UNCHANGED <<runs, copy, outcome>>
    BY <1>10 DEF Release, Age
  <2>2. \A q \in Runs : task[q] \in {"completing", "releasing", "ended"}
                         => task'[q] \in {"completing", "releasing", "ended"}
    BY <1>10, <1>a DEF Release, Step, Age
  <2> QED
    BY <1>1, <2>1, <2>2
<1>11. CASE List
  <2>1. PICK s \in Records : s = Refreshed
    BY <1>b
  <2> QED
    BY <1>2, <1>11, <1>a, <1>b, <2>1 DEF List
<1>12. CASE SaveList
  BY <1>3, <1>12, <1>a DEF SaveList
<1>13. CASE Kill
  <2>1. \A a \in Actors : copy'[a] = <<>>
    BY <1>13 DEF Kill
  <2>2. \A q \in Runs : task[q] \in {"completing", "releasing", "ended"} => task'[q] = "ended"
    BY <1>13 DEF Kill
  <2> QED
    BY <1>0, <1>13, <1>c, <2>1, <2>2 DEF Kill, TruthInv
<1>14. CASE UNCHANGED vars
  BY <1>1, <1>14 DEF vars
<1> QED
  BY <1>4, <1>5, <1>6, <1>7, <1>8, <1>9, <1>10, <1>11, <1>12, <1>13, <1>14
     DEF Next, EndStep, TaskStep

\* CompletedIsTrue of every behaviour: however loads and saves of runs.json by
\* mark_run_completed, the listings and other tasks overlap, and after a kill,
\* a review that failed or never ended is not shown as completed.
THEOREM CompletedIsTrueAlways == Spec => []CompletedIsTrue
<1>1. TruthInv => CompletedIsTrue
  BY DEF TruthInv, Truthful, CompletedIsTrue
<1> QED
  BY <1>1, TruthInit, TruthNext, PTL DEF Spec

-----------------------------------------------------------------------------
(* The record of a review that has ended *)

\* The records s have every task that was spawned, and how it ended if it has.
Kept(s) ==
  \A r \in Runs :
    /\ task[r] # "none" => s[r] # "absent"
    /\ task[r] \in {"releasing", "ended"} => s[r] = outcome[r]

\* As long as no two accesses to the records overlap, one actor has a copy, the
\* file and the copy are kept, and the copy has what its actor adds to it.
RecordInv ==
  excuses \subseteq {"ends"} =>
    /\ \A a, b \in Actors : copy[a] # <<>> /\ copy[b] # <<>> => a = b
    /\ Kept(runs)
    /\ \A a \in Actors : copy[a] # <<>> => Kept(copy[a][1])
    /\ \A e \in Ends : end[e].pc = "spawn" => copy[e][1][end[e].run] # "absent"
    /\ \A r \in Runs : task[r] = "completing" => copy[r][1][r] = outcome[r]
    /\ \A r \in Runs : task[r] \in {"completing", "releasing", "ended"} =>
         outcome[r] \in {"completed", "failed"}

\* A load that spoils nothing is the only one, and adds a copy to the file.
LEMMA OnlyLoad ==
  ASSUME TypeOK, NEW a \in Actors, NEW s \in Records, Load(a, s),
         excuses' \subseteq {"ends"}
  PROVE  /\ excuses \subseteq {"ends"}
         /\ \A b \in Actors : copy[b] = <<>>
         /\ copy'[a] = <<s>> /\ copy'[a][1] = s
         /\ \A b \in Actors : copy'[b] # <<>> => b = a
<1>1. Writing = {} /\ excuses \subseteq {"ends"}
  BY DEF Load
<1>2. \A b \in Actors : copy[b] = <<>>
  BY <1>1 DEF Writing
<1>3. \A b \in Actors : copy'[b] = IF b = a THEN <<s>> ELSE copy[b]
  BY DEF Load, TypeOK
<1>4. <<s>>[1] = s
  OBVIOUS
<1> QED
  BY <1>1, <1>2, <1>3, <1>4

\* Refreshing what is kept keeps it: a review that has ended is not open.
LEMMA RefreshedKept ==
  ASSUME TypeOK, RecordInv, excuses \subseteq {"ends"}
  PROVE  Kept(Refreshed)
<1>1. /\ Kept(runs)
      /\ \A r \in Runs : task[r] \in {"releasing", "ended"} =>
           outcome[r] \in {"completed", "failed"}
  BY DEF RecordInv
<1>2. \A r \in Runs : Refreshed[r] = runs[r] \/ (runs[r] \in Open /\ Refreshed[r] = "failed")
  BY DEF Refreshed
<1> QED
  BY <1>1, <1>2 DEF Kept, Open

LEMMA RecordInit == Init => RecordInv
BY DEF Init, RecordInv, Kept, Idle, At

LEMMA RecordNext == TruthInv /\ RecordInv /\ [Next]_vars => RecordInv'
<1> SUFFICES ASSUME TruthInv, RecordInv, [Next]_vars, excuses' \subseteq {"ends"}
             PROVE  RecordInv'
  BY DEF RecordInv
<1> USE EvolutionReviewsAssumption
<1>0. TypeOK /\ WorkInv
  BY DEF TruthInv, WorkInv
<1>a. /\ task \in [Runs -> TaskSteps] /\ end \in [Ends -> EndStates]
      /\ Runs \subseteq Actors /\ Ends \subseteq Actors /\ Host \in Actors
  BY <1>0 DEF TypeOK, Actors
<1>b. /\ \A e \in Ends : end[e].pc = "spawn" => copy[e] # <<>> /\ end[e].run \in Runs
      /\ \A r \in Runs : task[r] \in {"starting", "completing"} => copy[r] # <<>>
  BY <1>0 DEF TypeOK
\* Neither the records nor what is said of them changes.
<1>1. ASSUME UNCHANGED <<runs, copy, outcome>>, excuses \subseteq {"ends"},
             \A e \in Ends : end'[e].pc = "spawn" => end'[e] = end[e],
             \A r \in Runs : task'[r] = task[r] \/ (task[r] = "releasing" /\ task'[r] = "ended")
      PROVE  RecordInv'
  BY <1>1 DEF RecordInv, Kept
\* A save: the copy becomes the file.
<1>2. ASSUME NEW a \in Actors, SaveRecords(a), copy[a] # <<>>, UNCHANGED <<outcome>>,
             excuses \subseteq {"ends"},
             \A e \in Ends : end'[e].pc = "spawn" => end'[e] = end[e] /\ e # a,
             \A r \in Runs :
               \/ task'[r] = task[r] /\ task[r] # "completing"
               \/ task'[r] = task[r] /\ r # a
               \/ task[r] = "none" /\ task'[r] = "spawned" /\ copy[a][1][r] # "absent"
               \/ task[r] = "starting" /\ task'[r] = "reviewing"
               \/ task[r] = "completing" /\ task'[r] = "releasing" /\ r = a
      PROVE  RecordInv'
  <2>1. \A b \in Actors : copy'[b] = <<>>
    BY <1>0, <1>2 DEF SaveRecords, TypeOK, RecordInv
  <2>2. runs' = copy[a][1]
    BY <1>2 DEF SaveRecords
  <2>3. \A e \in Ends : end[e].pc = "spawn" => e = a
    BY <1>2, <1>a, <1>b DEF RecordInv
  <2>4. \A r \in Runs : task[r] = "completing" => r = a
    BY <1>2, <1>a, <1>b DEF RecordInv
  <2>5. Kept(copy[a][1])
    BY <1>2 DEF RecordInv
  <2>6. \A r \in Runs : task'[r] # "none" => runs'[r] # "absent"
    BY <1>2, <2>2, <2>5 DEF Kept
  <2>7. \A r \in Runs : task'[r] \in {"releasing", "ended"} =>
          runs'[r] = outcome'[r] /\ outcome'[r] \in {"completed", "failed"}
    BY <1>2, <2>2, <2>5 DEF Kept, RecordInv
  <2>8. \A r \in Runs : task'[r] # "completing"
    BY <1>2, <2>4
  <2> QED
    BY <1>2, <2>1, <2>3, <2>6, <2>7, <2>8 DEF RecordInv, Kept
<1>3. ASSUME NEW e \in Ends, TurnEnds(e) \/ Count(e) \/ Guard(e) \/ SaveCounts(e) \/ ClearCount(e)
      PROVE  RecordInv'
  <2>1. UNCHANGED <<runs, copy, outcome, task>> /\ excuses \subseteq excuses'
    BY <1>3 DEF TurnEnds, Count, Guard, SaveCounts, ClearCount
  <2>2. \A d \in Ends : d # e => end'[d] = end[d]
    BY <1>3, <1>a DEF TurnEnds, Count, Guard, SaveCounts, ClearCount
  <2>3. end'[e].pc # "spawn"
    <3>1. CASE TurnEnds(e)
      BY <3>1, <1>a DEF TurnEnds, At
    <3>2. CASE Count(e)
      <4>1. \/ end' = [end EXCEPT ![e] = Following(end[e])]
            \/ \E step \in {"save", "guard"} : \E c :
                 end' = [end EXCEPT ![e] = At(step, end[e].type, c, "none")]
        BY <3>2 DEF Count
      <4> QED
        BY <4>1, <1>a, FollowingType DEF At
    <3>3. CASE Guard(e)
      BY <3>3, <1>a DEF Guard, EndStates
    <3>4. CASE SaveCounts(e)
      BY <3>4, <1>a, FollowingType DEF SaveCounts
    <3>5. CASE ClearCount(e)
      BY <3>5, <1>a DEF ClearCount, At
    <3> QED
      BY <1>3, <3>1, <3>2, <3>3, <3>4, <3>5
  <2> QED
    BY <1>1, <2>1, <2>2, <2>3
<1>4. ASSUME NEW e \in Ends, Queue(e) PROVE RecordInv'
  <2>1. PICK r \in Runs :
          /\ task[r] = "none"
          /\ end' = [end EXCEPT ![e] = At("spawn", end[e].type, NoCounts, r)]
          /\ Load(e, [Refreshed EXCEPT ![r] = "queued"])
    BY <1>4 DEF Queue
  <2>2. PICK s \in Records : s = [Refreshed EXCEPT ![r] = "queued"]
    BY <1>0, RefreshedType DEF Records, Statuses, Open
  <2>3. /\ excuses \subseteq {"ends"} /\ \A b \in Actors : copy[b] = <<>>
        /\ copy'[e] = <<s>> /\ copy'[e][1] = s /\ \A b \in Actors : copy'[b] # <<>> => b = e
    BY <1>0, <1>a, <2>1, <2>2, OnlyLoad
  <2>4. Kept(s) /\ s[r] = "queued"
    BY <1>0, <2>1, <2>2, <2>3, RefreshedKept, RefreshedType DEF Kept, Records
  <2>5. end'[e].pc = "spawn" /\ end'[e].run = r
    BY <1>a, <2>1 DEF At
  <2>6. \A d \in Ends : d # e => end'[d].pc # "spawn"
    BY <1>a, <1>b, <2>1, <2>3
  <2>7. \A q \in Runs : task[q] # "completing"
    BY <1>a, <1>b, <2>3
  <2> QED
    BY <1>4, <2>3, <2>4, <2>5, <2>6, <2>7 DEF Queue, RecordInv, Kept
<1>5. ASSUME NEW e \in Ends, Spawn(e) PROVE RecordInv'
  <2>1. /\ end[e].pc = "spawn" /\ copy[e] # <<>> /\ end[e].run \in Runs
        /\ excuses \subseteq {"ends"} /\ SaveRecords(e) /\ UNCHANGED outcome
    BY <1>5, <1>b DEF Spawn
  <2>2. task[end[e].run] = "none" /\ copy[e][1][end[e].run] # "absent"
    BY <1>0, <2>1 DEF WorkInv, Handed, RecordInv
  <2>3. \A d \in Ends : end'[d] = IF d = e THEN Following(end[e]) ELSE end[d]
    BY <1>5, <1>a DEF Spawn
  <2>4. Following(end[e]).pc # "spawn"
    BY <1>a, FollowingType
  <2>5. \A r \in Runs : task'[r] = IF r = end[e].run THEN "spawned" ELSE task[r]
    BY <1>5, <1>a, <2>1 DEF Spawn
  <2>6. \A r \in Runs : r # e
    OBVIOUS
  <2> QED
    BY <1>2, <1>a, <2>1, <2>2, <2>3, <2>4, <2>5, <2>6
<1>6. ASSUME NEW r \in Runs, Start(r) PROVE RecordInv'
  <2>1. PICK s \in Records : s = Updated(r, "running")
    BY <1>0, UpdatedType DEF Statuses, Open
  <2>2. /\ excuses \subseteq {"ends"} /\ \A b \in Actors : copy[b] = <<>>
        /\ copy'[r] = <<s>> /\ copy'[r][1] = s /\ \A b \in Actors : copy'[b] # <<>> => b = r
    BY <1>0, <1>6, <1>a, <2>1, OnlyLoad DEF Start
  <2>3. \A q \in Runs : task'[q] = IF q = r THEN "starting" ELSE task[q]
    BY <1>6, <1>a DEF Start, Step
  <2>4. task[r] = "spawned" /\ UNCHANGED <<runs, end, outcome>>
    BY <1>6 DEF Start, Step
  <2>5. Kept(Refreshed) /\ Kept(runs)
    BY <1>0, <2>2, RefreshedKept DEF RecordInv
  <2>6. \A q \in Runs : s[q] = IF q = r /\ Refreshed[r] # "absent" THEN "running" ELSE Refreshed[q]
    BY <1>0, <2>1, RefreshedType DEF Updated, Records
  <2>7. Kept(s)' /\ Kept(runs)'
    BY <2>3, <2>4, <2>5, <2>6 DEF Kept
  <2>8. \A e \in Ends : end[e].pc # "spawn"
    BY <1>a, <1>b, <2>2
  <2>9. \A q \in Runs : task'[q] # "completing"
    BY <1>a, <1>b, <2>2, <2>3
  <2>10. \A q \in Runs : task'[q] \in {"releasing", "ended"} => outcome'[q] \in {"completed", "failed"}
    BY <2>2, <2>3, <2>4 DEF RecordInv
  <2>11. \A b \in Actors : copy'[b] # <<>> => Kept(copy[b][1])'
    BY <2>2, <2>7 DEF Kept
  <2> QED
    BY <2>2, <2>4, <2>7, <2>8, <2>9, <2>10, <2>11 DEF RecordInv
<1>7. ASSUME NEW r \in Runs, SaveStarted(r) \/ SaveCompleted(r) PROVE RecordInv'
  <2>1. /\ copy[r] # <<>> /\ SaveRecords(r) /\ UNCHANGED <<outcome, end>>
        /\ excuses \subseteq {"ends"}
    BY <1>7, <1>b DEF SaveStarted, SaveCompleted, Step
  <2>2. \A q \in Runs : q # r => task'[q] = task[q]
    BY <1>7, <1>a DEF SaveStarted, SaveCompleted, Step
  <2>3. \/ task[r] = "starting" /\ task'[r] = "reviewing"
        \/ task[r] = "completing" /\ task'[r] = "releasing"
    BY <1>7, <1>a DEF SaveStarted, SaveCompleted, Step
  <2>4. \A e \in Ends : e # r
    OBVIOUS
  <2> QED
    BY <1>2, <1>a, <2>1, <2>2, <2>3, <2>4
<1>8. ASSUME NEW r \in Runs, Complete(r) PROVE RecordInv'
  <2>1. PICK o \in {"completed", "failed"} :
          outcome' = [outcome EXCEPT ![r] = o] /\ Load(r, Updated(r, o))
    BY <1>8 DEF Complete
  <2>2. PICK s \in Records : s = Updated(r, o)
    BY <1>0, UpdatedType DEF Statuses
  <2>3. /\ excuses \subseteq {"ends"} /\ \A b \in Actors : copy[b] = <<>>
        /\ copy'[r] = <<s>> /\ copy'[r][1] = s /\ \A b \in Actors : copy'[b] # <<>> => b = r
    BY <1>0, <1>a, <2>1, <2>2, OnlyLoad
  <2>4. \A q \in Runs : task'[q] = IF q = r THEN "completing" ELSE task[q]
    BY <1>8, <1>a DEF Complete, Step
  <2>5. \A q \in Runs : outcome'[q] = IF q = r THEN o ELSE outcome[q]
    BY <1>0, <2>1 DEF TypeOK
  <2>6. task[r] = "reviewing" /\ UNCHANGED <<runs, end>>
    BY <1>8 DEF Complete, Step
  <2>7. Kept(Refreshed) /\ Kept(runs)
    BY <1>0, <2>3, RefreshedKept DEF RecordInv
  <2>8. Refreshed[r] # "absent"
    BY <2>6, <2>7 DEF Kept
  <2>9. \A q \in Runs : s[q] = IF q = r THEN o ELSE Refreshed[q]
    BY <1>0, <2>2, <2>8, RefreshedType DEF Updated, Records
  <2>10. Kept(s)' /\ Kept(runs)'
    BY <2>4, <2>5, <2>6, <2>7, <2>9 DEF Kept
  <2>11. \A e \in Ends : end[e].pc # "spawn"
    BY <1>a, <1>b, <2>3
  <2>12. \A q \in Runs : task'[q] = "completing" => q = r
    BY <1>a, <1>b, <2>3, <2>4
  <2>13. \A q \in Runs : task'[q] \in {"completing", "releasing", "ended"} =>
           outcome'[q] \in {"completed", "failed"}
    BY <2>3, <2>4, <2>5 DEF RecordInv
  <2>14. \A b \in Actors : copy'[b] # <<>> => Kept(copy[b][1])'
    BY <2>3, <2>10 DEF Kept
  <2>15. copy'[r][1][r] = outcome'[r]
    BY <2>3, <2>5, <2>9
  <2> QED
    BY <2>3, <2>6, <2>10, <2>11, <2>12, <2>13, <2>14, <2>15 DEF RecordInv
<1>9. ASSUME NEW r \in Runs, Release(r) \/ Age(r) PROVE RecordInv'
  <2>1. UNCHANGED <<runs, copy, outcome, end, excuses>>
    BY <1>9 DEF Release, Age
  <2>2. \A q \in Runs : task'[q] = task[q] \/ (task[q] = "releasing" /\ task'[q] = "ended")
    BY <1>9, <1>a DEF Release, Step, Age
  <2> QED
    BY <1>1, <2>1, <2>2
<1>10. CASE List
  <2>1. PICK s \in Records : s = Refreshed
    BY <1>0, RefreshedType
  <2>2. /\ excuses \subseteq {"ends"} /\ \A b \in Actors : copy[b] = <<>>
        /\ copy'[Host] = <<s>> /\ copy'[Host][1] = s /\ \A b \in Actors : copy'[b] # <<>> => b = Host
    BY <1>0, <1>10, <1>a, <2>1, OnlyLoad DEF List
  <2>3. UNCHANGED <<runs, outcome, end, task>>
    BY <1>10 DEF List
  <2>4. Kept(s)
    BY <1>0, <2>1, <2>2, RefreshedKept
  <2>5. \A e \in Ends : end[e].pc # "spawn"
    BY <1>a, <1>b, <2>2
  <2>6. \A q \in Runs : task[q] # "completing"
    BY <1>a, <1>b, <2>2
  <2> QED
    BY <2>2, <2>3, <2>4, <2>5, <2>6 DEF RecordInv, Kept
<1>11. CASE SaveList
  <2>1. copy[Host] # <<>> /\ SaveRecords(Host) /\ UNCHANGED <<outcome, end, task, excuses>>
    BY <1>11 DEF SaveList
  <2>2. /\ \A e \in Ends : e # Host
        /\ \A r \in Runs : r # Host
    BY DEF Host
  <2> QED
    BY <1>2, <1>a, <2>1, <2>2
<1>12. CASE Kill
  BY <1>12 DEF Kill
<1>13. CASE UNCHANGED vars
  BY <1>1, <1>13 DEF vars
<1> QED
  BY <1>3, <1>4, <1>5, <1>6, <1>7, <1>8, <1>9, <1>10, <1>11, <1>12, <1>13
     DEF Next, EndStep, TaskStep

\* EndIsRecorded of every behaviour: as long as the accesses to runs.json do not
\* overlap, a task that is through has left in its record how its review ended,
\* also when mark_run_completed found it given up as stale (store.rs, queue.rs).
THEOREM EndIsRecordedAlways == Spec => []EndIsRecorded
<1>1. RecordInv => EndIsRecorded
  BY DEF RecordInv, Kept, EndIsRecorded
<1>2. TruthInv /\ RecordInv /\ [Next]_vars => (TruthInv /\ RecordInv)'
  BY TruthNext, RecordNext
<1> QED
  BY <1>1, <1>2, TruthInit, RecordInit, PTL DEF Spec

-----------------------------------------------------------------------------
(* The counts *)

\* A turn end that has loaded the counts and not saved them yet.
Counting(e) == end[e].pc \in {"guard", "save", "clear"}

\* As long as turn ends do not overlap, at most one has a copy of the counts, and
\* that copy, or else the file, is what was counted.
CountInv ==
  excuses \subseteq {"records"} =>
    /\ \A d, e \in Ends : Counting(d) /\ Counting(e) => d = e
    /\ \A e \in Ends : Counting(e) => end[e].counts = since
    /\ (\A e \in Ends : ~Counting(e)) => counts = since

LEMMA CountInit == Init => CountInv
BY DEF Init, CountInv, Counting, Idle, At

LEMMA CountNext == TypeOK /\ CountInv /\ [Next]_vars => CountInv'
<1> SUFFICES ASSUME TypeOK, CountInv, [Next]_vars, excuses' \subseteq {"records"}
             PROVE  CountInv'
  BY DEF CountInv
<1> USE EvolutionReviewsAssumption
<1>a. /\ end \in [Ends -> EndStates]
      /\ \A e \in Ends : end[e].type \in Types /\ end[e].counts \in [Types -> Nat]
      /\ counts \in [Types -> Nat] /\ since \in [Types -> Nat]
  BY DEF TypeOK, EndStates
\* A turn end that has no copy of the counts, before and after.
<1>1. ASSUME UNCHANGED <<counts, since>>, excuses \subseteq excuses',
             \A e \in Ends : end'[e] = end[e] \/ (~Counting(e) /\ ~Counting(e)')
      PROVE  CountInv'
  BY <1>1 DEF CountInv, Counting
<1>2. ASSUME NEW e \in Ends, TurnEnds(e) PROVE CountInv'
  <2>1. \A d \in Ends : end'[d] = end[d] \/ (~Counting(d) /\ ~Counting(d)')
    BY <1>2, <1>a DEF TurnEnds, Counting, At
  <2> QED
    BY <1>1, <1>2, <2>1 DEF TurnEnds
<1>3. ASSUME NEW e \in Ends, Count(e) PROVE CountInv'
  <2>1. PICK n \in Nat :
          IF n = 0
          THEN end' = [end EXCEPT ![e] = Following(@)] /\ UNCHANGED <<since, excuses>>
          ELSE LET y == end[e].type
                   c == [counts EXCEPT ![y] = @ + n]
                   step == IF c[y] < Interval THEN "save" ELSE "guard" IN
               /\ end' = [end EXCEPT ![e] = At(step, y, c, "none")]
               /\ since' = [since EXCEPT ![y] = @ + n]
               /\ excuses' = excuses \cup
                    {"ends" : d \in {d \in Ends : end[d].pc \in {"guard", "save", "clear"}}}
    BY <1>3 DEF Count
  <2>2. end[e].pc = "count" /\ UNCHANGED counts
    BY <1>3 DEF Count
  <2>3. CASE n = 0
    <3>1. \A d \in Ends : end'[d] = IF d = e THEN Following(end[e]) ELSE end[d]
      BY <1>a, <2>1, <2>3
    <3>2. \A d \in Ends : end'[d] = end[d] \/ (~Counting(d) /\ ~Counting(d)')
      BY <1>a, <2>2, <3>1, FollowingType DEF Counting
    <3> QED
      BY <1>1, <2>1, <2>2, <2>3, <3>2
  <2>4. CASE n # 0
    <3> DEFINE y == end[e].type
               c == [counts EXCEPT ![y] = @ + n]
               step == IF c[y] < Interval THEN "save" ELSE "guard"
    <3>1. /\ end' = [end EXCEPT ![e] = At(step, y, c, "none")]
          /\ since' = [since EXCEPT ![y] = @ + n]
          /\ \A d \in Ends : ~Counting(d)
          /\ excuses \subseteq {"records"}
      <4>1. /\ end' = [end EXCEPT ![e] = At(step, y, c, "none")]
            /\ since' = [since EXCEPT ![y] = @ + n]
            /\ excuses' = excuses \cup
                 {"ends" : d \in {d \in Ends : end[d].pc \in {"guard", "save", "clear"}}}
        BY <2>1, <2>4
      <4>2. ASSUME NEW d \in Ends, Counting(d) PROVE FALSE
        <5>1. "ends" \in excuses'
          BY <4>1, <4>2 DEF Counting
        <5> QED
          BY <5>1
      <4> QED
        BY <4>1, <4>2
    <3>2. counts = since
      BY <3>1 DEF CountInv
    <3>3. c = since'
      BY <3>1, <3>2
    <3>4. step \in {"save", "guard"}
      OBVIOUS
    <3> HIDE DEF y, c, step
    <3>5. \A d \in Ends : end'[d] = IF d = e THEN At(step, y, c, "none") ELSE end[d]
      BY <1>a, <3>1
    <3>6. At(step, y, c, "none").counts = c /\ At(step, y, c, "none").pc = step
      BY DEF At
    <3>7. \A d \in Ends : Counting(d)' <=> d = e
      BY <3>1, <3>4, <3>5, <3>6 DEF Counting
    <3> QED
      BY <3>3, <3>5, <3>6, <3>7 DEF CountInv
  <2> QED
    BY <2>3, <2>4
<1>4. ASSUME NEW e \in Ends, Guard(e) PROVE CountInv'
  <2>1. /\ end[e].pc = "guard" /\ UNCHANGED <<counts, since, excuses>>
        /\ \A d \in Ends : d # e => end'[d] = end[d]
        /\ end'[e].pc \in {"save", "clear"} /\ end'[e].counts = end[e].counts
    BY <1>4, <1>a DEF Guard, EndStates
  <2>2. \A d \in Ends : Counting(d)' <=> Counting(d)
    BY <2>1 DEF Counting
  <2> QED
    BY <2>1, <2>2 DEF CountInv
<1>5. ASSUME NEW e \in Ends, SaveCounts(e) PROVE CountInv'
  <2>1. /\ Counting(e) /\ counts' = end[e].counts /\ UNCHANGED <<since, excuses>>
        /\ \A d \in Ends : end'[d] = IF d = e THEN Following(end[e]) ELSE end[d]
    BY <1>5, <1>a DEF SaveCounts, Counting
  <2>2. \A d \in Ends : ~Counting(d)'
    BY <1>a, <2>1, FollowingType DEF CountInv, Counting
  <2> QED
    BY <2>1, <2>2 DEF CountInv
<1>6. ASSUME NEW e \in Ends, ClearCount(e) PROVE CountInv'
  <2>1. /\ Counting(e) /\ UNCHANGED excuses
        /\ counts' = [end[e].counts EXCEPT ![end[e].type] = 0]
        /\ since' = [since EXCEPT ![end[e].type] = 0]
        /\ \A d \in Ends : end'[d] = IF d = e THEN At("queue", end[e].type, NoCounts, "none") ELSE end[d]
    BY <1>6, <1>a DEF ClearCount, Counting
  <2>2. \A d \in Ends : ~Counting(d)'
    BY <2>1 DEF CountInv, Counting, At
  <2> QED
    BY <2>1, <2>2 DEF CountInv
<1>7. ASSUME NEW e \in Ends, Queue(e) PROVE CountInv'
  <2>1. PICK r \in Runs : /\ end' = [end EXCEPT ![e] = At("spawn", end[e].type, NoCounts, r)]
                          /\ excuses \subseteq excuses'
    BY <1>7 DEF Queue, Load
  <2>2. \A d \in Ends : end'[d] = end[d] \/ (~Counting(d) /\ ~Counting(d)')
    BY <1>7, <1>a, <2>1 DEF Queue, Counting, At
  <2> QED
    BY <1>1, <1>7, <2>1, <2>2 DEF Queue
<1>8. ASSUME NEW e \in Ends, Spawn(e) PROVE CountInv'
  <2>1. \A d \in Ends : end'[d] = end[d] \/ (~Counting(d) /\ ~Counting(d)')
    BY <1>8, <1>a, FollowingType DEF Spawn, Counting
  <2> QED
    BY <1>1, <1>8, <2>1 DEF Spawn
<1>9. ASSUME NEW r \in Runs, TaskStep(r) \/ Age(r) PROVE CountInv'
  BY <1>1, <1>9 DEF TaskStep, Start, SaveStarted, Complete, SaveCompleted, Release, Age, Load
<1>10. CASE List \/ SaveList \/ UNCHANGED vars
  BY <1>1, <1>10 DEF List, SaveList, Load, vars
<1>11. CASE Kill
  BY <1>11 DEF Kill
<1> QED
  BY <1>2, <1>3, <1>4, <1>5, <1>6, <1>7, <1>8, <1>9, <1>10, <1>11
     DEF Next, EndStep

\* CountsExact of every behaviour: as long as turn ends do not overlap, what the
\* thread file says was counted since the last review of a type is what was
\* counted, whether a review was queued, refused or not due yet (queue.rs).
THEOREM CountsExactAlways == Spec => []CountsExact
<1>1. CountInv => CountsExact
  BY DEF CountInv, CountsExact, Counting
<1>2. TypeOK /\ CountInv /\ [Next]_vars => (TypeOK /\ CountInv)'
  BY NextType, CountNext
<1> QED
  BY <1>1, <1>2, InitType, CountInit, PTL DEF Spec

-----------------------------------------------------------------------------
(* The other half of the service: the pending proposals of an agent, which *)
(* are EvolutionPending, for any number of proposals, processes and actions *)

\* The type of its state; a process in an apply has a proposal, and a proposal that
\* was not made is in no store.
PendingType ==
  /\ PendingTypeOK
  /\ \A q \in Proposals \ made :
       file[q] = "absent" /\ \A p \in Procs : held[p][q] = "absent"
  /\ \A p \in Procs : pc[p] = "apply" => target[p] \in made

\* The proposals in the file, and in what anyone is about to save, are executed
\* only if their first action was applied, which an apply past it has done.
ExecutedInv ==
  /\ \A q \in Proposals : file[q] = "executed" => applied[q][1] > 0
  /\ \A p \in Procs, q \in Proposals : held[p][q] = "executed" => applied[q][1] > 0
  /\ \A p \in Procs : pc[p] = "apply" /\ done[p] > 0 => applied[target[p]][1] > 0

\* Applies of q that have done i and not j.
Between(q, i, j) ==
  {p \in Procs : pc[p] = "apply" /\ target[p] = q /\ i <= done[p] /\ done[p] < j}

\* Each action was applied as often as a later one, and once more for every apply
\* that is between the two.
OrderInv ==
  /\ IsFiniteSet({p \in Procs : pc[p] # "idle"})
  /\ \A q \in Proposals, i, j \in 1 .. Actions : i < j =>
       applied[q][i] >= applied[q][j] + Cardinality(Between(q, i, j))

Untouched(q) == \A i \in 1 .. Actions : applied[q][i] = 0

\* What is undisturbed is one call at a time, and what is not executed, in the
\* file or in what the call will save, was not touched but by the call itself.
CalmInv ==
  disturbed = {} =>
    /\ \A p, r \in Procs : pc[p] # "idle" /\ pc[r] # "idle" => p = r
    /\ \A q \in Proposals, i \in 1 .. Actions : applied[q][i] <= 1
    /\ \A q \in Proposals : file[q] \in {"absent", "rejected", "expired"} => Untouched(q)
    /\ \A q \in Proposals :
         file[q] = "pending" /\ (\A p \in Procs : pc[p] = "idle") => Untouched(q)
    /\ \A p \in Procs, q \in Proposals :
         /\ pc[p] = "save" /\ held[p][q] # "executed" => Untouched(q)
         /\ pc[p] = "apply" /\ held[p][q] # "executed" /\ q # target[p] => Untouched(q)
    /\ \A p \in Procs : pc[p] = "apply" =>
         /\ file[target[p]] = "pending" /\ held[p][target[p]] = "pending"
         /\ \A i \in 1 .. Actions : i > done[p] => applied[target[p]][i] = 0

\* One entry of one process' store is changed.
LEMMA HeldChanged ==
  ASSUME NEW S, NEW h \in [Procs -> [Proposals -> S]], NEW p \in Procs,
         NEW q \in Proposals, NEW v \in S, NEW new, new = [h EXCEPT ![p][q] = v]
  PROVE  /\ new \in [Procs -> [Proposals -> S]]
         /\ \A r \in Procs, q2 \in Proposals :
              new[r][q2] = IF r = p /\ q2 = q THEN v ELSE h[r][q2]
<1> DEFINE row == [h[p] EXCEPT ![q] = v]
<1>1. row \in [Proposals -> S] /\ \A q2 \in Proposals : row[q2] = IF q2 = q THEN v ELSE h[p][q2]
  OBVIOUS
<1>2. new = [h EXCEPT ![p] = row]
  OBVIOUS
<1> HIDE DEF row
<1> QED BY <1>1, <1>2

\* What the calls load is a store.
LEMMA LoadedType ==
  ASSUME PendingType
  PROVE  /\ Loaded \in [Proposals -> ProposalStatuses]
         /\ \A q \in Proposals : Loaded[q] \in {file[q], "expired"}
         /\ \A q \in Proposals :
              /\ Loaded[q] = "executed" <=> file[q] = "executed"
              /\ file[q] = "absent" => Loaded[q] = "absent"
              /\ Loaded[q] = "pending" => file[q] = "pending"
BY DEF PendingType, PendingTypeOK, Loaded, Refresh,
       ProposalStatuses, Handled

\* The calls that begin: what they will save is what they loaded, some of it made
\* pending or rejected.
Begins(p, s, next) ==
  /\ Begin(p, s, next) /\ next \in {"apply", "save"}
  /\ s \in [Proposals -> ProposalStatuses]
  /\ \A q \in Proposals : s[q] = "executed" <=> file[q] = "executed"
  /\ made \subseteq made' /\ made' \subseteq Proposals
  /\ \A q \in Proposals \ made' : s[q] = "absent"
  /\ \/ next = "save" /\ target' = target /\ done' = done
     \/ \E q \in Proposals :
          /\ target' = [target EXCEPT ![p] = q] /\ done' = [done EXCEPT ![p] = 0]
          /\ next = "apply" => s[q] = "pending" /\ file[q] = "pending"

\* Persist, List, Reject and Apply are such calls; a fresh proposal is absent.
LEMMA BeginsIs ==
  ASSUME PendingType, NEW p \in Procs,
         \/ Persist(p) \/ ListPending(p) \/ Reject(p) \/ Apply(p)
  PROVE  \E s, next : Begins(p, s, next)
<1>0. /\ Loaded \in [Proposals -> ProposalStatuses]
      /\ \A q \in Proposals : Loaded[q] = "executed" <=> file[q] = "executed"
      /\ \A q \in Proposals : Loaded[q] = "pending" => file[q] = "pending"
      /\ \A q \in Proposals \ made : Loaded[q] = "absent"
      /\ made \subseteq Proposals
      /\ {"absent", "pending", "rejected"} \subseteq ProposalStatuses
  BY LoadedType DEF PendingType, PendingTypeOK, ProposalStatuses, Handled
<1> DEFINE L == Loaded
<1> HIDE DEF L
<1>1. CASE Persist(p)
  <2>1. PICK Q \in SUBSET (Proposals \ made) :
          /\ Begin(p, [q \in Proposals |-> IF q \in Q THEN "pending" ELSE L[q]], "save")
          /\ made' = made \cup Q /\ target' = target /\ done' = done
    BY <1>1 DEF Persist, L
  <2> DEFINE s == [q \in Proposals |-> IF q \in Q THEN "pending" ELSE L[q]]
  <2>2. s \in [Proposals -> ProposalStatuses]
    BY <1>0 DEF L
  <2>3. \A q \in Proposals : s[q] = "executed" <=> file[q] = "executed"
    BY <1>0, <2>1 DEF L, PendingType
  <2> HIDE DEF s
  <2>4. \A q \in Proposals \ made' : s[q] = "absent"
    BY <1>0, <2>1 DEF s, L, PendingType
  <2>5. Begins(p, s, "save")
    BY <1>0, <2>1, <2>2, <2>3, <2>4 DEF Begins, s
  <2> QED BY <2>5
<1>2. CASE ListPending(p)
  BY <1>0, <1>2 DEF Begins, ListPending
<1>3. CASE Reject(p)
  <2>1. PICK q0 \in Proposals :
          /\ Begin(p, [L EXCEPT ![q0] = IF @ = "pending" THEN "rejected" ELSE @], "save")
          /\ made' = made /\ target' = target /\ done' = done
    BY <1>3 DEF Reject, L
  <2> DEFINE s == [L EXCEPT ![q0] = IF @ = "pending" THEN "rejected" ELSE @]
  <2>2. s \in [Proposals -> ProposalStatuses]
    BY <1>0 DEF L
  <2>3. \A q \in Proposals : s[q] = "executed" <=> file[q] = "executed"
    BY <1>0 DEF L
  <2>4. \A q \in Proposals \ made' : s[q] = "absent"
    BY <1>0, <2>1 DEF L
  <2> HIDE DEF s
  <2>5. Begins(p, s, "save")
    BY <1>0, <2>1, <2>2, <2>3, <2>4 DEF Begins, s
  <2> QED BY <2>5
<1>4. CASE Apply(p)
  <2>1. PICK q \in Proposals :
          /\ Begin(p, L, IF L[q] = "pending" THEN "apply" ELSE "save")
          /\ target' = [target EXCEPT ![p] = q] /\ done' = [done EXCEPT ![p] = 0]
          /\ made' = made
    BY <1>4 DEF Apply, L
  <2> DEFINE next == IF L[q] = "pending" THEN "apply" ELSE "save"
  <2>2. Begins(p, L, next)
    BY <1>0, <2>1 DEF Begins, L
  <2> QED BY <2>2
<1> QED BY <1>1, <1>2, <1>3, <1>4

\* What a call that begins leaves.
LEMMA Begun ==
  ASSUME PendingType, NEW p \in Procs, NEW s, NEW next, Begins(p, s, next)
  PROVE  /\ pc[p] = "idle" /\ pc'[p] = next /\ held'[p] = s
         /\ \A r \in Procs : r # p => /\ pc'[r] = pc[r] /\ held'[r] = held[r]
                                      /\ target'[r] = target[r] /\ done'[r] = done[r]
         /\ next = "apply" => /\ target'[p] \in Proposals /\ done'[p] = 0
                              /\ s[target'[p]] = "pending" /\ file[target'[p]] = "pending"
         /\ PendingType'
<1>1. /\ pc \in [Procs -> {"idle", "apply", "save"}]
      /\ held \in [Procs -> [Proposals -> ProposalStatuses]]
      /\ target \in [Procs -> Proposals \cup {NoProposal}]
      /\ done \in [Procs -> 0 .. Actions]
      /\ Actions \in Nat /\ 0 < Actions
  BY PendingAssumption DEF PendingType, PendingTypeOK
<1>2. /\ pc' = [pc EXCEPT ![p] = next] /\ held' = [held EXCEPT ![p] = s]
      /\ pc[p] = "idle" /\ next \in {"apply", "save"}
      /\ s \in [Proposals -> ProposalStatuses]
  BY DEF Begins, Begin
<1>3. /\ target' \in [Procs -> Proposals \cup {NoProposal}]
      /\ done' \in [Procs -> 0 .. Actions]
      /\ \A r \in Procs : r # p => target'[r] = target[r] /\ done'[r] = done[r]
      /\ next = "apply" => /\ target'[p] \in Proposals /\ done'[p] = 0
                           /\ s[target'[p]] = "pending" /\ file[target'[p]] = "pending"
  <2>1. CASE next = "save" /\ target' = target /\ done' = done
    BY <1>1, <2>1
  <2>2. ASSUME NEW q \in Proposals,
               target' = [target EXCEPT ![p] = q], done' = [done EXCEPT ![p] = 0],
               next = "apply" => s[q] = "pending" /\ file[q] = "pending"
        PROVE  /\ target' \in [Procs -> Proposals \cup {NoProposal}]
               /\ done' \in [Procs -> 0 .. Actions]
               /\ \A r \in Procs : r # p => target'[r] = target[r] /\ done'[r] = done[r]
               /\ next = "apply" => /\ target'[p] \in Proposals /\ done'[p] = 0
                                    /\ s[target'[p]] = "pending" /\ file[target'[p]] = "pending"
    BY <1>1, <2>2
  <2> QED BY <2>1, <2>2 DEF Begins
<1>4. /\ pc' \in [Procs -> {"idle", "apply", "save"}]
      /\ held' \in [Procs -> [Proposals -> ProposalStatuses]]
      /\ pc'[p] = next /\ held'[p] = s
      /\ \A r \in Procs : r # p => pc'[r] = pc[r] /\ held'[r] = held[r]
  BY <1>1, <1>2
<1>5. /\ late' = late /\ file' = file /\ applied' = applied
      /\ calls' \in 0 .. MaxCalls
      /\ disturbed' \subseteq {"overlap", "kill", "save"}
      /\ made \subseteq made' /\ made' \subseteq Proposals
  <2>1. calls' = calls + 1 /\ calls < MaxCalls
    BY DEF Begins, Begin
  <2>2. calls' \in 0 .. MaxCalls
    BY <2>1, PendingAssumption DEF PendingType, PendingTypeOK
  <2>3. disturbed' \subseteq disturbed \cup {"overlap"}
    BY DEF Begins, Begin
  <2> QED BY <2>2, <2>3 DEF Begins, Begin, PendingType, PendingTypeOK
<1>6. \A r \in Procs : pc'[r] = "apply" => done'[r] < Actions /\ target'[r] \in made'
  <2>1. \A r \in Procs : pc[r] = "apply" => done[r] < Actions /\ target[r] \in made
    BY DEF PendingType, PendingTypeOK
  <2>2. next = "apply" => target'[p] \in made'
    BY <1>3 DEF Begins
  <2> QED BY <1>1, <1>3, <1>4, <1>5, <2>1, <2>2
<1>7. \A q \in Proposals \ made' :
        file'[q] = "absent" /\ \A r \in Procs : held'[r][q] = "absent"
  <2>1. \A q \in Proposals \ made' : q \in Proposals \ made /\ s[q] = "absent"
    BY <1>5 DEF Begins
  <2> QED BY <1>4, <1>5, <2>1 DEF PendingType
<1>8. PendingType'
  BY <1>3, <1>4, <1>5, <1>6, <1>7 DEF PendingType, PendingTypeOK
<1> QED BY <1>2, <1>3, <1>4, <1>8

\* Every step keeps the types.
LEMMA PendingTypeStep ==
  ASSUME PendingType, [PendingNext]_pendingVars
  PROVE  PendingType'
<1>1. /\ pc \in [Procs -> {"idle", "apply", "save"}]
      /\ held \in [Procs -> [Proposals -> ProposalStatuses]]
      /\ file \in [Proposals -> ProposalStatuses]
      /\ target \in [Procs -> Proposals \cup {NoProposal}]
      /\ done \in [Procs -> 0 .. Actions]
      /\ applied \in [Proposals -> [1 .. Actions -> Nat]]
      /\ \A p \in Procs : pc[p] = "apply" =>
           done[p] < Actions /\ target[p] \in made /\ target[p] \in Proposals
      /\ Actions \in Nat /\ 0 < Actions
      /\ "executed" \in ProposalStatuses
  BY PendingAssumption DEF PendingType, PendingTypeOK, ProposalStatuses, Handled
<1>2. ASSUME NEW p \in Procs,
             \/ Persist(p) \/ ListPending(p) \/ Reject(p) \/ Apply(p)
      PROVE  PendingType'
  BY <1>2, BeginsIs, Begun
<1>3. ASSUME NEW p \in Procs, ActionDone(p) PROVE PendingType'
  <2> DEFINE q == target[p]
             n == done[p] + 1
  <2>1. q \in Proposals /\ n \in 1 .. Actions /\ pc[p] = "apply"
    BY <1>1, <1>3 DEF ActionDone
  <2>2. /\ applied' = [applied EXCEPT ![q][n] = @ + 1]
        /\ done' = [done EXCEPT ![p] = n]
        /\ \/ n = Actions /\ held' = [held EXCEPT ![p][q] = "executed"]
                          /\ pc' = [pc EXCEPT ![p] = "save"]
           \/ n # Actions /\ held' = held /\ pc' = pc
        /\ UNCHANGED <<file, late, made, target, calls, disturbed>>
    BY <1>3 DEF ActionDone
  <2> HIDE DEF q, n
  <2>9. \/ held' = held
        \/ /\ held' \in [Procs -> [Proposals -> ProposalStatuses]]
           /\ \A r \in Procs, q2 \in Proposals : held'[r][q2] =
                IF r = p /\ q2 = q THEN "executed" ELSE held[r][q2]
    <3>1. CASE held' = held
      BY <3>1
    <3>2. CASE held' = [held EXCEPT ![p][q] = "executed"]
      <4> HIDE DEF q
      <4> QED BY ONLY <1>1, <2>1, <3>2, HeldChanged
    <3> QED BY <2>2, <3>1, <3>2
  <2>3. applied' \in [Proposals -> [1 .. Actions -> Nat]] /\ done' \in [Procs -> 0 .. Actions]
    BY <1>1, <2>1, <2>2
  <2>4. /\ pc' \in [Procs -> {"idle", "apply", "save"}]
        /\ held' \in [Procs -> [Proposals -> ProposalStatuses]]
    BY <1>1, <2>1, <2>2, <2>9
  <2>5. \A r \in Procs : pc'[r] = "apply" => done'[r] < Actions /\ target'[r] \in made'
    BY <1>1, <2>1, <2>2
  <2>6. q \in made
    BY <1>1, <1>3 DEF ActionDone, q
  <2>7. \A q2 \in Proposals \ made' :
          file'[q2] = "absent" /\ \A r \in Procs : held'[r][q2] = "absent"
    <3>1. ASSUME NEW q2 \in Proposals \ made', NEW r \in Procs PROVE held'[r][q2] = held[r][q2]
      BY <1>1, <2>6, <2>2, <2>9
    <3> QED BY <2>2, <3>1 DEF PendingType
  <2> QED BY <2>2, <2>3, <2>4, <2>5, <2>7 DEF PendingType, PendingTypeOK
<1>4. ASSUME NEW p \in Procs, ActionFailed(p) PROVE PendingType'
  <2> DEFINE q == target[p]
  <2>1. q \in Proposals /\ pc[p] = "apply"
    BY <1>1, <1>4 DEF ActionFailed
  <2>2. /\ held' = held \/ held' = [held EXCEPT ![p][q] = "executed"]
        /\ pc' = [pc EXCEPT ![p] = "save"]
        /\ UNCHANGED <<file, late, made, target, done, applied, calls, disturbed>>
    BY <1>4 DEF ActionFailed
  <2>9. \/ held' = held
        \/ /\ held' \in [Procs -> [Proposals -> ProposalStatuses]]
           /\ \A r \in Procs, q2 \in Proposals : held'[r][q2] =
                IF r = p /\ q2 = q THEN "executed" ELSE held[r][q2]
    <3>1. CASE held' = held
      BY <3>1
    <3>2. CASE held' = [held EXCEPT ![p][q] = "executed"]
      <4> HIDE DEF q
      <4> QED BY ONLY <1>1, <2>1, <3>2, HeldChanged
    <3> QED BY <2>2, <3>1, <3>2
  <2> HIDE DEF q
  <2>6. held' \in [Procs -> [Proposals -> ProposalStatuses]]
    BY <1>1, <2>1, <2>2, <2>9
  <2>3. /\ pc' \in [Procs -> {"idle", "apply", "save"}]
        /\ \A r \in Procs : pc'[r] = "apply" => done'[r] < Actions /\ target'[r] \in made'
    BY <1>1, <2>1, <2>2
  <2>4. q \in made
    BY <1>1, <2>1 DEF q
  <2>5. \A q2 \in Proposals \ made' :
          file'[q2] = "absent" /\ \A r \in Procs : held'[r][q2] = "absent"
    <3>1. ASSUME NEW q2 \in Proposals \ made', NEW r \in Procs PROVE held'[r][q2] = held[r][q2]
      BY <1>1, <2>4, <2>2, <2>9
    <3> QED BY <2>2, <3>1 DEF PendingType
  <2> QED BY <2>2, <2>3, <2>5, <2>6 DEF PendingType, PendingTypeOK
<1>5. ASSUME NEW p \in Procs, Save(p) \/ SaveFails(p) PROVE PendingType'
  <2>1. /\ file' = file \/ file' = held[p]
        /\ pc' = [pc EXCEPT ![p] = "idle"]
        /\ disturbed' \subseteq disturbed \cup {"save"}
        /\ UNCHANGED <<late, made, held, target, done, applied, calls>>
    BY <1>5 DEF Save, SaveFails
  <2>2. /\ pc' \in [Procs -> {"idle", "apply", "save"}]
        /\ file' \in [Proposals -> ProposalStatuses]
        /\ \A r \in Procs : pc'[r] = "apply" => done'[r] < Actions /\ target'[r] \in made'
    BY <1>1, <2>1
  <2>3. \A q \in Proposals \ made' :
          file'[q] = "absent" /\ \A r \in Procs : held'[r][q] = "absent"
    BY <2>1 DEF PendingType
  <2> QED BY <2>1, <2>2, <2>3 DEF PendingType, PendingTypeOK
<1>6. CASE Expire
  BY <1>6 DEF Expire, PendingType, PendingTypeOK
<1>7. CASE ProcessKilled
  BY <1>7 DEF ProcessKilled, PendingType, PendingTypeOK
<1>8. CASE UNCHANGED pendingVars
  BY <1>8 DEF pendingVars, PendingType, PendingTypeOK
<1> QED BY <1>2, <1>3, <1>4, <1>5, <1>6, <1>7, <1>8 DEF PendingNext

\* Every step keeps what is executed applied.
LEMMA ExecutedStep ==
  ASSUME PendingType, ExecutedInv, [PendingNext]_pendingVars
  PROVE  ExecutedInv'
<1>1. /\ applied \in [Proposals -> [1 .. Actions -> Nat]]
      /\ held \in [Procs -> [Proposals -> ProposalStatuses]]
      /\ pc \in [Procs -> {"idle", "apply", "save"}]
      /\ done \in [Procs -> 0 .. Actions]
      /\ \A p \in Procs : pc[p] = "apply" => done[p] < Actions /\ target[p] \in Proposals
      /\ Actions \in Nat /\ 0 < Actions /\ 1 \in 1 .. Actions
      /\ "executed" \in ProposalStatuses
  BY PendingAssumption DEF ProposalStatuses, Handled, PendingType, PendingTypeOK
<1>2. ASSUME NEW p \in Procs,
             \/ Persist(p) \/ ListPending(p) \/ Reject(p) \/ Apply(p)
      PROVE  ExecutedInv'
  <2>1. PICK s, next : Begins(p, s, next)
    BY <1>2, BeginsIs
  <2>2. /\ file' = file /\ applied' = applied
        /\ \A q \in Proposals : s[q] = "executed" => file[q] = "executed"
    BY <2>1 DEF Begins, Begin
  <2>3. /\ held'[p] = s /\ pc'[p] = next /\ (next = "apply" => done'[p] = 0)
        /\ \A r \in Procs : r # p => /\ pc'[r] = pc[r] /\ held'[r] = held[r]
                                     /\ target'[r] = target[r] /\ done'[r] = done[r]
    BY <2>1, Begun
  <2> QED BY <2>2, <2>3 DEF ExecutedInv
<1>3. ASSUME NEW p \in Procs, ActionDone(p) PROVE ExecutedInv'
  <2> DEFINE q == target[p]
             n == done[p] + 1
  <2>1. q \in Proposals /\ n \in 1 .. Actions /\ pc[p] = "apply" /\ done[p] \in Nat
    BY <1>1, <1>3 DEF ActionDone
  <2>2. /\ applied' = [applied EXCEPT ![q][n] = @ + 1]
        /\ done' = [done EXCEPT ![p] = n]
        /\ held' = held \/ held' = [held EXCEPT ![p][q] = "executed"]
        /\ \A r \in Procs : pc'[r] = "apply" => pc[r] = "apply"
        /\ file' = file /\ target' = target
    BY <1>1, <1>3 DEF ActionDone
  <2>9. \/ held' = held
        \/ /\ held' \in [Procs -> [Proposals -> ProposalStatuses]]
           /\ \A r \in Procs, q2 \in Proposals : held'[r][q2] =
                IF r = p /\ q2 = q THEN "executed" ELSE held[r][q2]
    <3>1. CASE held' = held
      BY <3>1
    <3>2. CASE held' = [held EXCEPT ![p][q] = "executed"]
      <4> HIDE DEF q
      <4> QED BY ONLY <1>1, <2>1, <3>2, HeldChanged
    <3> QED BY <2>2, <3>1, <3>2
  <2>3. applied'[q][1] > 0
    <3>1. CASE n = 1
      BY <1>1, <2>1, <2>2, <3>1
    <3>2. CASE n # 1
      <4>1. applied[q][1] > 0
        BY <2>1, <3>2 DEF ExecutedInv
      <4> QED BY <1>1, <2>1, <2>2, <3>2, <4>1
    <3> QED BY <3>1, <3>2
  <2>4. \A q2 \in Proposals : applied[q2][1] > 0 => applied'[q2][1] > 0
    BY <1>1, <2>1, <2>2, <2>3
  <2> HIDE DEF n
  <2>5. \A r \in Procs, q2 \in Proposals : held'[r][q2] = "executed" =>
          held[r][q2] = "executed" \/ q2 = q
    BY <1>1, <2>1, <2>2, <2>9
  <2>6. \A r \in Procs : r # p => done'[r] = done[r]
    BY <1>1, <2>2
  <2>7. \A r \in Procs : pc'[r] = "apply" /\ done'[r] > 0 => applied'[target'[r]][1] > 0
    BY <1>1, <2>2, <2>3, <2>4, <2>6 DEF ExecutedInv
  <2> QED BY <2>2, <2>3, <2>4, <2>5, <2>7 DEF ExecutedInv
<1>4. ASSUME NEW p \in Procs, ActionFailed(p) PROVE ExecutedInv'
  <2> DEFINE q == target[p]
  <2>1. q \in Proposals /\ pc[p] = "apply"
    BY <1>1, <1>4 DEF ActionFailed
  <2>2. /\ held' = held \/ (done[p] > 0 /\ held' = [held EXCEPT ![p][q] = "executed"])
        /\ pc' = [pc EXCEPT ![p] = "save"]
        /\ UNCHANGED <<file, target, done, applied>>
    BY <1>4 DEF ActionFailed
  <2>9. \/ held' = held
        \/ /\ held' \in [Procs -> [Proposals -> ProposalStatuses]]
           /\ \A r \in Procs, q2 \in Proposals : held'[r][q2] =
                IF r = p /\ q2 = q THEN "executed" ELSE held[r][q2]
    <3>1. CASE held' = held
      BY <3>1
    <3>2. CASE held' = [held EXCEPT ![p][q] = "executed"]
      <4> HIDE DEF q
      <4> QED BY ONLY <1>1, <2>1, <3>2, HeldChanged
    <3> QED BY <2>2, <3>1, <3>2
  <2>3. \A r \in Procs, q2 \in Proposals : held'[r][q2] = "executed" =>
          held[r][q2] = "executed" \/ (q2 = q /\ done[p] > 0)
    <3>1. held' = held \/ done[p] > 0
      BY <2>2
    <3> HIDE DEF q
    <3> QED BY <2>9, <3>1
  <2>4. \A r \in Procs : pc'[r] = "apply" => pc[r] = "apply"
    BY <1>1, <2>2
  <2> QED BY <2>1, <2>2, <2>3, <2>4 DEF ExecutedInv
<1>5. ASSUME NEW p \in Procs, Save(p) \/ SaveFails(p) PROVE ExecutedInv'
  <2>1. /\ file' = file \/ file' = held[p]
        /\ pc' = [pc EXCEPT ![p] = "idle"]
        /\ UNCHANGED <<held, target, done, applied>>
    BY <1>5 DEF Save, SaveFails
  <2>2. \A r \in Procs : pc'[r] = "apply" => pc[r] = "apply"
    BY <1>1, <2>1
  <2> QED BY <2>1, <2>2 DEF ExecutedInv
<1>6. CASE Expire \/ ProcessKilled \/ UNCHANGED pendingVars
  <2>1. /\ UNCHANGED <<file, held, target, done, applied>>
        /\ \A r \in Procs : pc'[r] = "apply" => pc[r] = "apply"
    BY <1>6 DEF Expire, ProcessKilled, pendingVars
  <2> QED BY <2>1 DEF ExecutedInv
<1> QED BY <1>2, <1>3, <1>4, <1>5, <1>6 DEF PendingNext

\* Fewer applies between two actions are no more of them.
LEMMA OrderFewer ==
  ASSUME PendingType, OrderInv, UNCHANGED applied,
         {p \in Procs : pc'[p] # "idle"} \subseteq {p \in Procs : pc[p] # "idle"}
           \/ IsFiniteSet({p \in Procs : pc'[p] # "idle"}),
         \A q \in Proposals, i, j \in 1 .. Actions : Between(q, i, j)' \subseteq Between(q, i, j)
  PROVE  OrderInv'
<1>1. IsFiniteSet({p \in Procs : pc'[p] # "idle"})
  BY FS_Subset DEF OrderInv
<1>2. ASSUME NEW q \in Proposals, NEW i \in 1 .. Actions, NEW j \in 1 .. Actions, i < j
      PROVE  applied'[q][i] >= applied'[q][j] + Cardinality(Between(q, i, j)')
  <2>1. IsFiniteSet(Between(q, i, j))
    <3>1. Between(q, i, j) \subseteq {p \in Procs : pc[p] # "idle"}
      BY DEF Between
    <3> QED BY <3>1, FS_Subset DEF OrderInv
  <2>2. /\ Cardinality(Between(q, i, j)') <= Cardinality(Between(q, i, j))
        /\ Cardinality(Between(q, i, j)') \in Nat /\ Cardinality(Between(q, i, j)) \in Nat
    <3>1. Between(q, i, j)' \subseteq Between(q, i, j)
      BY <1>2
    <3> QED BY <2>1, <3>1, FS_Subset, FS_CardinalityType
  <2>3. applied[q][i] >= applied[q][j] + Cardinality(Between(q, i, j))
    BY <1>2 DEF OrderInv
  <2>4. applied[q][i] \in Nat /\ applied[q][j] \in Nat
    BY DEF PendingType, PendingTypeOK
  <2> QED BY <2>2, <2>3, <2>4
<1> QED BY <1>1, <1>2 DEF OrderInv

\* Every step keeps the actions in their order.
LEMMA OrderStep ==
  ASSUME PendingType, OrderInv, [PendingNext]_pendingVars
  PROVE  OrderInv'
<1>1. /\ applied \in [Proposals -> [1 .. Actions -> Nat]]
      /\ pc \in [Procs -> {"idle", "apply", "save"}]
      /\ done \in [Procs -> 0 .. Actions]
      /\ \A p \in Procs : pc[p] = "apply" => done[p] < Actions /\ target[p] \in made
      /\ made \subseteq Proposals
      /\ Actions \in Nat /\ 0 < Actions
  BY PendingAssumption DEF PendingType, PendingTypeOK
<1>2. ASSUME NEW p \in Procs,
             \/ Persist(p) \/ ListPending(p) \/ Reject(p) \/ Apply(p)
      PROVE  OrderInv'
  <2>1. PICK s, next : Begins(p, s, next)
    BY <1>2, BeginsIs
  <2>2. /\ pc[p] = "idle" /\ pc'[p] = next /\ (next = "apply" => done'[p] = 0)
        /\ \A r \in Procs : r # p => /\ pc'[r] = pc[r]
                                     /\ target'[r] = target[r] /\ done'[r] = done[r]
    BY <2>1, Begun
  <2>3. applied' = applied
    BY <2>1 DEF Begins, Begin
  <2>4. ASSUME NEW q \in Proposals, NEW i \in 1 .. Actions, NEW j \in 1 .. Actions
        PROVE  Between(q, i, j)' \subseteq Between(q, i, j)
    BY <2>2 DEF Between
  <2>5. IsFiniteSet({r \in Procs : pc'[r] # "idle"})
    <3>1. {r \in Procs : pc'[r] # "idle"} \subseteq {r \in Procs : pc[r] # "idle"} \cup {p}
      BY <2>2
    <3>2. IsFiniteSet({r \in Procs : pc[r] # "idle"} \cup {p})
      BY FS_AddElement DEF OrderInv
    <3> QED BY <3>1, <3>2, FS_Subset
  <2> QED BY <2>3, <2>4, <2>5, OrderFewer
<1>3. ASSUME NEW p \in Procs, ActionDone(p) PROVE OrderInv'
  <2> DEFINE t == target[p]
             n == done[p] + 1
  <2>0. pc[p] = "apply"
    BY <1>3 DEF ActionDone
  <2>1. t \in Proposals /\ n \in 1 .. Actions /\ pc[p] = "apply" /\ done[p] = n - 1
    BY <1>1, <2>0
  <2>2. /\ applied' = [applied EXCEPT ![t][n] = @ + 1]
        /\ done' = [done EXCEPT ![p] = n]
        /\ \/ n = Actions /\ pc' = [pc EXCEPT ![p] = "save"]
           \/ n # Actions /\ pc' = pc
        /\ target' = target
    BY <1>3 DEF ActionDone
  <2>3. target[p] = t
    OBVIOUS
  <2> HIDE DEF t, n
  <2>4. \A q \in Proposals, i \in 1 .. Actions :
          applied'[q][i] = IF q = t /\ i = n THEN applied[q][i] + 1 ELSE applied[q][i]
    BY <1>1, <2>1, <2>2
  <2>5. {r \in Procs : pc'[r] # "idle"} \subseteq {r \in Procs : pc[r] # "idle"}
    BY <1>1, <2>1, <2>2
  <2>6. /\ done'[p] = n
        /\ \A r \in Procs : /\ r # p => done'[r] = done[r]
                            /\ pc'[r] = "apply" => pc[r] = "apply"
    BY <1>1, <2>1, <2>2
  <2>7. ASSUME NEW q \in Proposals, NEW i \in 1 .. Actions, NEW j \in 1 .. Actions, i < j
        PROVE  applied'[q][i] >= applied'[q][j] + Cardinality(Between(q, i, j)')
    <3> DEFINE B == Between(q, i, j)
               C == Between(q, i, j)'
    <3>1. IsFiniteSet(B)
      <4>1. Between(q, i, j) \subseteq {r \in Procs : pc[r] # "idle"}
        BY DEF Between
      <4> QED BY <4>1, FS_Subset DEF OrderInv
    <3>2. applied[q][i] >= applied[q][j] + Cardinality(B)
      BY <2>7 DEF OrderInv
    <3>3. \A r \in C : r \in B \/ r = p
      BY <2>2, <2>6 DEF Between
    <3>4. /\ p \in C => q = t /\ i <= n /\ n < j
          /\ p \in B <=> q = t /\ i <= n - 1 /\ n - 1 < j
      BY <2>1, <2>2, <2>3, <2>6 DEF Between
    <3>5. applied[q][i] \in Nat /\ applied[q][j] \in Nat
      BY <1>1
    <3> HIDE DEF B, C
    <3>6. CASE q = t /\ i = n
      <4>1. C \subseteq B \cup {p} /\ IsFiniteSet(B \cup {p})
        BY <3>1, <3>3, FS_AddElement
      <4>2. /\ Cardinality(B \cup {p}) <= Cardinality(B) + 1
            /\ Cardinality(C) <= Cardinality(B \cup {p})
            /\ Cardinality(B) \in Nat /\ Cardinality(C) \in Nat
            /\ Cardinality(B \cup {p}) \in Nat
        BY <3>1, <4>1, FS_AddElement, FS_Subset, FS_CardinalityType
      <4>3. applied'[q][i] = applied[q][i] + 1 /\ applied'[q][j] = applied[q][j]
        BY <2>4, <2>7, <3>6
      <4> QED BY <3>2, <3>5, <4>2, <4>3 DEF C
    <3>7. CASE q = t /\ j = n
      <4>1. p \in B /\ p \notin C
        BY <2>1, <2>7, <3>4, <3>7
      <4>2. C \subseteq B \ {p} /\ IsFiniteSet(B \ {p})
        BY <3>1, <3>3, <4>1, FS_RemoveElement
      <4>3. /\ Cardinality(B \ {p}) = Cardinality(B) - 1
            /\ Cardinality(C) <= Cardinality(B \ {p})
            /\ Cardinality(B) \in Nat /\ Cardinality(C) \in Nat
            /\ Cardinality(B \ {p}) \in Nat
        BY <3>1, <4>1, <4>2, FS_RemoveElement, FS_Subset, FS_CardinalityType
      <4>4. applied'[q][i] = applied[q][i] /\ applied'[q][j] = applied[q][j] + 1
        BY <2>4, <2>7, <3>7
      <4> QED BY <3>2, <3>5, <4>3, <4>4 DEF C
    <3>8. CASE ~(q = t /\ i = n) /\ ~(q = t /\ j = n)
      <4>1. C \subseteq B
        BY <2>1, <2>7, <3>3, <3>4, <3>8
      <4>2. /\ Cardinality(C) <= Cardinality(B)
            /\ Cardinality(B) \in Nat /\ Cardinality(C) \in Nat
        BY <3>1, <4>1, FS_Subset, FS_CardinalityType
      <4>3. applied'[q][i] = applied[q][i] /\ applied'[q][j] = applied[q][j]
        BY <2>4, <3>8
      <4> QED BY <3>2, <3>5, <4>2, <4>3 DEF C
    <3> QED BY <3>6, <3>7, <3>8
  <2>8. IsFiniteSet({r \in Procs : pc'[r] # "idle"})
    BY <2>5, FS_Subset DEF OrderInv
  <2> QED BY <2>7, <2>8 DEF OrderInv
<1>4. ASSUME NEW p \in Procs,
             ActionFailed(p) \/ Save(p) \/ SaveFails(p)
      PROVE  OrderInv'
  <2>1. /\ pc[p] # "idle"
        /\ pc' = [pc EXCEPT ![p] = "save"] \/ pc' = [pc EXCEPT ![p] = "idle"]
        /\ UNCHANGED <<target, done, applied>>
    BY <1>4 DEF ActionFailed, Save, SaveFails
  <2>2. \A r \in Procs : /\ pc'[r] = "apply" => pc[r] = "apply"
                         /\ pc'[r] # "idle" => pc[r] # "idle"
    BY <1>1, <2>1
  <2>3. \A q \in Proposals, i, j \in 1 .. Actions : Between(q, i, j)' \subseteq Between(q, i, j)
    BY <2>1, <2>2 DEF Between
  <2> QED BY <2>1, <2>2, <2>3, OrderFewer
<1>5. CASE Expire \/ ProcessKilled \/ UNCHANGED pendingVars
  <2>1. /\ UNCHANGED <<target, done, applied>>
        /\ \A r \in Procs : /\ pc'[r] = "apply" => pc[r] = "apply"
                            /\ pc'[r] # "idle" => pc[r] # "idle"
    BY <1>5 DEF Expire, ProcessKilled, pendingVars
  <2>2. \A q \in Proposals, i, j \in 1 .. Actions : Between(q, i, j)' \subseteq Between(q, i, j)
    BY <2>1 DEF Between
  <2> QED BY <2>1, <2>2, OrderFewer
<1> QED BY <1>2, <1>3, <1>4, <1>5 DEF PendingNext

\* Every step that leaves the calls undisturbed keeps what they have not touched.
LEMMA CalmStep ==
  ASSUME PendingType, CalmInv, [PendingNext]_pendingVars
  PROVE  CalmInv'
<1>1. /\ applied \in [Proposals -> [1 .. Actions -> Nat]]
      /\ held \in [Procs -> [Proposals -> ProposalStatuses]]
      /\ file \in [Proposals -> ProposalStatuses]
      /\ pc \in [Procs -> {"idle", "apply", "save"}]
      /\ done \in [Procs -> 0 .. Actions]
      /\ \A p \in Procs : pc[p] = "apply" => done[p] < Actions /\ target[p] \in made
      /\ made \subseteq Proposals
      /\ Actions \in Nat /\ 0 < Actions
      /\ ProposalStatuses = {"absent", "pending", "rejected", "expired", "executed"}
  BY PendingAssumption DEF PendingType, PendingTypeOK, ProposalStatuses, Handled
<1>2. ASSUME NEW p \in Procs,
             \/ Persist(p) \/ ListPending(p) \/ Reject(p) \/ Apply(p)
      PROVE  CalmInv'
  <2>1. PICK s, next : Begins(p, s, next)
    BY <1>2, BeginsIs
  <2>2. /\ pc[p] = "idle" /\ pc'[p] = next /\ held'[p] = s
        /\ \A r \in Procs : r # p => pc'[r] = pc[r]
        /\ next = "apply" => /\ target'[p] \in Proposals /\ done'[p] = 0
                             /\ s[target'[p]] = "pending" /\ file[target'[p]] = "pending"
    BY <2>1, Begun
  <2>3. /\ file' = file /\ applied' = applied /\ next \in {"apply", "save"}
        /\ disturbed' = disturbed \cup {"overlap" : r \in {r \in Procs : pc[r] # "idle"}}
        /\ \A q \in Proposals : s[q] = "executed" <=> file[q] = "executed"
    BY <2>1 DEF Begins, Begin
  <2> SUFFICES ASSUME disturbed' = {} PROVE CalmInv'
    BY DEF CalmInv
  <2>4. disturbed = {} /\ \A r \in Procs : pc[r] = "idle"
    BY <2>3
  <2>5. /\ \A q \in Proposals, i \in 1 .. Actions : applied[q][i] <= 1
        /\ \A q \in Proposals : file[q] # "executed" => Untouched(q)
    BY <1>1, <2>4 DEF CalmInv
  <2>6. \A r \in Procs : r # p => pc'[r] = "idle"
    BY <2>2, <2>4
  <2>7. \A q \in Proposals : file[q] # "executed" => Untouched(q)'
    BY <2>3, <2>5 DEF Untouched
  <2>8. \A q \in Proposals : held'[p][q] # "executed" => Untouched(q)'
    BY <2>2, <2>3, <2>7
  <2>9. pc'[p] = "apply" =>
          /\ file'[target'[p]] = "pending" /\ held'[p][target'[p]] = "pending"
          /\ \A i \in 1 .. Actions : applied'[target'[p]][i] = 0
    BY <2>2, <2>3, <2>7 DEF Untouched
  <2>10. \A q \in Proposals, i \in 1 .. Actions : applied'[q][i] <= 1
    BY <2>3, <2>5
  <2>11. \A q \in Proposals : file'[q] \in {"absent", "pending", "rejected", "expired"} =>
           Untouched(q)'
    BY <2>3, <2>7
  <2> QED BY <2>6, <2>8, <2>9, <2>10, <2>11 DEF CalmInv
<1>3. ASSUME NEW p \in Procs, ActionDone(p) PROVE CalmInv'
  <2> SUFFICES ASSUME disturbed' = {} PROVE CalmInv'
    BY DEF CalmInv
  <2> DEFINE t == target[p]
             n == done[p] + 1
  <2>0. pc[p] = "apply"
    BY <1>3 DEF ActionDone
  <2>1. t \in Proposals /\ n \in 1 .. Actions /\ pc[p] = "apply" /\ done[p] = n - 1
    BY <1>1, <2>0
  <2>2. /\ applied' = [applied EXCEPT ![t][n] = @ + 1]
        /\ done' = [done EXCEPT ![p] = n]
        /\ \/ n = Actions /\ held' = [held EXCEPT ![p][t] = "executed"]
                          /\ pc' = [pc EXCEPT ![p] = "save"]
           \/ n # Actions /\ held' = held /\ pc' = pc
        /\ UNCHANGED <<file, target>> /\ disturbed = {}
    BY <1>3 DEF ActionDone
  <2>3. /\ \A r \in Procs : r # p => pc[r] = "idle"
        /\ \A q \in Proposals, i \in 1 .. Actions : applied[q][i] <= 1
        /\ \A q \in Proposals : file[q] \in {"absent", "rejected", "expired"} => Untouched(q)
        /\ \A q \in Proposals : held[p][q] # "executed" /\ q # t => Untouched(q)
        /\ file[t] = "pending" /\ held[p][t] = "pending"
        /\ \A i \in 1 .. Actions : i > done[p] => applied[t][i] = 0
    BY <1>1, <2>1, <2>2 DEF CalmInv
  <2> HIDE DEF n
  <2>4. \A q \in Proposals, i \in 1 .. Actions :
          applied'[q][i] = IF q = t /\ i = n THEN applied[q][i] + 1 ELSE applied[q][i]
    BY <1>1, <2>1, <2>2
  <2>5. \A q \in Proposals : q # t /\ Untouched(q) => Untouched(q)'
    BY <2>4 DEF Untouched
  <2>6. \A q \in Proposals, i \in 1 .. Actions : applied'[q][i] <= 1
    <3>1. n > done[p] /\ applied[t][n] = 0
      BY <1>1, <2>1, <2>3
    <3> QED BY <2>3, <2>4, <3>1
  <2>7. \A i \in 1 .. Actions : i > n => applied'[t][i] = 0
    BY <2>1, <2>3, <2>4
  <2>8. /\ pc'[p] \in {"apply", "save"} /\ \A r \in Procs : r # p => pc'[r] = "idle"
        /\ pc'[p] = "apply" => held' = held /\ done'[p] = n
    BY <1>1, <2>1, <2>2, <2>3
  <2>9. /\ \A q \in Proposals : q # t => held'[p][q] = held[p][q]
        /\ pc'[p] = "save" => held'[p][t] = "executed"
    <3>1. CASE n = Actions /\ held' = [held EXCEPT ![p][t] = "executed"]
      <4> HIDE DEF t
      <4>1. \A r \in Procs, q \in Proposals :
              held'[r][q] = IF r = p /\ q = t THEN "executed" ELSE held[r][q]
        BY ONLY <1>1, <2>1, <3>1, HeldChanged
      <4> QED BY <2>1, <4>1
    <3>2. CASE held' = held /\ pc' = pc
      BY <2>1, <3>2
    <3> QED BY <2>2, <3>1, <3>2
  <2>10. \A q \in Proposals : file'[q] \in {"absent", "rejected", "expired"} => Untouched(q)'
    BY <2>2, <2>3, <2>5
  <2>11. \A q \in Proposals :
           /\ pc'[p] = "save" /\ held'[p][q] # "executed" => Untouched(q)'
           /\ pc'[p] = "apply" /\ held'[p][q] # "executed" /\ q # t => Untouched(q)'
    BY <2>3, <2>5, <2>9
  <2>12. target'[p] = t /\ file'[t] = "pending"
    BY <2>2, <2>3
  <2> HIDE DEF t
  <2> QED BY <2>3, <2>6, <2>7, <2>8, <2>10, <2>11, <2>12 DEF CalmInv
<1>4. ASSUME NEW p \in Procs, ActionFailed(p) PROVE CalmInv'
  <2> SUFFICES ASSUME disturbed' = {} PROVE CalmInv'
    BY DEF CalmInv
  <2> DEFINE t == target[p]
  <2>1. t \in Proposals /\ pc[p] = "apply" /\ done[p] \in Nat
    BY <1>1, <1>4 DEF ActionFailed
  <2>2. /\ held' = IF done[p] > 0 THEN [held EXCEPT ![p][t] = "executed"] ELSE held
        /\ pc' = [pc EXCEPT ![p] = "save"]
        /\ UNCHANGED <<file, target, done, applied>> /\ disturbed = {}
    BY <1>4 DEF ActionFailed
  <2>3. /\ \A r \in Procs : r # p => pc[r] = "idle"
        /\ \A q \in Proposals, i \in 1 .. Actions : applied[q][i] <= 1
        /\ \A q \in Proposals : file[q] \in {"absent", "rejected", "expired"} => Untouched(q)
        /\ \A q \in Proposals : held[p][q] # "executed" /\ q # t => Untouched(q)
        /\ \A i \in 1 .. Actions : i > done[p] => applied[t][i] = 0
    BY <1>1, <2>1, <2>2 DEF CalmInv
  <2>4. \A q \in Proposals : Untouched(q)' <=> Untouched(q)
    BY <2>2 DEF Untouched
  <2>5. pc'[p] = "save" /\ \A r \in Procs : r # p => pc'[r] = "idle"
    BY <1>1, <2>2, <2>3
  <2>6. \A q \in Proposals : held'[p][q] # "executed" => Untouched(q)
    <3>1. CASE done[p] > 0 /\ held' = [held EXCEPT ![p][t] = "executed"]
      <4>1. \A q \in Proposals : q # t /\ held[p][q] # "executed" => Untouched(q)
        BY <2>3
      <4> HIDE DEF t
      <4>2. \A r \in Procs, q \in Proposals :
              held'[r][q] = IF r = p /\ q = t THEN "executed" ELSE held[r][q]
        BY ONLY <1>1, <2>1, <3>1, HeldChanged
      <4> QED BY <4>1, <4>2
    <3>2. CASE done[p] = 0 /\ held' = held
      <4>1. Untouched(t)
        BY <2>3, <3>2 DEF Untouched
      <4> QED BY <2>3, <3>2, <4>1
    <3> QED BY <2>1, <2>2, <3>1, <3>2
  <2>7. /\ \A q \in Proposals, i \in 1 .. Actions : applied'[q][i] <= 1
        /\ \A q \in Proposals : file'[q] \in {"absent", "rejected", "expired"} => Untouched(q)'
    BY <2>2, <2>3, <2>4
  <2>8. \A q \in Proposals : held'[p][q] # "executed" => Untouched(q)'
    BY <2>4, <2>6
  <2> QED BY <2>5, <2>7, <2>8 DEF CalmInv
<1>5. ASSUME NEW p \in Procs, Save(p) PROVE CalmInv'
  <2> SUFFICES ASSUME disturbed' = {} PROVE CalmInv'
    BY DEF CalmInv
  <2>1. /\ pc[p] = "save" /\ file' = held[p] /\ pc' = [pc EXCEPT ![p] = "idle"]
        /\ UNCHANGED <<held, target, done, applied>> /\ disturbed = {}
    BY <1>5 DEF Save
  <2>2. /\ \A r \in Procs : r # p => pc[r] = "idle"
        /\ \A q \in Proposals, i \in 1 .. Actions : applied[q][i] <= 1
        /\ \A q \in Proposals : held[p][q] # "executed" => Untouched(q)
    BY <1>1, <2>1 DEF CalmInv
  <2>3. \A r \in Procs : pc'[r] = "idle"
    BY <1>1, <2>1, <2>2
  <2>4. \A q \in Proposals : file'[q] # "executed" => Untouched(q)'
    BY <2>1, <2>2 DEF Untouched
  <2>5. \A q \in Proposals, i \in 1 .. Actions : applied'[q][i] <= 1
    BY <2>1, <2>2
  <2> QED BY <2>3, <2>4, <2>5 DEF CalmInv
<1>6. ASSUME NEW p \in Procs, SaveFails(p) PROVE CalmInv'
  BY <1>6 DEF SaveFails, CalmInv
<1>7. CASE ProcessKilled
  BY <1>7 DEF ProcessKilled, CalmInv
<1>8. CASE Expire \/ UNCHANGED pendingVars
  BY <1>8 DEF Expire, pendingVars, CalmInv, Untouched
<1> QED BY <1>2, <1>3, <1>4, <1>5, <1>6, <1>7, <1>8 DEF PendingNext

\* The store no review has filled.
LEMMA PendingStarts ==
  ASSUME PendingInit
  PROVE  PendingType /\ ExecutedInv /\ OrderInv /\ CalmInv
<1>1. /\ \A q \in Proposals : file[q] = "absent"
      /\ \A p \in Procs : pc[p] = "idle" /\ held[p] = file
      /\ \A q \in Proposals, i \in 1 .. Actions : applied[q][i] = 0
      /\ Actions \in Nat /\ 0 < Actions
  BY PendingAssumption DEF PendingInit
<1>2. PendingType
  BY <1>1, PendingAssumption
     DEF PendingInit, PendingType, PendingTypeOK,
    ProposalStatuses, Handled, NoProposal
<1>3. ExecutedInv
  BY <1>1 DEF ExecutedInv
<1>4. OrderInv
  <2>1. {p \in Procs : pc[p] # "idle"} = {} /\ IsFiniteSet({}) /\ Cardinality({}) = 0
    BY <1>1, FS_EmptySet
  <2>2. ASSUME NEW q \in Proposals, NEW i \in 1 .. Actions, NEW j \in 1 .. Actions
        PROVE  applied[q][i] >= applied[q][j] + Cardinality(Between(q, i, j))
    <3>1. Between(q, i, j) = {}
      BY <1>1 DEF Between
    <3>2. applied[q][i] = 0 /\ applied[q][j] = 0 /\ Cardinality(Between(q, i, j)) = 0
      BY <1>1, <2>1, <3>1
    <3> QED BY <3>2
  <2> QED BY <2>1, <2>2 DEF OrderInv
<1>5. CalmInv
  BY <1>1 DEF CalmInv, Untouched
<1> QED BY <1>2, <1>3, <1>4, <1>5

\* The invariant of the pending proposals.
LEMMA PendingInvariant ==
  PendingSpec => [](PendingType /\ ExecutedInv /\ OrderInv /\ CalmInv)
<1>1. PendingInit => PendingType /\ ExecutedInv /\ OrderInv /\ CalmInv
  BY PendingStarts
<1>2. PendingType /\ ExecutedInv /\ OrderInv /\ CalmInv /\ [PendingNext]_pendingVars
        => (PendingType /\ ExecutedInv /\ OrderInv /\ CalmInv)'
  BY PendingTypeStep, ExecutedStep, OrderStep, CalmStep
<1> QED BY <1>1, <1>2, PTL DEF PendingSpec

\* EvolutionPending: each variable of the pending proposals keeps its type, and an
\* apply never counts more actions than there are.
THEOREM PendingTypeCorrect ==
  PendingSpec => []PendingTypeOK
<1>1. PendingType => PendingTypeOK
  BY DEF PendingType
<1> QED BY <1>1, PendingInvariant, PTL

\* pending_api.rs:148-207: the actions of a proposal reach the workspace in their
\* order, whatever overlaps, fails or is killed, and each at most once while calls
\* come one by one and their saves succeed.
THEOREM AppliedAsProposedAlways ==
  PendingSpec => []AppliedAsProposed
<1>1. PendingType /\ OrderInv => AppliedInOrder
  <2> SUFFICES ASSUME PendingType, OrderInv, NEW q \in Proposals,
                      NEW i \in 1 .. Actions, NEW j \in 1 .. Actions, i < j
               PROVE  applied[q][i] >= applied[q][j]
    BY DEF AppliedInOrder
  <2>1. applied[q][i] >= applied[q][j] + Cardinality(Between(q, i, j))
    BY DEF OrderInv
  <2>2. Cardinality(Between(q, i, j)) \in Nat
    <3>1. Between(q, i, j) \subseteq {p \in Procs : pc[p] # "idle"}
      BY DEF Between
    <3> QED BY <3>1, FS_Subset, FS_CardinalityType DEF OrderInv
  <2>3. applied[q][i] \in Nat /\ applied[q][j] \in Nat
    BY DEF PendingType, PendingTypeOK
  <2> QED BY <2>1, <2>2, <2>3
<1>2. CalmInv => AppliedOnce
  BY DEF CalmInv, AppliedOnce
<1>3. PendingType /\ OrderInv /\ CalmInv => AppliedAsProposed
  BY <1>1, <1>2 DEF AppliedAsProposed
<1> QED BY <1>3, PendingInvariant, PTL

\* pending_api.rs:82-207: a proposal the store calls executed had its first action
\* applied, whatever overlaps, fails or is killed; one it calls refused or expired
\* had none, while calls come one by one and their saves succeed.
THEOREM StatusIsTrueAlways ==
  PendingSpec => []StatusIsTrue
<1>1. ExecutedInv => ExecutedWasApplied
  BY DEF ExecutedInv, ExecutedWasApplied
<1>2. CalmInv => RefusedUntouched
  BY DEF CalmInv, Untouched, RefusedUntouched
<1>3. ExecutedInv /\ CalmInv => StatusIsTrue
  BY <1>1, <1>2 DEF StatusIsTrue
<1> QED BY <1>3, PendingInvariant, PTL
===============================================================================
