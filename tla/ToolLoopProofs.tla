---------------------------- MODULE ToolLoopProofs ----------------------------
(***************************************************************************)
(* Proofs about ToolLoop, for every limit and every number of calls, about *)
(* the turn around it, TurnDriver, and about what the turn records,        *)
(* TurnRecorder.                                                           *)
(***************************************************************************)
EXTENDS ToolLoop, TurnDriver, TurnRecorder, SequenceTheorems, WellFoundedInduction, TLAPS

Spent(flag) == IF flag THEN 1 ELSE 0

\* What has been paid for so far: each model call was a tool turn or a correction.
Paid == (HiddenLimit + 1) * budgeted + hidden + Spent(leakTried) + Spent(loadTried)

Work ==
  /\ pc \in {"head", "model", "tools"} => hidden <= HiddenLimit
  /\ pc \in {"head", "tools"} => calls <= Paid
  /\ pc = "model" => calls <= Paid + 1 /\ budgeted < Limit
  /\ calls <= (HiddenLimit + 1) * (Limit + 1) + 2

\* Once the gate let visible calls through, nothing but a load changes the context.
GateHolds ==
  /\ pc = "tools" /\ todo.visible > 0 => ~MustLoad(context) \/ loadTried
  /\ ~early

\* What the user asked for is what the context says, as long as only the user spoke;
\* a correction may only add that commands are asked for.  The message before the
\* last reply takes that back.
Asking ==
  /\ pc \notin {"ok", "failed"} => reason = "none"
  /\ pc \in {"head", "model", "tools"} =>
       /\ userAsked => context.asked
       /\ ~leakTried /\ ~loadTried => context.asked = userAsked
  /\ pc = "final" => ~context.asked /\ budgeted >= Limit
  /\ CommandsAsRequested

IInv == TypeOK /\ Work /\ GateHolds /\ Asking

\* Every combination of the two settings allows at least two visible tool turns
\* (limits.rs).
THEOREM LimitAtLeastTwo ==
  \A turn, config \in Int : ResolvedLimit(turn, config) \in Nat /\ ResolvedLimit(turn, config) >= 2
BY DEF ResolvedLimit, ToolTurnLimit, DefaultLimit, UnboundedLimit

LEMMA LimitType == Limit \in Nat /\ Limit >= 2
BY LimitAtLeastTwo, LoopAssumption DEF Limit

\* One more visible turn pays for HiddenLimit + 1 model calls.
LEMMA OneMoreTurn ==
  ASSUME NEW h \in Nat, NEW b \in Nat
  PROVE  (h + 1) * (b + 1) = (h + 1) * b + h + 1
OBVIOUS

LEMMA PaidByLimit ==
  ASSUME NEW h \in Nat, NEW b \in Nat, NEW l \in Nat, b <= l
  PROVE  (h + 1) * b \in Nat /\ (h + 1) * b <= (h + 1) * l /\ (h + 1) * l \in Nat
OBVIOUS

LEMMA HearUserType ==
  ASSUME NEW c \in Context, NEW asked \in BOOLEAN, NEW optedOut \in BOOLEAN
  PROVE  HearUser(c, asked, optedOut) \in Context
BY DEF HearUser, Context

LEMMA NoCallsType == NoCalls \in Todo
BY LoopAssumption DEF NoCalls, Todo

LEMMA MessageType == \A m \in Message : m.asked \in BOOLEAN /\ m.optedOut \in BOOLEAN
BY DEF Message

LEMMA DrainType ==
  ASSUME TypeOK, Drain
  PROVE  inbox' = NoMessage /\ context' \in Context /\ userAsked' \in BOOLEAN
<1>1. CASE inbox.none
  BY <1>1 DEF Drain, TypeOK
<1>2. CASE ~inbox.none
  <2>1. inbox \in Message
    BY <1>2 DEF TypeOK, NoMessage
  <2> QED
    BY <1>2, <2>1, MessageType, HearUserType DEF Drain, TypeOK
<1> QED
  BY <1>1, <1>2

LEMMA InitIInv == Init => IInv
<1> SUFFICES ASSUME Init PROVE IInv
  OBVIOUS
<1> USE LoopAssumption, LimitType
<1>1. TypeOK
  <2>1. context \in Context /\ context.asked \in BOOLEAN
    BY DEF Init, Context
  <2>2. todo \in Todo /\ userAsked \in BOOLEAN
    BY <2>1, NoCallsType DEF Init
  <2>3. budgeted \in 0 .. Limit /\ hidden \in 0 .. HiddenLimit + 1 /\ injected \in 0 .. MaxInjections
    BY DEF Init
  <2> QED
    BY <2>1, <2>2, <2>3 DEF Init, TypeOK
<1>2. Work
  <2>1. (HiddenLimit + 1) * budgeted = 0
    BY DEF Init
  <2>2. (HiddenLimit + 1) * (Limit + 1) \in Nat
    BY PaidByLimit
  <2> QED
    BY <2>1, <2>2 DEF Init, Work, Paid, Spent
<1>3. GateHolds
  BY DEF Init, GateHolds
<1>4. Asking
  BY DEF Init, Asking, CommandsAsRequested, CommandsOnlyOnRequest, RequestedCommandsPass
<1> QED
  BY <1>1, <1>2, <1>3, <1>4 DEF IInv

(* Types *)

LEMMA TypeStep == TypeOK /\ Work /\ [Next]_vars => TypeOK'
<1> SUFFICES ASSUME TypeOK, Work, [Next]_vars PROVE TypeOK'
  OBVIOUS
<1> USE LoopAssumption, LimitType DEF TypeOK
<1>1. CASE Cancel
  BY <1>1 DEF Cancel
<1>2. CASE Inject
  BY <1>2 DEF Inject
<1>3. CASE HeadCancelled
  BY <1>3 DEF HeadCancelled, End
<1>4. CASE HeadOfLoop
  <2>1. inbox' = NoMessage /\ context' \in Context /\ userAsked' \in BOOLEAN
    BY <1>4, DrainType DEF HeadOfLoop
  <2>2. /\ pc' \in {"model", "failed"} /\ calls' \in Nat
        /\ reason' \in {"none", "cancelled", "overflow", "provider", "leak", "hidden",
                        "moreTools", "command", "answer"}
    BY <1>4 DEF HeadOfLoop, End
  <2> QED
    BY <1>4, <2>1, <2>2 DEF HeadOfLoop
<1>5. CASE ToFinal
  <2>1. context' \in Context
    <3>1. context' = HearUser(context, FALSE, FALSE) /\ context \in Context
      BY <1>5 DEF ToFinal
    <3>2. HearUser(context, FALSE, FALSE) \in Context
      BY <3>1, HearUserType
    <3> QED
      BY <3>1, <3>2
  <2>2. /\ pc' = "final" /\ calls' \in Nat
        /\ UNCHANGED <<budgeted, hidden, leakTried, loadTried, todo, inbox, injected,
                       cancelled, userAsked, early, reason>>
    BY <1>5 DEF ToFinal
  <2> QED
    BY <2>1, <2>2
<1>6. CASE ModelFails
  BY <1>6 DEF ModelFails, End
<1>7. ASSUME NEW commands \in BOOLEAN, Answer(commands) PROVE TypeOK'
  <2>1. CASE CorrectLoad
    BY <1>7, <2>1, HearUserType DEF Answer, CorrectLoad
  <2>2. CASE CorrectLeak(commands)
    BY <1>7, <2>2, HearUserType DEF Answer, CorrectLeak
  <2>3. CASE Accept(commands)
    BY <1>7, <2>3 DEF Answer, Accept, End
  <2> QED
    BY <1>7, <2>1, <2>2, <2>3 DEF Answer
<1>8. ASSUME NEW v \in 0 .. MaxCalls, NEW h \in 0 .. MaxCalls, GateRetry(v, h) PROVE TypeOK'
  BY <1>8, HearUserType DEF GateRetry
<1>9. ASSUME NEW v \in 0 .. MaxCalls, NEW h \in 0 .. MaxCalls, ToolTurn(v, h) PROVE TypeOK'
  <2>1. todo' \in Todo
    BY <1>9 DEF ToolTurn, Gated, Todo
  <2>2. budgeted < Limit /\ hidden <= HiddenLimit
    BY <1>9 DEF ToolTurn, Work
  <2> QED
    BY <1>9, <2>1, <2>2 DEF ToolTurn, VisibleTurn, HiddenTurn, End
<1>10. CASE CallsCancelled
  BY <1>10 DEF CallsCancelled, End
<1>11. CASE RunVisible
  <2>1. todo' \in Todo
    BY <1>11 DEF RunVisible, Todo
  <2> QED
    BY <1>11, <2>1 DEF RunVisible, MustLoad
<1>12. CASE RunHidden
  <2>1. todo' \in Todo
    BY <1>12 DEF RunHidden, Todo
  <2>2. context' \in Context
    BY <1>12 DEF RunHidden, Context
  <2> QED
    BY <1>12, <2>1, <2>2 DEF RunHidden
<1>13. CASE CallsDone
  BY <1>13, DrainType DEF CallsDone
<1>14. ASSUME NEW n \in 0 .. MaxCalls, NEW commands \in BOOLEAN, FinalReply(n, commands)
       PROVE  TypeOK'
  BY <1>14 DEF FinalReply, End
<1>15. CASE UNCHANGED vars
  BY <1>15 DEF vars
<1> QED
  BY <1>1, <1>2, <1>3, <1>4, <1>5, <1>6, <1>7, <1>8, <1>9, <1>10, <1>11, <1>12, <1>13, <1>14,
     <1>15 DEF Next

(* The number of model calls *)

LEMMA WorkStep == TypeOK /\ Work /\ [Next]_vars => Work'
<1> SUFFICES ASSUME TypeOK, Work, [Next]_vars PROVE Work'
  OBVIOUS
<1> USE LoopAssumption, LimitType
<1> DEFINE K == (HiddenLimit + 1) * budgeted
<1>a. /\ budgeted \in Nat /\ budgeted <= Limit /\ hidden \in Nat /\ calls \in Nat
      /\ leakTried \in BOOLEAN /\ loadTried \in BOOLEAN
  BY DEF TypeOK
<1>b. K \in Nat /\ K <= (HiddenLimit + 1) * Limit /\ (HiddenLimit + 1) * Limit \in Nat
  BY <1>a, PaidByLimit
<1>c. (HiddenLimit + 1) * (Limit + 1) = (HiddenLimit + 1) * Limit + HiddenLimit + 1
  BY OneMoreTurn
<1>d. (HiddenLimit + 1) * (budgeted + 1) = K + HiddenLimit + 1
  BY <1>a, OneMoreTurn
<1>e. ASSUME UNCHANGED <<pc, budgeted, hidden, leakTried, loadTried, calls>> PROVE Work'
  BY <1>e DEF Work, Paid, Spent
<1>f. ASSUME pc' \in {"ok", "failed"}, UNCHANGED calls PROVE Work'
  BY <1>f DEF Work
<1>1. CASE Cancel \/ Inject \/ RunVisible \/ RunHidden \/ UNCHANGED vars
  BY <1>1, <1>e DEF Cancel, Inject, RunVisible, RunHidden, vars
<1>2. CASE HeadCancelled \/ ModelFails \/ CallsCancelled
  BY <1>2, <1>f DEF HeadCancelled, ModelFails, CallsCancelled, End
<1>3. CASE HeadOfLoop
  <2>1. CASE pc' = "model"
    <3> HIDE DEF K
    <3>1. calls' = calls + 1 /\ budgeted < Limit /\ calls <= Paid /\ hidden <= HiddenLimit
      BY <1>3, <2>1 DEF HeadOfLoop, End, Work
    <3>2. Paid <= (HiddenLimit + 1) * Limit + HiddenLimit + 2
      BY <1>a, <1>b, <3>1 DEF Paid, Spent, K
    <3>3. calls' <= (HiddenLimit + 1) * (Limit + 1) + 2
      BY <1>a, <1>b, <1>c, <3>1, <3>2 DEF Paid, Spent, K
    <3>4. Paid' = Paid /\ UNCHANGED <<hidden, budgeted>>
      BY <1>3 DEF HeadOfLoop, Paid, Spent
    <3>5. Paid \in Int
      BY <1>a, <1>b DEF Paid, Spent, K
    <3> QED
      BY <1>a, <2>1, <3>1, <3>3, <3>4, <3>5 DEF Work
  <2>2. CASE pc' # "model"
    BY <1>3, <2>2, <1>f DEF HeadOfLoop, End
  <2> QED
    BY <2>1, <2>2
<1>4. CASE ToFinal
  <2>1. pc' = "final" /\ calls' = calls + 1 /\ calls <= Paid /\ hidden <= HiddenLimit
    BY <1>4 DEF ToFinal, Work
  <2>2. Paid <= (HiddenLimit + 1) * Limit + HiddenLimit + 2 /\ Paid \in Int
    BY <1>a, <1>b, <2>1 DEF Paid, Spent
  <2> HIDE DEF K
  <2>3. calls' <= (HiddenLimit + 1) * (Limit + 1) + 2
    BY <1>a, <1>b, <1>c, <2>1, <2>2
  <2>4. UNCHANGED budgeted
    BY <1>4 DEF ToFinal
  <2> QED
    BY <2>1, <2>3, <2>4 DEF Work
<1>5. ASSUME NEW commands \in BOOLEAN, Answer(commands) PROVE Work'
  <2>1. CASE Accept(commands)
    BY <1>5, <2>1, <1>f DEF Answer, Accept, End
  <2>2. CASE CorrectLoad \/ CorrectLeak(commands)
    <3>1. /\ pc = "model" /\ pc' = "head" /\ UNCHANGED <<budgeted, hidden, calls>>
          /\ Spent(leakTried)' + Spent(loadTried)' = Spent(leakTried) + Spent(loadTried) + 1
      <4>1. pc = "model" /\ UNCHANGED <<budgeted, hidden, calls>>
        BY <1>5 DEF Answer
      <4>2. CASE CorrectLoad
        BY <4>1, <4>2, <1>a DEF CorrectLoad, Spent
      <4>3. CASE CorrectLeak(commands)
        <5>1. pc' = "head" /\ leakTried = FALSE /\ leakTried' = TRUE /\ UNCHANGED loadTried
          BY <4>3, <1>a DEF CorrectLeak
        <5> QED
          BY <4>1, <5>1, <1>a DEF Spent
      <4> QED
        BY <2>2, <4>2, <4>3
    <3>2. Paid' = Paid + 1
      BY <3>1, <1>a, <1>b DEF Paid, Spent
    <3> QED
      BY <3>1, <3>2 DEF Work
  <2> QED
    BY <1>5, <2>1, <2>2 DEF Answer
<1>6. ASSUME NEW v \in 0 .. MaxCalls, NEW h \in 0 .. MaxCalls, GateRetry(v, h) PROVE Work'
  <2>1. /\ pc = "model" /\ pc' = "head" /\ UNCHANGED <<budgeted, hidden, calls>>
        /\ Spent(leakTried)' + Spent(loadTried)' = Spent(leakTried) + Spent(loadTried) + 1
    BY <1>6, <1>a DEF GateRetry, Spent
  <2>2. Paid' = Paid + 1
    BY <2>1, <1>a, <1>b DEF Paid, Spent
  <2> QED
    BY <2>1, <2>2 DEF Work
<1>7. ASSUME NEW v \in 0 .. MaxCalls, NEW h \in 0 .. MaxCalls, ToolTurn(v, h) PROVE Work'
  <2>1. /\ pc = "model" /\ UNCHANGED <<leakTried, loadTried, calls>>
        /\ calls <= Paid + 1 /\ hidden <= HiddenLimit
    BY <1>7 DEF ToolTurn, Work
  <2>2. CASE VisibleTurn(todo'.visible)
    <3>1. budgeted' = budgeted + 1 /\ hidden' = 0 /\ pc' = "tools"
      BY <2>2 DEF VisibleTurn
    <3>2. Paid' = K + HiddenLimit + 1 + Spent(leakTried) + Spent(loadTried)
      BY <2>1, <3>1, <1>a, <1>b, <1>d DEF Paid, Spent
    <3>3. calls <= Paid'
      BY <2>1, <3>2, <1>a, <1>b DEF Paid, Spent
    <3> QED
      BY <2>1, <3>1, <3>3 DEF Work
  <2>3. CASE HiddenTurn(todo'.visible)
    <3>1. CASE pc' = "failed"
      BY <2>1, <3>1, <1>f
    <3>2. CASE pc' # "failed"
      <4>1. UNCHANGED budgeted /\ hidden' = hidden + 1 /\ hidden' <= HiddenLimit /\ pc' = "tools"
        BY <2>3, <3>2, <1>a DEF HiddenTurn, End
      <4>2. Paid' = Paid + 1
        BY <2>1, <4>1, <1>a, <1>b DEF Paid, Spent
      <4> QED
        BY <2>1, <4>1, <4>2 DEF Work
    <3> QED
      BY <3>1, <3>2
  <2> QED
    BY <1>7, <2>2, <2>3 DEF ToolTurn
<1>8. CASE CallsDone
  <2>1. pc = "tools" /\ pc' = "head" /\ UNCHANGED <<budgeted, hidden, leakTried, loadTried, calls>>
    BY <1>8 DEF CallsDone
  <2> QED
    BY <2>1 DEF Work, Paid, Spent
<1>9. ASSUME NEW n \in 0 .. MaxCalls, NEW commands \in BOOLEAN, FinalReply(n, commands)
      PROVE  Work'
  BY <1>9, <1>f DEF FinalReply, End
<1> QED
  BY <1>1, <1>2, <1>3, <1>4, <1>5, <1>6, <1>7, <1>8, <1>9 DEF Next

(* The skill protocol *)

LEMMA GateStep == TypeOK /\ GateHolds /\ [Next]_vars => GateHolds'
<1> SUFFICES ASSUME TypeOK, GateHolds, [Next]_vars PROVE GateHolds'
  OBVIOUS
<1> USE DEF GateHolds
<1>1. ASSUME pc' # "tools", UNCHANGED early PROVE GateHolds'
  BY <1>1
<1>2. ASSUME UNCHANGED <<pc, todo, context, loadTried, early>> PROVE GateHolds'
  BY <1>2 DEF MustLoad
<1>3. CASE Cancel \/ Inject \/ UNCHANGED vars
  BY <1>3, <1>2 DEF Cancel, Inject, vars
<1>4. CASE HeadCancelled \/ HeadOfLoop \/ ToFinal \/ ModelFails \/ CallsCancelled \/ CallsDone
  BY <1>4, <1>1 DEF HeadCancelled, HeadOfLoop, ToFinal, ModelFails, CallsCancelled, CallsDone, End
<1>5. ASSUME NEW commands \in BOOLEAN, Answer(commands) PROVE GateHolds'
  BY <1>5, <1>1 DEF Answer, CorrectLoad, CorrectLeak, Accept, End
<1>6. ASSUME NEW v \in 0 .. MaxCalls, NEW h \in 0 .. MaxCalls, GateRetry(v, h) PROVE GateHolds'
  BY <1>6, <1>1 DEF GateRetry
<1>7. ASSUME NEW v \in 0 .. MaxCalls, NEW h \in 0 .. MaxCalls, ToolTurn(v, h) PROVE GateHolds'
  <2>1. UNCHANGED <<context, loadTried, early>> /\ todo' = Gated(v, h)
    BY <1>7 DEF ToolTurn
  <2>2. todo'.visible > 0 => ~MustLoad(context) \/ loadTried
    BY <1>7, <2>1 DEF ToolTurn, Gated
  <2> QED
    BY <2>1, <2>2 DEF MustLoad
<1>8. CASE RunVisible
  <2>1. todo.visible > 0 /\ pc = "tools" /\ UNCHANGED <<pc, context, loadTried>>
    BY <1>8 DEF RunVisible
  <2>2. ~MustLoad(context) \/ loadTried
    BY <2>1
  <2>3. early' = FALSE
    BY <1>8, <2>2 DEF RunVisible, TypeOK
  <2> QED
    BY <2>1, <2>2, <2>3 DEF MustLoad
<1>9. CASE RunHidden
  <2>1. UNCHANGED <<pc, loadTried, early>> /\ todo'.visible = todo.visible
    BY <1>9 DEF RunHidden, TypeOK, Todo
  <2>2. MustLoad(context') => MustLoad(context)
    BY <1>9 DEF RunHidden, MustLoad, TypeOK, Context
  <2> QED
    BY <2>1, <2>2 DEF MustLoad
<1>10. ASSUME NEW n \in 0 .. MaxCalls, NEW commands \in BOOLEAN, FinalReply(n, commands)
       PROVE  GateHolds'
  BY <1>10, <1>1 DEF FinalReply, End
<1> QED
  BY <1>3, <1>4, <1>5, <1>6, <1>7, <1>8, <1>9, <1>10 DEF Next

(* Commands in an answer *)

\* Hearing a message sets the flag and leaves what is known of the skills.
LEMMA Hears ==
  ASSUME NEW c \in Context, NEW asked \in BOOLEAN, NEW optedOut \in BOOLEAN
  PROVE  /\ HearUser(c, asked, optedOut).asked = asked
         /\ HearUser(c, asked, optedOut).loaded = c.loaded
BY DEF HearUser, Context

\* After a drain the flag is the user's, or both are as before.
LEMMA DrainHears ==
  ASSUME TypeOK, Drain
  PROVE  \/ context' = context /\ userAsked' = userAsked
         \/ context'.asked = userAsked'
<1>1. CASE inbox.none
  BY <1>1 DEF Drain
<1>2. CASE ~inbox.none
  <2>1. inbox \in Message
    BY <1>2 DEF TypeOK, NoMessage
  <2> QED
    BY <1>2, <2>1, MessageType, Hears DEF Drain, TypeOK
<1> QED
  BY <1>1, <1>2

\* While the loop runs nothing has been decided.
LEMMA Undecided ==
  ASSUME reason' = "none"
  PROVE  CommandsAsRequested'
BY DEF CommandsAsRequested, CommandsOnlyOnRequest, RequestedCommandsPass

LEMMA AskingStep == TypeOK /\ Asking /\ [Next]_vars => Asking'
<1> SUFFICES ASSUME TypeOK, Asking, [Next]_vars PROVE Asking'
  OBVIOUS
<1>1. ASSUME pc \notin {"ok", "failed"}, pc' = "failed", reason' \notin {"none", "command", "leak"}
      PROVE  Asking'
  BY <1>1 DEF Asking, CommandsAsRequested, CommandsOnlyOnRequest, RequestedCommandsPass
<1>2. ASSUME UNCHANGED <<pc, budgeted, context, leakTried, loadTried, userAsked, reason>>
      PROVE  Asking'
  BY <1>2 DEF Asking, CommandsAsRequested, CommandsOnlyOnRequest, RequestedCommandsPass
<1>3. CASE Cancel \/ Inject \/ RunVisible \/ UNCHANGED vars
  BY <1>3, <1>2 DEF Cancel, Inject, RunVisible, vars
<1>4. CASE HeadCancelled \/ ModelFails \/ CallsCancelled
  BY <1>4, <1>1 DEF HeadCancelled, ModelFails, CallsCancelled, End
<1>5. CASE HeadOfLoop
  <2>1. Drain /\ pc = "head" /\ UNCHANGED <<leakTried, loadTried>>
    BY <1>5 DEF HeadOfLoop
  <2>2. CASE pc' = "model"
    <3>1. reason' = "none"
      BY <1>5, <2>2 DEF HeadOfLoop, End, Asking
    <3> QED
      BY <2>1, <2>2, <3>1, DrainHears, Undecided DEF Asking
  <2>3. CASE pc' # "model"
    BY <1>5, <2>3, <1>1 DEF HeadOfLoop, End
  <2> QED
    BY <2>2, <2>3
<1>6. CASE ToFinal
  <2>1. ~context'.asked
    BY <1>6, Hears DEF ToFinal, TypeOK
  <2>2. pc' = "final" /\ UNCHANGED <<reason, budgeted>> /\ pc = "head" /\ budgeted >= Limit
    BY <1>6 DEF ToFinal
  <2>3. reason' = "none"
    BY <2>2 DEF Asking
  <2> QED
    BY <2>1, <2>2, <2>3, Undecided DEF Asking, Limit
<1>7. ASSUME CorrectLoad, pc = "model", UNCHANGED userAsked
      PROVE  Asking'
  <2>1. ~context.asked /\ ~userAsked
    BY <1>7 DEF CorrectLoad, MustLoad, Asking
  <2> QED
    BY <1>7, <2>1, Undecided DEF CorrectLoad, Asking
<1>8. ASSUME NEW commands \in BOOLEAN, Answer(commands) PROVE Asking'
  <2>1. pc = "model" /\ UNCHANGED <<budgeted, userAsked>>
    BY <1>8 DEF Answer
  <2>2. CASE CorrectLeak(commands)
    <3>1. context'.asked = TRUE
      BY <2>2, Hears DEF CorrectLeak, TypeOK
    <3> QED
      BY <2>1, <2>2, <3>1, Undecided DEF CorrectLeak, Asking
  <2>3. CASE Accept(commands)
    <3>1. UNCHANGED <<context, leakTried, loadTried>>
      BY <2>3 DEF Accept
    <3>2. CASE commands /\ Leaks(context)
      <4>1. userAsked => context.loaded
        BY <2>1, <3>2 DEF Leaks, Asking
      <4> QED
        BY <2>1, <2>3, <3>1, <3>2, <4>1
           DEF Accept, End, Asking, CommandsAsRequested, CommandsOnlyOnRequest, RequestedCommandsPass
    <3>3. CASE ~(commands /\ Leaks(context))
      <4>1. commands /\ context.catalog /\ ~leakTried /\ ~loadTried => userAsked
        BY <2>1, <3>3 DEF Leaks, Asking
      <4> QED
        BY <2>1, <2>3, <3>1, <3>3, <4>1
           DEF Accept, End, Asking, CommandsAsRequested, CommandsOnlyOnRequest, RequestedCommandsPass
    <3> QED
      BY <3>2, <3>3
  <2> QED
    BY <1>8, <1>7, <2>1, <2>2, <2>3 DEF Answer
<1>9. ASSUME NEW v \in 0 .. MaxCalls, NEW h \in 0 .. MaxCalls, GateRetry(v, h) PROVE Asking'
  <2>1. ~userAsked /\ reason' = "none"
    BY <1>9 DEF GateRetry, MustLoad, Asking
  <2> QED
    BY <1>9, <2>1, Undecided DEF GateRetry, Asking
<1>10. ASSUME NEW v \in 0 .. MaxCalls, NEW h \in 0 .. MaxCalls, ToolTurn(v, h) PROVE Asking'
  <2>1. pc = "model" /\ UNCHANGED <<context, leakTried, loadTried, userAsked>>
    BY <1>10 DEF ToolTurn
  <2>2. (pc' = "tools" /\ reason' = reason) \/ (pc' = "failed" /\ reason' = "hidden")
    BY <1>10 DEF ToolTurn, VisibleTurn, HiddenTurn, End
  <2> QED
    BY <1>1, <2>1, <2>2, Undecided DEF Asking
<1>11. CASE RunHidden
  <2>1. context'.asked = context.asked
    BY <1>11 DEF RunHidden, TypeOK, Context
  <2>2. pc = "tools" /\ UNCHANGED <<pc, leakTried, loadTried, userAsked, reason>>
    BY <1>11 DEF RunHidden
  <2> QED
    BY <2>1, <2>2, Undecided DEF Asking
<1>12. CASE CallsDone
  <2>1. Drain /\ pc = "tools" /\ pc' = "head" /\ UNCHANGED <<leakTried, loadTried, reason>>
    BY <1>12 DEF CallsDone
  <2> QED
    BY <2>1, DrainHears, Undecided DEF Asking
<1>13. ASSUME NEW n \in 0 .. MaxCalls, NEW commands \in BOOLEAN, FinalReply(n, commands)
       PROVE  Asking'
  <2>1. /\ pc = "final" /\ ~context.asked /\ budgeted >= Limit
        /\ UNCHANGED <<budgeted, context, leakTried, loadTried, userAsked>>
    BY <1>13 DEF FinalReply, Asking
  <2>2. budgeted \in Int /\ Limit \in Int
    BY LimitType DEF TypeOK
  <2>3. CASE pc' = "failed"
    BY <1>13, <2>1, <2>2, <2>3
       DEF FinalReply, End, Asking, CommandsAsRequested, CommandsOnlyOnRequest, RequestedCommandsPass
  <2>4. CASE pc' = "ok"
    <3>1. reason' = "command" => ~Leaks(context)
      BY <1>13, <2>4 DEF FinalReply, End
    <3>2. reason' \in {"command", "answer"}
      BY <1>13, <2>4 DEF FinalReply, End
    <3> QED
      BY <2>1, <2>4, <3>1, <3>2
         DEF Leaks, Asking, CommandsAsRequested, CommandsOnlyOnRequest, RequestedCommandsPass
  <2> QED
    BY <1>13, <2>3, <2>4 DEF FinalReply, End
<1> QED
  BY <1>3, <1>4, <1>5, <1>6, <1>8, <1>9, <1>10, <1>11, <1>12, <1>13 DEF Next

\* The inductive invariant behind the theorems below.
THEOREM Inductive == Spec => []IInv
<1>1. IInv /\ [Next]_vars => IInv'
  BY TypeStep, WorkStep, GateStep, AskingStep DEF IInv
<1> QED
  BY InitIInv, <1>1, PTL DEF Spec

\* The loop's state always has its type.
THEOREM TypeCorrect == Spec => []TypeOK
<1>1. IInv => TypeOK
  BY DEF IInv
<1> QED
  BY Inductive, <1>1, PTL

\* Whatever the model replies, one turn calls it at most
\* (HiddenLimit + 1) * (Limit + 1) + 2 times (loop.rs:497-639).
THEOREM ModelCallsBounded == Spec => []WorkBounded
<1>1. IInv => WorkBounded
  BY DEF IInv, Work, WorkBounded
<1> QED
  BY Inductive, <1>1, PTL

\* No visible tool runs before the model was told to load a matched skill
\* (loop.rs:82-139).
THEOREM VisibleToolsWait == Spec => []LoadAskedFirst
<1>1. IInv => LoadAskedFirst
  BY DEF IInv, GateHolds, LoadAskedFirst
<1> QED
  BY Inductive, <1>1, PTL

\* A reply with a command is the answer if the user asked for one and corrected if
\* not, as far as the user's words decide (private_skill.rs:193-219).
THEOREM CommandsFollowUser == Spec => []CommandsAsRequested
<1>1. IInv => CommandsAsRequested
  BY DEF IInv, Asking
<1> QED
  BY Inductive, <1>1, PTL

-----------------------------------------------------------------------------
(* The turn around the loop, which is TurnDriver: for any set of engines and *)
(* modes and any number of cancels.                                          *)

\* Nothing is told before the end, and a turn has one user row once it has built
\* its history.
Told ==
  /\ stage # "done" => terminal = <<>>
  /\ stage = "prepare" => userRows = 0
  /\ stage \notin {"prepare", "done"} => userRows = 1

\* What a native turn has stored before its end are checkpoints: marked, and made
\* because of a call, which nothing takes back.
Checkpoints ==
  engine = "native" =>
    /\ "calls" \in rec => "calls" \in stored
    /\ stage # "done" /\ stored # {} => "calls" \in rec /\ interrupted

DriverInv == TurnTypeOK /\ Told /\ Checkpoints /\ ToldAsStored

\* A turn that is not at its end has told nothing that could be wrong.
LEMMA NothingTold ==
  /\ stage # "done" /\ terminal = <<>> => ToldAsStored
  /\ stage' # "done" /\ terminal' = <<>> => ToldAsStored'
<1>1. terminal = <<>> => \A event : ~Emitted(event)
  BY DEF Emitted
<1>2. terminal' = <<>> => \A event : ~Emitted(event)'
  BY DEF Emitted
<1> QED
  BY <1>1, <1>2 DEF ToldAsStored, NativeStreamEndsOnce,
    CancelIsFinished, TerminalMatchesHistory, InterruptedHasBoundary

\* The first state: nothing is recorded and nothing told.
LEMMA DriverInit == TurnInit => DriverInv
<1> SUFFICES ASSUME TurnInit PROVE DriverInv
  OBVIOUS
<1> USE DEF TurnInit
<1>1. Told /\ Checkpoints
  BY DEF Told, Checkpoints
<1>2. {stopped, sawText, interrupted, aborted, marker} \subseteq BOOLEAN
  BY Zenon
<1>3. /\ engine \in Engines /\ mode \in Modes
      /\ stage = "prepare" /\ result = "none" /\ finished = "none" /\ terminal = <<>>
      /\ userRows = 0 /\ cancels = 0 /\ rec = {} /\ stored = {}
  OBVIOUS
<1>4. TurnTypeOK
  <2> HIDE DEF TurnInit
  <2> QED
    BY <1>2, <1>3, DriverAssumption DEF TurnTypeOK
<1>5. ToldAsStored
  BY NothingTold
<1> QED
  BY <1>1, <1>4, <1>5 DEF DriverInv

\* The terminal events of a turn that has just ended with one: that one.
LEMMA EndTold ==
  ASSUME terminal = <<>>, NEW e \in {"Error", "Interrupted", "Response"}, Emit(e)
  PROVE  /\ terminal' = <<e>>
         /\ NativeStreamEndsOnce'
         /\ \A event : Emitted(event)' <=> event = e
<1>1. terminal' = <<e>>
  BY DEF Emit
<1> QED
  BY <1>1 DEF Emitted, NativeStreamEndsOnce

\* The steps before the end record, store checkpoints and tell nothing.
LEMMA DriverRuns ==
  ASSUME DriverInv,
         \/ CancelTurn \/ Forgotten
         \/ PersistUserMessage \/ BuildHistory
         \/ \E kind \in {"reasoning", "text"} : Streams(kind)
         \/ ToolBoundary \/ Reset \/ Ends
         \/ Retry \/ Reprepared
  PROVE  DriverInv'
<1> USE DriverAssumption
    DEF DriverInv, TurnTypeOK, Told, Checkpoints, setting, history
<1>1. CASE CancelTurn
  BY <1>1, NothingTold DEF CancelTurn
<1>2. CASE Forgotten
  <2>1. stopped' \in BOOLEAN
    BY <1>2, Zenon DEF Forgotten
  <2>2. /\ stage # "done"
        /\ UNCHANGED <<setting, stage, cancels, rec, history, userRows,
                       result, terminal, finished, sawText>>
    BY <1>2 DEF Forgotten
  <2> QED
    BY <2>1, <2>2, NothingTold
<1>3. CASE PersistUserMessage
  BY <1>3, NothingTold DEF PersistUserMessage
<1>4. CASE BuildHistory
  BY <1>4, NothingTold DEF BuildHistory
<1>5. ASSUME NEW kind \in {"reasoning", "text"}, Streams(kind)
      PROVE  DriverInv'
  BY <1>5, NothingTold DEF Streams, Running, Kinds
<1>6. CASE ToolBoundary
  <2>1. stage' = stage /\ stage # "done" /\ terminal' = <<>>
    BY <1>6 DEF ToolBoundary, Running
  <2>2. rec' = rec \cup {"calls"} /\ rec' # {} /\ rec' \subseteq Kinds
    BY <1>6 DEF ToolBoundary, Kinds
  <2>3. \/ engine = "native" /\ stored' = rec' /\ interrupted' = TRUE
        \/ engine # "native" /\ UNCHANGED <<stored, interrupted>>
    BY <1>6, <2>2 DEF ToolBoundary, Persist
  <2> QED
    <3>1. UNCHANGED <<setting, stopped, cancels, aborted, userRows, result,
                      finished, sawText>>
      BY <1>6 DEF ToolBoundary
    <3>2. interrupted' \in BOOLEAN /\ stored' \subseteq Kinds
      BY <2>2, <2>3
    <3>3. engine = "native" => stored' = rec' /\ interrupted'
      BY <2>3
    <3> QED
      BY <2>1, <2>2, <3>1, <3>2, <3>3, NothingTold
<1>7. CASE Reset
  <2>1. stage' = stage /\ stage # "done" /\ terminal' = <<>>
    BY <1>7 DEF Reset, Running
  <2>2. rec' \subseteq rec /\ ("calls" \in rec <=> "calls" \in rec')
    BY <1>7 DEF Reset
  <2> QED
    <3>1. /\ UNCHANGED <<setting, stopped, cancels, history, userRows,
                         result, finished>>
      BY <1>7 DEF Reset
    <3>2. sawText' \in BOOLEAN
      BY <1>7, Zenon DEF Reset
    <3> QED
      BY <2>1, <2>2, <3>1, <3>2, NothingTold
<1>8. CASE Ends
  BY <1>8, NothingTold DEF Ends, Results
<1>9. CASE Retry
  BY <1>9, NothingTold DEF Retry
<1>10. CASE Reprepared
  BY <1>10, NothingTold DEF Reprepared
<1> QED
  BY <1>1, <1>2, <1>3, <1>4, <1>5, <1>6, <1>7, <1>8, <1>9, <1>10

\* A failure is told as an error and leaves the history as the checkpoints left it.
LEMMA DriverFails ==
  ASSUME DriverInv, stage # "done", Fail("Error")
  PROVE  DriverInv'
<1> USE DEF DriverInv, TurnTypeOK, Told, Checkpoints, setting, history
<1>1. terminal = <<>> /\ Emit("Error")
  BY DEF Fail
<1>2. TurnTypeOK' /\ Told' /\ Checkpoints'
  BY <1>1, EndTold DEF Fail
<1>3. ToldAsStored'
  BY <1>1, EndTold DEF ToldAsStored, CancelIsFinished,
    TerminalMatchesHistory, InterruptedHasBoundary
<1> QED
  BY <1>2, <1>3

\* What a native turn records with its answer.
LEMMA ResponseKinds ==
  ASSUME TurnTypeOK
  PROVE  /\ WithResponse \subseteq Kinds
         /\ rec \subseteq WithResponse
         /\ "calls" \in WithResponse <=> "calls" \in rec
BY DEF TurnTypeOK, WithResponse, Kinds

\* A cancelled native turn: its rows are marked, the model sees a boundary, and a
\* stream says once that it was interrupted.
LEMMA DriverCancels ==
  ASSUME DriverInv, stage \in {"finish", "refinish"}, engine = "native",
         CancelNative, UNCHANGED unchanged
  PROVE  DriverInv'
<1> DEFINE rows == IF Answered THEN WithResponse ELSE rec
<1> USE DEF DriverInv, TurnTypeOK, Told, Checkpoints, setting
<1>1. /\ rows \subseteq Kinds /\ rec \subseteq rows
      /\ "calls" \in rows <=> "calls" \in rec
  BY ResponseKinds
<1>2. /\ rec' = rows /\ aborted' = (marker /\ ~Visible(rows))
      /\ finished' = "cancelled" /\ stage' = "done"
      /\ Persist(rows, TRUE)
  BY DEF CancelNative, FinishCancelled
<1> HIDE DEF rows
<1>3. /\ stored' = rows
      /\ interrupted' \in BOOLEAN /\ (stored' # {} => interrupted')
  BY <1>1, <1>2 DEF Persist
<1>4. /\ UNCHANGED <<engine, mode, marker, stopped, cancels, userRows, result, sawText>>
  BY DEF unchanged
<1>5. CASE mode = "streaming"
  <2>1. Emit("Interrupted") /\ terminal = <<>>
    BY <1>5 DEF CancelNative
  <2>2. /\ terminal' = <<"Interrupted">> /\ NativeStreamEndsOnce'
        /\ \A event : Emitted(event)' <=> event = "Interrupted"
    BY <2>1, EndTold
  <2>3. TurnTypeOK' /\ Told' /\ Checkpoints'
    BY <1>1, <1>2, <1>3, <1>4, <2>2
  <2>4. InterruptedHasBoundary'
    BY <1>2, <1>3, <1>4 DEF InterruptedHasBoundary
  <2>5. TerminalMatchesHistory' /\ CancelIsFinished'
    BY <1>2, <1>3, <2>2 DEF TerminalMatchesHistory, CancelIsFinished
  <2> QED
    BY <2>2, <2>3, <2>4, <2>5 DEF ToldAsStored
<1>6. CASE mode # "streaming"
  <2>1. terminal' = <<>>
    BY <1>6 DEF CancelNative
  <2>2. \A event : ~Emitted(event)'
    BY <2>1 DEF Emitted
  <2>3. TurnTypeOK' /\ Told' /\ Checkpoints'
    BY <1>1, <1>2, <1>3, <1>4, <2>1
  <2> QED
    BY <1>2, <1>4, <1>6, <2>2, <2>3 DEF ToldAsStored, NativeStreamEndsOnce,
      TerminalMatchesHistory, CancelIsFinished, InterruptedHasBoundary
<1> QED
  BY <1>5, <1>6

\* An answered native turn that nobody cancelled: its rows are the history and are
\* not marked, and the answer is told.
LEMMA DriverSucceeds ==
  ASSUME DriverInv, stage \in {"finish", "refinish"}, engine = "native",
         Answered, Succeed, Emit("Response"), UNCHANGED unchanged
  PROVE  DriverInv'
<1> USE DEF DriverInv, TurnTypeOK, Told, Checkpoints, setting
<1>1. /\ terminal' = <<"Response">> /\ NativeStreamEndsOnce'
      /\ \A event : Emitted(event)' <=> event = "Response"
  BY EndTold
<1>2. /\ rec' \subseteq Kinds /\ rec \subseteq rec'
      /\ "calls" \in rec' <=> "calls" \in rec
  BY ResponseKinds DEF Succeed
<1>3. /\ stored' = rec'
      /\ interrupted' \in BOOLEAN /\ (stored' # {} => ~interrupted')
  BY <1>2 DEF Succeed, Persist
<1>4. /\ UNCHANGED <<engine, mode, marker, stopped, cancels, userRows, result, sawText, aborted>>
      /\ stage' = "done" /\ finished' = "success"
  BY DEF unchanged, Succeed
<1>5. TurnTypeOK' /\ Told' /\ Checkpoints'
  BY <1>1, <1>2, <1>3, <1>4
<1>6. TerminalMatchesHistory' /\ InterruptedHasBoundary'
  BY <1>1, <1>3 DEF TerminalMatchesHistory, InterruptedHasBoundary
<1>7. CancelIsFinished'
  BY <1>4 DEF CancelIsFinished, Answered
<1> QED
  BY <1>1, <1>5, <1>6, <1>7 DEF ToldAsStored

\* The other engines: one event, or an Interrupted before the empty Response.
LEMMA OthersTell ==
  ASSUME DriverInv, stage = "finish",
         \/ CodexDone \/ ExternalDone
  PROVE  DriverInv'
<1> USE DEF DriverInv, TurnTypeOK, Told, Checkpoints, setting, unchanged
<1>1. CASE CodexDone
  <2>1. stage' = "done" /\ engine = "codex" /\ engine' = engine /\ mode' = mode
    BY <1>1 DEF CodexDone, Succeed
  <2>2. terminal' \in {<<>>} \cup {<<e>> : e \in {"Error", "Interrupted", "Response"}}
    <3>1. terminal = <<>>
      OBVIOUS
    <3>2. \A e \in {"Error", "Interrupted", "Response"} : Emit(e) => terminal' = <<e>>
      BY <3>1, EndTold
    <3> QED
      BY <1>1, <3>1, <3>2 DEF CodexDone, EmitGated
  <2>3. rec' \subseteq Kinds
    BY <1>1, ResponseKinds DEF CodexDone, Succeed
  <2>4. stored' \subseteq Kinds /\ interrupted' \in BOOLEAN
    BY <1>1, <2>3 DEF CodexDone, Succeed, Persist
  <2>5. /\ finished' \in {"none", "success", "cancelled"} /\ aborted' = aborted
        /\ UNCHANGED <<engine, mode, marker, stopped, cancels, userRows, result, sawText>>
    BY <1>1 DEF CodexDone, Succeed
  <2>6. TurnTypeOK' /\ Told' /\ Checkpoints'
    BY <2>1, <2>2, <2>3, <2>4, <2>5
  <2> QED
    BY <2>1, <2>6 DEF ToldAsStored, NativeStreamEndsOnce,
      TerminalMatchesHistory, CancelIsFinished, InterruptedHasBoundary
<1>2. CASE ExternalDone
  <2>1. stage' = "done" /\ engine = "external" /\ engine' = engine /\ mode' = mode
    BY <1>2 DEF ExternalDone
  <2>2. terminal' \in {<<>>} \cup {<<e>> : e \in {"Error", "Interrupted", "Response"}}
                             \cup {<<"Interrupted", "Response">>}
    <3>1. terminal = <<>>
      OBVIOUS
    <3>2. \A e \in {"Error", "Interrupted", "Response"} : Emit(e) => terminal' = <<e>>
      BY <3>1, EndTold
    <3> QED
      <4>1. CASE result = "error"
        BY <1>2, <4>1, <3>2 DEF ExternalDone
      <4>2. CASE result = "cancelled"
        BY <1>2, <4>2, <3>1 DEF ExternalDone
      <4>3. CASE result \notin {"error", "cancelled"}
        BY <1>2, <4>3, <3>1, <3>2 DEF ExternalDone, EmitGated
      <4> QED
        BY <4>1, <4>2, <4>3
  <2>3. rec' \subseteq Kinds
    <3>1. PICK rows \in {IF result = "cancelled" THEN {} ELSE rec \cup more :
                          more \in SUBSET Kinds} :
            rec' = rows \/ rec' = rows \cup {"text"}
      BY <1>2 DEF ExternalDone
    <3>2. rec \subseteq Kinds /\ "text" \in Kinds
      BY DEF Kinds
    <3>3. rows \subseteq Kinds
      BY <3>2
    <3> QED
      BY <3>1, <3>2, <3>3
  <2>4. stored' \subseteq Kinds /\ interrupted' \in BOOLEAN
    BY <1>2, <2>3 DEF ExternalDone, Persist
  <2>5. /\ finished' \in {"none", "success", "cancelled"} /\ aborted' = aborted
        /\ UNCHANGED <<engine, mode, marker, stopped, cancels, userRows, result, sawText>>
    BY <1>2 DEF ExternalDone
  <2>6. TurnTypeOK' /\ Told' /\ Checkpoints'
    BY <2>1, <2>2, <2>3, <2>4, <2>5
  <2> QED
    BY <2>1, <2>6 DEF ToldAsStored, NativeStreamEndsOnce,
      TerminalMatchesHistory, CancelIsFinished, InterruptedHasBoundary
<1> QED
  BY <1>1, <1>2

\* Each step of the turn keeps its invariant.
LEMMA DriverNext ==
  ASSUME DriverInv, [TurnNext]_turnVars
  PROVE  DriverInv'
<1>1. CASE \/ CancelTurn \/ Forgotten
           \/ PersistUserMessage \/ BuildHistory
           \/ \E kind \in {"reasoning", "text"} : Streams(kind)
           \/ ToolBoundary \/ Reset \/ Ends
           \/ Retry \/ Reprepared
  BY <1>1, DriverRuns
<1>2. CASE PrepareFails \/ ReprepareFails \/ NativeError \/ RetryError
  <2>1. stage # "done" /\ Fail("Error")
    BY <1>2 DEF PrepareFails, ReprepareFails, NativeError, RetryError
  <2> QED
    BY <2>1, DriverFails
<1>3. CASE NativeOk
  <2>1. /\ stage \in {"finish", "refinish"} /\ engine = "native" /\ Answered
       /\ UNCHANGED unchanged
    BY <1>3 DEF NativeOk, Finishing
  <2>2. CancelNative \/ (Succeed /\ Emit("Response"))
    BY <1>3 DEF NativeOk
  <2> QED
    BY <2>1, <2>2, DriverCancels, DriverSucceeds
<1>4. CASE NativeCancelled
  BY <1>4, DriverCancels DEF NativeCancelled
<1>5. CASE CodexDone \/ ExternalDone
  BY <1>5, OthersTell DEF CodexDone, ExternalDone
<1>6. CASE UNCHANGED turnVars
  <2> USE <1>6 DEF turnVars
  <2>1. TurnTypeOK' /\ Told' /\ Checkpoints'
    BY DEF DriverInv, TurnTypeOK, Told, Checkpoints
  <2>2. ToldAsStored'
    BY DEF DriverInv, ToldAsStored, NativeStreamEndsOnce, Emitted,
      TerminalMatchesHistory, CancelIsFinished, InterruptedHasBoundary
  <2> QED
    BY <2>1, <2>2 DEF DriverInv
<1> QED
  BY <1>1, <1>2, <1>3, <1>4, <1>5, <1>6 DEF TurnNext, Finish

\* The invariant of the turn.
LEMMA DriverInductive == TurnSpec => []DriverInv
<1>1. DriverInv /\ [TurnNext]_turnVars => DriverInv'
  BY DriverNext
<1>2. TurnInit => DriverInv
  BY DriverInit
<1> QED
  BY <1>1, <1>2, PTL DEF TurnSpec

\* A native stream tells once how its turn ended, whatever cancels, overflows,
\* retries and errors come in between, and what it told is what the next turn reads
\* in the history (finalize.rs:148-176).
THEOREM ToldAsStoredAlways ==
  TurnSpec => []ToldAsStored
<1>1. DriverInv => ToldAsStored
  BY DEF DriverInv
<1> QED
  BY DriverInductive, <1>1, PTL

\* At every moment of a native turn its calls are in the history, and the message
\* of the user is there once (history.rs:238-241).
THEOREM CallsCheckpointedAlways ==
  TurnSpec => []CallsCheckpointed
<1>1. DriverInv => CallsCheckpointed
  BY DEF DriverInv, Told, Checkpoints, CallsCheckpointed
<1> QED
  BY DriverInductive, <1>1, PTL

-----------------------------------------------------------------------------
(* TurnRecorder: the calls in their order, and the deltas of attempts *)

\* The last call run has no result yet.
Open == trail # <<>> /\ ~trail[Len(trail)].done

LastOf(s) == s[Len(s)]

\* The deltas of the attempt are told apart by their number; those of attempts that
\* broke off came before it.
Earlier(x) == x[2] < sub \/ (x[2] = sub /\ x[3] < attempt)
GotInv ==
  /\ \A i \in 1 .. Len(got) : /\ got[i][1] \in {"text", "reasoning"}
                              /\ got[i][2] = sub /\ got[i][3] = attempt /\ got[i][4] = i
  /\ ~started => got = <<>>
  /\ phase = "tools" => got = <<>>
  /\ HasText(got) => saw
  /\ \A x \in broken : x[1] # "thinking"
  /\ phase # "ended" => \A x \in broken : Earlier(x)
  /\ phase # "ended" => \A x \in Recorded : x[1] = "thinking" \/ Earlier(x) \/ x \in Contents(got)

\* The one call without a result is the last of the last segment.
CallInv ==
  /\ Open => /\ phase = "tools" /\ toRun # <<>>
             /\ segments # <<>> /\ LastOf(segments).calls # <<>>
             /\ LastOf(LastOf(segments).calls).id = Head(toRun)
  /\ \A i \in DOMAIN segments : \A k \in DOMAIN segments[i].calls :
       ~segments[i].calls[k].done => Open /\ i = Len(segments) /\ k = Len(segments[i].calls)
  /\ TrailIntact

\* The deltas are recorded or were wiped, and those of broken attempts sealed.
Account == LostOnlyByReset /\ OnlySealedDeltasStay

\* The deltas of a segment by its place.
DeltasAt(segs, k) == DeltasIn(segs[k])

\* Behind a delta of the last segment only the call run last was recorded, and it is
\* in that segment.
Behind(segs, tr) ==
  segs # <<>> => \A x \in DeltasAt(segs, Len(segs)) : \A i \in 1 .. Len(tr) :
    tr[i].sub > x[2] => segs[Len(segs)].calls # <<>> /\ i = Len(tr)

BehindInv == (\A i \in 1 .. Len(trail) : trail[i].sub <= sub) /\ Behind(segments, trail)

\* A delta of the attempt before the last segment has text and then reasoning behind it; one
\* in the last segment has no call beside it, and no text that came before it.
SealInv ==
  /\ \A i \in DOMAIN segments : i # Len(segments) =>
       \A n \in DOMAIN got : got[n] \in DeltasIn(segments[i]) =>
         \E t, y \in DOMAIN got :
           got[t][1] = "text" /\ got[y][1] = "reasoning" /\ n <= t /\ t < y
  /\ segments # <<>> => \A n \in DOMAIN got : got[n] \in DeltasIn(LastOf(segments)) =>
       /\ LastOf(segments).calls = <<>>
       /\ LastOf(segments).content # <<>> => \E t \in DOMAIN got : got[t][1] = "text" /\ n <= t

RecorderInv ==
  RecorderTypes /\ GotInv /\ CallInv /\ SealInv /\ Account /\ BehindInv

-----------------------------------------------------------------------------
(* The calls of some segments: what the recursive function adds up *)

\* A set of numbers that is not empty has a least one.
LEMMA LeastNumber ==
  ASSUME NEW S \in SUBSET Nat, S # {}
  PROVE  \E x \in S : \A y \in S : x <= y
<1>1. IsWellFoundedOn(OpToRel(<, Nat), Nat)
  BY NatLessThanWellFounded
<1>2. PICK x \in S : \A y \in S : ~ (<<y, x>> \in OpToRel(<, Nat))
  BY <1>1, WFMin
<1>3. ASSUME NEW y \in S PROVE x <= y
  <2>1. ~ (<<y, x>> \in {ss \in Nat \X Nat : ss[1] < ss[2]})
    BY <1>2 DEF OpToRel
  <2> QED BY <2>1
<1> QED BY <1>3

\* f[k] is the calls of the first k segments, up to n.
Adds(segs, n, f) ==
  /\ f[0] = <<>>
  /\ \A k \in 1 .. n : f[k] = f[k - 1] \o segs[k].calls

Sums(segs, n, f) == DOMAIN f = 0 .. n /\ Adds(segs, n, f)

SameCalls(s, t, n) == \A k \in 1 .. n : s[k].calls = t[k].calls

\* There is such a function: no number is the least without one.
LEMMA SumsExist ==
  ASSUME NEW segs, NEW n \in Nat PROVE \E f : Sums(segs, n, f)
<1> DEFINE Bad == {k \in Nat : ~ \E f : Sums(segs, k, f)}
<1> SUFFICES ASSUME Bad # {} PROVE FALSE
  OBVIOUS
<1>1. PICK k \in Bad : \A j \in Bad : k <= j
  <2> HIDE DEF Bad
  <2>1. Bad \in SUBSET Nat
    BY DEF Bad
  <2> QED BY <2>1, LeastNumber
<1>2. k # 0
  <2>1. Sums(segs, 0, [m \in 0 .. 0 |-> <<>>])
    BY DEF Sums, Adds
  <2> QED BY <2>1
<1>3. PICK g : Sums(segs, k - 1, g)
  <2>1. k - 1 \in Nat /\ k - 1 \notin Bad
    BY <1>1, <1>2
  <2> QED BY <2>1
<1> DEFINE next == g[k - 1] \o segs[k].calls
<1> HIDE DEF next
<1> DEFINE h == [m \in 0 .. k |-> IF m = k THEN next ELSE g[m]]
<1>4. DOMAIN h = 0 .. k /\ h[k] = next
  BY <1>1
<1>5. \A m \in 0 .. k - 1 : h[m] = g[m]
  BY <1>1, <1>2
<1> HIDE DEF h
<1>6. h[0] = <<>>
  BY <1>1, <1>2, <1>3, <1>5 DEF Sums, Adds
<1>7. ASSUME NEW m \in 1 .. k PROVE h[m] = h[m - 1] \o segs[m].calls
  <2>1. CASE m = k
    <3>1. h[k - 1] = g[k - 1]
      BY <1>1, <1>2, <1>5
    <3> QED BY <1>4, <2>1, <3>1 DEF next
  <2>2. CASE m # k
    <3>1. m \in 1 .. k - 1 /\ m - 1 \in 0 .. k - 1 /\ m \in 0 .. k - 1
      BY <1>1, <1>2, <2>2
    <3>2. h[m] = g[m] /\ h[m - 1] = g[m - 1]
      BY <1>5, <3>1
    <3>3. g[m] = g[m - 1] \o segs[m].calls
      BY <1>3, <3>1 DEF Sums, Adds
    <3> QED BY <3>2, <3>3
  <2> QED BY <2>1, <2>2
<1>8. Sums(segs, k, h)
  BY <1>4, <1>6, <1>7 DEF Sums, Adds
<1> QED BY <1>1, <1>8

\* CallsOf is the last value of such a function.
LEMMA CallsOfIs ==
  ASSUME NEW segs, Len(segs) \in Nat
  PROVE  \E f : Sums(segs, Len(segs), f) /\ CallsOf(segs) = f[Len(segs)]
<1> DEFINE upTo == CHOOSE f : f = [n \in 0 .. Len(segs) |->
                     IF n = 0 THEN <<>> ELSE f[n - 1] \o segs[n].calls]
<1>1. CallsOf(segs) = upTo[Len(segs)]
  BY DEF CallsOf
<1>2. PICK g : Sums(segs, Len(segs), g)
  BY SumsExist
<1>3. g = [n \in 0 .. Len(segs) |-> IF n = 0 THEN <<>> ELSE g[n - 1] \o segs[n].calls]
  BY <1>2 DEF Sums, Adds
<1>4. upTo = [n \in 0 .. Len(segs) |-> IF n = 0 THEN <<>> ELSE upTo[n - 1] \o segs[n].calls]
  BY <1>3
<1>5. Sums(segs, Len(segs), upTo)
  <2> HIDE DEF upTo
  <2> QED BY <1>4 DEF Sums, Adds
<1> QED BY <1>1, <1>5

\* Segments with the same calls have the same sums.
LEMMA SumsAgree ==
  ASSUME NEW s, NEW t, NEW j \in Nat, NEW f, NEW g,
         SameCalls(s, t, j), Adds(s, j, f), Adds(t, j, g)
  PROVE  f[j] = g[j]
<1> DEFINE Bad == {k \in 0 .. j : f[k] # g[k]}
<1> SUFFICES ASSUME Bad # {} PROVE FALSE
  BY j \in 0 .. j
<1>1. PICK k \in Bad : \A i \in Bad : k <= i
  <2> HIDE DEF Bad
  <2>1. Bad \in SUBSET Nat
    BY DEF Bad
  <2> QED BY <2>1, LeastNumber
<1>2. k # 0
  BY DEF Adds
<1>3. k - 1 \in 0 .. j /\ k - 1 \notin Bad /\ k \in 1 .. j
  BY <1>1, <1>2
<1>4. f[k - 1] = g[k - 1] /\ s[k].calls = t[k].calls
  BY <1>3 DEF SameCalls
<1>5. f[k] = f[k - 1] \o s[k].calls /\ g[k] = g[k - 1] \o t[k].calls
  BY <1>3 DEF Adds
<1> QED BY <1>1, <1>4, <1>5

\* Sums are sequences of calls.
LEMMA SumsTyped ==
  ASSUME NEW s \in Seq(Segments), NEW f, Sums(s, Len(s), f), NEW j \in 0 .. Len(s)
  PROVE  f[j] \in Seq(Calls)
<1> DEFINE Bad == {k \in 0 .. Len(s) : f[k] \notin Seq(Calls)}
<1> SUFFICES ASSUME Bad # {} PROVE FALSE
  OBVIOUS
<1>1. PICK k \in Bad : \A i \in Bad : k <= i
  <2> HIDE DEF Bad
  <2>1. Bad \in SUBSET Nat
    BY DEF Bad
  <2> QED BY <2>1, LeastNumber
<1>2. k # 0
  <2>1. f[0] \in Seq(Calls)
    BY EmptySeq DEF Sums, Adds
  <2> QED BY <2>1
<1>3. k - 1 \in 0 .. Len(s) /\ k - 1 \notin Bad /\ k \in 1 .. Len(s)
  BY <1>1, <1>2
<1>4. f[k - 1] \in Seq(Calls) /\ s[k].calls \in Seq(Calls)
  <2>1. s[k] \in Segments
    BY <1>3
  <2> QED BY <1>3, <2>1 DEF Segments
<1>5. f[k] = f[k - 1] \o s[k].calls
  BY <1>3 DEF Sums, Adds
<1>6. f[k] \in Seq(Calls)
  BY <1>4, <1>5, ConcatProperties
<1> QED BY <1>1, <1>6

\* No segments, no calls; and what is there is calls.
LEMMA CallsOfTyped ==
  /\ CallsOf(<<>>) = <<>>
  /\ \A s \in Seq(Segments) : CallsOf(s) \in Seq(Calls)
<1>1. CallsOf(<<>>) = <<>>
  <2>1. Len(<<>>) = 0
    OBVIOUS
  <2> QED BY <2>1, CallsOfIs DEF Sums, Adds
<1>2. ASSUME NEW s \in Seq(Segments) PROVE CallsOf(s) \in Seq(Calls)
  <2>1. Len(s) \in Nat /\ Len(s) \in 0 .. Len(s)
    OBVIOUS
  <2> QED BY <2>1, CallsOfIs, SumsTyped
<1> QED BY <1>1, <1>2

\* A segment at the end adds its calls.
LEMMA CallsOfAppend ==
  ASSUME NEW s \in Seq(Segments), NEW x \in Segments
  PROVE  CallsOf(Append(s, x)) = CallsOf(s) \o x.calls
<1> DEFINE t == Append(s, x)
<1>1. /\ t \in Seq(Segments) /\ Len(t) = Len(s) + 1 /\ t[Len(s) + 1] = x
      /\ \A k \in 1 .. Len(s) : t[k] = s[k]
      /\ Len(s) \in Nat
  OBVIOUS
<1> HIDE DEF t
<1>2. PICK f : Sums(s, Len(s), f) /\ CallsOf(s) = f[Len(s)]
  BY <1>1, CallsOfIs
<1>3. PICK g : Sums(t, Len(s) + 1, g) /\ CallsOf(t) = g[Len(s) + 1]
  BY <1>1, CallsOfIs
<1>4. f[Len(s)] = g[Len(s)]
  <2>1. SameCalls(s, t, Len(s)) /\ \A k \in 1 .. Len(s) : k \in 1 .. Len(s) + 1
    BY <1>1 DEF SameCalls
  <2>2. Adds(s, Len(s), f) /\ Adds(t, Len(s), g)
    BY <1>2, <1>3, <2>1 DEF Sums, Adds
  <2> QED BY <1>1, <2>1, <2>2, SumsAgree
<1>5. g[Len(s) + 1] = g[Len(s)] \o x.calls
  <2>1. Len(s) + 1 \in 1 .. Len(s) + 1 /\ (Len(s) + 1) - 1 = Len(s)
    BY <1>1
  <2> QED BY <1>1, <1>3, <2>1 DEF Sums, Adds
<1> QED BY <1>2, <1>3, <1>4, <1>5 DEF t

\* A change in the last segment changes only the end of the calls.
LEMMA CallsOfLast ==
  ASSUME NEW s \in Seq(Segments), NEW t \in Seq(Segments), s # <<>>, Len(t) = Len(s),
         \A k \in 1 .. Len(s) - 1 : t[k].calls = s[k].calls
  PROVE  \E pre \in Seq(Calls) : /\ CallsOf(s) = pre \o s[Len(s)].calls
                                 /\ CallsOf(t) = pre \o t[Len(s)].calls
<1> DEFINE n == Len(s)
<1>1. n \in Nat /\ n > 0 /\ n - 1 \in Nat /\ n - 1 <= n /\ n \in 1 .. n /\ n - 1 \in 0 .. n
  OBVIOUS
<1> HIDE DEF n
<1>2. PICK f : Sums(s, n, f) /\ CallsOf(s) = f[n]
  BY <1>1, CallsOfIs DEF n
<1>3. PICK g : Sums(t, n, g) /\ CallsOf(t) = g[n]
  BY <1>1, CallsOfIs DEF n
<1>4. f[n - 1] = g[n - 1]
  <2>1. SameCalls(s, t, n - 1) /\ \A k \in 1 .. n - 1 : k \in 1 .. n
    BY <1>1 DEF SameCalls, n
  <2>2. Adds(s, n - 1, f) /\ Adds(t, n - 1, g)
    BY <1>2, <1>3, <2>1 DEF Sums, Adds
  <2> QED BY <1>1, <2>1, <2>2, SumsAgree
<1>5. f[n] = f[n - 1] \o s[n].calls /\ g[n] = g[n - 1] \o t[n].calls
  BY <1>1, <1>2, <1>3 DEF Sums, Adds
<1>6. f[n - 1] \in Seq(Calls)
  BY <1>1, <1>2, SumsTyped DEF n
<1> QED BY <1>2, <1>3, <1>4, <1>5, <1>6 DEF n

-----------------------------------------------------------------------------
(* Which segment is written, and what it holds then *)

\* A segment with another field is the record of the fields.
LEMMA SegmentWith ==
  ASSUME NEW s \in Segments, NEW v
  PROVE  /\ [s EXCEPT !.content = v] =
              [reasoning |-> s.reasoning, calls |-> s.calls, content |-> v]
         /\ [s EXCEPT !.reasoning = v] =
              [reasoning |-> v, calls |-> s.calls, content |-> s.content]
         /\ [s EXCEPT !.calls = v] =
              [reasoning |-> s.reasoning, calls |-> v, content |-> s.content]
BY DEF Segments

\* A blank segment holds nothing.
LEMMA BlankSegment ==
  Blank \in Segments /\ Blank.calls = <<>> /\ Blank.content = <<>> /\ DeltasIn(Blank) = {}
BY DEF Blank, Segments, DeltasIn, Contents

\* segment_for_trace: the last segment if it has no text and no calls, or a new one.
LEMMA TraceSegment ==
  ASSUME NEW segs \in Seq(Segments)
  PROVE  \/ /\ ForTrace(segs) = segs /\ segs # <<>>
            /\ segs[Len(segs)].content = <<>> /\ segs[Len(segs)].calls = <<>>
         \/ /\ ForTrace(segs) = Append(segs, Blank)
            /\ segs # <<>> => \/ segs[Len(segs)].content # <<>>
                              \/ segs[Len(segs)].calls # <<>>
<1>1. CASE segs = <<>>
  <2>1. ForTrace(segs) = <<Blank>> /\ <<Blank>> = Append(<<>>, Blank)
    BY <1>1 DEF ForTrace
  <2> QED BY <1>1, <2>1
<1>2. CASE segs # <<>>
  BY <1>2 DEF ForTrace
<1> QED BY <1>1, <1>2

\* segment_for_model_output: the last segment unless all its calls are done, or a new one.
LEMMA OutputSegment ==
  ASSUME NEW segs \in Seq(Segments)
  PROVE  \/ /\ ForOutput(segs) = segs /\ segs # <<>>
            /\ \/ segs[Len(segs)].calls = <<>>
               \/ \E i \in DOMAIN segs[Len(segs)].calls : ~segs[Len(segs)].calls[i].done
         \/ /\ ForOutput(segs) = Append(segs, Blank)
            /\ segs # <<>> =>
                 /\ segs[Len(segs)].calls # <<>>
                 /\ \A i \in DOMAIN segs[Len(segs)].calls : segs[Len(segs)].calls[i].done
<1>1. CASE segs = <<>>
  <2>1. ForOutput(segs) = <<Blank>> /\ <<Blank>> = Append(<<>>, Blank)
    BY <1>1 DEF ForOutput, Current
  <2> QED BY <1>1, <2>1
<1>2. CASE segs # <<>>
  BY <1>2 DEF ForOutput, Current
<1> QED BY <1>1, <1>2

\* A new segment brings no calls and no deltas.
LEMMA NewSegment ==
  ASSUME NEW segs \in Seq(Segments), NEW new, new = Append(segs, Blank)
  PROVE  /\ new \in Seq(Segments) /\ new # <<>> /\ Len(new) = Len(segs) + 1
         /\ \A k \in 1 .. Len(segs) : new[k] = segs[k]
         /\ new[Len(new)] = Blank
         /\ CallsOf(new) = CallsOf(segs)
         /\ RecordedIn(new) = RecordedIn(segs)
<1>1. /\ new \in Seq(Segments) /\ new # <<>> /\ Len(new) = Len(segs) + 1
      /\ \A k \in 1 .. Len(segs) : new[k] = segs[k]
      /\ new[Len(new)] = Blank
  BY BlankSegment
<1>2. CallsOf(new) = CallsOf(segs)
  <2>1. CallsOf(new) = CallsOf(segs) \o <<>>
    BY CallsOfAppend, BlankSegment
  <2> QED BY <2>1, CallsOfTyped, ConcatEmptySeq
<1>3. RecordedIn(new) = RecordedIn(segs)
  <2>1. DOMAIN new = DOMAIN segs \cup {Len(segs) + 1} /\ DOMAIN segs = 1 .. Len(segs)
    BY <1>1
  <2> QED BY <1>1, <2>1, BlankSegment DEF RecordedIn
<1> QED BY <1>1, <1>2, <1>3

\* What a delta changes in the segment it is written to.
LEMMA DeltaWritten ==
  ASSUME NEW segs \in Seq(Segments), segs # <<>>, NEW field \in {"content", "reasoning"},
         NEW x \in Deltas, NEW new, new = Extend(segs, field, x)
  PROVE  /\ new \in Seq(Segments) /\ Len(new) = Len(segs)
         /\ \A k \in 1 .. Len(segs) - 1 : new[k] = segs[k]
         /\ new[Len(segs)].calls = segs[Len(segs)].calls
         /\ DeltasAt(new, Len(segs)) = DeltasAt(segs, Len(segs)) \cup {x}
         /\ field = "reasoning" => new[Len(segs)].content = segs[Len(segs)].content
         /\ CallsOf(new) = CallsOf(segs)
         /\ RecordedIn(new) = RecordedIn(segs) \cup {x}
<1> DEFINE n == Len(segs)
           s == segs[n]
           u == [s EXCEPT ![field] = Append(@, x)]
<1>1. n \in Nat /\ n \in 1 .. n /\ DOMAIN segs = 1 .. n /\ s \in Segments
  OBVIOUS
<1>2. /\ u \in Segments /\ u.calls = s.calls
      /\ field = "content" => u.content = Append(s.content, x) /\ u.reasoning = s.reasoning
      /\ field = "reasoning" => u.reasoning = Append(s.reasoning, x) /\ u.content = s.content
  <2>1. /\ s.content \in Seq(Deltas) /\ s.reasoning \in Seq(Deltas) /\ s.calls \in Seq(Calls)
        /\ s = [reasoning |-> s.reasoning, calls |-> s.calls, content |-> s.content]
    BY <1>1 DEF Segments
  <2>0. s \in Segments
    BY <1>1
  <2> HIDE DEF s
  <2>2. CASE field = "content"
    <3>1. u = [reasoning |-> s.reasoning, calls |-> s.calls, content |-> Append(s.content, x)]
      <4>1. u = [s EXCEPT !.content = Append(s.content, x)]
        BY <2>2
      <4>2. [s EXCEPT !.content = Append(s.content, x)] =
            [reasoning |-> s.reasoning, calls |-> s.calls,
             content |-> Append(s.content, x)]
        BY <2>0, SegmentWith
      <4> QED BY <4>1, <4>2
    <3>2. Append(s.content, x) \in Seq(Deltas)
      BY <2>1
    <3> QED BY <2>1, <2>2, <3>1, <3>2 DEF Segments
  <2>3. CASE field = "reasoning"
    <3>1. u = [reasoning |-> Append(s.reasoning, x), calls |-> s.calls, content |-> s.content]
      <4>1. u = [s EXCEPT !.reasoning = Append(s.reasoning, x)]
        BY <2>3
      <4>2. [s EXCEPT !.reasoning = Append(s.reasoning, x)] =
            [reasoning |-> Append(s.reasoning, x), calls |-> s.calls,
             content |-> s.content]
        BY <2>0, SegmentWith
      <4> QED BY <4>1, <4>2
    <3>2. Append(s.reasoning, x) \in Seq(Deltas)
      BY <2>1
    <3> QED BY <2>1, <2>3, <3>1, <3>2 DEF Segments
  <2> QED BY <2>2, <2>3
<1>3. new = [segs EXCEPT ![n] = u]
  BY DEF Extend
<1> HIDE DEF u
<1>4. /\ new \in Seq(Segments) /\ Len(new) = n
      /\ \A k \in 1 .. n - 1 : new[k] = segs[k]
      /\ new[n] = u
  <2> HIDE DEF n
  <2>1. n \in 1 .. Len(segs) /\ n = Len(segs) /\ u \in Segments
    BY <1>1, <1>2 DEF n
  <2>2. /\ new \in Seq(Segments) /\ Len(new) = Len(segs)
        /\ \A k \in 1 .. Len(segs) : new[k] = IF k = n THEN u ELSE segs[k]
    BY <1>3, <2>1, ExceptSeq
  <2> QED BY <2>1, <2>2
<1>5. DeltasIn(u) = DeltasIn(s) \cup {x}
  <2>1. s.content \in Seq(Deltas) /\ s.reasoning \in Seq(Deltas)
    BY <1>1 DEF Segments
  <2>2. \A q \in Seq(Deltas) : Contents(Append(q, x)) = Contents(q) \cup {x}
    BY DEF Contents
  <2> HIDE DEF s
  <2> QED BY <1>2, <2>1, <2>2 DEF DeltasIn
<1>6. CallsOf(new) = CallsOf(segs)
  <2>1. \A k \in 1 .. n - 1 : new[k].calls = segs[k].calls
    BY <1>4
  <2>2. PICK pre \in Seq(Calls) : /\ CallsOf(segs) = pre \o s.calls
                                  /\ CallsOf(new) = pre \o new[n].calls
    BY <1>4, <2>1, CallsOfLast
  <2> QED BY <1>2, <1>4, <2>2
<1>7. RecordedIn(new) = RecordedIn(segs) \cup {x}
  <2>1. DOMAIN new = 1 .. n
    BY <1>4
  <2>2. \A k \in 1 .. n : k # n => DeltasIn(new[k]) = DeltasIn(segs[k])
    <3> SUFFICES ASSUME NEW k \in 1 .. n, k # n PROVE new[k] = segs[k]
      OBVIOUS
    <3>1. k \in 1 .. n - 1
      <4>1. n \in Nat
        BY <1>1
      <4> HIDE DEF n
      <4> QED BY <4>1
    <3> QED BY <1>4, <3>1
  <2> QED BY <1>1, <1>4, <1>5, <2>1, <2>2 DEF RecordedIn
<1>8. DeltasAt(new, n) = DeltasAt(segs, n) \cup {x}
  BY <1>4, <1>5 DEF DeltasAt
<1> QED BY <1>2, <1>4, <1>6, <1>7, <1>8

-----------------------------------------------------------------------------
(* What calls, results and resets change *)

\* Another last segment leaves those before it.
LEMMA LastReplaced ==
  ASSUME NEW segs \in Seq(Segments), segs # <<>>, NEW u \in Segments,
         NEW new, new = [segs EXCEPT ![Len(segs)] = u]
  PROVE  /\ new \in Seq(Segments) /\ new # <<>> /\ Len(new) = Len(segs)
         /\ \A k \in 1 .. Len(segs) - 1 : new[k] = segs[k]
         /\ new[Len(segs)] = u
<1>1. Len(segs) \in 1 .. Len(segs) /\ Len(segs) \in Nat
  OBVIOUS
<1>2. /\ new \in Seq(Segments) /\ Len(new) = Len(segs)
      /\ \A k \in 1 .. Len(segs) : new[k] = IF k = Len(segs) THEN u ELSE segs[k]
  BY <1>1, ExceptSeq
<1>3. new # <<>>
  BY <1>1, <1>2
<1>4. ASSUME NEW k \in 1 .. Len(segs) - 1 PROVE k \in 1 .. Len(segs) /\ k # Len(segs)
  BY <1>1
<1> QED BY <1>1, <1>2, <1>3, <1>4

\* With the same deltas in the last segment, what is recorded is the same.
LEMMA SameRecorded ==
  ASSUME NEW segs \in Seq(Segments), segs # <<>>, NEW new \in Seq(Segments),
         Len(new) = Len(segs), \A k \in 1 .. Len(segs) - 1 : new[k] = segs[k],
         DeltasIn(new[Len(segs)]) = DeltasIn(segs[Len(segs)])
  PROVE  RecordedIn(new) = RecordedIn(segs)
<1> DEFINE n == Len(segs)
<1>1. n \in Nat /\ DOMAIN new = 1 .. n /\ DOMAIN segs = 1 .. n
  OBVIOUS
<1>2. ASSUME NEW k \in 1 .. n PROVE DeltasIn(new[k]) = DeltasIn(segs[k])
  <2>1. CASE k = n
    BY <2>1
  <2>2. CASE k # n
    <3>1. k \in 1 .. n - 1
      <4> HIDE DEF n
      <4> QED BY <1>1, <2>2
    <3> QED BY <3>1
  <2> QED BY <2>1, <2>2
<1> HIDE DEF n
<1> QED BY <1>1, <1>2 DEF RecordedIn

\* An element behind two sequences is behind the second.
LEMMA ConcatAppend ==
  ASSUME NEW s \in Seq(Calls), NEW t \in Seq(Calls), NEW c \in Calls
  PROVE  s \o Append(t, c) = Append(s \o t, c)
<1>1. <<c>> \in Seq(Calls)
  OBVIOUS
<1>2. Append(t, c) = t \o <<c>> /\ s \o t \in Seq(Calls)
  BY AppendIsConcat, ConcatProperties
<1>3. Append(s \o t, c) = (s \o t) \o <<c>>
  BY <1>2, AppendIsConcat
<1> QED BY <1>1, <1>2, <1>3, ConcatAssociative

\* A call is added behind the calls so far, and no delta changes.
LEMMA CallWritten ==
  ASSUME NEW segs \in Seq(Segments), segs # <<>>, NEW c \in Calls,
         NEW new, new = Extend(segs, "calls", c)
  PROVE  /\ new \in Seq(Segments) /\ new # <<>> /\ Len(new) = Len(segs)
         /\ \A k \in 1 .. Len(segs) - 1 : new[k] = segs[k]
         /\ new[Len(segs)].calls = Append(segs[Len(segs)].calls, c)
         /\ CallsOf(new) = Append(CallsOf(segs), c)
         /\ DeltasAt(new, Len(segs)) = DeltasAt(segs, Len(segs))
         /\ RecordedIn(new) = RecordedIn(segs)
<1> DEFINE s == segs[Len(segs)]
           u == [s EXCEPT !.calls = Append(s.calls, c)]
<1>1. s \in Segments /\ s.calls \in Seq(Calls)
  <2>1. s \in Segments
    BY Len(segs) \in 1 .. Len(segs)
  <2> QED BY <2>1 DEF Segments
<1>2. new = [segs EXCEPT ![Len(segs)] = u]
  BY DEF Extend
<1>3. /\ u \in Segments /\ u.calls = Append(s.calls, c)
      /\ u.content = s.content /\ u.reasoning = s.reasoning
  <2> HIDE DEF s
  <2>1. u = [reasoning |-> s.reasoning, calls |-> Append(s.calls, c), content |-> s.content]
    BY <1>1, SegmentWith
  <2>2. /\ s.content \in Seq(Deltas) /\ s.reasoning \in Seq(Deltas)
        /\ Append(s.calls, c) \in Seq(Calls)
    BY <1>1 DEF Segments
  <2> HIDE DEF u
  <2> QED BY <2>1, <2>2 DEF Segments
<1> HIDE DEF u
<1>4. /\ new \in Seq(Segments) /\ new # <<>> /\ Len(new) = Len(segs)
      /\ \A k \in 1 .. Len(segs) - 1 : new[k] = segs[k]
      /\ new[Len(segs)] = u
  BY <1>2, <1>3, LastReplaced
<1>5. CallsOf(new) = Append(CallsOf(segs), c)
  <2>1. \A k \in 1 .. Len(segs) - 1 : new[k].calls = segs[k].calls
    BY <1>4
  <2>2. PICK pre \in Seq(Calls) : /\ CallsOf(segs) = pre \o s.calls
                                  /\ CallsOf(new) = pre \o new[Len(segs)].calls
    BY <1>4, <2>1, CallsOfLast
  <2> HIDE DEF s
  <2> QED BY <1>1, <1>3, <1>4, <2>2, ConcatAppend
<1>6. DeltasIn(new[Len(segs)]) = DeltasIn(segs[Len(segs)])
  BY <1>3, <1>4 DEF DeltasIn
<1>7. RecordedIn(new) = RecordedIn(segs)
  BY <1>4, <1>6, SameRecorded
<1> QED BY <1>3, <1>4, <1>5, <1>6, <1>7 DEF DeltasAt

\* A reset takes no call away; a delta that stays is before the last segment.
LEMMA ResetWritten ==
  ASSUME NEW segs \in Seq(Segments), NEW new, new = ResetLast(segs)
  PROVE  /\ new \in Seq(Segments) /\ Len(new) = Len(segs)
         /\ \A k \in 1 .. Len(segs) : new[k].calls = segs[k].calls
         /\ CallsOf(new) = CallsOf(segs)
         /\ segs # <<>> => DeltasAt(new, Len(segs)) = {}
         /\ \A k \in 1 .. Len(segs) - 1 : new[k] = segs[k]
         /\ \A x \in RecordedIn(new) : \E k \in DOMAIN segs :
              k # Len(segs) /\ x \in DeltasIn(segs[k])
<1>1. CASE segs = <<>>
  BY <1>1 DEF ResetLast, RecordedIn
<1>2. CASE segs # <<>>
  <2> DEFINE n == Len(segs)
             s == segs[n]
             u == [reasoning |-> <<>>, calls |-> s.calls, content |-> <<>>]
  <2>1. s \in Segments /\ s.calls \in Seq(Calls) /\ n \in Nat /\ n \in 1 .. n
    <3>1. n \in Nat /\ n \in 1 .. n
      BY <1>2
    <3>2. s \in Segments
      BY <3>1
    <3> QED BY <3>1, <3>2 DEF Segments
  <2>2. new = [segs EXCEPT ![n] = u]
    <3>1. new = [segs EXCEPT ![n] = [[s EXCEPT !.content = <<>>] EXCEPT !.reasoning = <<>>]]
      BY <1>2 DEF ResetLast
    <3>2. [[s EXCEPT !.content = <<>>] EXCEPT !.reasoning = <<>>] = u
      <4> DEFINE r == [reasoning |-> s.reasoning, calls |-> s.calls, content |-> <<>>]
      <4>1. [s EXCEPT !.content = <<>>] = r
        BY <2>1, SegmentWith
      <4>2. r \in Segments /\ r.calls = s.calls /\ r.content = <<>>
        <5> HIDE DEF s
        <5> QED BY <2>1 DEF Segments
      <4>3. [r EXCEPT !.reasoning = <<>>] = u
        <5> HIDE DEF r, s
        <5>1. [r EXCEPT !.reasoning = <<>>] =
              [reasoning |-> <<>>, calls |-> r.calls, content |-> r.content]
          BY <4>2, SegmentWith
        <5> QED BY <4>2, <5>1
      <4> QED BY <4>1, <4>3
    <3> QED BY <3>1, <3>2
  <2>3. u \in Segments /\ u.calls = s.calls /\ DeltasIn(u) = {}
    <3>1. u \in Segments /\ u.calls = s.calls
      BY <2>1 DEF Segments
    <3>2. DeltasIn(u) = {}
      BY DEF DeltasIn, Contents
    <3> QED BY <3>1, <3>2
  <2> HIDE DEF u
  <2>4. /\ new \in Seq(Segments) /\ new # <<>> /\ Len(new) = n
        /\ \A k \in 1 .. n - 1 : new[k] = segs[k]
        /\ new[n] = u
    BY <1>2, <2>2, <2>3, LastReplaced
  <2>5. ASSUME NEW k \in 1 .. n, k # n PROVE new[k] = segs[k]
    <3>1. k \in 1 .. n - 1
      <4> HIDE DEF n
      <4> QED BY <2>1, <2>5
    <3> QED BY <2>4, <3>1
  <2>6. \A k \in 1 .. n : new[k].calls = segs[k].calls
    BY <2>3, <2>4, <2>5
  <2>7. CallsOf(new) = CallsOf(segs)
    <3>1. \A k \in 1 .. n - 1 : new[k].calls = segs[k].calls
      BY <2>4
    <3>2. PICK pre \in Seq(Calls) : /\ CallsOf(segs) = pre \o s.calls
                                    /\ CallsOf(new) = pre \o new[n].calls
      BY <1>2, <2>4, <3>1, CallsOfLast
    <3> QED BY <2>3, <2>4, <3>2
  <2>8. ASSUME NEW x \in RecordedIn(new)
        PROVE  \E k \in DOMAIN segs : k # n /\ x \in DeltasIn(segs[k])
    <3>1. PICK k \in 1 .. n : x \in DeltasIn(new[k])
      BY <2>4 DEF RecordedIn
    <3>2. k # n
      BY <2>3, <2>4, <3>1
    <3> QED BY <2>5, <3>1, <3>2
  <2>9. DeltasAt(new, n) = {}
    BY <2>3, <2>4 DEF DeltasAt
  <2> QED BY <2>4, <2>6, <2>7, <2>8, <2>9
<1> QED BY <1>1, <1>2

\* The result goes to the last call of the last segment, if that has the id.
LEMMA FinishIsLast ==
  ASSUME NEW segs \in Seq(Segments), segs # <<>>, segs[Len(segs)].calls # <<>>,
         NEW id, id = LastOf(segs[Len(segs)].calls).id
  PROVE  FinishCall(segs, id) =
           [segs EXCEPT ![Len(segs)].calls[Len(segs[Len(segs)].calls)].done = TRUE]
<1> DEFINE n == Len(segs)
           m == Len(segs[n].calls)
           P == PositionsOf(segs, id)
<1>1. /\ n \in Nat /\ n \in DOMAIN segs /\ DOMAIN segs = 1 .. n
      /\ \A i \in DOMAIN segs : /\ segs[i].calls \in Seq(Calls)
                                /\ Len(segs[i].calls) \in Nat
                                /\ DOMAIN segs[i].calls = 1 .. Len(segs[i].calls)
  <2>1. n \in Nat /\ n \in DOMAIN segs /\ DOMAIN segs = 1 .. n
    OBVIOUS
  <2>2. ASSUME NEW i \in DOMAIN segs PROVE segs[i].calls \in Seq(Calls)
    <3>1. segs[i] \in Segments
      OBVIOUS
    <3> QED BY <3>1 DEF Segments
  <2> QED BY <2>1, <2>2
<1>2. m \in Nat /\ m \in DOMAIN segs[n].calls
  BY <1>1
<1>3. <<n, m>> \in P
  BY <1>1, <1>2 DEF PositionsOf, LastOf
<1>4. ASSUME NEW q \in P
      PROVE  /\ q = <<q[1], q[2]>> /\ q[1] \in 1 .. n /\ q[2] \in Nat
             /\ q[1] = n => q[2] <= m
  <2>1. PICK i \in DOMAIN segs : q \in {i} \X DOMAIN segs[i].calls
    BY DEF PositionsOf
  <2>2. q = <<q[1], q[2]>> /\ q[1] = i /\ q[2] \in 1 .. Len(segs[i].calls)
    BY <1>1, <2>1
  <2> QED BY <1>1, <2>2
<1> HIDE DEF n, m, P
<1>5. \A q \in P : Later(<<n, m>>, q)
  BY <1>1, <1>2, <1>4 DEF Later
<1>6. ASSUME NEW q \in P, Later(q, <<n, m>>) PROVE q = <<n, m>>
  <2>1. q[1] > n \/ (q[1] = n /\ q[2] >= m)
    BY <1>6 DEF Later
  <2>2. q[1] = n /\ q[2] = m
    BY <1>1, <1>2, <1>4, <2>1
  <2> QED BY <1>4, <2>2
<1>7. (CHOOSE p \in P : \A q \in P : Later(p, q)) = <<n, m>>
  BY <1>3, <1>5, <1>6
<1>8. FinishCall(segs, id) = [segs EXCEPT ![n].calls[m].done = TRUE]
  <2> DEFINE p == CHOOSE p \in P : \A q \in P : Later(p, q)
  <2>1. FinishCall(segs, id) = [segs EXCEPT ![p[1]].calls[p[2]].done = TRUE]
    BY DEF FinishCall, P
  <2>2. p = <<n, m>>
    BY <1>7
  <2> HIDE DEF p
  <2>3. p[1] = n /\ p[2] = m
    BY <2>2
  <2> QED BY <2>1, <2>3
<1> QED BY <1>8 DEF n, m

\* What is recorded are deltas.
LEMMA RecordedTyped ==
  ASSUME NEW segs \in Seq(Segments)
  PROVE  RecordedIn(segs) \subseteq Deltas
<1> SUFFICES ASSUME NEW x \in RecordedIn(segs) PROVE x \in Deltas
  OBVIOUS
<1>1. PICK k \in DOMAIN segs : x \in DeltasIn(segs[k])
  BY DEF RecordedIn
<1>2. segs[k] \in Segments
  OBVIOUS
<1>3. \A q \in Seq(Deltas) : Contents(q) \subseteq Deltas
  BY DEF Contents
<1> QED BY <1>1, <1>2, <1>3 DEF DeltasIn, Segments

\* A change of the last element behind another sequence.
LEMMA ConcatExcept ==
  ASSUME NEW s \in Seq(Calls), NEW t \in Seq(Calls), t # <<>>, NEW c \in Calls
  PROVE  s \o [t EXCEPT ![Len(t)] = c] = [s \o t EXCEPT ![Len(s \o t)] = c]
<1> DEFINE u == [t EXCEPT ![Len(t)] = c]
           w == s \o t
           v == [w EXCEPT ![Len(w)] = c]
<1>1. /\ Len(s) \in Nat /\ Len(t) \in Nat /\ Len(t) > 0 /\ Len(t) \in 1 .. Len(t)
  OBVIOUS
<1>2. /\ u \in Seq(Calls) /\ Len(u) = Len(t)
      /\ \A j \in 1 .. Len(t) : u[j] = IF j = Len(t) THEN c ELSE t[j]
  BY <1>1, ExceptSeq
<1> HIDE DEF u
<1>3. /\ w \in Seq(Calls) /\ Len(w) = Len(s) + Len(t)
      /\ \A j \in 1 .. Len(s) + Len(t) : w[j] = IF j <= Len(s) THEN s[j] ELSE t[j - Len(s)]
  BY ConcatProperties
<1> HIDE DEF w
<1>4. /\ v \in Seq(Calls) /\ Len(v) = Len(s) + Len(t)
      /\ \A j \in 1 .. Len(s) + Len(t) : v[j] = IF j = Len(s) + Len(t) THEN c ELSE w[j]
  <2>1. Len(w) \in 1 .. Len(w)
    BY <1>1, <1>3
  <2> QED BY <1>3, <2>1, ExceptSeq
<1> HIDE DEF v
<1>5. /\ s \o u \in Seq(Calls) /\ Len(s \o u) = Len(s) + Len(t)
      /\ \A j \in 1 .. Len(s) + Len(t) :
           (s \o u)[j] = IF j <= Len(s) THEN s[j] ELSE u[j - Len(s)]
  <2>1. /\ s \o u \in Seq(Calls) /\ Len(s \o u) = Len(s) + Len(u)
        /\ \A j \in 1 .. Len(s) + Len(u) :
             (s \o u)[j] = IF j <= Len(s) THEN s[j] ELSE u[j - Len(s)]
    BY <1>2, ConcatProperties
  <2> QED BY <1>2, <2>1
<1>6. ASSUME NEW j \in 1 .. Len(s) + Len(t) PROVE (s \o u)[j] = v[j]
  <2>1. CASE j <= Len(s)
    BY <1>1, <1>3, <1>4, <1>5, <2>1
  <2>2. CASE ~ (j <= Len(s))
    <3>1. j - Len(s) \in 1 .. Len(t) /\ (j - Len(s) = Len(t) <=> j = Len(s) + Len(t))
      BY <1>1, <2>2
    <3> QED BY <1>2, <1>3, <1>4, <1>5, <2>2, <3>1
  <2> QED BY <2>1, <2>2
<1>7. s \o u = v
  BY <1>4, <1>5, <1>6, SeqEqual
<1> QED BY <1>7 DEF u, v, w

\* Calls of which the last one has its result.
LastDone(s) == [s EXCEPT ![Len(s)].done = TRUE]

\* A result marks the last call, and nothing else.
LEMMA ResultWritten ==
  ASSUME NEW segs \in Seq(Segments), segs # <<>>, segs[Len(segs)].calls # <<>>,
         NEW id, id = LastOf(segs[Len(segs)].calls).id,
         NEW new, new = FinishCall(segs, id)
  PROVE  /\ new \in Seq(Segments) /\ new # <<>> /\ Len(new) = Len(segs)
         /\ \A k \in 1 .. Len(segs) - 1 : new[k] = segs[k]
         /\ Len(new[Len(segs)].calls) = Len(segs[Len(segs)].calls)
         /\ \A k \in DOMAIN new[Len(segs)].calls :
              ~new[Len(segs)].calls[k].done =>
                k # Len(segs[Len(segs)].calls) /\ ~segs[Len(segs)].calls[k].done
         /\ CallsOf(segs) # <<>>
         /\ CallsOf(new) = LastDone(CallsOf(segs))
         /\ DeltasAt(new, Len(segs)) = DeltasAt(segs, Len(segs))
         /\ RecordedIn(new) = RecordedIn(segs)
<1> DEFINE n == Len(segs)
           s == segs[n]
           a == s.calls
           m == Len(a)
           c == [a[m] EXCEPT !.done = TRUE]
           b == [a EXCEPT ![m] = c]
           u == [s EXCEPT !.calls = b]
<1>1. s \in Segments /\ a \in Seq(Calls) /\ n \in Nat
  <2>1. n \in Nat /\ n \in 1 .. n
    OBVIOUS
  <2>2. s \in Segments
    BY <2>1
  <2> QED BY <2>1, <2>2 DEF Segments
<1>2. new = [segs EXCEPT ![n] = u]
  BY FinishIsLast
<1> HIDE DEF s
<1>3. a # <<>> /\ m \in Nat /\ m \in 1 .. m
  <2>1. a # <<>>
    BY DEF s
  <2> HIDE DEF a
  <2> QED BY <1>1, <2>1
<1>4. c \in Calls /\ c.done = TRUE /\ a[m] \in Calls
  <2>1. a[m] \in Calls
    <3> HIDE DEF a
    <3> QED BY <1>1, <1>3
  <2> HIDE DEF a, m
  <2> QED BY <2>1 DEF Calls
<1> HIDE DEF c
<1>5. /\ b \in Seq(Calls) /\ Len(b) = m
      /\ \A k \in 1 .. m : b[k] = IF k = m THEN c ELSE a[k]
  <2> HIDE DEF a
  <2> QED BY <1>1, <1>3, <1>4, ExceptSeq
<1> HIDE DEF b
<1>6. /\ u \in Segments /\ u.calls = b /\ u.content = s.content /\ u.reasoning = s.reasoning
  <2>1. u = [reasoning |-> s.reasoning, calls |-> b, content |-> s.content]
    BY <1>1, SegmentWith
  <2>2. s.content \in Seq(Deltas) /\ s.reasoning \in Seq(Deltas)
    BY <1>1 DEF Segments
  <2> HIDE DEF u
  <2> QED BY <1>5, <2>1, <2>2 DEF Segments
<1> HIDE DEF u
<1>7. /\ new \in Seq(Segments) /\ new # <<>> /\ Len(new) = n
      /\ \A k \in 1 .. n - 1 : new[k] = segs[k]
      /\ new[n] = u
  BY <1>2, <1>6, LastReplaced
<1>8. /\ CallsOf(segs) # <<>>
      /\ CallsOf(new) = LastDone(CallsOf(segs))
  <2>1. \A k \in 1 .. n - 1 : new[k].calls = segs[k].calls
    BY <1>7
  <2>2. PICK pre \in Seq(Calls) : /\ CallsOf(segs) = pre \o segs[n].calls
                                  /\ CallsOf(new) = pre \o new[n].calls
    BY <1>7, <2>1, CallsOfLast
  <2>3. CallsOf(segs) = pre \o a /\ CallsOf(new) = pre \o b
    BY <1>6, <1>7, <2>2 DEF s
  <2> HIDE DEF a
  <2>4. pre \o b = [pre \o a EXCEPT ![Len(pre \o a)] = c]
    BY <1>1, <1>3, <1>4, ConcatExcept DEF b
  <2>5. Len(pre \o a) \in Nat /\ Len(pre \o a) > 0 /\ (pre \o a)[Len(pre \o a)] = a[m]
    <3>1. /\ Len(pre \o a) = Len(pre) + m /\ Len(pre) \in Nat
          /\ \A k \in 1 .. Len(pre) + m :
               (pre \o a)[k] = IF k <= Len(pre) THEN pre[k] ELSE a[k - Len(pre)]
      BY <1>1, ConcatProperties
    <3> HIDE DEF m
    <3>2. Len(pre) + m \in 1 .. Len(pre) + m /\ ~ (Len(pre) + m <= Len(pre))
          /\ (Len(pre) + m) - Len(pre) = m
      BY <1>3, <3>1
    <3> QED BY <1>3, <3>1, <3>2
  <2> DEFINE w == pre \o a
  <2>6. [w EXCEPT ![Len(w)].done = TRUE] = [w EXCEPT ![Len(w)] = c]
    <3>1. c = [w[Len(w)] EXCEPT !.done = TRUE]
      BY <2>5 DEF c
    <3> HIDE DEF w
    <3> QED BY <3>1
  <2>7. w # <<>>
    BY <2>5
  <2> HIDE DEF w, m
  <2> QED BY <2>3, <2>4, <2>6, <2>7 DEF w, LastDone
<1>9. /\ DeltasAt(new, n) = DeltasAt(segs, n)
      /\ RecordedIn(new) = RecordedIn(segs)
  <2>1. DeltasIn(new[n]) = DeltasIn(segs[n])
    BY <1>6, <1>7 DEF DeltasIn, s
  <2> QED BY <1>7, <2>1, SameRecorded DEF DeltasAt
<1>10. ASSUME NEW k \in DOMAIN new[n].calls, ~new[n].calls[k].done
       PROVE  k # m /\ ~a[k].done
  <2>1. new[n].calls = b /\ k \in 1 .. m
    BY <1>5, <1>6, <1>7
  <2>2. k # m
    BY <1>4, <1>5, <1>10, <2>1
  <2> QED BY <1>5, <1>10, <2>1, <2>2
<1>11. Len(new[n].calls) = m
  BY <1>5, <1>6, <1>7
<1> QED BY <1>7, <1>8, <1>9, <1>10, <1>11 DEF s

-----------------------------------------------------------------------------
(* Steps of the recorder *)

\* While the model streams, every call has its result.
LEMMA NothingOpen ==
  ASSUME RecorderInv, phase = "stream"
  PROVE  /\ ~Open
         /\ \A i \in DOMAIN segments : \A k \in DOMAIN segments[i].calls :
              segments[i].calls[k].done
BY DEF RecorderInv, CallInv

\* The segment a delta goes to, when all calls are done.
LEMMA DeltaSegment ==
  ASSUME RecorderInv, phase = "stream", NEW kind \in {"text", "reasoning"},
         NEW opened, opened = IF kind = "text" THEN ForOutput(segments) ELSE ForTrace(segments)
  PROVE  \/ /\ opened = segments /\ segments # <<>> /\ LastOf(segments).calls = <<>>
            /\ kind = "reasoning" => LastOf(segments).content = <<>>
         \/ /\ opened = Append(segments, Blank)
            /\ segments # <<>> => \/ kind = "reasoning" /\ LastOf(segments).content # <<>>
                                  \/ LastOf(segments).calls # <<>>
<1>1. segments \in Seq(Segments)
  BY DEF RecorderInv, RecorderTypes
<1>2. CASE kind = "text"
  <2>1. segments # <<>> => Len(segments) \in DOMAIN segments
    BY <1>1
  <2>2. segments # <<>> => \A i \in DOMAIN segments[Len(segments)].calls :
                              segments[Len(segments)].calls[i].done
    BY <2>1, NothingOpen
  <2> QED BY <1>1, <1>2, <2>2, OutputSegment DEF LastOf
<1>3. CASE kind = "reasoning"
  BY <1>1, <1>3, TraceSegment DEF LastOf
<1> QED BY <1>2, <1>3

\* While segments and calls stay, so does what holds of them.
LEMMA CallsStay ==
  ASSUME CallInv, segments' = segments, trail' = trail,
         Open => phase' = phase /\ toRun' = toRun
  PROVE  CallInv'
BY DEF CallInv, Open, LastOf, TrailIntact

\* Calls stay as they are when a delta is written.
LEMMA CallsStayBeside ==
  ASSUME RecorderInv, phase = "stream", phase' = phase, toRun' = toRun, trail' = trail,
         segments' \in Seq(Segments), CallsOf(segments') = CallsOf(segments),
         \A i \in DOMAIN segments' : \/ segments'[i].calls = <<>>
                                     \/ /\ i \in DOMAIN segments
                                        /\ segments'[i].calls = segments[i].calls
  PROVE  CallInv'
<1>1. ~Open' /\ ~Open
  BY NothingOpen DEF Open
<1>2. ASSUME NEW i \in DOMAIN segments', NEW k \in DOMAIN segments'[i].calls
      PROVE  segments'[i].calls[k].done
  <2>1. segments'[i].calls # <<>>
    BY <1>2
  <2>2. i \in DOMAIN segments /\ segments'[i].calls = segments[i].calls
    BY <2>1
  <2> QED BY <2>2, NothingOpen
<1>3. TrailIntact'
  BY DEF RecorderInv, CallInv, TrailIntact
<1> QED BY <1>1, <1>2, <1>3 DEF CallInv

\* Seals are about the attempt: the same one, or one without deltas.
LEMMA SealsStay ==
  ASSUME SealInv, got' = <<>> \/ (got' = got /\ segments' = segments)
  PROVE  SealInv'
<1>1. CASE got' = <<>>
  <2>1. DOMAIN got' = {}
    BY <1>1
  <2> QED BY <2>1 DEF SealInv
<1>2. CASE got' = got /\ segments' = segments
  BY <1>2 DEF SealInv, LastOf
<1> QED BY <1>1, <1>2

\* Where segments and calls stay, the calls behind the last deltas do.
LEMMA BehindStays ==
  ASSUME RecorderInv, segments' = segments, trail' = trail,
         sub' = sub \/ sub' = sub + 1
  PROVE  BehindInv'
<1>1. /\ sub \in Nat /\ trail \in Seq(Calls)
      /\ \A i \in 1 .. Len(trail) : trail[i].sub <= sub
      /\ Behind(segments, trail)
  BY DEF RecorderInv, RecorderTypes, BehindInv
<1>2. \A i \in 1 .. Len(trail) : trail[i].sub \in Nat
  <2>1. \A i \in 1 .. Len(trail) : trail[i] \in Calls
    BY <1>1
  <2> QED BY <2>1 DEF Calls
<1>3. \A i \in 1 .. Len(trail) : trail[i].sub <= sub'
  BY <1>1, <1>2
<1> QED BY <1>1, <1>3 DEF BehindInv

\* A delta of the sub-turn has no call behind it when it is written.
LEMMA BehindDelta ==
  ASSUME RecorderInv, NEW opened, NEW x \in Deltas, x[2] = sub,
         (opened = segments /\ segments # <<>>) \/ opened = Append(segments, Blank),
         segments' # <<>>, Len(segments') = Len(opened),
         segments'[Len(opened)].calls = opened[Len(opened)].calls,
         DeltasAt(segments', Len(opened)) = DeltasAt(opened, Len(opened)) \cup {x},
         trail' = trail, sub' = sub \/ sub' = sub + 1
  PROVE  BehindInv'
<1>1. /\ sub \in Nat /\ trail \in Seq(Calls) /\ segments \in Seq(Segments)
      /\ \A i \in 1 .. Len(trail) : trail[i].sub <= sub
      /\ Behind(segments, trail)
  BY DEF RecorderInv, RecorderTypes, BehindInv
<1>2. \A i \in 1 .. Len(trail) : trail[i].sub \in Nat
  <2>1. \A i \in 1 .. Len(trail) : trail[i] \in Calls
    BY <1>1
  <2> QED BY <2>1 DEF Calls
<1>3. \A i \in 1 .. Len(trail) : trail[i].sub <= sub'
  BY <1>1, <1>2
<1>4. ASSUME NEW y \in DeltasAt(segments', Len(opened)), NEW i \in 1 .. Len(trail),
             trail[i].sub > y[2]
      PROVE  segments'[Len(opened)].calls # <<>> /\ i = Len(trail)
  <2>1. y # x
    BY <1>1, <1>2, <1>4
  <2>2. y \in DeltasAt(opened, Len(opened))
    BY <1>4, <2>1
  <2>3. CASE opened = segments /\ segments # <<>>
    BY <1>1, <1>4, <2>2, <2>3 DEF Behind
  <2>4. CASE opened = Append(segments, Blank)
    BY <1>1, <2>2, <2>4, NewSegment, BlankSegment DEF DeltasAt
  <2> QED BY <2>3, <2>4
<1>5. Behind(segments', trail')
  <2> DEFINE new == segments'
  <2>1. Len(new) = Len(opened)
    OBVIOUS
  <2>2. \A y \in DeltasAt(new, Len(new)) : \A i \in 1 .. Len(trail) :
          trail[i].sub > y[2] => new[Len(new)].calls # <<>> /\ i = Len(trail)
    BY <1>4, <2>1
  <2> HIDE DEF new
  <2>3. Behind(new, trail)
    BY <2>2 DEF Behind
  <2> QED BY <2>3 DEF new
<1> QED BY <1>3, <1>5 DEF BehindInv

\* A completed call of the model leaves its deltas recorded and those that broke off apart.
LEMMA SubturnStep ==
  ASSUME RecorderInv, phase = "stream", NextSubturn,
         UNCHANGED <<saw, broken, wiped>>, phase' # "ended",
         Recorded \subseteq Recorded',
         \A x \in Recorded' : x \in Recorded \/ x[1] = "thinking"
  PROVE  GotInv' /\ SealInv' /\ Account'
<1>1. /\ sub \in Nat /\ attempt \in Nat /\ broken \subseteq Deltas /\ got \in Seq(Deltas)
      /\ sub' = sub + 1 /\ got' = <<>> /\ started' = FALSE
      /\ broken' = broken /\ wiped' = wiped /\ saw' = saw
      /\ completed' = completed \cup Contents(got)
  BY DEF RecorderInv, RecorderTypes, NextSubturn
<1>2. Recorded \subseteq Deltas
  BY RecordedTyped DEF RecorderInv, RecorderTypes, Recorded
<1>3. \A x \in Deltas : Earlier(x) \/ x \in Contents(got) => x[2] < sub'
  <2>1. \A x \in Deltas : x[2] \in Nat
    BY DEF Deltas
  <2>2. \A x \in Contents(got) : x[2] = sub
    BY <1>1 DEF RecorderInv, GotInv, Contents
  <2> QED BY <1>1, <2>1, <2>2 DEF Earlier
<1>4. GotInv'
  <2>1. \A x \in broken' : x[1] # "thinking" /\ Earlier(x)'
    BY <1>1, <1>3 DEF RecorderInv, GotInv, Earlier
  <2>2. \A x \in Recorded' : x[1] = "thinking" \/ Earlier(x)'
    BY <1>2, <1>3 DEF RecorderInv, GotInv, Earlier
  <2>3. Len(got') = 0 /\ DOMAIN got' = {}
    BY <1>1
  <2> QED BY <1>1, <2>1, <2>2, <2>3 DEF GotInv, HasText
<1>5. SealInv'
  BY <1>1, SealsStay DEF RecorderInv
<1>6. LostOnlyByReset'
  <2>1. Contents(got') = {}
    BY <1>1 DEF Contents
  <2> QED BY <1>1, <2>1 DEF RecorderInv, Account, LostOnlyByReset
<1>7. OnlySealedDeltasStay'
  <2>1. Recorded' \cap broken' \subseteq Recorded \cap broken
    BY <1>1 DEF RecorderInv, GotInv
  <2> QED BY <1>1, <2>1 DEF RecorderInv, Account, OnlySealedDeltasStay
<1> QED BY <1>4, <1>5, <1>6, <1>7 DEF Account

\* Where a delta of the model or of the loop is written, while no call is open.
LEMMA DeltaPlaced ==
  ASSUME RecorderInv, phase = "stream", NEW kind \in {"text", "reasoning"},
         NEW opened, opened = IF kind = "text" THEN ForOutput(segments) ELSE ForTrace(segments),
         NEW field \in {"content", "reasoning"}, NEW x \in Deltas,
         segments' = Extend(opened, field, x)
  PROVE  /\ opened \in Seq(Segments) /\ opened # <<>> /\ Len(opened) \in Nat
         /\ segments' \in Seq(Segments) /\ Len(segments') = Len(opened)
         /\ \A k \in 1 .. Len(opened) - 1 : segments'[k] = opened[k]
         /\ segments'[Len(opened)].calls = opened[Len(opened)].calls
         /\ DeltasAt(segments', Len(opened)) = DeltasAt(opened, Len(opened)) \cup {x}
         /\ field = "reasoning" => segments'[Len(opened)].content = opened[Len(opened)].content
         /\ CallsOf(segments') = CallsOf(segments)
         /\ Recorded' = Recorded \cup {x}
         /\ \A i \in DOMAIN segments' :
              \/ segments'[i].calls = <<>>
              \/ i \in DOMAIN segments /\ segments'[i].calls = segments[i].calls
<1>1. segments \in Seq(Segments) /\ DOMAIN segments = 1 .. Len(segments)
  BY DEF RecorderInv, RecorderTypes
<1>2. (opened = segments /\ segments # <<>>) \/ opened = Append(segments, Blank)
  BY DeltaSegment
<1>3. /\ opened \in Seq(Segments) /\ opened # <<>>
      /\ CallsOf(opened) = CallsOf(segments) /\ RecordedIn(opened) = RecordedIn(segments)
  BY <1>1, <1>2, NewSegment
<1> DEFINE m == Len(opened)
<1>4. /\ segments' \in Seq(Segments) /\ Len(segments') = m
      /\ \A k \in 1 .. m - 1 : segments'[k] = opened[k]
      /\ segments'[m].calls = opened[m].calls
      /\ DeltasAt(segments', m) = DeltasAt(opened, m) \cup {x}
      /\ field = "reasoning" => segments'[m].content = opened[m].content
      /\ CallsOf(segments') = CallsOf(opened)
      /\ RecordedIn(segments') = RecordedIn(opened) \cup {x}
  <2> DEFINE new == segments'
  <2>1. new = Extend(opened, field, x)
    OBVIOUS
  <2> HIDE DEF new, m
  <2>2. /\ new \in Seq(Segments) /\ Len(new) = Len(opened)
        /\ \A k \in 1 .. Len(opened) - 1 : new[k] = opened[k]
        /\ new[Len(opened)].calls = opened[Len(opened)].calls
        /\ DeltasAt(new, Len(opened)) = DeltasAt(opened, Len(opened)) \cup {x}
        /\ field = "reasoning" => new[Len(opened)].content = opened[Len(opened)].content
        /\ CallsOf(new) = CallsOf(opened)
        /\ RecordedIn(new) = RecordedIn(opened) \cup {x}
    BY ONLY <1>3, <2>1, x \in Deltas, field \in {"content", "reasoning"}, DeltaWritten
  <2> QED BY <2>2 DEF new, m
<1>5. Recorded' = Recorded \cup {x}
  BY <1>3, <1>4 DEF Recorded
<1>6. m \in Nat /\ m >= 1 /\ DOMAIN segments' = 1 .. m /\ m \in 1 .. m
  BY <1>3, <1>4
<1>7. \A i \in 1 .. m :
         \/ segments'[i].calls = <<>>
         \/ i \in DOMAIN segments /\ segments'[i].calls = segments[i].calls
  <2> SUFFICES ASSUME NEW i \in 1 .. m
               PROVE  \/ segments'[i].calls = <<>>
                      \/ i \in DOMAIN segments /\ segments'[i].calls = segments[i].calls
    OBVIOUS
  <2>1. segments'[i].calls = opened[i].calls
    <3>1. CASE i = m
      BY <1>4, <3>1
    <3>2. CASE i # m
      <4>1. i \in 1 .. m - 1
        <5> HIDE DEF m
        <5> QED BY <1>6, <3>2
      <4> QED BY <1>4, <4>1
    <3> QED BY <3>1, <3>2
  <2>2. CASE opened = segments
    BY <1>1, <2>1, <2>2
  <2>3. CASE opened = Append(segments, Blank)
    BY <1>1, <2>1, <2>3, NewSegment, BlankSegment
  <2> QED BY <1>2, <2>2, <2>3
<1> QED BY <1>3, <1>4, <1>5, <1>6, <1>7

\* A text or reasoning delta.
LEMMA DeltaStep ==
  ASSUME RecorderInv, NEW kind \in {"text", "reasoning"}, Delta(kind)
  PROVE  RecorderInv'
<1> USE DEF RecorderInv
<1> DEFINE n == Len(got)
           x == <<kind, sub, attempt, n + 1>>
           field == IF kind = "text" THEN "content" ELSE "reasoning"
           opened == IF kind = "text" THEN ForOutput(segments) ELSE ForTrace(segments)
<1>1. /\ segments \in Seq(Segments) /\ got \in Seq(Deltas) /\ sub \in Nat /\ attempt \in Nat
      /\ n \in Nat /\ DOMAIN got = 1 .. n
  BY DEF RecorderTypes
<1>2. x \in Deltas /\ field \in {"content", "reasoning"}
  BY <1>1 DEF Deltas
<1>3. /\ phase = "stream" /\ got' = Append(got, x) /\ segments' = Extend(opened, field, x)
      /\ saw' = (saw \/ kind = "text") /\ started' = TRUE /\ n < MaxDeltas
      /\ UNCHANGED <<phase, sub, attempt, toRun, trail, completed, broken, wiped>>
  BY DEF Delta
<1>4. /\ got' \in Seq(Deltas) /\ Len(got') = n + 1 /\ DOMAIN got' = 1 .. n + 1
      /\ \A i \in 1 .. n : got'[i] = got[i]
      /\ got'[n + 1] = x
      /\ Contents(got') = Contents(got) \cup {x}
  <2> HIDE DEF x
  <2>1. /\ got' \in Seq(Deltas) /\ Len(got') = n + 1 /\ DOMAIN got' = 1 .. n + 1
        /\ \A i \in 1 .. n : got'[i] = got[i]
        /\ got'[n + 1] = x
    BY <1>1, <1>2, <1>3
  <2> QED BY <1>1, <2>1 DEF Contents
<1>5. \/ /\ opened = segments /\ segments # <<>> /\ LastOf(segments).calls = <<>>
         /\ kind = "reasoning" => LastOf(segments).content = <<>>
      \/ /\ opened = Append(segments, Blank)
         /\ segments # <<>> => \/ kind = "reasoning" /\ LastOf(segments).content # <<>>
                               \/ LastOf(segments).calls # <<>>
  BY <1>3, DeltaSegment
<1> HIDE DEF field, opened
<1> DEFINE m == Len(opened)
<1>6. /\ segments' \in Seq(Segments) /\ Len(segments') = m /\ m \in Nat /\ opened # <<>>
      /\ opened \in Seq(Segments)
      /\ \A k \in 1 .. m - 1 : segments'[k] = opened[k]
      /\ segments'[m].calls = opened[m].calls
      /\ DeltasAt(segments', m) = DeltasAt(opened, m) \cup {x}
      /\ field = "reasoning" => segments'[m].content = opened[m].content
      /\ CallsOf(segments') = CallsOf(segments)
      /\ Recorded' = Recorded \cup {x}
      /\ \A i \in DOMAIN segments' :
           \/ segments'[i].calls = <<>>
           \/ i \in DOMAIN segments /\ segments'[i].calls = segments[i].calls
  <2> HIDE DEF x
  <2>1. segments' = Extend(opened, field, x)
    BY <1>3
  <2>2. opened = IF kind = "text" THEN ForOutput(segments) ELSE ForTrace(segments)
    BY DEF opened
  <2> QED BY <1>2, <1>3, <2>1, <2>2, DeltaPlaced
<1>7. DeltasIn(segments'[m]) = DeltasIn(opened[m]) \cup {x}
  BY <1>6 DEF DeltasAt
<1>8. m >= 1 /\ DOMAIN segments' = 1 .. m /\ m \in 1 .. m
  BY <1>6
<1>9. RecorderTypes'
  <2> HIDE DEF m, x, n
  <2>1. Len(got') <= MaxDeltas
    BY <1>1, <1>3, <1>4, RecorderAssumption
  <2> QED BY <1>3, <1>4, <1>6, <2>1 DEF RecorderTypes
<1>10. GotInv'
  <2>1. \A i \in 1 .. n + 1 : /\ got'[i][1] \in {"text", "reasoning"}
                              /\ got'[i][2] = sub /\ got'[i][3] = attempt /\ got'[i][4] = i
    <3> SUFFICES ASSUME NEW i \in 1 .. n + 1
                 PROVE  /\ got'[i][1] \in {"text", "reasoning"}
                        /\ got'[i][2] = sub /\ got'[i][3] = attempt /\ got'[i][4] = i
      OBVIOUS
    <3>1. CASE i = n + 1
      <4>1. got'[i] = x
        BY <1>4, <3>1
      <4>2. x[1] = kind /\ x[2] = sub /\ x[3] = attempt /\ x[4] = n + 1
        OBVIOUS
      <4> HIDE DEF x, n
      <4> QED BY <3>1, <4>1, <4>2
    <3>2. CASE i # n + 1
      <4>1. i \in 1 .. n
        <5> HIDE DEF n
        <5> QED BY <1>1, <3>2
      <4> QED BY <1>4, <4>1 DEF GotInv
    <3> QED BY <3>1, <3>2
  <2>2. HasText(got') => saw'
    <3> SUFFICES ASSUME NEW i \in 1 .. n + 1, got'[i][1] = "text" PROVE saw'
      BY <1>4 DEF HasText
    <3>1. CASE i = n + 1
      <4>1. x[1] = kind
        OBVIOUS
      <4> HIDE DEF x, n
      <4> QED BY <1>3, <1>4, <3>1, <4>1
    <3>2. CASE i # n + 1
      <4>1. i \in 1 .. n
        <5> HIDE DEF n
        <5> QED BY <1>1, <3>2
      <4> QED BY <1>1, <1>3, <1>4, <4>1 DEF GotInv, HasText
    <3> QED BY <3>1, <3>2
  <2>3. \A y \in Recorded' : y[1] = "thinking" \/ Earlier(y) \/ y \in Contents(got')
    BY <1>3, <1>4, <1>6 DEF GotInv
  <2> HIDE DEF x, n
  <2> QED BY <1>3, <1>4, <2>1, <2>2, <2>3 DEF GotInv, Earlier
<1>11. CallInv'
  <2> HIDE DEF m
  <2> QED BY <1>3, <1>6, CallsStayBeside
\* The delta is new, so that what is recorded of the attempt in other places was there before.
<1>12. x \notin Recorded
  <2>1. x[1] = kind /\ x[2] = sub /\ x[3] = attempt /\ x[4] = n + 1
    OBVIOUS
  <2> HIDE DEF x
  <2>2. ~Earlier(x) /\ x[1] # "thinking"
    BY <1>1, <2>1 DEF Earlier
  <2>3. x \notin Contents(got)
    BY <1>1, <2>1 DEF Contents, GotInv
  <2> QED BY <1>3, <2>2, <2>3 DEF GotInv
<1>13. ASSUME NEW i \in 1 .. m, i # m, NEW k \in 1 .. n + 1, got'[k] \in DeltasIn(segments'[i])
       PROVE  \E t, y \in 1 .. n + 1 :
                got'[t][1] = "text" /\ got'[y][1] = "reasoning" /\ k <= t /\ t < y
  <2>1. segments'[i] = opened[i]
    <3>1. i \in 1 .. m - 1
      <4> HIDE DEF m
      <4> QED BY <1>6, <1>8, <1>13
    <3> QED BY <1>6, <3>1
  <2>2. i \in DOMAIN segments /\ opened[i] = segments[i]
    <3>1. CASE opened = segments
      BY <1>1, <3>1
    <3>2. CASE opened = Append(segments, Blank)
      <4>1. m = Len(segments) + 1 /\ Len(segments) \in Nat
        BY <1>1, <3>2, NewSegment
      <4>2. i \in 1 .. Len(segments)
        <5> HIDE DEF m
        <5> QED BY <1>13, <4>1
      <4> QED BY <1>1, <3>2, <4>2, NewSegment
    <3> QED BY <1>5, <3>1, <3>2
  <2>3. got'[k] \in Recorded
    BY <1>13, <2>1, <2>2 DEF Recorded, RecordedIn
  <2>4. k \in 1 .. n /\ got'[k] = got[k]
    <3>1. k # n + 1
      BY <1>4, <1>12, <2>3
    <3> HIDE DEF x, n
    <3> QED BY <1>1, <1>4, <3>1
  <2>5. got[k] \in DeltasIn(segments[i])
    BY <1>13, <2>1, <2>2, <2>4
  <2>6. CASE i # Len(segments)
    <3>1. PICK t, y \in 1 .. n :
            got[t][1] = "text" /\ got[y][1] = "reasoning" /\ k <= t /\ t < y
      BY <1>1, <2>2, <2>4, <2>5, <2>6 DEF SealInv
    <3>2. t \in 1 .. n + 1 /\ y \in 1 .. n + 1 /\ got'[t] = got[t] /\ got'[y] = got[y]
      BY <1>1, <1>4
    <3> QED BY <3>1, <3>2
  <2>7. CASE i = Len(segments)
    <3>1. opened = Append(segments, Blank) /\ segments # <<>>
      BY <1>1, <1>5, <1>13, <2>2, <2>7
    <3>2. /\ LastOf(segments).calls = <<>>
          /\ LastOf(segments).content # <<>> =>
               \E t \in 1 .. n : got[t][1] = "text" /\ k <= t
      BY <1>1, <2>4, <2>5, <2>7, <3>1 DEF SealInv, LastOf
    <3>3. kind = "reasoning" /\ LastOf(segments).content # <<>>
      BY <1>5, <3>1, <3>2
    <3>4. PICK t \in 1 .. n : got[t][1] = "text" /\ k <= t
      BY <3>2, <3>3
    <3>5. /\ t \in 1 .. n + 1 /\ got'[t] = got[t] /\ t < n + 1
          /\ n + 1 \in 1 .. n + 1 /\ got'[n + 1][1] = "reasoning"
      BY <1>1, <1>4, <3>3
    <3> QED BY <3>4, <3>5
  <2> QED BY <2>6, <2>7
<1>14. ASSUME NEW k \in 1 .. n + 1, got'[k] \in DeltasIn(segments'[m])
       PROVE  /\ segments'[m].calls = <<>>
              /\ segments'[m].content # <<>> =>
                   \E t \in 1 .. n + 1 : got'[t][1] = "text" /\ k <= t
  <2>1. opened[m].calls = <<>> /\ (kind = "reasoning" => opened[m].content = <<>>)
    <3>1. CASE opened = Append(segments, Blank)
      BY <1>1, <3>1, NewSegment, BlankSegment
    <3>2. CASE opened # Append(segments, Blank)
      BY <1>5, <3>2 DEF LastOf
    <3> QED BY <3>1, <3>2
  <2>2. segments'[m].calls = <<>>
    BY <1>6, <2>1
  <2>3. kind = "reasoning" => segments'[m].content = <<>>
    BY <1>6, <2>1 DEF field
  <2>4. kind = "text" => got'[n + 1][1] = "text" /\ n + 1 \in 1 .. n + 1 /\ k <= n + 1
    BY <1>1, <1>4
  <2> QED BY <2>2, <2>3, <2>4
<1>15. SealInv'
  <2>1. DOMAIN segments' = 1 .. m /\ LastOf(segments') = segments'[m]
    BY <1>6, <1>8 DEF LastOf
  <2>2. DOMAIN got' = 1 .. n + 1 /\ Len(segments') = m
    BY <1>4, <1>6
  <2>3. segments' # <<>> => m \in DOMAIN segments'
    BY <1>8
  <2> HIDE DEF m, n, x
  <2> QED BY <1>13, <1>14, <2>1, <2>2, <2>3 DEF SealInv
<1>16. Account'
  <2>1. LostOnlyByReset'
    BY <1>3, <1>4, <1>6 DEF Account, LostOnlyByReset
  <2>2. x \notin broken
    <3>1. x[2] = sub /\ x[3] = attempt
      OBVIOUS
    <3> QED BY <1>1, <1>3, <3>1 DEF GotInv, Earlier
  <2>3. OnlySealedDeltasStay'
    <3> HIDE DEF x
    <3>1. Recorded' \cap broken' \subseteq Recorded \cap broken
      BY <1>3, <1>6, <2>2
    <3> QED BY <1>3, <3>1 DEF Account, OnlySealedDeltasStay
  <2> QED BY <2>1, <2>3 DEF Account
<1>17. BehindInv'
  <2>1. x[2] = sub
    OBVIOUS
  <2>2. (opened = segments /\ segments # <<>>) \/ opened = Append(segments, Blank)
    BY <1>5
  <2>3. segments' # <<>>
    BY <1>6, <1>8
  <2>4. /\ Len(segments') = Len(opened)
        /\ segments'[Len(opened)].calls = opened[Len(opened)].calls
        /\ DeltasAt(segments', Len(opened)) = DeltasAt(opened, Len(opened)) \cup {x}
    BY <1>6
  <2> HIDE DEF x, m
  <2> QED BY <1>2, <1>3, <2>1, <2>2, <2>3, <2>4, BehindDelta
<1> QED BY <1>9, <1>10, <1>11, <1>15, <1>16, <1>17

\* What an attempt has delivered are deltas of text and reasoning.
LEMMA GotTyped ==
  ASSUME RecorderInv
  PROVE  /\ Contents(got) \subseteq Deltas
         /\ \A x \in Contents(got) : x[1] # "thinking" /\ x[2] = sub /\ x[3] = attempt
<1>1. got \in Seq(Deltas)
  BY DEF RecorderInv, RecorderTypes
<1>2. \A i \in 1 .. Len(got) : got[i] \in Deltas
  BY <1>1
<1>3. \A i \in 1 .. Len(got) : got[i][1] # "thinking" /\ got[i][2] = sub /\ got[i][3] = attempt
  BY DEF RecorderInv, GotInv
<1> QED BY <1>2, <1>3 DEF Contents

\* The first tool-call delta only starts the attempt.
LEMMA ToolCallDeltaStep ==
  ASSUME RecorderInv, ToolCallDelta PROVE RecorderInv'
<1> USE DEF RecorderInv
<1>1. /\ started' = TRUE
      /\ UNCHANGED <<segments, saw, phase, sub, attempt, got, toRun,
                     trail, completed, broken, wiped>>
  BY DEF ToolCallDelta
<1>2. RecorderTypes'
  BY <1>1 DEF RecorderTypes
<1>3. Recorded' = Recorded /\ Contents(got') = Contents(got)
  BY <1>1 DEF Recorded
<1>4. GotInv'
  BY <1>1, <1>3 DEF GotInv, Earlier, HasText
<1>5. CallInv' /\ SealInv'
  BY <1>1, CallsStay, SealsStay
<1>6. Account'
  BY <1>1, <1>3 DEF Account, LostOnlyByReset, OnlySealedDeltasStay
<1>7. BehindInv'
  BY <1>1, BehindStays
<1> QED BY <1>2, <1>4, <1>5, <1>6, <1>7

\* A call of the model that fails ends the turn.
LEMMA StreamFailsStep ==
  ASSUME RecorderInv, StreamFails PROVE RecorderInv'
<1> USE DEF RecorderInv
<1>1. /\ phase = "stream" /\ phase' = "ended" /\ broken' = broken \cup Contents(got)
      /\ UNCHANGED <<segments, saw, sub, attempt, started, got, toRun,
                     trail, completed, wiped>>
  BY DEF StreamFails
<1>2. RecorderTypes'
  BY <1>1, GotTyped DEF RecorderTypes
<1>3. Recorded' = Recorded /\ Contents(got') = Contents(got)
  BY <1>1 DEF Recorded
<1>4. GotInv'
  BY <1>1, GotTyped DEF GotInv, HasText
<1>5. CallInv' /\ SealInv'
  BY <1>1, NothingOpen, CallsStay, SealsStay
<1>6. Account'
  BY <1>1, <1>3 DEF Account, LostOnlyByReset, OnlySealedDeltasStay
<1>7. BehindInv'
  BY <1>1, BehindStays
<1> QED BY <1>2, <1>4, <1>5, <1>6, <1>7

\* The final answer: its text has been streamed, so nothing is written.
LEMMA FinalAnswerStep ==
  ASSUME RecorderInv, FinalAnswer PROVE RecorderInv'
<1> USE DEF RecorderInv
<1>1. /\ phase = "stream" /\ phase' = "ended" /\ completed' = completed \cup Contents(got)
      /\ segments' = segments
      /\ UNCHANGED <<saw, sub, attempt, started, got, toRun, trail, broken, wiped>>
  <2>1. saw
    BY DEF FinalAnswer, GotInv
  <2> QED BY <2>1 DEF FinalAnswer, RecordResponse
<1>2. RecorderTypes'
  BY <1>1, GotTyped DEF RecorderTypes
<1>3. Recorded' = Recorded /\ Contents(got') = Contents(got)
  BY <1>1 DEF Recorded
<1>4. GotInv'
  BY <1>1 DEF GotInv, HasText
<1>5. CallInv' /\ SealInv'
  BY <1>1, NothingOpen, CallsStay, SealsStay
<1>6. Account'
  BY <1>1, <1>3 DEF Account, LostOnlyByReset, OnlySealedDeltasStay
<1>7. BehindInv'
  BY <1>1, BehindStays
<1> QED BY <1>2, <1>4, <1>5, <1>6, <1>7

\* The types of what a completed call of the model sets.
LEMMA SubturnTypes ==
  ASSUME RecorderInv, NextSubturn
  PROVE  /\ sub' \in 1 .. MaxSubturns /\ attempt' \in 1 .. Attempts /\ started' \in BOOLEAN
         /\ got' \in Seq(Deltas) /\ Len(got') <= MaxDeltas
         /\ completed' \subseteq Deltas
<1>1. Len(<<>>) = 0 /\ <<>> \in Seq(Deltas)
  OBVIOUS
<1>2. /\ sub \in 1 .. MaxSubturns /\ completed \subseteq Deltas
  BY DEF RecorderInv, RecorderTypes
<1>3. /\ sub < MaxSubturns /\ sub' = sub + 1 /\ attempt' = 1 /\ started' = FALSE
      /\ got' = <<>> /\ completed' = completed \cup Contents(got)
  BY DEF NextSubturn
<1>4. sub' \in 1 .. MaxSubturns /\ attempt' \in 1 .. Attempts /\ Len(got') <= MaxDeltas
  BY <1>1, <1>2, <1>3, RecorderAssumption
<1>5. completed' \subseteq Deltas
  BY <1>2, <1>3, GotTyped
<1> QED BY <1>1, <1>3, <1>4, <1>5

\* The model asks for tools.
LEMMA WithCallsStep ==
  ASSUME RecorderInv, NEW n \in 1 .. MaxToolCalls, NEW made_up \in BOOLEAN, WithCalls(n, made_up)
  PROVE  RecorderInv'
<1> USE DEF RecorderInv
<1>1. /\ phase = "stream" /\ NextSubturn /\ phase' = "tools"
      /\ toRun' = [k \in 1 .. n |-> IF made_up THEN <<0, k>> ELSE <<sub, k>>]
      /\ UNCHANGED <<segments, saw, trail, broken, wiped>>
  BY DEF WithCalls
<1>2. toRun' \in Seq(Nat \X Nat) /\ Len(toRun') <= MaxToolCalls
  <2>1. n \in Nat /\ n <= MaxToolCalls /\ sub \in Nat
    BY RecorderAssumption DEF RecorderTypes
  <2>2. toRun' \in [1 .. n -> Nat \X Nat]
    BY <1>1, <2>1
  <2>3. toRun' \in Seq(Nat \X Nat)
    BY <2>1, <2>2, SeqDef
  <2>4. Len(toRun') = n
    BY <2>1, <2>2, <2>3
  <2> QED BY <2>1, <2>3, <2>4
<1>3. RecorderTypes'
  BY <1>1, <1>2, SubturnTypes DEF RecorderTypes
<1>4. Recorded' = Recorded
  BY <1>1 DEF Recorded
<1>5. GotInv' /\ SealInv' /\ Account'
  BY <1>1, <1>4, SubturnStep
<1>6. CallInv'
  BY <1>1, NothingOpen, CallsStay
<1>7. BehindInv'
  BY <1>1, BehindStays DEF NextSubturn
<1> QED BY <1>3, <1>5, <1>6, <1>7

\* Only hidden tools, and the model is called again.
LEMMA WithHiddenCallsStep ==
  ASSUME RecorderInv, WithHiddenCalls PROVE RecorderInv'
<1> USE DEF RecorderInv
<1>1. /\ phase = "stream" /\ NextSubturn
      /\ UNCHANGED <<segments, saw, phase, toRun, trail, broken, wiped>>
  BY DEF WithHiddenCalls
<1>2. RecorderTypes'
  BY <1>1, SubturnTypes DEF RecorderTypes
<1>3. Recorded' = Recorded
  BY <1>1 DEF Recorded
<1>4. GotInv' /\ SealInv' /\ Account'
  BY <1>1, <1>3, SubturnStep
<1>5. CallInv'
  BY <1>1, NothingOpen, CallsStay
<1>6. BehindInv'
  BY <1>1, BehindStays DEF NextSubturn
<1> QED BY <1>2, <1>4, <1>5, <1>6

\* All tools have run.
LEMMA ToolsDoneStep ==
  ASSUME RecorderInv, ToolsDone PROVE RecorderInv'
<1> USE DEF RecorderInv
<1>1. /\ phase = "tools" /\ toRun = <<>> /\ phase' = "stream"
      /\ UNCHANGED <<segments, saw, sub, attempt, started, got, toRun,
                     trail, completed, broken, wiped>>
  BY DEF ToolsDone
<1>2. RecorderTypes'
  BY <1>1 DEF RecorderTypes
<1>3. Recorded' = Recorded /\ Contents(got') = Contents(got)
  BY <1>1 DEF Recorded
<1>4. GotInv'
  BY <1>1, <1>3 DEF GotInv, Earlier, HasText
<1>5. CallInv' /\ SealInv'
  <2>1. ~Open
    BY <1>1 DEF CallInv
  <2> QED BY <1>1, <2>1, CallsStay, SealsStay
<1>6. Account'
  BY <1>1, <1>3 DEF Account, LostOnlyByReset, OnlySealedDeltasStay
<1>7. BehindInv'
  BY <1>1, BehindStays
<1> QED BY <1>2, <1>4, <1>5, <1>6, <1>7

\* An attempt that broke off is tried again: the reset takes what no later segment sealed.
LEMMA RetryStreamStep ==
  ASSUME RecorderInv, RetryStream PROVE RecorderInv'
<1> USE DEF RecorderInv
<1>1. /\ phase = "stream" /\ attempt < Attempts /\ attempt' = attempt + 1
      /\ started' = FALSE /\ got' = <<>> /\ broken' = broken \cup Contents(got)
      /\ UNCHANGED <<phase, sub, toRun, trail, completed>>
      /\ \/ started /\ segments' = ResetLast(segments) /\ saw' = FALSE /\ wiped' = wiped \cup ActiveDeltas
         \/ ~started /\ segments' = segments /\ saw' = saw /\ wiped' = wiped
  BY DEF RetryStream
<1>2. /\ segments \in Seq(Segments) /\ DOMAIN segments = 1 .. Len(segments)
      /\ sub \in Nat /\ attempt \in Nat /\ wiped \subseteq Deltas
      /\ broken \subseteq Deltas /\ Recorded \subseteq Deltas
  BY RecordedTyped DEF RecorderTypes, Recorded
<1>3. /\ segments' \in Seq(Segments) /\ Len(segments') = Len(segments)
      /\ \A k \in 1 .. Len(segments) : segments'[k].calls = segments[k].calls
      /\ CallsOf(segments') = CallsOf(segments)
      /\ started /\ segments # <<>> => DeltasAt(segments', Len(segments)) = {}
      /\ started => \A k \in 1 .. Len(segments) - 1 : segments'[k] = segments[k]
      /\ started => \A x \in Recorded' : \E k \in DOMAIN segments :
                      k # Len(segments) /\ x \in DeltasIn(segments[k])
  <2>1. CASE started
    <3> DEFINE new == segments'
    <3>1. new = ResetLast(segments) /\ Recorded' = RecordedIn(new)
      BY <1>1, <2>1 DEF Recorded
    <3> HIDE DEF new
    <3>2. /\ new \in Seq(Segments) /\ Len(new) = Len(segments)
          /\ \A k \in 1 .. Len(segments) : new[k].calls = segments[k].calls
          /\ CallsOf(new) = CallsOf(segments)
          /\ segments # <<>> => DeltasAt(new, Len(segments)) = {}
          /\ \A k \in 1 .. Len(segments) - 1 : new[k] = segments[k]
          /\ \A x \in RecordedIn(new) : \E k \in DOMAIN segments :
               k # Len(segments) /\ x \in DeltasIn(segments[k])
      BY <1>2, <3>1, ResetWritten
    <3> QED BY <3>1, <3>2 DEF new
  <2>2. CASE ~started
    BY <1>1, <1>2, <2>2
  <2> QED BY <2>1, <2>2
<1>4. Recorded' \subseteq Recorded
  <2>1. CASE started
    BY <1>3, <2>1 DEF Recorded, RecordedIn
  <2>2. CASE ~started
    BY <1>1, <2>2 DEF Recorded
  <2> QED BY <2>1, <2>2
<1>5. Len(got') = 0 /\ DOMAIN got' = {} /\ Contents(got') = {}
  BY <1>1 DEF Contents
<1>6. RecorderTypes'
  <2>1. broken' \subseteq Deltas
    BY <1>1, <1>2, GotTyped
  <2>2. attempt' \in 1 .. Attempts
    BY <1>1, <1>2, RecorderAssumption
  <2>3. Len(got') <= MaxDeltas
    BY <1>5, RecorderAssumption
  <2>4. got' \in Seq(Deltas) /\ wiped' \subseteq Deltas
    <3>1. ActiveDeltas \subseteq Recorded
      BY <1>2 DEF ActiveDeltas, Recorded, RecordedIn
    <3> QED BY <1>1, <1>2, <3>1
  <2>5. saw' \in BOOLEAN
    BY <1>1 DEF RecorderTypes
  <2> QED BY <1>1, <1>3, <2>1, <2>2, <2>3, <2>4, <2>5 DEF RecorderTypes
<1>7. GotInv'
  <2>1. \A x \in Deltas : Earlier(x) \/ x \in Contents(got) => Earlier(x)'
    <3>1. \A x \in Deltas : x[2] \in Nat /\ x[3] \in Nat
      BY DEF Deltas
    <3> QED BY <1>1, <1>2, <3>1, GotTyped DEF Earlier
  <2>2. \A x \in broken' : x[1] # "thinking" /\ Earlier(x)'
    BY <1>1, <1>2, <2>1, GotTyped DEF GotInv
  <2>3. \A x \in Recorded' : x[1] = "thinking" \/ Earlier(x)'
    BY <1>1, <1>2, <1>4, <2>1 DEF GotInv
  <2> QED BY <1>1, <1>5, <2>2, <2>3 DEF GotInv, HasText
<1>8. CallInv'
  BY <1>1, <1>2, <1>3, CallsStayBeside
<1>9. SealInv'
  BY <1>1, SealsStay
<1>10. LostOnlyByReset'
  <2>1. CASE started
    <3>1. Contents(got') = {} /\ completed' = completed /\ wiped' = wiped \cup ActiveDeltas
      BY <1>1, <1>5, <2>1
    <3>2. ASSUME NEW x \in completed, x \notin wiped' PROVE x \in Recorded'
      <4>1. x \in Recorded /\ x \notin ActiveDeltas
        BY <3>1, <3>2 DEF Account, LostOnlyByReset
      <4>2. PICK k \in 1 .. Len(segments) : x \in DeltasIn(segments[k])
        BY <1>2, <4>1 DEF Recorded, RecordedIn
      <4>3a. segments # <<>> /\ Len(segments) \in Nat
        BY <1>2, <4>2
      <4>3b. ActiveDeltas = DeltasIn(segments[Len(segments)])
        BY <4>3a DEF ActiveDeltas
      <4>3. k # Len(segments) /\ segments # <<>> /\ Len(segments) \in Nat
        BY <4>1, <4>2, <4>3a, <4>3b
      <4>4. k \in 1 .. Len(segments) - 1
        BY <4>3
      <4>5. segments'[k] = segments[k] /\ k \in DOMAIN segments'
        BY <1>3, <2>1, <4>4
      <4> QED BY <4>2, <4>5 DEF Recorded, RecordedIn
    <3> QED BY <3>1, <3>2 DEF LostOnlyByReset
  <2>2. CASE ~started
    <3>1. Recorded' = Recorded /\ Contents(got) = {}
      BY <1>1, <2>2 DEF Recorded, GotInv, Contents
    <3> QED BY <1>1, <1>5, <2>2, <3>1 DEF Account, LostOnlyByReset
  <2> QED BY <2>1, <2>2
<1>11. OnlySealedDeltasStay'
  <2> SUFFICES ASSUME NEW x \in Recorded', x \in broken'
               PROVE  \E t, y \in broken' :
                        /\ <<t[2], t[3]>> = <<x[2], x[3]>> /\ <<y[2], y[3]>> = <<x[2], x[3]>>
                        /\ t[1] = "text" /\ y[1] = "reasoning"
                        /\ x[4] <= t[4] /\ t[4] < y[4]
    BY DEF OnlySealedDeltasStay
  <2>1. CASE x \in broken
    <3>1. x \in Recorded \cap broken
      BY <1>4, <2>1
    <3> QED BY <1>1, <3>1 DEF Account, OnlySealedDeltasStay
  <2>2. CASE x \notin broken
    <3>1. PICK n \in 1 .. Len(got) : x = got[n]
      BY <1>1, <2>2 DEF Contents
    <3>2. started
      BY <3>1 DEF GotInv
    <3>3. PICK k \in DOMAIN segments : k # Len(segments) /\ x \in DeltasIn(segments[k])
      BY <1>3, <3>2
    <3>4. PICK t, y \in 1 .. Len(got) :
            got[t][1] = "text" /\ got[y][1] = "reasoning" /\ n <= t /\ t < y
      <4>1. DOMAIN got = 1 .. Len(got)
        BY DEF RecorderTypes
      <4> QED BY <3>1, <3>3, <4>1 DEF SealInv
    <3>5. got[t] \in broken' /\ got[y] \in broken'
      BY <1>1 DEF Contents
    <3>6. /\ x[2] = sub /\ x[3] = attempt /\ x[4] = n
          /\ got[t][2] = sub /\ got[t][3] = attempt /\ got[t][4] = t
          /\ got[y][2] = sub /\ got[y][3] = attempt /\ got[y][4] = y
      BY <3>1 DEF GotInv
    <3> QED BY <3>4, <3>5, <3>6
  <2> QED BY <2>1, <2>2
<1>12. BehindInv'
  <2>1. CASE started
    <3>1. /\ segments' # <<>> => segments # <<>>
          /\ trail' = trail /\ sub' = sub /\ Len(segments') = Len(segments)
      BY <1>1, <1>2, <1>3
    <3>2. segments' # <<>> => DeltasAt(segments', Len(segments')) = {}
      BY <1>3, <2>1, <3>1
    <3> QED BY <3>1, <3>2 DEF BehindInv, Behind
  <2>2. CASE ~started
    BY <1>1, <2>2, BehindStays
  <2> QED BY <2>1, <2>2
<1> QED BY <1>6, <1>7, <1>8, <1>9, <1>10, <1>11, <1>12 DEF Account

\* A corrected draft: the thought of the loop is written behind the draft.
LEMMA CorrectedStep ==
  ASSUME RecorderInv, Corrected PROVE RecorderInv'
<1> USE DEF RecorderInv
<1> DEFINE x == <<"thinking", sub, attempt, 0>>
<1>1. /\ phase = "stream" /\ NextSubturn
      /\ segments' = Extend(ForTrace(segments), "reasoning", x)
      /\ UNCHANGED <<saw, phase, toRun, trail, broken, wiped>>
  BY DEF Corrected
<1>2. x \in Deltas /\ x[1] = "thinking" /\ x[2] = sub
  BY DEF Deltas, RecorderTypes
<1>3. /\ segments' \in Seq(Segments) /\ CallsOf(segments') = CallsOf(segments)
      /\ Recorded' = Recorded \cup {x}
      /\ \A i \in DOMAIN segments' :
           \/ segments'[i].calls = <<>>
           \/ i \in DOMAIN segments /\ segments'[i].calls = segments[i].calls
      /\ BehindInv'
  <2> DEFINE opened == ForTrace(segments)
             kind == "reasoning"
  <2> HIDE DEF x
  <2>1. opened = IF kind = "text" THEN ForOutput(segments) ELSE ForTrace(segments)
    OBVIOUS
  <2>2. segments' = Extend(opened, "reasoning", x)
    BY <1>1
  <2>3. kind \in {"text", "reasoning"} /\ "reasoning" \in {"content", "reasoning"}
    OBVIOUS
  <2> HIDE DEF opened, kind
  <2>4. /\ opened \in Seq(Segments) /\ opened # <<>> /\ Len(opened) \in Nat
        /\ segments' \in Seq(Segments) /\ Len(segments') = Len(opened)
        /\ segments'[Len(opened)].calls = opened[Len(opened)].calls
        /\ DeltasAt(segments', Len(opened)) = DeltasAt(opened, Len(opened)) \cup {x}
        /\ CallsOf(segments') = CallsOf(segments)
        /\ Recorded' = Recorded \cup {x}
        /\ \A i \in DOMAIN segments' :
             \/ segments'[i].calls = <<>>
             \/ i \in DOMAIN segments /\ segments'[i].calls = segments[i].calls
    BY <1>1, <1>2, <2>1, <2>2, <2>3, DeltaPlaced
  <2>5. (opened = segments /\ segments # <<>>) \/ opened = Append(segments, Blank)
    BY <1>1, <2>1, <2>3, DeltaSegment
  <2>6. segments' # <<>>
    BY <2>4
  <2>7. BehindInv'
    BY <1>1, <1>2, <2>4, <2>5, <2>6, BehindDelta DEF NextSubturn
  <2> QED BY <2>4, <2>7
<1> HIDE DEF x
<1>4. RecorderTypes'
  BY <1>1, <1>3, SubturnTypes DEF RecorderTypes
<1>5. GotInv' /\ SealInv' /\ Account'
  BY <1>1, <1>2, <1>3, SubturnStep
<1>6. CallInv'
  BY <1>1, <1>3, CallsStayBeside
<1> QED BY <1>3, <1>4, <1>5, <1>6

\* While tools run no delta comes, and where none is recorded nothing else changes of them.
LEMMA ToolsKeepDeltas ==
  ASSUME RecorderInv, phase = "tools", Recorded' = Recorded,
         UNCHANGED <<saw, phase, sub, attempt, started, got, completed, broken, wiped>>
  PROVE  GotInv' /\ SealInv' /\ Account'
<1> USE DEF RecorderInv
<1>1. got = <<>> /\ Contents(got') = Contents(got)
  BY DEF GotInv
<1>2. GotInv'
  BY <1>1 DEF GotInv, Earlier, HasText
<1>3. SealInv'
  BY <1>1, SealsStay
<1>4. Account'
  BY <1>1 DEF Account, LostOnlyByReset, OnlySealedDeltasStay
<1> QED BY <1>2, <1>3, <1>4

\* A tool call opens the call at the end of the last segment, the only one there.
LEMMA ToolCallStep ==
  ASSUME RecorderInv, ToolCall PROVE RecorderInv'
<1> USE DEF RecorderInv
<1> DEFINE call   == [id |-> Head(toRun), sub |-> sub, done |-> FALSE]
           opened == ForOutput(segments)
           m      == Len(opened)
<1>1. /\ phase = "tools" /\ toRun # <<>> /\ ~Open
      /\ trail' = Append(trail, call) /\ segments' = Extend(opened, "calls", call)
      /\ UNCHANGED <<saw, phase, sub, attempt, started, got, toRun, completed, broken, wiped>>
  BY DEF ToolCall, Open
<1>2. /\ segments \in Seq(Segments) /\ trail \in Seq(Calls) /\ toRun \in Seq(Nat \X Nat)
      /\ DOMAIN segments = 1 .. Len(segments) /\ sub \in Nat /\ CallsOf(segments) = trail
  BY DEF RecorderTypes, CallInv, TrailIntact
<1>3. call \in Calls /\ call.done = FALSE /\ call.id = Head(toRun)
  <2>1. Head(toRun) \in Nat \X Nat
    BY <1>1, <1>2
  <2> QED BY <1>2, <2>1 DEF Calls
<1>13. call.sub = sub
  OBVIOUS
<1> HIDE DEF call
<1>4. \A i \in DOMAIN segments : \A k \in DOMAIN segments[i].calls : segments[i].calls[k].done
  BY <1>1 DEF CallInv
<1>5. \/ opened = segments /\ segments # <<>> /\ segments[Len(segments)].calls = <<>>
      \/ opened = Append(segments, Blank)
  <2>1. segments # <<>> => Len(segments) \in DOMAIN segments
    BY <1>2
  <2> QED BY <1>2, <1>4, <2>1, OutputSegment
<1> HIDE DEF opened
<1>6. /\ opened \in Seq(Segments) /\ opened # <<>> /\ opened[m].calls = <<>>
      /\ CallsOf(opened) = CallsOf(segments) /\ RecordedIn(opened) = RecordedIn(segments)
      /\ \A i \in 1 .. m - 1 : i \in DOMAIN segments /\ opened[i] = segments[i]
  <2>1. CASE opened = segments /\ segments # <<>> /\ segments[Len(segments)].calls = <<>>
    <3>1. Len(segments) \in Nat
      BY <1>2
    <3> QED BY <1>2, <2>1, <3>1
  <2>2. CASE opened = Append(segments, Blank)
    <3>1. /\ opened \in Seq(Segments) /\ opened # <<>> /\ Len(opened) = Len(segments) + 1
          /\ \A i \in 1 .. Len(segments) : opened[i] = segments[i]
          /\ opened[Len(opened)] = Blank
          /\ CallsOf(opened) = CallsOf(segments) /\ RecordedIn(opened) = RecordedIn(segments)
      BY <1>2, <2>2, NewSegment
    <3>2. Len(segments) \in Nat /\ m - 1 = Len(segments)
      BY <1>2, <3>1
    <3> QED BY <1>2, <3>1, <3>2, BlankSegment
  <2> QED BY <1>5, <2>1, <2>2
<1>7. /\ segments' \in Seq(Segments) /\ segments' # <<>> /\ Len(segments') = m
      /\ \A k \in 1 .. m - 1 : segments'[k] = opened[k]
      /\ segments'[m].calls = Append(opened[m].calls, call)
      /\ CallsOf(segments') = Append(CallsOf(opened), call)
      /\ DeltasAt(segments', m) = DeltasAt(opened, m)
      /\ RecordedIn(segments') = RecordedIn(opened)
  <2> DEFINE new == segments'
  <2>1. new = Extend(opened, "calls", call)
    BY <1>1
  <2> HIDE DEF new, m
  <2>2. /\ new \in Seq(Segments) /\ new # <<>> /\ Len(new) = Len(opened)
        /\ \A k \in 1 .. Len(opened) - 1 : new[k] = opened[k]
        /\ new[Len(opened)].calls = Append(opened[Len(opened)].calls, call)
        /\ CallsOf(new) = Append(CallsOf(opened), call)
        /\ DeltasAt(new, Len(opened)) = DeltasAt(opened, Len(opened))
        /\ RecordedIn(new) = RecordedIn(opened)
    BY ONLY <1>3, <1>6, <2>1, CallWritten
  <2> QED BY <2>2 DEF new, m
<1>8. RecorderTypes'
  <2>1. trail' \in Seq(Calls)
    BY <1>1, <1>2, <1>3
  <2> QED BY <1>1, <1>7, <2>1 DEF RecorderTypes
<1>9. GotInv' /\ SealInv' /\ Account'
  <2>1. Recorded' = Recorded
    BY <1>6, <1>7 DEF Recorded
  <2> QED BY <1>1, <2>1, ToolsKeepDeltas
<1>10. /\ Open'
       /\ LastOf(segments').calls = <<call>> /\ LastOf(LastOf(segments').calls) = call
       /\ DOMAIN segments' = 1 .. m /\ m \in Nat
  <2>1. Len(trail') = Len(trail) + 1 /\ trail'[Len(trail) + 1] = call /\ trail' # <<>>
    BY <1>1, <1>2, <1>3
  <2>2. segments'[m].calls = <<call>>
    BY <1>6, <1>7
  <2> HIDE DEF m
  <2>3. DOMAIN segments' = 1 .. m /\ m \in Nat
    BY <1>7
  <2> QED BY <1>3, <1>7, <2>1, <2>2, <2>3 DEF Open, LastOf
<1>11. ASSUME NEW i \in DOMAIN segments', NEW k \in DOMAIN segments'[i].calls,
              ~segments'[i].calls[k].done
       PROVE  i = m /\ k = Len(segments'[i].calls)
  <2>1. CASE i = m
    <3>1. segments'[i].calls = <<call>>
      BY <1>6, <1>7, <2>1
    <3> QED BY <2>1, <3>1
  <2>2. CASE i # m
    <3>1. i \in 1 .. m - 1
      <4> HIDE DEF m
      <4> QED BY <1>10, <2>2
    <3>2. i \in DOMAIN segments /\ segments'[i] = segments[i]
      BY <1>6, <1>7, <3>1
    <3> QED BY <1>4, <1>11, <3>2
  <2> QED BY <2>1, <2>2
<1>12. CallInv'
  <2>1. TrailIntact'
    BY <1>1, <1>2, <1>6, <1>7 DEF TrailIntact
  <2>2. LastOf(segments').calls # <<>> /\ LastOf(LastOf(segments').calls).id = Head(toRun')
    <3>1. toRun' = toRun /\ <<call>> # <<>>
      BY <1>1
    <3> QED BY <1>3, <1>10, <3>1
  <2> QED BY <1>1, <1>7, <1>10, <1>11, <2>1, <2>2 DEF CallInv
<1>14. ASSUME NEW y \in DeltasAt(opened, m), NEW i \in 1 .. Len(trail), trail[i].sub > y[2]
       PROVE  FALSE
  <2>1. CASE opened = segments /\ segments # <<>> /\ segments[Len(segments)].calls = <<>>
    BY <1>14, <2>1 DEF BehindInv, Behind
  <2>2. CASE opened = Append(segments, Blank)
    BY <1>2, <1>14, <2>2, NewSegment, BlankSegment DEF DeltasAt
  <2> QED BY <1>5, <2>1, <2>2
<1>15. /\ Len(trail') = Len(trail) + 1 /\ Len(trail) \in Nat
       /\ \A i \in 1 .. Len(trail) : trail'[i] = trail[i]
       /\ trail'[Len(trail) + 1] = call
  BY <1>1, <1>2, <1>3
<1>16. BehindInv'
  <2>1. ASSUME NEW i \in 1 .. Len(trail') PROVE trail'[i].sub <= sub'
    <3>1. CASE i \in 1 .. Len(trail)
      BY <1>1, <1>15, <3>1 DEF BehindInv
    <3>2. CASE i = Len(trail) + 1
      BY <1>1, <1>2, <1>13, <1>15, <3>2
    <3> QED BY <1>15, <3>1, <3>2
  <2>2. ASSUME NEW y \in DeltasAt(segments', m), NEW i \in 1 .. Len(trail'),
               trail'[i].sub > y[2]
        PROVE  segments'[m].calls # <<>> /\ i = Len(trail')
    <3>1. i \notin 1 .. Len(trail)
      BY <1>7, <1>14, <1>15, <2>2
    <3>2. segments'[m].calls = <<call>>
      BY <1>6, <1>7
    <3> QED BY <1>15, <3>1, <3>2
  <2>3. Behind(segments', trail')
    <3> DEFINE new == segments'
               tr  == trail'
    <3>1. Len(new) = m
      BY <1>7
    <3> HIDE DEF new, tr, m
    <3>2. \A y \in DeltasAt(new, Len(new)) : \A i \in 1 .. Len(tr) :
            tr[i].sub > y[2] => new[Len(new)].calls # <<>> /\ i = Len(tr)
      BY <2>2, <3>1 DEF new, tr
    <3>3. Behind(new, tr)
      BY <3>2 DEF Behind
    <3> QED BY <3>3 DEF new, tr
  <2> QED BY <2>1, <2>3 DEF BehindInv
<1> QED BY <1>8, <1>9, <1>12, <1>16

\* A result closes the call that is open.
LEMMA ToolResultStep ==
  ASSUME RecorderInv, ToolResult PROVE RecorderInv'
<1> USE DEF RecorderInv
<1> DEFINE n == Len(segments)
           m == Len(segments[n].calls)
<1>1. /\ phase = "tools" /\ toRun # <<>> /\ Open
      /\ trail' = [trail EXCEPT ![Len(trail)].done = TRUE]
      /\ segments' = FinishCall(segments, Head(toRun))
      /\ toRun' = Tail(toRun)
      /\ UNCHANGED <<saw, phase, sub, attempt, started, got, completed, broken, wiped>>
  BY DEF ToolResult, Open
<1>2. /\ segments \in Seq(Segments) /\ trail \in Seq(Calls) /\ toRun \in Seq(Nat \X Nat)
      /\ DOMAIN segments = 1 .. n /\ n \in Nat /\ CallsOf(segments) = trail
      /\ Len(toRun) <= MaxToolCalls
  BY DEF RecorderTypes, CallInv, TrailIntact
<1>3. /\ segments # <<>> /\ segments[n].calls # <<>>
      /\ Head(toRun) = LastOf(segments[n].calls).id
  BY <1>1 DEF CallInv, LastOf
<1>4. /\ segments' \in Seq(Segments) /\ segments' # <<>> /\ Len(segments') = n
      /\ \A k \in 1 .. n - 1 : segments'[k] = segments[k]
      /\ Len(segments'[n].calls) = m
      /\ \A k \in DOMAIN segments'[n].calls :
           ~segments'[n].calls[k].done => k # m /\ ~segments[n].calls[k].done
      /\ CallsOf(segments') = [trail EXCEPT ![Len(trail)].done = TRUE]
      /\ DeltasAt(segments', n) = DeltasAt(segments, n)
      /\ RecordedIn(segments') = RecordedIn(segments)
  <2> DEFINE new == segments'
             id  == Head(toRun)
  <2>1. new = FinishCall(segments, id) /\ id = LastOf(segments[Len(segments)].calls).id
    BY <1>1, <1>3
  <2>2. segments \in Seq(Segments) /\ segments # <<>> /\ segments[Len(segments)].calls # <<>>
    BY <1>2, <1>3
  <2> HIDE DEF new, id
  <2>3. /\ new \in Seq(Segments) /\ new # <<>> /\ Len(new) = Len(segments)
        /\ \A k \in 1 .. Len(segments) - 1 : new[k] = segments[k]
    BY ONLY <2>1, <2>2, ResultWritten
  <2>4. Len(new[Len(segments)].calls) = Len(segments[Len(segments)].calls)
    BY ONLY <2>1, <2>2, ResultWritten
  <2>5. \A k \in DOMAIN new[Len(segments)].calls :
          ~new[Len(segments)].calls[k].done =>
            k # Len(segments[Len(segments)].calls) /\ ~segments[Len(segments)].calls[k].done
    BY ONLY <2>1, <2>2, ResultWritten
  <2>6. /\ CallsOf(new) = LastDone(CallsOf(segments))
        /\ DeltasAt(new, Len(segments)) = DeltasAt(segments, Len(segments))
        /\ RecordedIn(new) = RecordedIn(segments)
    BY ONLY <2>1, <2>2, ResultWritten
  <2> QED BY <1>2, <2>3, <2>4, <2>5, <2>6 DEF new, LastDone
<1>5. trail # <<>> /\ Len(trail) \in 1 .. Len(trail)
  BY <1>1, <1>2 DEF Open
<1>6. /\ trail' \in Seq(Calls) /\ Len(trail') = Len(trail)
      /\ trail'[Len(trail)].done = TRUE
      /\ \A k \in 1 .. Len(trail) : trail'[k].sub = trail[k].sub
  <2> DEFINE c == [trail[Len(trail)] EXCEPT !.done = TRUE]
  <2>1. trail[Len(trail)] \in Calls
    BY <1>2, <1>5
  <2>2. c \in Calls /\ c.done = TRUE /\ c.sub = trail[Len(trail)].sub
    BY <2>1 DEF Calls
  <2>3. trail' = [trail EXCEPT ![Len(trail)] = c]
    BY <1>1
  <2> HIDE DEF c
  <2>4. /\ trail' \in Seq(Calls) /\ Len(trail') = Len(trail)
        /\ \A k \in 1 .. Len(trail) : trail'[k] = IF k = Len(trail) THEN c ELSE trail[k]
    BY <1>2, <1>5, <2>2, <2>3, ExceptSeq
  <2> QED BY <1>5, <2>2, <2>4
<1>7. RecorderTypes'
  <2>1. toRun' \in Seq(Nat \X Nat) /\ Len(toRun') <= MaxToolCalls
    BY <1>1, <1>2, RecorderAssumption
  <2> QED BY <1>1, <1>4, <1>6, <2>1 DEF RecorderTypes
<1>8. GotInv' /\ SealInv' /\ Account'
  <2>1. Recorded' = Recorded
    BY <1>4 DEF Recorded
  <2> QED BY <1>1, <2>1, ToolsKeepDeltas
<1>9. ASSUME NEW i \in DOMAIN segments', NEW k \in DOMAIN segments'[i].calls
      PROVE  segments'[i].calls[k].done
  <2> SUFFICES ASSUME ~segments'[i].calls[k].done PROVE FALSE
    OBVIOUS
  <2>1. i \in 1 .. n
    BY <1>4
  <2>2. CASE i = n
    <3>1. k # m /\ ~segments[n].calls[k].done
      BY <1>4, <2>2
    <3>2. k \in DOMAIN segments[n].calls
      <4>1. segments'[n] \in Segments /\ segments[n] \in Segments
        <5> HIDE DEF n
        <5> QED BY <1>2, <1>4, <2>1, <2>2
      <4>2. segments'[n].calls \in Seq(Calls) /\ segments[n].calls \in Seq(Calls)
        BY <4>1 DEF Segments
      <4> QED BY <1>4, <2>2, <4>2
    <3>3. n \in DOMAIN segments
      BY <1>2, <2>1, <2>2
    <3> QED BY <3>1, <3>2, <3>3 DEF CallInv
  <2>3. CASE i # n
    <3>1. i \in 1 .. n - 1
      <4> HIDE DEF n
      <4> QED BY <1>2, <2>1, <2>3
    <3>2. segments'[i] = segments[i] /\ i \in DOMAIN segments
      BY <1>2, <1>4, <2>1, <3>1
    <3> QED BY <2>3, <3>2 DEF CallInv
  <2> QED BY <2>2, <2>3
<1>10. CallInv'
  <2>1. ~Open'
    BY <1>6 DEF Open
  <2>2. TrailIntact'
    BY <1>1, <1>4 DEF TrailIntact
  <2> QED BY <1>9, <2>1, <2>2 DEF CallInv
<1>11. BehindInv'
  <2>1. \A i \in 1 .. Len(trail') : trail'[i].sub <= sub'
    BY <1>1, <1>6 DEF BehindInv
  <2>2. segments'[n].calls # <<>>
    <3>1. Len(segments[n].calls) # 0
      <4>1. segments[n] \in Segments
        BY <1>2, <1>3
      <4>2. segments[n].calls \in Seq(Calls)
        BY <4>1 DEF Segments
      <4> QED BY <1>3, <4>2
    <3>2. Len(segments'[n].calls) # 0
      BY <1>4, <3>1
    <3> QED BY <3>2
  <2>3. ASSUME NEW y \in DeltasAt(segments', n), NEW i \in 1 .. Len(trail'),
               trail'[i].sub > y[2]
        PROVE  i = Len(trail')
    <3>1. y \in DeltasAt(segments, n) /\ i \in 1 .. Len(trail) /\ trail[i].sub > y[2]
      BY <1>4, <1>6, <2>3
    <3> QED BY <1>3, <1>6, <3>1 DEF BehindInv, Behind
  <2>4. Behind(segments', trail')
    <3> DEFINE new == segments'
               tr  == trail'
    <3>1. Len(new) = n
      BY <1>4
    <3> HIDE DEF new, tr, n
    <3>2. \A y \in DeltasAt(new, Len(new)) : \A i \in 1 .. Len(tr) :
            tr[i].sub > y[2] => new[Len(new)].calls # <<>> /\ i = Len(tr)
      BY <2>2, <2>3, <3>1 DEF new, tr
    <3>3. Behind(new, tr)
      BY <3>2 DEF Behind
    <3> QED BY <3>3 DEF new, tr
  <2> QED BY <2>1, <2>4 DEF BehindInv
<1> QED BY <1>7, <1>8, <1>10, <1>11

-----------------------------------------------------------------------------
(* The recorder *)

\* A turn starts with nothing recorded.
LEMMA RecorderInitOK == RecorderInit => RecorderInv
<1> SUFFICES ASSUME RecorderInit PROVE RecorderInv
  OBVIOUS
<1> USE DEF RecorderInit
<1>1. RecorderTypes
  <2>1. /\ <<>> \in Seq(Segments) /\ <<>> \in Seq(Deltas) /\ <<>> \in Seq(Nat \X Nat)
        /\ <<>> \in Seq(Calls)
    BY EmptySeq
  <2>2. Len(got) <= MaxDeltas /\ Len(toRun) <= MaxToolCalls
    BY RecorderAssumption
  <2>3. sub \in 1 .. MaxSubturns /\ attempt \in 1 .. Attempts
    BY RecorderAssumption
  <2> QED BY <2>1, <2>2, <2>3 DEF RecorderTypes
<1>2. /\ DOMAIN segments = {} /\ Len(segments) = 0 /\ DOMAIN got = {} /\ Len(got) = 0
      /\ Contents(got) = {} /\ Recorded = {}
  BY DEF Contents, Recorded, RecordedIn
<1>3. GotInv
  BY <1>2 DEF GotInv, HasText
<1>4. CallInv
  BY <1>2, CallsOfTyped DEF CallInv, Open, TrailIntact
<1>5. SealInv
  BY <1>2 DEF SealInv
<1>6. Account
  BY <1>2 DEF Account, LostOnlyByReset, OnlySealedDeltasStay
<1>7. BehindInv
  BY <1>2 DEF BehindInv, Behind
<1> QED BY <1>1, <1>3, <1>4, <1>5, <1>6, <1>7 DEF RecorderInv

\* No step breaks it.
LEMMA RecorderStep == RecorderInv /\ [RecorderNext]_recorderVars => RecorderInv'
<1> SUFFICES ASSUME RecorderInv, [RecorderNext]_recorderVars PROVE RecorderInv'
  OBVIOUS
<1>1. CASE UNCHANGED recorderVars
  <2>1. /\ UNCHANGED <<segments, saw, phase, sub, attempt, started, got, toRun,
                       trail, completed, broken, wiped>>
        /\ Recorded' = Recorded
    BY <1>1 DEF recorderVars, Recorded
  <2>2. RecorderTypes'
    BY <2>1 DEF RecorderInv, RecorderTypes
  <2>3. GotInv'
    BY <2>1 DEF RecorderInv, GotInv, Earlier, HasText, Contents
  <2>4. CallInv' /\ SealInv'
    BY <2>1, CallsStay, SealsStay DEF RecorderInv
  <2>5. Account'
    BY <2>1 DEF RecorderInv, Account, LostOnlyByReset, OnlySealedDeltasStay,
                Contents
  <2>6. BehindInv'
    BY <2>1, BehindStays
  <2> QED BY <2>2, <2>3, <2>4, <2>5, <2>6 DEF RecorderInv
<1>2. CASE \E kind \in {"text", "reasoning"} : Delta(kind)
  BY <1>2, DeltaStep
<1>3. CASE \E n \in 1 .. MaxToolCalls, made_up \in BOOLEAN : WithCalls(n, made_up)
  BY <1>3, WithCallsStep
<1> QED BY <1>1, <1>2, <1>3, ToolCallDeltaStep, RetryStreamStep, StreamFailsStep,
           WithHiddenCallsStep, CorrectedStep, FinalAnswerStep, ToolCallStep,
           ToolResultStep, ToolsDoneStep DEF RecorderNext

\* What is told below holds in every state of every turn.
THEOREM RecorderIsSound == RecorderSpec => []RecorderInv
BY RecorderInitOK, RecorderStep, PTL DEF RecorderSpec

\* The state of the recorder keeps its types.
THEOREM RecorderWellTyped == RecorderSpec => []RecorderTypes
<1>1. RecorderInv => RecorderTypes
  BY DEF RecorderInv
<1> QED BY <1>1, RecorderIsSound, PTL

\* history.rs: the recorder holds the calls that were run, in their order, and each result is
\* at its own call, however often an id comes again and an attempt breaks off.
THEOREM TrailsIntact == RecorderSpec => []TrailIntact
<1>1. RecorderInv => TrailIntact
  BY DEF RecorderInv, CallInv
<1> QED BY <1>1, RecorderIsSound, PTL

\* history.rs: a delta is lost only to a reset that found it in the active segment, at most
\* one call back, and of an attempt that broke off only those stay that a later segment
\* sealed before the reset.
THEOREM DeltasKeptAccount == RecorderSpec => []DeltasAccounted
<1>1. RecorderInv => DeltasAccounted
  <2> SUFFICES ASSUME RecorderInv PROVE DeltasAccounted
    OBVIOUS
  <2>1. ASSUME NEW x \in ActiveDeltas, NEW i \in DOMAIN trail, trail[i].sub > x[2]
        PROVE  i = Len(trail)
    <3>1. segments # <<>> /\ x \in DeltasAt(segments, Len(segments))
      BY <2>1 DEF ActiveDeltas, DeltasAt
    <3>2. i \in 1 .. Len(trail)
      BY DEF RecorderInv, RecorderTypes
    <3> QED BY <2>1, <3>1, <3>2 DEF RecorderInv, BehindInv, Behind
  <2>2. ResetReachesOneCall
    BY <2>1 DEF ResetReachesOneCall
  <2> QED BY <2>2 DEF RecorderInv, Account, DeltasAccounted
<1> QED BY <1>1, RecorderIsSound, PTL
===============================================================================
