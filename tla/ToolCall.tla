------------------------------- MODULE ToolCall -------------------------------
(***************************************************************************)
(* One tool call of a turn while the user may cancel                       *)
(* (crates/core/src/tools/loop/execution.rs, execute_tool_call), and the   *)
(* request a host tool waits on: the table of pending requests, the routes *)
(* to it, and the answers of the host (crates/core/src/tools/registry:     *)
(* bridge.rs, pending.rs).                                                 *)
(*                                                                         *)
(* A request id is allocated once (REQUEST_ID_COUNTER), so the call itself *)
(* stands for its request.  Different calls belong to different turns.     *)
(***************************************************************************)
EXTENDS Naturals, FiniteSets

CONSTANTS
  Internal,   \* calls that an internal handler runs
  Hosted,     \* calls of custom tools, run by the host
  MaxAnswers  \* bound: answers the host gives to one request

ASSUME CallAssumption == Internal \cap Hosted = {} /\ MaxAnswers \in Nat

Calls == Internal \cup Hosted

VARIABLES
  pc,        \* where the call is
  cancel,    \* what should_cancel() returns for the call's turn
  signalled, \* cancel_signalled: sampled once, when the handler starts
  grace,     \* the call is in wait_for_cancel_with_grace
  pending,   \* PendingToolRequests.pending
  routes,    \* PENDING_REQUEST_ROUTES
  channel,   \* the oneshot channel of the request
  resolver,  \* a host thread in resolve_tool_execution
  outcome,   \* what the call returned
  answers,   \* history: answers begun by the host
  accepted   \* history: answers for which resolve_tool_execution returned true

vars == <<pc, cancel, signalled, grace, pending, routes, channel, resolver,
          outcome, answers, accepted>>
request == <<pending, routes, channel, resolver, answers, accepted>>

Init ==
  /\ pc = [c \in Calls |-> "idle"]
  /\ cancel = [c \in Calls |-> FALSE]
  /\ signalled = [c \in Calls |-> FALSE]
  /\ grace = [c \in Calls |-> FALSE]
  /\ pending = {} /\ routes = {}
  /\ channel = [c \in Hosted |-> "none"]
  /\ resolver = [c \in Hosted |-> "none"]
  /\ outcome = [c \in Calls |-> "none"]
  /\ answers = [c \in Hosted |-> 0]
  /\ accepted = [c \in Hosted |-> 0]

Return(c, what) ==
  /\ pc' = [pc EXCEPT ![c] = "returned"]
  /\ outcome' = [outcome EXCEPT ![c] = what]

\* After a cancel the output of the tool is replaced, whatever it is.
OutputOf(c, what) == IF grace[c] \/ signalled[c] THEN "cancelled" ELSE what

-----------------------------------------------------------------------------
Cancel(c) ==
  /\ ~cancel[c]
  /\ cancel' = [cancel EXCEPT ![c] = TRUE]
  /\ UNCHANGED <<pc, signalled, grace, outcome, request>>

\* The last look at the cancel before the call: execute_turn_tool_calls.
Start(c) ==
  /\ pc[c] = "idle"
  /\ IF cancel[c] THEN Return(c, "refused")
     ELSE pc' = [pc EXCEPT ![c] = "started"] /\ UNCHANGED outcome
  /\ UNCHANGED <<cancel, signalled, grace, request>>

(* An internal handler *)
StartHandler(c) ==
  /\ c \in Internal /\ pc[c] = "started"
  /\ signalled' = [signalled EXCEPT ![c] = cancel[c]]
  /\ pc' = [pc EXCEPT ![c] = "waiting"]
  /\ UNCHANGED <<cancel, grace, outcome, request>>

HandlerDone(c) ==
  /\ c \in Internal /\ pc[c] = "waiting"
  /\ Return(c, OutputOf(c, "result"))
  /\ UNCHANGED <<cancel, signalled, grace, request>>

(* Both kinds of call, every TOOL_CANCEL_POLL_INTERVAL *)

\* Mutant: the ticker of a host call is guarded like that of a handler that
\* was cancelled before it started.
TickOnlyInternal(c) ==
  /\ c \in Internal
  /\ pc[c] = "waiting" /\ ~grace[c] /\ cancel[c] /\ ~signalled[c]
  /\ grace' = [grace EXCEPT ![c] = TRUE]
  /\ UNCHANGED <<pc, cancel, signalled, outcome, request>>

\* The select! arm of a handler is disabled once cancel_signalled.
Tick(c) ==
  /\ pc[c] = "waiting" /\ ~grace[c] /\ cancel[c]
  /\ c \in Internal => ~signalled[c]
  /\ grace' = [grace EXCEPT ![c] = TRUE]
  /\ UNCHANGED <<pc, cancel, signalled, outcome, request>>

\* TOOL_CANCEL_GRACE_PERIOD is over: the future is dropped where it waits.
GraceExpires(c) ==
  /\ pc[c] = "waiting" /\ grace[c]
  /\ Return(c, "cancelled")
  /\ channel' = IF c \in Hosted THEN [channel EXCEPT ![c] = "dropped"] ELSE channel
  /\ UNCHANGED <<cancel, signalled, grace, pending, routes, resolver, answers, accepted>>

(* A host tool: request_host_tool_execution_with_context *)
Dispatch(c) ==
  /\ c \in Hosted /\ pc[c] = "started"
  /\ pending' = pending \cup {c}
  /\ routes' = routes \cup {c}
  /\ channel' = [channel EXCEPT ![c] = "open"]
  /\ pc' = [pc EXCEPT ![c] = "waiting"]
  /\ UNCHANGED <<cancel, signalled, grace, resolver, outcome, answers, accepted>>

\* The tool is gone, its arguments do not fit, or nobody dispatches.
DispatchFails(c) ==
  /\ c \in Hosted /\ pc[c] = "started"
  /\ Return(c, "error")
  /\ UNCHANGED <<cancel, signalled, grace, request>>

Receive(c) ==
  /\ c \in Hosted /\ pc[c] = "waiting" /\ channel[c] = "sent"
  /\ Return(c, OutputOf(c, "result"))
  /\ channel' = [channel EXCEPT ![c] = "dropped"]
  /\ UNCHANGED <<cancel, signalled, grace, pending, routes, resolver, answers, accepted>>

\* Mutant: only a request that nobody is answering times out.
TimeoutIfRouted(c) ==
  /\ c \in Hosted /\ pc[c] = "waiting" /\ channel[c] = "open" /\ c \in routes
  /\ pc' = [pc EXCEPT ![c] = "expiring"]
  /\ UNCHANGED <<cancel, signalled, grace, outcome, request>>

\* The timeout looks at the channel, then at the clock, then drops the receiver,
\* then removes the route and the request.
TimeoutLooks(c) ==
  /\ c \in Hosted /\ pc[c] = "waiting" /\ channel[c] = "open"
  /\ pc' = [pc EXCEPT ![c] = "expiring"]
  /\ UNCHANGED <<cancel, signalled, grace, outcome, request>>

TimeoutDrops(c) ==
  /\ pc[c] = "expiring"
  /\ pc' = [pc EXCEPT ![c] = "removeRoute"]
  /\ channel' = [channel EXCEPT ![c] = "dropped"]
  /\ UNCHANGED <<cancel, signalled, grace, pending, routes, resolver, outcome, answers, accepted>>

\* Mutant: the request first.
RemovePendingFirst(c) ==
  /\ pc[c] = "removeRoute"
  /\ pending' = pending \ {c}
  /\ pc' = [pc EXCEPT ![c] = "removePending"]
  /\ UNCHANGED <<cancel, signalled, grace, routes, channel, resolver, outcome, answers, accepted>>

RemoveRoute(c) ==
  /\ pc[c] = "removeRoute"
  /\ routes' = routes \ {c}
  /\ pc' = [pc EXCEPT ![c] = "removePending"]
  /\ UNCHANGED <<cancel, signalled, grace, pending, channel, resolver, outcome, answers, accepted>>

\* Mutant: the request stays.
ReturnWithoutRemoving(c) ==
  /\ pc[c] = "removePending"
  /\ Return(c, OutputOf(c, "timeout"))
  /\ UNCHANGED <<cancel, signalled, grace, request>>

RemovePending(c) ==
  /\ pc[c] = "removePending"
  /\ pending' = pending \ {c}
  /\ Return(c, OutputOf(c, "timeout"))
  /\ UNCHANGED <<cancel, signalled, grace, routes, channel, resolver, answers, accepted>>

(* The host: resolve_tool_execution, a lock for the route, then a lock for the
   request.  An answer to an unknown id returns false and changes nothing. *)

TakeRoute(c) ==
  /\ c \in routes /\ resolver[c] = "none" /\ answers[c] < MaxAnswers
  /\ routes' = routes \ {c}
  /\ answers' = [answers EXCEPT ![c] = @ + 1]
  /\ resolver' = [resolver EXCEPT ![c] = "routed"]
  /\ UNCHANGED <<pc, cancel, signalled, grace, pending, channel, outcome, accepted>>

\* Mutant: true as soon as the request was known.
ResolveKnown(c) ==
  /\ resolver[c] = "routed"
  /\ pending' = pending \ {c}
  /\ LET known == c \in pending IN
       /\ channel' = [channel EXCEPT ![c] = IF known /\ @ = "open" THEN "sent" ELSE @]
       /\ accepted' = [accepted EXCEPT ![c] = IF known THEN @ + 1 ELSE @]
  /\ resolver' = [resolver EXCEPT ![c] = "none"]
  /\ UNCHANGED <<pc, cancel, signalled, grace, routes, outcome, answers>>

\* Mutant: false for an answer that reports an error of the tool.
ResolveFalseOnError(c) ==
  /\ resolver[c] = "routed"
  /\ pending' = pending \ {c}
  /\ \E is_error \in BOOLEAN : LET sent == c \in pending /\ channel[c] = "open" IN
       /\ channel' = [channel EXCEPT ![c] = IF sent THEN "sent" ELSE @]
       /\ accepted' = [accepted EXCEPT ![c] = IF sent /\ ~is_error THEN @ + 1 ELSE @]
  /\ resolver' = [resolver EXCEPT ![c] = "none"]
  /\ UNCHANGED <<pc, cancel, signalled, grace, routes, outcome, answers>>

Resolve(c) ==
  /\ resolver[c] = "routed"
  /\ pending' = pending \ {c}
  /\ LET sent == c \in pending /\ channel[c] = "open" IN
       /\ channel' = [channel EXCEPT ![c] = IF sent THEN "sent" ELSE @]
       /\ accepted' = [accepted EXCEPT ![c] = IF sent THEN @ + 1 ELSE @]
  /\ resolver' = [resolver EXCEPT ![c] = "none"]
  /\ UNCHANGED <<pc, cancel, signalled, grace, routes, outcome, answers>>

-----------------------------------------------------------------------------
HostThread(c) == TakeRoute(c) \/ Resolve(c)

HostCall(c) ==
  \/ Dispatch(c) \/ DispatchFails(c) \/ Receive(c)
  \/ TimeoutLooks(c) \/ TimeoutDrops(c) \/ RemoveRoute(c) \/ RemovePending(c)

Next ==
  \/ \E c \in Calls : Cancel(c) \/ Start(c) \/ Tick(c) \/ GraceExpires(c)
  \/ \E c \in Internal : StartHandler(c) \/ HandlerDone(c)
  \/ \E c \in Hosted : HostCall(c) \/ HostThread(c)

Spec == Init /\ [][Next]_vars

\* The runtime polls every task, and a call that gives up goes on to its end.  A
\* handler may never finish and a host may never answer; nor need the clock ever
\* reach the 600 s of a host call.
Fairness ==
  /\ \A c \in Calls : WF_vars(Start(c)) /\ WF_vars(Tick(c)) /\ WF_vars(GraceExpires(c))
  /\ \A c \in Internal : WF_vars(StartHandler(c))
  /\ \A c \in Hosted :
       /\ WF_vars(Dispatch(c) \/ DispatchFails(c)) /\ WF_vars(Receive(c))
       /\ WF_vars(TimeoutDrops(c)) /\ WF_vars(RemoveRoute(c)) /\ WF_vars(RemovePending(c))

LiveSpec == Spec /\ Fairness

-----------------------------------------------------------------------------
TypeOK ==
  /\ pc \in [Calls -> {"idle", "started", "waiting", "expiring", "removeRoute",
                       "removePending", "returned"}]
  /\ cancel \in [Calls -> BOOLEAN]
  /\ signalled \in [Calls -> BOOLEAN]
  /\ grace \in [Calls -> BOOLEAN]
  /\ pending \subseteq Hosted /\ routes \subseteq Hosted
  /\ channel \in [Hosted -> {"none", "open", "sent", "dropped"}]
  /\ resolver \in [Hosted -> {"none", "routed"}]
  /\ outcome \in [Calls -> {"none", "refused", "result", "cancelled", "error", "timeout"}]
  /\ answers \in [Hosted -> 0 .. MaxAnswers]
  /\ accepted \in [Hosted -> 0 .. MaxAnswers]
  /\ \A c \in Calls : signalled[c] \/ grace[c] => cancel[c]

\* A route never outlives its request: an answer that finds a route finds the
\* request it leads to.  Both give-up paths and the answer take the two tables'
\* locks one after the other, so only the order keeps this (pending.rs:77-96).
RouteHasRequest == routes \subseteq pending

\* The table does not grow: a call that has returned left its request in it only
\* if its future was dropped by the grace period and the host never answered
\* (bridge.rs:36-52).
NothingLeftBehind ==
  \A c \in pending : pc[c] = "returned" => grace[c] /\ outcome[c] = "cancelled"

\* pending.rs:35-96: neither table keeps what no answer can use any more, nor
\* loses what the other still leads to.
TablesDrain == RouteHasRequest /\ NothingLeftBehind

\* However often the host answers, one answer at most is accepted, and the host
\* was told `true` of the answer a call returns (pending.rs:34-49, 75-91).
AcceptedOnce ==
  \A c \in Hosted : accepted[c] <= 1 /\ (outcome[c] = "result" => accepted[c] = 1)

\* Once the call has returned or dropped its receiver no answer is accepted any more.
LateAnswerRefused ==
  [][\A c \in Hosted : accepted'[c] # accepted[c] => pc[c] \in {"waiting", "expiring"}]_vars

\* pending.rs:41-56: the race of answers, timeout and cancel for a call has one
\* winner, and an answer that loses it is told so.
OneAnswer == []AcceptedOnce /\ LateAnswerRefused

\* The host may never answer and the user never cancel: if its clock goes on, a
\* host call that has started returns (the 600 s timeout, registry.rs:126-136).
HostCallReturns ==
  (\A c \in Hosted : WF_vars(TimeoutLooks(c)))
    => \A c \in Hosted : pc[c] = "started" ~> pc[c] = "returned"

\* docs/module-turn.md:122-128, "force-returned after TOOL_CANCEL_GRACE_PERIOD": a
\* cancel ends the wait whatever the handler or the host does, and without the
\* timeout - but of a handler only if it came after the flag was sampled.
CancelForcesReturn ==
  \A c \in Calls : (cancel[c] /\ ~signalled[c] /\ pc[c] = "waiting") ~> pc[c] = "returned"

\* execution.rs:224-262, bridge.rs:36-52: of the two clocks of a call each ends it
\* without the help of the other.
CallReturns == HostCallReturns /\ CancelForcesReturn
=============================================================================
