------------------------------- MODULE ToolLoop -------------------------------
(***************************************************************************)
(* The loop of model calls and tool calls of one turn                      *)
(* (crates/core/src/tools/loop.rs, run_tool_loop_streaming; run_tool_loop  *)
(* is the same loop without a cancel and without a human), with the two    *)
(* corrections of the private-skill protocol                               *)
(* (crates/core/src/skills/private_skill.rs).                              *)
(*                                                                         *)
(* A reply of the model is abstracted to how many tools of each kind it    *)
(* asks for and whether its text holds a command.  A message is abstracted *)
(* to what the protocol reads out of it: does it ask for commands, does it *)
(* opt out of the skills, does it hold a loaded skill.                     *)
(***************************************************************************)
EXTENDS Integers

CONSTANTS
  TurnMax,        \* max_iterations of the turn
  ConfigMax,      \* config.max_tool_iterations
  HiddenLimit,    \* INTERNAL_HIDDEN_TOOL_TURN_LIMIT
  MaxCalls,       \* bound: tool calls of each kind in a reply
  MaxInjections   \* bound: user messages injected during the turn

ASSUME LoopAssumption ==
  /\ TurnMax \in Int /\ ConfigMax \in Int
  /\ HiddenLimit \in Nat
  /\ MaxCalls \in Nat /\ MaxInjections \in Nat

VARIABLES
  pc,        \* "head", "model", "tools", "final", "ok", "failed"
  budgeted,  \* budgeted_tool_turns
  hidden,    \* hidden_only_tool_turns
  leakTried, \* leak_correction_attempted
  loadTried, \* skill_load_correction_attempted
  context,   \* PrivateSkillContext of the system prompt and the messages
  todo,      \* calls of the reply still to be run
  inbox,     \* the newest undrained interjection
  injected,  \* number of interjections
  cancelled, \* what should_cancel would return
  calls,     \* history: model calls begun
  userAsked, \* history: the newest message of the user asks for commands
  early,     \* history: a visible tool ran although the model had not been told to load the skill
  reason     \* history: why the loop ended

vars == <<pc, budgeted, hidden, leakTried, loadTried, context, todo, inbox,
          injected, cancelled, calls, userAsked, early, reason>>

NoMessage == [asked |-> FALSE, optedOut |-> FALSE, none |-> TRUE]
Message == [asked : BOOLEAN, optedOut : BOOLEAN, none : {FALSE}]
Context == [catalog : BOOLEAN, matched : BOOLEAN, loaded : BOOLEAN,
            asked : BOOLEAN, optedOut : BOOLEAN]
Todo == [visible : 0 .. MaxCalls, hidden : 0 .. MaxCalls]
NoCalls == [visible |-> 0, hidden |-> 0]

-----------------------------------------------------------------------------
(* limits.rs *)

DefaultLimit == 50
UnboundedLimit == 1000000

ToolTurnLimit(n) ==
  IF n < 0 THEN UnboundedLimit
  ELSE IF n = 0 THEN DefaultLimit
  ELSE IF n < 2 THEN 2 ELSE n

ResolvedLimit(turn, config) ==
  IF turn = 0 THEN ToolTurnLimit(config) ELSE ToolTurnLimit(turn)

Limit == ResolvedLimit(TurnMax, ConfigMax)

-----------------------------------------------------------------------------
(* private_skill.rs *)

\* should_require_skill_load_for_matched_candidate
MustLoad(c) == c.matched /\ ~c.loaded /\ ~c.asked /\ ~c.optedOut

\* Mutant: the catalog alone is not enough.
LeaksLoadedOnly(c) == c.loaded

\* should_correct_private_skill_command_leak, of an answer with a command
Leaks(c) == c.loaded \/ (c.catalog /\ ~c.asked)

\* Mutant: the two flags are taken for one another.
HearSwapped(c, asked, optedOut) == [c EXCEPT !.asked = optedOut, !.optedOut = asked]

\* A message with role "user" replaces both flags, whoever wrote it.
HearUser(c, asked, optedOut) == [c EXCEPT !.asked = asked, !.optedOut = optedOut]

-----------------------------------------------------------------------------
Init ==
  /\ pc = "head"
  /\ budgeted = 0 /\ hidden = 0
  /\ leakTried = FALSE /\ loadTried = FALSE
  /\ context \in {c \in Context : c.matched => c.catalog}
  /\ todo = NoCalls
  /\ inbox = NoMessage /\ injected = 0
  /\ cancelled = FALSE
  /\ calls = 0 /\ userAsked = context.asked /\ early = FALSE /\ reason = "none"

(* The user, at any time *)
Cancel ==
  /\ ~cancelled /\ pc \notin {"ok", "failed"}
  /\ cancelled' = TRUE
  /\ UNCHANGED <<pc, budgeted, hidden, leakTried, loadTried, context, todo, inbox,
                 injected, calls, userAsked, early, reason>>

Inject ==
  /\ injected < MaxInjections /\ pc \notin {"ok", "failed"}
  /\ injected' = injected + 1
  /\ inbox' \in Message
  /\ UNCHANGED <<pc, budgeted, hidden, leakTried, loadTried, context, todo,
                 cancelled, calls, userAsked, early, reason>>

\* drain_interjections_into_messages: the newest message decides.
Drain ==
  /\ inbox' = NoMessage
  /\ IF inbox.none
       THEN UNCHANGED <<context, userAsked>>
       ELSE /\ context' = HearUser(context, inbox.asked, inbox.optedOut)
            /\ userAsked' = inbox.asked

End(how, why) == pc' = how /\ reason' = why

(* The head of the loop *)
HeadCancelled ==
  /\ pc = "head" /\ cancelled
  /\ End("failed", "cancelled")
  /\ UNCHANGED <<budgeted, hidden, leakTried, loadTried, context, todo, inbox,
                 injected, cancelled, calls, userAsked, early>>

\* ... and the model call begins, unless the messages no longer fit.
HeadOfLoop ==
  /\ pc = "head" /\ ~cancelled /\ budgeted < Limit
  /\ Drain
  /\ \/ pc' = "model" /\ calls' = calls + 1 /\ UNCHANGED reason
     \/ End("failed", "overflow") /\ UNCHANGED calls
  /\ UNCHANGED <<budgeted, hidden, leakTried, loadTried, todo, injected, cancelled, early>>

\* The budget is used up: a last call, without tools, told so in a user message.
ToFinal ==
  /\ pc = "head" /\ ~cancelled /\ budgeted >= Limit
  /\ context' = HearUser(context, FALSE, FALSE)
  /\ pc' = "final" /\ calls' = calls + 1
  /\ UNCHANGED <<budgeted, hidden, leakTried, loadTried, todo, inbox, injected,
                 cancelled, userAsked, early, reason>>

\* A provider error, or the cancel seen while streaming.
ModelFails ==
  /\ pc \in {"model", "final"}
  /\ End("failed", IF cancelled THEN "cancelled" ELSE "provider")
  /\ UNCHANGED <<budgeted, hidden, leakTried, loadTried, context, todo, inbox,
                 injected, cancelled, calls, userAsked, early>>

(* maybe_correct_private_skill_command_leak *)

\* The correction names the skills; a name may hold one of the words.
CorrectLoad ==
  /\ MustLoad(context) /\ ~loadTried
  /\ loadTried' = TRUE
  /\ \E named \in BOOLEAN : context' = HearUser(context, named, FALSE)
  /\ pc' = "head"
  /\ UNCHANGED <<leakTried, reason>>

\* Mutant: the flag is not set.
CorrectLeakAgain(commands) ==
  /\ ~(MustLoad(context) /\ ~loadTried)
  /\ commands /\ Leaks(context) /\ ~leakTried
  /\ context' = HearUser(context, TRUE, FALSE)
  /\ pc' = "head"
  /\ UNCHANGED <<leakTried, loadTried, reason>>

\* The correction itself holds the word "command".
CorrectLeak(commands) ==
  /\ ~(MustLoad(context) /\ ~loadTried)
  /\ commands /\ Leaks(context) /\ ~leakTried
  /\ leakTried' = TRUE
  /\ context' = HearUser(context, TRUE, FALSE)
  /\ pc' = "head"
  /\ UNCHANGED <<loadTried, reason>>

Accept(commands) ==
  /\ ~(MustLoad(context) /\ ~loadTried)
  /\ IF commands /\ Leaks(context)
       THEN leakTried /\ End("failed", "leak")
       ELSE End("ok", IF commands THEN "command" ELSE "answer")
  /\ UNCHANGED <<leakTried, loadTried, context>>

Answer(commands) ==
  /\ pc = "model"
  /\ CorrectLoad \/ CorrectLeak(commands) \/ Accept(commands)
  /\ UNCHANGED <<budgeted, hidden, todo, inbox, injected, cancelled, calls,
                 userAsked, early>>

(* A reply with tool calls: maybe_gate_visible_tools_for_skill_protocol *)

\* Mutant: the skill is loaded, and the other tools run with it.
GatedTogether(v, h) == [visible |-> v, hidden |-> h]

\* What is left of the calls: only the skill loads when the gate is closed.
Gated(v, h) ==
  IF MustLoad(context) /\ h > 0 THEN [visible |-> 0, hidden |-> h]
  ELSE [visible |-> v, hidden |-> h]

GateRetry(v, h) ==
  /\ pc = "model" /\ v > 0 /\ h = 0
  /\ MustLoad(context) /\ ~loadTried
  /\ loadTried' = TRUE
  /\ \E named \in BOOLEAN : context' = HearUser(context, named, FALSE)
  /\ pc' = "head"
  /\ UNCHANGED <<budgeted, hidden, leakTried, todo, inbox, injected, cancelled,
                 calls, userAsked, early, reason>>

VisibleTurn(v) ==
  /\ v > 0
  /\ budgeted' = budgeted + 1
  /\ hidden' = 0
  /\ pc' = "tools"
  /\ UNCHANGED reason

HiddenTurn(v) ==
  /\ v = 0
  /\ hidden' = hidden + 1
  /\ IF hidden' > HiddenLimit THEN End("failed", "hidden") ELSE pc' = "tools" /\ UNCHANGED reason
  /\ UNCHANGED budgeted

ToolTurn(v, h) ==
  /\ pc = "model" /\ v + h > 0
  /\ ~(v > 0 /\ h = 0 /\ MustLoad(context) /\ ~loadTried)
  /\ todo' = Gated(v, h)
  /\ VisibleTurn(todo'.visible) \/ HiddenTurn(todo'.visible)
  /\ UNCHANGED <<leakTried, loadTried, context, inbox, injected, cancelled,
                 calls, userAsked, early>>

(* execute_turn_tool_calls, one call at a time *)
CallsCancelled ==
  /\ pc = "tools" /\ todo # NoCalls /\ cancelled
  /\ End("failed", "cancelled")
  /\ UNCHANGED <<budgeted, hidden, leakTried, loadTried, context, todo, inbox,
                 injected, cancelled, calls, userAsked, early>>

RunVisible ==
  /\ pc = "tools" /\ todo.visible > 0 /\ ~cancelled
  /\ todo' = [todo EXCEPT !.visible = @ - 1]
  /\ early' = (early \/ (MustLoad(context) /\ ~loadTried))
  /\ UNCHANGED <<pc, budgeted, hidden, leakTried, loadTried, context, inbox,
                 injected, cancelled, calls, userAsked, reason>>

\* skill_load; it may fail.
RunHidden ==
  /\ pc = "tools" /\ todo.hidden > 0 /\ ~cancelled
  /\ todo' = [todo EXCEPT !.hidden = @ - 1]
  /\ \E loads \in BOOLEAN : context' = [context EXCEPT !.loaded = @ \/ loads]
  /\ UNCHANGED <<pc, budgeted, hidden, leakTried, loadTried, inbox,
                 injected, cancelled, calls, userAsked, early, reason>>

CallsDone ==
  /\ pc = "tools" /\ todo = NoCalls
  /\ Drain
  /\ pc' = "head"
  /\ UNCHANGED <<budgeted, hidden, leakTried, loadTried, todo, injected,
                 cancelled, calls, early, reason>>

(* The last call: no more tools, no more corrections *)
FinalReply(n, commands) ==
  /\ pc = "final"
  /\ IF n > 0 THEN End("failed", "moreTools")
     ELSE IF commands /\ Leaks(context) THEN End("failed", "leak")
     ELSE End("ok", IF commands THEN "command" ELSE "answer")
  /\ UNCHANGED <<budgeted, hidden, leakTried, loadTried, context, todo, inbox,
                 injected, cancelled, calls, userAsked, early>>

Next ==
  \/ Cancel \/ Inject
  \/ HeadCancelled \/ HeadOfLoop \/ ToFinal \/ ModelFails
  \/ \E commands \in BOOLEAN : Answer(commands)
  \/ \E v, h \in 0 .. MaxCalls : GateRetry(v, h) \/ ToolTurn(v, h)
  \/ CallsCancelled \/ RunVisible \/ RunHidden \/ CallsDone
  \/ \E n \in 0 .. MaxCalls, commands \in BOOLEAN : FinalReply(n, commands)

Spec == Init /\ [][Next]_vars

-----------------------------------------------------------------------------
TypeOK ==
  /\ pc \in {"head", "model", "tools", "final", "ok", "failed"}
  /\ budgeted \in 0 .. Limit
  /\ hidden \in 0 .. HiddenLimit + 1
  /\ leakTried \in BOOLEAN /\ loadTried \in BOOLEAN
  /\ context \in Context
  /\ todo \in Todo
  /\ inbox \in Message \cup {NoMessage}
  /\ injected \in 0 .. MaxInjections
  /\ cancelled \in BOOLEAN
  /\ calls \in Nat
  /\ userAsked \in BOOLEAN /\ early \in BOOLEAN
  /\ reason \in {"none", "cancelled", "overflow", "provider", "leak", "hidden",
                 "moreTools", "command", "answer"}

\* Whatever the model replies, a turn calls it a bounded number of times:
\* neither the corrections, which `continue` without using the budget, nor the
\* sub-turns that only load skills, which the budget does not count, let the
\* loop (loop.rs:497) run on.
WorkBounded == calls <= (HiddenLimit + 1) * (Limit + 1) + 2

\* A visible tool runs while a matched skill is not loaded only if the model was
\* told to load it before: not beside a load in the same reply, and not after an
\* injected message that switches the protocol back on.
LoadAskedFirst == ~early

\* skills/tests.rs:1414, a command in a turn with a skill catalog is blocked
\* "unless_user_asked_for_code".  The words of the user decide, not those of the
\* model and of the tools, until the loop itself writes a message of role user:
\* after a correction its own words count (execution.rs:514).
CommandsOnlyOnRequest ==
  (pc = "ok" /\ reason = "command" /\ context.catalog /\ ~leakTried /\ ~loadTried)
    => userAsked

\* The other half of the same test (skills/tests.rs:1442-1458): with no skill
\* loaded, a command the user asked for is no leak, whatever was injected before.
\* The message that announces the last reply of a used-up budget ends this too.
RequestedCommandsPass ==
  (reason = "leak" /\ userAsked /\ budgeted < Limit) => context.loaded

\* private_skill.rs:193-219: a reply with a command is the answer if the user
\* asked for one and corrected if not, as far as the user's words can decide.
CommandsAsRequested == CommandsOnlyOnRequest /\ RequestedCommandsPass

=============================================================================
