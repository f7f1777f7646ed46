----------------------------- MODULE TurnRecorder -----------------------------
(***************************************************************************)
(* What one streaming turn records of its model calls                      *)
(* (crates/core/src/turn/history.rs, TurnHistoryRecorder), fed by the      *)
(* events of the streaming clients: a model call is tried up to Attempts   *)
(* times (crates/core/src/llm/sse.rs, openai_compatible.rs), an attempt    *)
(* that breaks off after it had started is announced by a StreamReset, and *)
(* the tool calls of a completed sub-turn run one after the other          *)
(* (crates/core/src/tools/loop/execution.rs).                              *)
(*                                                                         *)
(* A delta is a tuple <<kind, sub-turn, attempt, number>> instead of text. *)
(***************************************************************************)
EXTENDS Naturals, Sequences, FiniteSets

CONSTANTS
  Attempts,    \* STREAM_RETRY_ATTEMPTS
  MaxSubturns, \* bound: model calls of the turn
  MaxDeltas,   \* bound: text and reasoning deltas of an attempt
  MaxToolCalls \* bound: tool calls of a sub-turn

ASSUME RecorderAssumption ==
  /\ Attempts \in Nat \ {0}
  /\ MaxSubturns \in Nat \ {0}
  /\ MaxDeltas \in Nat
  /\ MaxToolCalls \in Nat

VARIABLES
  segments,  \* TurnHistoryRecorder.segments
  saw,       \* saw_response_delta
  phase,     \* "stream", "tools", "ended"
  sub,       \* number of the current model call
  attempt,   \* and of its attempt
  started,   \* the attempt has delivered an event
  got,       \* the text and reasoning deltas the attempt has delivered
  toRun,     \* ids of the tool calls of the sub-turn still to be run
  trail,     \* history: the calls run so far, [id, sub, done]
  completed, \* history: deltas of attempts that completed
  broken,    \* history: deltas of attempts that broke off
  wiped      \* history: deltas in the active segment when a StreamReset came

recorderVars == <<segments, saw, phase, sub, attempt, started, got, toRun,
          trail, completed, broken, wiped>>

Blank == [reasoning |-> <<>>, calls |-> <<>>, content |-> <<>>]

RecorderInit ==
  /\ segments = <<>> /\ saw = FALSE
  /\ phase = "stream" /\ sub = 1 /\ attempt = 1
  /\ started = FALSE /\ got = <<>> /\ toRun = <<>>
  /\ trail = <<>> /\ completed = {} /\ broken = {} /\ wiped = {}

Contents(s) == {s[i] : i \in 1 .. Len(s)}
DeltasIn(segment) == Contents(segment.content) \cup Contents(segment.reasoning)
ActiveDeltas == IF segments = <<>> THEN {} ELSE DeltasIn(segments[Len(segments)])

-----------------------------------------------------------------------------
(* TurnHistoryRecorder: which segment an event belongs to *)

\* current_segment
Current(segs) == IF segs = <<>> THEN <<Blank>> ELSE segs

\* segment_for_trace: a fresh segment after one with text or calls.
ForTrace(segs) ==
  IF segs = <<>> THEN <<Blank>>
  ELSE LET last == segs[Len(segs)] IN
       IF last.content # <<>> \/ last.calls # <<>> THEN Append(segs, Blank) ELSE segs

\* segment_for_model_output: a fresh one when every call of the last has a result.
ForOutput(segs) ==
  LET closed == /\ segs # <<>>
                /\ LET calls == segs[Len(segs)].calls IN
                     calls # <<>> /\ \A i \in DOMAIN calls : calls[i].done
  IN IF closed THEN Append(segs, Blank) ELSE Current(segs)

Extend(segs, field, x) == [segs EXCEPT ![Len(segs)][field] = Append(@, x)]

\* Positions of the calls with an id, and the latest of them.
PositionsOf(segs, id) ==
  {p \in UNION {{i} \X DOMAIN segs[i].calls : i \in DOMAIN segs} :
     segs[p[1]].calls[p[2]].id = id}
Later(p, q) == p[1] > q[1] \/ (p[1] = q[1] /\ p[2] >= q[2])

\* Mutant: the search starts at the oldest segment.
FinishOldestCall(segs, id) ==
  LET p == CHOOSE p \in PositionsOf(segs, id) :
             \A q \in PositionsOf(segs, id) : Later(q, p)
  IN [segs EXCEPT ![p[1]].calls[p[2]].done = TRUE]

\* finish_tool_call: ids repeat when the client has to make them up.
FinishCall(segs, id) ==
  LET p == CHOOSE p \in PositionsOf(segs, id) :
             \A q \in PositionsOf(segs, id) : Later(p, q)
  IN [segs EXCEPT ![p[1]].calls[p[2]].done = TRUE]

\* Mutant: the whole active segment goes.
DropActiveSegment(segs) ==
  IF segs = <<>> THEN segs ELSE SubSeq(segs, 1, Len(segs) - 1)

\* Mutant: the text of every segment goes.
ResetEverySegment(segs) ==
  [i \in DOMAIN segs |-> [segs[i] EXCEPT !.content = <<>>, !.reasoning = <<>>]]

\* Mutant: the reasoning stays.
ResetTextOnly(segs) ==
  IF segs = <<>> THEN segs ELSE [segs EXCEPT ![Len(segs)].content = <<>>]

\* record(StreamReset): text and reasoning of the last segment go, its calls stay.
ResetLast(segs) ==
  IF segs = <<>> THEN segs
  ELSE [segs EXCEPT ![Len(segs)].content = <<>>, ![Len(segs)].reasoning = <<>>]

\* Mutant: the flag of an earlier sub-turn is not looked at.
RecordResponseAlways(text) ==
  segments' = [ForOutput(segments) EXCEPT ![Len(ForOutput(segments))].content = text]

\* record(Response)
RecordResponse(text) ==
  segments' = IF saw THEN segments
              ELSE [ForOutput(segments) EXCEPT ![Len(ForOutput(segments))].content = text]

-----------------------------------------------------------------------------
(* One model call *)

Delta(kind) ==
  /\ phase = "stream"
  /\ Len(got) < MaxDeltas
  /\ LET x == <<kind, sub, attempt, Len(got) + 1>> IN
       /\ got' = Append(got, x)
       /\ segments' = IF kind = "text"
                        THEN Extend(ForOutput(segments), "content", x)
                        ELSE Extend(ForTrace(segments), "reasoning", x)
  /\ saw' = (saw \/ kind = "text")
  /\ started' = TRUE
  /\ UNCHANGED <<phase, sub, attempt, toRun, trail, completed, broken, wiped>>

\* A tool-call delta starts the attempt too; the recorder ignores it.
ToolCallDelta ==
  /\ phase = "stream"
  /\ ~started
  /\ started' = TRUE
  /\ UNCHANGED <<segments, saw, phase, sub, attempt, got, toRun,
                 trail, completed, broken, wiped>>

\* can_retry_stream and note_stream_retry: a transport error, or any error
\* before the first event.
RetryStream ==
  /\ phase = "stream"
  /\ attempt < Attempts
  /\ attempt' = attempt + 1
  /\ started' = FALSE /\ got' = <<>>
  /\ broken' = broken \cup Contents(got)
  /\ IF started
       THEN /\ segments' = ResetLast(segments)
            /\ saw' = FALSE
            /\ wiped' = wiped \cup ActiveDeltas
       ELSE UNCHANGED <<segments, saw, wiped>>
  /\ UNCHANGED <<phase, sub, toRun, trail, completed>>

\* Cancelled, out of attempts, or an error that is not worth a retry: the loop
\* returns the error and no Response is recorded.
StreamFails ==
  /\ phase = "stream"
  /\ phase' = "ended"
  /\ broken' = broken \cup Contents(got)
  /\ UNCHANGED <<segments, saw, sub, attempt, started, got, toRun,
                 trail, completed, wiped>>

HasText(s) == \E i \in DOMAIN s : s[i][1] = "text"
TextOf(s)  == SelectSeq(s, LAMBDA x : x[1] = "text")

NextSubturn ==
  /\ sub < MaxSubturns
  /\ sub' = sub + 1 /\ attempt' = 1 /\ started' = FALSE /\ got' = <<>>
  /\ completed' = completed \cup Contents(got)

\* The model asks for n tools.  Ids come from the provider, or from the index.
WithCalls(n, made_up) ==
  /\ phase = "stream" /\ started
  /\ NextSubturn
  /\ toRun' = [k \in 1 .. n |-> IF made_up THEN <<0, k>> ELSE <<sub, k>>]
  /\ phase' = "tools"
  /\ UNCHANGED <<segments, saw, trail, broken, wiped>>

\* Only hidden skill tools: they are run without an event.
WithHiddenCalls ==
  /\ phase = "stream" /\ started
  /\ NextSubturn
  /\ UNCHANGED <<segments, saw, phase, toRun, trail, broken, wiped>>

\* The loop corrects a draft: a Thinking event, and the model is called again.
Corrected ==
  /\ phase = "stream" /\ HasText(got)
  /\ NextSubturn
  /\ segments' = Extend(ForTrace(segments), "reasoning", <<"thinking", sub, attempt, 0>>)
  /\ UNCHANGED <<saw, phase, toRun, trail, broken, wiped>>

\* The final answer; finish_successful_turn and the cancelled path record it.
FinalAnswer ==
  /\ phase = "stream" /\ HasText(got)
  /\ RecordResponse(TextOf(got))
  /\ completed' = completed \cup Contents(got)
  /\ phase' = "ended"
  /\ UNCHANGED <<saw, sub, attempt, started, got, toRun, trail, broken, wiped>>

(* Tools, one after the other *)
ToolCall ==
  /\ phase = "tools" /\ toRun # <<>>
  /\ trail # <<>> => trail[Len(trail)].done
  /\ LET call == [id |-> Head(toRun), sub |-> sub, done |-> FALSE] IN
       /\ trail' = Append(trail, call)
       /\ segments' = Extend(ForOutput(segments), "calls", call)
  /\ UNCHANGED <<saw, phase, sub, attempt, started, got, toRun, completed, broken, wiped>>

ToolResult ==
  /\ phase = "tools" /\ toRun # <<>>
  /\ trail # <<>> /\ ~trail[Len(trail)].done
  /\ trail' = [trail EXCEPT ![Len(trail)].done = TRUE]
  /\ segments' = FinishCall(segments, Head(toRun))
  /\ toRun' = Tail(toRun)
  /\ UNCHANGED <<saw, phase, sub, attempt, started, got, completed, broken, wiped>>

ToolsDone ==
  /\ phase = "tools" /\ toRun = <<>>
  /\ phase' = "stream"
  /\ UNCHANGED <<segments, saw, sub, attempt, started, got, toRun,
                 trail, completed, broken, wiped>>

RecorderNext ==
  \/ \E kind \in {"text", "reasoning"} : Delta(kind)
  \/ ToolCallDelta \/ RetryStream \/ StreamFails
  \/ \E n \in 1 .. MaxToolCalls, made_up \in BOOLEAN : WithCalls(n, made_up)
  \/ WithHiddenCalls \/ Corrected \/ FinalAnswer
  \/ ToolCall \/ ToolResult \/ ToolsDone

RecorderSpec == RecorderInit /\ [][RecorderNext]_recorderVars

-----------------------------------------------------------------------------
Deltas   == {"text", "reasoning", "thinking"} \X Nat \X Nat \X Nat
Calls    == [id : Nat \X Nat, sub : Nat, done : BOOLEAN]
Segments == [reasoning : Seq(Deltas), calls : Seq(Calls), content : Seq(Deltas)]

RecorderTypes ==
  /\ segments \in Seq(Segments)
  /\ saw \in BOOLEAN /\ started \in BOOLEAN
  /\ phase \in {"stream", "tools", "ended"}
  /\ sub \in 1 .. MaxSubturns /\ attempt \in 1 .. Attempts
  /\ got \in Seq(Deltas) /\ Len(got) <= MaxDeltas
  /\ toRun \in Seq(Nat \X Nat) /\ Len(toRun) <= MaxToolCalls
  /\ trail \in Seq(Calls)
  /\ completed \subseteq Deltas /\ broken \subseteq Deltas
  /\ wiped \subseteq Deltas

\* All the calls of some segments, in their order.
CallsOf(segs) ==
  LET upTo[n \in 0 .. Len(segs)] ==
        IF n = 0 THEN <<>> ELSE upTo[n - 1] \o segs[n].calls
  IN  upTo[Len(segs)]

RecordedIn(segs) == UNION {DeltasIn(segs[i]) : i \in DOMAIN segs}
Recorded == RecordedIn(segments)

\* history.rs:72, "Completed tool calls ... are left intact": whatever broke off
\* and was retried, the recorder holds exactly the calls that were run, in their
\* order, and each result is at its own call although ids may repeat.
TrailIntact == CallsOf(segments) = trail

\* Nothing the model streamed is missing, drafts the loop corrected included, but
\* what stood in the active segment when a reset came.
LostOnlyByReset == completed \cup Contents(got) \subseteq Recorded \cup wiped

\* history.rs:68, the reset is meant for "the partial assistant content/reasoning" of
\* the attempt, but the active segment may still hold the text of earlier replies
\* that are complete.  How far back it reaches: behind such a text at most one tool
\* call was recorded, the one that was run last.
ResetReachesOneCall ==
  \A x \in completed \cap ActiveDeltas : \A i \in DOMAIN trail :
    trail[i].sub > x[2] => i = Len(trail)

\* llm/sse.rs:819, "partial deltas are discarded via StreamReset before the
\* retried stream resumes": what an attempt that broke off may leave behind is
\* only what it streamed before a reasoning delta that followed its text, which
\* opens a segment the reset does not reach behind.
OnlySealedDeltasStay ==
  phase # "ended" => \A x \in Recorded \cap broken :
    \E t, y \in broken :
      /\ <<t[2], t[3]>> = <<x[2], x[3]>> /\ <<y[2], y[3]>> = <<x[2], x[3]>>
      /\ t[1] = "text" /\ y[1] = "reasoning"
      /\ x[4] <= t[4] /\ t[4] < y[4]

\* history.rs:57-82: through retries, segments and corrected drafts a delta of a
\* completed attempt is lost only to a reset that found it in the active segment, at
\* most one call back, and a delta of a broken one stays only where no reset reaches.
DeltasAccounted == LostOnlyByReset /\ ResetReachesOneCall /\ OnlySealedDeltasStay

=============================================================================
