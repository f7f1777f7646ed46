------------------------------ MODULE TurnDriver ------------------------------
(***************************************************************************)
(* One turn from the user's message to its terminal event                  *)
(* (crates/core/src/turn/orchestration: streaming.rs, collected.rs), over  *)
(* the three agent engines: prepare, run, retry once after a context       *)
(* overflow, finish (turn/prepare.rs, turn/finalize.rs).                   *)
(*                                                                         *)
(* What the turn has recorded is abstracted to which kinds of row it has;  *)
(* of the emitted events only the terminal ones are kept.                  *)
(***************************************************************************)
EXTENDS Naturals, Sequences

CONSTANTS
  Engines,    \* subset of {"native", "codex", "external"}
  Modes,      \* subset of {"streaming", "collected"}
  MaxCancels  \* bound: cancels of the session during the turn

ASSUME DriverAssumption ==
  /\ Engines \subseteq {"native", "codex", "external"}
  /\ Modes \subseteq {"streaming", "collected"}
  /\ MaxCancels \in Nat

VARIABLES
  engine, mode,
  marker,     \* config.interrupt_marker_enabled
  stage,      \* "prepare", "build", "run", "retry", "rerun", "finish", "done"
  stopped,    \* what is_cancelled() returns now
  cancels,    \* number of cancels so far
  rec,        \* the recorder: which kinds of row it holds
  stored,     \* the rows of the turn in the session history
  interrupted, \* ... and whether they are marked so
  aborted,    \* the turn_aborted row
  userRows,   \* user rows the turn has written
  result,     \* what the engine returned
  terminal,   \* Error, Interrupted and Response events handed to the host
  finished,   \* which of the finish_* functions ran
  sawText     \* saw_response_delta

turnVars == <<engine, mode, marker, stage, stopped, cancels, rec, stored, interrupted,
              aborted, userRows, result, terminal, finished, sawText>>
setting == <<engine, mode, marker>>
history == <<stored, interrupted, aborted>>

Kinds == {"reasoning", "calls", "text"}
Visible(rows) == rows \cap {"calls", "text"} # {}    \* produced_model_visible_output

TurnInit ==
  /\ engine \in Engines /\ mode \in Modes /\ marker \in BOOLEAN
  /\ stage = "prepare"
  /\ stopped = FALSE /\ cancels = 0
  /\ rec = {} /\ sawText = FALSE
  /\ stored = {} /\ interrupted = FALSE /\ aborted = FALSE
  /\ userRows = 0
  /\ result = "none" /\ terminal = <<>> /\ finished = "none"

Emit(event) == terminal' = Append(terminal, event)

\* emit, or the list of a collected turn, behind the cancel gate of a stream:
\* Error and Interrupted pass (event_survives_cancel), a Response does not.
EmitGated(event) ==
  IF mode = "streaming" /\ stopped /\ event = "Response"
    THEN UNCHANGED terminal ELSE Emit(event)

\* persist_turn_history_segments: nothing is written when there is nothing.
Persist(rows, mark) ==
  IF rows = {} THEN UNCHANGED <<stored, interrupted>>
  ELSE stored' = rows /\ interrupted' = mark

-----------------------------------------------------------------------------
(* The session's cancel *)
CancelTurn ==
  /\ stage # "done" /\ ~stopped /\ cancels < MaxCancels
  /\ stopped' = TRUE /\ cancels' = cancels + 1
  /\ UNCHANGED <<setting, stage, rec, history, userRows, result, terminal, finished, sawText>>

\* A newer run of the session wipes the cancel of this one (SessionRuntime).
Forgotten ==
  /\ stage # "done" /\ stopped
  /\ stopped' = FALSE
  /\ UNCHANGED <<setting, stage, cancels, rec, history, userRows, result, terminal, finished, sawText>>

Fail(event) ==
  /\ stage' = "done"
  /\ Emit(event)
  /\ UNCHANGED <<setting, stopped, cancels, rec, history, userRows, result, finished, sawText>>

(* prepare_turn_with_hooks *)
PrepareFails == stage \in {"prepare", "build"} /\ Fail("Error")

PersistUserMessage ==
  /\ stage = "prepare"
  /\ userRows' = userRows + 1
  /\ stage' = "build"
  /\ UNCHANGED <<setting, stopped, cancels, rec, history, result, terminal, finished, sawText>>

\* For the other engines the plan may fail too: PrepareFails.
BuildHistory ==
  /\ stage = "build"
  /\ stage' = "run"
  /\ UNCHANGED <<setting, stopped, cancels, rec, history, userRows, result, terminal,
                 finished, sawText>>

-----------------------------------------------------------------------------
(* The engine runs: native tool loop or Codex events *)
Running == stage \in {"run", "rerun"} /\ engine # "external"

Streams(kind) ==
  /\ Running
  /\ rec' = rec \cup {kind}
  /\ sawText' = (sawText \/ kind = "text")
  /\ UNCHANGED <<setting, stage, stopped, cancels, history, userRows, result, terminal, finished>>

\* Mutant: only results are checkpointed, and this is the call.
CallWithoutCheckpoint ==
  /\ Running
  /\ rec' = rec \cup {"calls"}
  /\ UNCHANGED <<setting, stage, stopped, cancels, history, userRows, result, terminal,
                 finished, sawText>>

\* checkpoint_after_event; Codex's events are recorded and not checkpointed.
ToolBoundary ==
  /\ Running
  /\ rec' = rec \cup {"calls"}
  /\ IF engine = "native" THEN Persist(rec', TRUE) ELSE UNCHANGED <<stored, interrupted>>
  /\ UNCHANGED <<setting, stage, stopped, cancels, aborted, userRows, result, terminal,
                 finished, sawText>>

\* StreamReset: the last segment loses its text and its reasoning.
Reset ==
  /\ Running /\ engine = "native"
  /\ rec' \in {rec \ lost : lost \in SUBSET {"reasoning", "text"}}
  /\ sawText' = FALSE
  /\ UNCHANGED <<setting, stage, stopped, cancels, history, userRows, result, terminal, finished>>

\* What can come back.  A collected native loop does not look at the cancel; the
\* Codex app-server may abort a turn that nobody cancelled (turn_aborted).
Results ==
  {"answer", "empty", "error"}
    \cup (IF stopped /\ (engine # "native" \/ mode = "streaming") THEN {"cancelled"} ELSE {})
    \cup (IF engine = "codex" THEN {"cancelled"} ELSE {})
    \cup (IF engine = "native" THEN {"midTurnOverflow"} ELSE {})
    \cup (IF engine = "native" /\ rec = {} THEN {"overflow"} ELSE {})

Ends ==
  /\ stage \in {"run", "rerun"}
  /\ result' \in Results
  /\ stage' = IF stage = "run" THEN "finish" ELSE "refinish"
  /\ UNCHANGED <<setting, stopped, cancels, rec, history, userRows, terminal, finished, sawText>>

-----------------------------------------------------------------------------
(* finalize.rs *)
Answered == result \in {"answer", "empty"}

\* record(Response): text only if none was streamed.
WithResponse == IF result = "answer" /\ ~sawText THEN rec \cup {"text"} ELSE rec

\* Mutant: the rows of a finished turn keep their mark.
SucceedInterrupted ==
  /\ rec' = WithResponse
  /\ Persist(rec', TRUE)
  /\ finished' = "success"
  /\ stage' = "done"
  /\ UNCHANGED aborted

\* finish_successful_turn
Succeed ==
  /\ rec' = WithResponse
  /\ Persist(rec', FALSE)
  /\ finished' = "success"
  /\ stage' = "done"
  /\ UNCHANGED aborted

\* Mutant: reasoning counts as output.
CancelAfterReasoning(rows) ==
  /\ rec' = rows
  /\ Persist(rows, TRUE)
  /\ aborted' = (marker /\ rows = {})
  /\ finished' = "cancelled"
  /\ stage' = "done"

\* finish_cancelled_turn
FinishCancelled(rows) ==
  /\ rec' = rows
  /\ Persist(rows, TRUE)
  /\ aborted' = (marker /\ ~Visible(rows))
  /\ finished' = "cancelled"
  /\ stage' = "done"

\* Mutant: as in a collected turn, nothing is emitted.
CancelQuietly ==
  /\ FinishCancelled(IF Answered THEN WithResponse ELSE rec)
  /\ UNCHANGED terminal

\* A stream says so; a collected turn only returns its events.
CancelNative ==
  /\ FinishCancelled(IF Answered THEN WithResponse ELSE rec)
  /\ IF mode = "streaming" THEN Emit("Interrupted") ELSE UNCHANGED terminal

Finishing == stage \in {"finish", "refinish"}
unchanged == <<setting, stopped, cancels, userRows, result, sawText>>

\* Ok of the loop, first time or after the retry
NativeOk ==
  /\ Finishing /\ engine = "native" /\ Answered
  /\ IF stopped THEN CancelNative ELSE Succeed /\ Emit("Response")
  /\ UNCHANGED unchanged

\* Err of the first loop, in a stream that was cancelled
NativeCancelled ==
  /\ stage = "finish" /\ engine = "native" /\ ~Answered
  /\ mode = "streaming" /\ (stopped \/ result = "cancelled")
  /\ CancelNative
  /\ UNCHANGED unchanged

\* The cancel is read again before the retry: seen late it makes an error.
Overflowed == result \in {"midTurnOverflow", "overflow"}

Retry ==
  /\ stage = "finish" /\ engine = "native" /\ Overflowed
  /\ mode = "streaming" => ~stopped
  /\ stage' = "retry"
  /\ UNCHANGED <<setting, stopped, cancels, rec, history, userRows, result, terminal,
                 finished, sawText>>

NativeError ==
  /\ stage = "finish" /\ engine = "native" /\ ~Answered /\ result # "cancelled"
  /\ Overflowed => mode = "streaming" /\ stopped
  /\ Fail("Error")

\* reprepare_turn_after_context_overflow_with_hooks writes no user row.
Reprepared ==
  /\ stage = "retry"
  /\ stage' = "rerun"
  /\ UNCHANGED <<setting, stopped, cancels, rec, history, userRows, result, terminal,
                 finished, sawText>>
ReprepareFails == stage = "retry" /\ Fail("Error")

\* Err of the second loop, whatever it is
RetryError == stage = "refinish" /\ ~Answered /\ Fail("Error")

(* The other engines; their events, the last one included, come first *)

\* Codex: an Error or an Interrupted among the events is a failure.
CodexDone ==
  /\ stage = "finish" /\ engine = "codex"
  /\ IF Answered THEN Succeed /\ EmitGated("Response")
     ELSE /\ Persist(rec, TRUE) /\ stage' = "done"
          /\ Emit(IF result = "cancelled" THEN "Interrupted" ELSE "Error")
          /\ UNCHANGED <<rec, aborted, finished>>
  /\ UNCHANGED unchanged

\* External: only an Error is; run_external_host_turn returns Interrupted alone.
ExternalDone ==
  /\ stage = "finish" /\ engine = "external"
  /\ \E rows \in {IF result = "cancelled" THEN {} ELSE rec \cup more : more \in SUBSET Kinds} :
       IF result = "error"
         THEN /\ Persist(rows, TRUE) /\ stage' = "done" /\ Emit("Error")
              /\ rec' = rows
              /\ UNCHANGED <<aborted, finished>>
         ELSE /\ rec' = IF result = "answer" THEN rows \cup {"text"} ELSE rows
              /\ Persist(rec', FALSE) /\ finished' = "success" /\ stage' = "done"
              /\ UNCHANGED aborted
              /\ IF result = "cancelled"
                   THEN terminal' = terminal \o (IF mode = "streaming" /\ stopped
                                                  THEN <<"Interrupted">>
                                                  ELSE <<"Interrupted", "Response">>)
                   ELSE EmitGated("Response")
  /\ UNCHANGED unchanged

Finish ==
  \/ NativeOk \/ NativeCancelled \/ Retry \/ NativeError
  \/ RetryError \/ CodexDone \/ ExternalDone

TurnNext ==
  \/ CancelTurn \/ Forgotten
  \/ PrepareFails \/ PersistUserMessage \/ BuildHistory
  \/ \E kind \in {"reasoning", "text"} : Streams(kind)
  \/ ToolBoundary \/ Reset \/ Ends
  \/ Finish \/ Reprepared \/ ReprepareFails

TurnSpec == TurnInit /\ [][TurnNext]_turnVars

-----------------------------------------------------------------------------
TurnTypeOK ==
  /\ engine \in Engines /\ mode \in Modes /\ marker \in BOOLEAN
  /\ stage \in {"prepare", "build", "run", "finish", "retry", "rerun", "refinish", "done"}
  /\ stopped \in BOOLEAN /\ cancels \in 0 .. MaxCancels
  /\ rec \subseteq Kinds /\ stored \subseteq Kinds
  /\ interrupted \in BOOLEAN /\ aborted \in BOOLEAN /\ sawText \in BOOLEAN
  /\ userRows \in 0 .. 1
  /\ result \in {"none", "answer", "empty", "error", "cancelled", "midTurnOverflow", "overflow"}
  /\ terminal \in {<<>>} \cup {<<e>> : e \in {"Error", "Interrupted", "Response"}}
                  \cup {<<"Interrupted", "Response">>}
  /\ finished \in {"none", "success", "cancelled"}

Emitted(event) == \E i \in DOMAIN terminal : terminal[i] = event

\* A native stream ends in exactly one terminal event, however cancels, overflow,
\* the retry and errors fall (streaming.rs:278-552).
NativeStreamEndsOnce ==
  (engine = "native" /\ mode = "streaming" /\ stage = "done") => Len(terminal) = 1

\* What the host was told is what the history says: after a Response the rows of
\* the turn are not marked interrupted, although its checkpoints were, and after
\* an Interrupted they are.
TerminalMatchesHistory ==
  (engine = "native" /\ stage = "done" /\ stored # {}) =>
    /\ Emitted("Response") => ~interrupted /\ stored = rec
    /\ Emitted("Interrupted") => interrupted

\* finalize.rs:10-14: after an interrupted native turn the model does not see two
\* user messages in a row, even if all it did was think.
InterruptedHasBoundary ==
  (engine = "native" /\ Emitted("Interrupted") /\ marker) => aborted \/ Visible(stored)

\* docs/module-turn.md:103: "Cancellation at any point routes through
\* finish_cancelled_turn"; one that falls into the rerun after a context overflow
\* does not, and is told as an error.
CancelIsFinished ==
  (engine = "native" /\ stage = "done" /\ result = "cancelled") =>
    finished = "cancelled" \/ Emitted("Error")

\* finalize.rs:148-176: a native stream tells once how the turn ended, and what it
\* told the host is what the next turn, or a reload, reads in its history.
ToldAsStored ==
  /\ NativeStreamEndsOnce /\ CancelIsFinished
  /\ TerminalMatchesHistory /\ InterruptedHasBoundary

\* history.rs:238-241: at every moment of a native turn an abrupt kill leaves its
\* calls in the history, and the user's message is there once, retry included.
CallsCheckpointed ==
  engine = "native" => /\ "calls" \in rec => "calls" \in stored
                       /\ userRows = 1 \/ stage \in {"prepare", "done"}

=============================================================================
