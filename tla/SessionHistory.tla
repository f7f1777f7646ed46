---------------------------- MODULE SessionHistory ----------------------------
(***************************************************************************)
(* The durable record of one session (crates/core/src/session/store.rs,    *)
(* mutation.rs, lifecycle.rs) and the writers that share it: the history   *)
(* recorder of each running turn (crates/core/src/turn/history.rs), the    *)
(* human-loop rows, and host calls that inject, retract, clear and delete. *)
(*                                                                         *)
(* Every mutation reads the whole record, changes its copy and renames a   *)
(* new file over the old one.  No lock spans the two, so a mutation is     *)
(* two actions here: one that reads (and returns early), one that writes.  *)
(* A crash of the process drops what is between them.                      *)
(***************************************************************************)
EXTENDS Naturals, Sequences, FiniteSets

CONSTANTS
  Turns,     \* turns of the session; they may overlap
  Hosts,     \* threads of the host application
  Messages,  \* contents a host injects, each at most once
  MaxCalls   \* bound: tool calls per turn

ASSUME HistoryAssumption ==
  /\ MaxCalls \in Nat
  /\ Turns \cap Hosts = {}
  /\ Messages \cap (Turns \cup {<<"answer", t>> : t \in Turns}) = {}

\* Rows of the record.  Only what the properties tell apart is kept.
UserRow(m)        == [role |-> "user", m |-> m]
AskingRow(t, int) == [role |-> "asking_human", by |-> t, int |-> int]
AbortedRow(t)     == [role |-> "turn_aborted", by |-> t]
CallRow(t, k, done, int) ==
  [role |-> "tool_calls", turn |-> t, call |-> k, done |-> done, int |-> int]
AnswerRow(t, int) == [role |-> "assistant", turn |-> t, int |-> int]

OfTurn(row, t) == row.role \in {"tool_calls", "assistant"} /\ row.turn = t

Gone == [rows |-> <<>>, titled |-> FALSE, exists |-> FALSE]   \* no session file
Fresh == [rows |-> <<>>, titled |-> FALSE, exists |-> TRUE]   \* create_session

VARIABLES
  rec,       \* the session file
  io,        \* the mutation each process has read for and not yet written
  pc,        \* of each turn
  trace,     \* of each turn: TurnHistoryRecorder's segments
  asked,     \* turns that already used ask_human
  injected, acked, retracted,   \* messages: call made, returned true, taken back
  cleared,   \* history: some clear or delete took effect
  raced,     \* history: some write replaced a record it had not read
  joined,    \* history: turns two of whose rows a retraction brought together
  saved,     \* history: the rows of each turn's latest finished checkpoint
  crashed    \* the process was killed

vars == <<rec, io, pc, trace, asked, injected, acked, retracted,
          cleared, raced, joined, saved, crashed>>

Procs == Turns \cup Hosts
NoIO == [op |-> "none"]

Init ==
  /\ rec = Fresh
  /\ io = [p \in Procs |-> NoIO]
  /\ pc = [t \in Turns |-> "idle"]
  /\ trace = [t \in Turns |-> [calls |-> 0, open |-> FALSE, final |-> FALSE]]
  /\ asked = {}
  /\ injected = {} /\ acked = {} /\ retracted = {}
  /\ cleared = FALSE /\ raced = FALSE /\ joined = {}
  /\ saved = [t \in Turns |-> <<>>]
  /\ crashed = FALSE

-----------------------------------------------------------------------------
(* The operations of mutation.rs on a copy of the record *)

\* append_messages and inject_user_message.
AppendRow(r, row) ==
  [r EXCEPT !.rows = Append(@, row), !.titled = @ \/ row.role = "user"]

\* The longest prefix that does not end in a row of the turn.
WithoutTail(rows, t) ==
  LET n == CHOOSE n \in 0 .. Len(rows) :
             /\ n = 0 \/ ~OfTurn(rows[n], t)
             /\ \A i \in n + 1 .. Len(rows) : OfTurn(rows[i], t)
  IN SubSeq(rows, 1, n)

\* Mutants: the trailing rows are not popped; whatever ends the record is.
AppendTurnSegment(r, t, segment) == [r EXCEPT !.rows = @ \o segment]

ReplaceTail(r, t, segment) ==
  [r EXCEPT !.rows = SubSeq(@, 1, IF Len(@) = 0 THEN 0 ELSE Len(@) - 1) \o segment]

\* replace_turn_segment.
ReplaceTurnSegment(r, t, segment) ==
  [r EXCEPT !.rows = WithoutTail(@, t) \o segment]

UserIndexes(r, m) == {i \in 1 .. Len(r.rows) : r.rows[i] = UserRow(m)}

\* Mutant: what follows the message goes with it.
RemoveFromUserOn(r, m) ==
  [r EXCEPT !.rows = SubSeq(@, 1, (CHOOSE i \in UserIndexes(r, m) : TRUE) - 1)]

\* Mutant: the row after the message goes.
RemoveBehindUser(r, m) ==
  LET last == CHOOSE i \in UserIndexes(r, m) : \A j \in UserIndexes(r, m) : j <= i
  IN [r EXCEPT !.rows = SubSeq(@, 1, last) \o SubSeq(@, last + 2, Len(@))]

\* remove_latest_user_message, when it finds one.
RemoveLatestUser(r, m) ==
  LET last == CHOOSE i \in UserIndexes(r, m) : \A j \in UserIndexes(r, m) : j <= i
  IN [r EXCEPT !.rows = SubSeq(@, 1, last - 1) \o SubSeq(@, last + 1, Len(@))]

\* mark_asking_human_interrupted.
MarkAsking(r, t) ==
  [r EXCEPT !.rows = [i \in DOMAIN @ |->
     IF @[i] = AskingRow(t, FALSE) THEN AskingRow(t, TRUE) ELSE @[i]]]

Apply(r, x) ==
  CASE x.op = "append"  -> AppendRow(r, x.row)
    [] x.op = "segment" -> ReplaceTurnSegment(r, x.turn, x.segment)
    [] x.op = "remove"  -> RemoveLatestUser(r, x.m)
    [] x.op = "mark"    -> MarkAsking(r, x.turn)
    [] x.op = "clear"   -> [r EXCEPT !.rows = <<>>]
    [] x.op = "delete"  -> Gone

\* read_record: a mutation of a session that does not exist returns false.
Read(p, x) ==
  IF rec.exists THEN io' = [io EXCEPT ![p] = [x EXCEPT !.seen = rec]]
                ELSE UNCHANGED io

\* TurnHistoryRecorder::snapshot_messages: one row per segment, an open call
\* without its result.
Snapshot(t, tr, int) ==
  [k \in 1 .. tr.calls |-> CallRow(t, k, ~(tr.open /\ k = tr.calls), int)]
    \o (IF tr.final THEN <<AnswerRow(t, int)>> ELSE <<>>)

\* TurnHistoryRecorder::checkpoint: nothing is written for an empty snapshot.
Checkpoint(t, tr, int) ==
  IF Snapshot(t, tr, int) = <<>> THEN UNCHANGED io
  ELSE Read(t, [op |-> "segment", seen |-> Gone, turn |-> t,
                segment |-> Snapshot(t, tr, int)])

AppendOp(row) == [op |-> "append", seen |-> Gone, row |-> row]

-----------------------------------------------------------------------------
(* The turn: recorder events and the checkpoints they trigger *)

Ready(t) == ~crashed /\ io[t] = NoIO
Goto(t, label) == pc' = [pc EXCEPT ![t] = label]
historyVars == <<cleared, raced, joined, saved>>
messageVars == <<injected, acked, retracted>>

\* PersistUserMessage.
BeginTurn(t) ==
  /\ Ready(t) /\ pc[t] = "idle"
  /\ Read(t, AppendOp(UserRow(t)))
  /\ Goto(t, "model")
  /\ UNCHANGED <<rec, trace, asked, messageVars, historyVars, crashed>>

Record(t, tr, int) ==
  /\ trace' = [trace EXCEPT ![t] = tr]
  /\ Checkpoint(t, tr, int)
  /\ UNCHANGED <<rec, messageVars, historyVars, crashed>>

\* A ToolCall event opens a segment; a ToolResult event closes it.
ToolCall(t) ==
  /\ Ready(t) /\ pc[t] = "model" /\ trace[t].calls < MaxCalls
  /\ Record(t, [trace[t] EXCEPT !.calls = @ + 1, !.open = TRUE], TRUE)
  /\ Goto(t, "call")
  /\ UNCHANGED asked

ToolResult(t) ==
  /\ Ready(t) /\ pc[t] = "call"
  /\ Record(t, [trace[t] EXCEPT !.open = FALSE], TRUE)
  /\ Goto(t, "model")
  /\ UNCHANGED asked

\* execute_ask_human: its row, the AskingHuman event, the wait, the
\* HumanResponse event; the ToolResult follows.
AskRow(t) ==
  /\ Ready(t) /\ pc[t] = "call" /\ t \notin asked
  /\ asked' = asked \cup {t}
  /\ Read(t, AppendOp(AskingRow(t, FALSE)))
  /\ Goto(t, "asking")
  /\ UNCHANGED <<rec, trace, messageVars, historyVars, crashed>>

AskEvent(t) ==
  /\ Ready(t) /\ pc[t] = "asking"
  /\ Record(t, trace[t], TRUE)
  /\ Goto(t, "waiting")
  /\ UNCHANGED asked

ResponseEvent(t) ==
  /\ Ready(t) /\ pc[t] = "resumed"
  /\ Record(t, trace[t], TRUE)
  /\ Goto(t, "call")
  /\ UNCHANGED asked

\* finish_successful_turn: the final text, and a checkpoint that is not marked
\* interrupted.
FinishTurn(t) ==
  /\ Ready(t) /\ pc[t] = "model"
  /\ Record(t, [trace[t] EXCEPT !.final = TRUE], FALSE)
  /\ Goto(t, "done")
  /\ UNCHANGED asked

\* Mutant: what a cancelled turn leaves is stored like a finished turn.
CancelAsFinished(t) ==
  /\ Ready(t) /\ pc[t] = "model"
  /\ IF trace[t].calls = 0
       THEN Read(t, AppendOp(AbortedRow(t)))
       ELSE Checkpoint(t, trace[t], FALSE)
  /\ Goto(t, "done")
  /\ UNCHANGED <<rec, trace, asked, messageVars, historyVars, crashed>>

\* finish_cancelled_turn: an interrupted checkpoint, and the turn_aborted row
\* when the turn left the model nothing to see.
CancelTurn(t) ==
  /\ Ready(t) /\ pc[t] = "model"
  /\ IF trace[t].calls = 0
       THEN Read(t, AppendOp(AbortedRow(t)))
       ELSE Checkpoint(t, trace[t], TRUE)
  /\ Goto(t, "done")
  /\ UNCHANGED <<rec, trace, asked, messageVars, historyVars, crashed>>

-----------------------------------------------------------------------------
(* The host *)

HostReady(h) == ~crashed /\ io[h] = NoIO

Inject(h, m) ==
  /\ HostReady(h) /\ m \notin injected
  /\ injected' = injected \cup {m}
  /\ Read(h, AppendOp(UserRow(m)))
  /\ UNCHANGED <<rec, pc, trace, asked, acked, retracted, historyVars, crashed>>

\* A retraction that finds no row returns false.
Retract(h, m) ==
  /\ HostReady(h) /\ m \in acked \ retracted
  /\ UserIndexes(rec, m) # {}
  /\ Read(h, [op |-> "remove", seen |-> Gone, m |-> m])
  /\ UNCHANGED <<rec, pc, trace, asked, messageVars, historyVars, crashed>>

\* answer_human_request took the request, so nobody else answers it.
AnswerHuman(h, t) ==
  /\ HostReady(h) /\ pc[t] = "waiting" /\ io[t] = NoIO
  /\ Read(h, AppendOp(UserRow(<<"answer", t>>)))
  /\ Goto(t, IF rec.exists THEN "answering" ELSE "resumed")
  /\ UNCHANGED <<rec, trace, asked, messageVars, historyVars, crashed>>

\* cancel_session_scoped took it instead.
CancelAsking(h, t) ==
  /\ HostReady(h) /\ pc[t] = "waiting" /\ io[t] = NoIO
  /\ IF \E i \in DOMAIN rec.rows : rec.rows[i] = AskingRow(t, FALSE)
       THEN /\ Read(h, [op |-> "mark", seen |-> Gone, turn |-> t])
            /\ Goto(t, "answering")
       ELSE UNCHANGED io /\ Goto(t, "resumed")
  /\ UNCHANGED <<rec, trace, asked, messageVars, historyVars, crashed>>

ClearSession(h) ==
  /\ HostReady(h) /\ ~cleared
  /\ Read(h, [op |-> "clear", seen |-> Gone])
  /\ UNCHANGED <<rec, pc, trace, asked, messageVars, historyVars, crashed>>

\* delete_session_if_empty looks at the record, then removes the file.
DeleteIfEmpty(h) ==
  /\ HostReady(h) /\ rec.exists
  /\ rec.rows = <<>> /\ ~rec.titled
  /\ Read(h, [op |-> "delete", seen |-> Gone])
  /\ UNCHANGED <<rec, pc, trace, asked, messageVars, historyVars, crashed>>

-----------------------------------------------------------------------------
(* write_record *)

\* A retraction takes a row from between two rows of the turn.
Joins(x, t) ==
  x.op = "remove" /\ \E i \in 2 .. Len(x.seen.rows) - 1 :
    /\ x.seen.rows[i] = UserRow(x.m)
    /\ OfTurn(x.seen.rows[i - 1], t) /\ OfTurn(x.seen.rows[i + 1], t)

Write(p) ==
  LET x == io[p] IN
  /\ ~crashed /\ x # NoIO
  /\ rec' = Apply(x.seen, x)
  /\ io' = [io EXCEPT ![p] = NoIO]
  /\ raced' = (raced \/ rec # x.seen)
  /\ joined' = joined \cup {t \in Turns : Joins(x, t)}
  /\ cleared' = (cleared \/ x.op \in {"clear", "delete"})
  /\ saved' = IF x.op = "segment" THEN [saved EXCEPT ![p] = x.segment] ELSE saved
  /\ acked' = acked \cup {m \in Messages : x.op = "append" /\ x.row = UserRow(m)}
  /\ retracted' = retracted \cup {m \in Messages : x.op = "remove" /\ x.m = m}
  /\ pc' = [t \in Turns |->
              IF \/ p \in Hosts /\ x.op = "mark" /\ x.turn = t
                 \/ p \in Hosts /\ x.op = "append" /\ x.row = UserRow(<<"answer", t>>)
              THEN "resumed" ELSE pc[t]]
  /\ UNCHANGED <<trace, asked, injected, crashed>>

\* The process is killed: the file stays, everything else is lost.
Crash ==
  /\ ~crashed
  /\ crashed' = TRUE
  /\ io' = [p \in Procs |-> NoIO]
  /\ UNCHANGED <<rec, pc, trace, asked, messageVars, historyVars>>

TurnStep(t) ==
  \/ BeginTurn(t) \/ ToolCall(t) \/ ToolResult(t) \/ AskRow(t) \/ AskEvent(t)
  \/ ResponseEvent(t) \/ FinishTurn(t) \/ CancelTurn(t)

HostStep(h) ==
  \/ \E m \in Messages : Inject(h, m) \/ Retract(h, m)
  \/ \E t \in Turns : AnswerHuman(h, t) \/ CancelAsking(h, t)
  \/ ClearSession(h) \/ DeleteIfEmpty(h)

Next ==
  \/ \E t \in Turns : TurnStep(t)
  \/ \E h \in Hosts : HostStep(h)
  \/ \E p \in Procs : Write(p)
  \/ Crash

Spec == Init /\ [][Next]_vars

-----------------------------------------------------------------------------
Labels == {"idle", "model", "call", "asking", "waiting", "answering", "resumed", "done"}

TypeOK ==
  /\ rec.exists \in BOOLEAN /\ rec.titled \in BOOLEAN
  /\ ~rec.exists => rec = Gone
  /\ pc \in [Turns -> Labels]
  /\ \A t \in Turns : trace[t].calls \in 0 .. MaxCalls
  /\ asked \subseteq Turns
  /\ retracted \subseteq acked /\ acked \subseteq injected
  /\ \A t \in Turns : Len(saved[t]) <= MaxCalls + 1

Rows(row) == {i \in DOMAIN rec.rows : rec.rows[i] = row}
CopiesOf(t, k) ==
  {i \in DOMAIN rec.rows : rec.rows[i].role = "tool_calls"
                            /\ rec.rows[i].turn = t /\ rec.rows[i].call = k}

\* turn/history.rs:238: a process killed at any point leaves the turn so far in
\* history.  The rows of every finished checkpoint stand together in the record,
\* whatever was appended or retracted around them, as long as no two writers
\* overlapped and the session was not cleared.
CheckpointSurvives ==
  ~raced /\ ~cleared =>
    \A t \in Turns : saved[t] # <<>> =>
      \E i \in 0 .. Len(rec.rows) - Len(saved[t]) :
        SubSeq(rec.rows, i + 1, i + Len(saved[t])) = saved[t]

\* Only a turn that ran to its end leaves rows that are not marked interrupted:
\* a reload after a kill or a cancel never shows an unfinished turn as complete.
UnfinishedIsMarked ==
  \A i \in DOMAIN rec.rows : \A t \in Turns :
    OfTurn(rec.rows[i], t) /\ ~rec.rows[i].int => pc[t] = "done" /\ trace[t].final

\* A message whose injection was acknowledged stays in history until it is
\* retracted, through every checkpoint that rewrites the record.
AckedMessageKept ==
  ~raced /\ ~cleared => \A m \in acked \ retracted : Rows(UserRow(m)) # {}

\* mutation.rs:60-75: a checkpoint pops the rows its turn left at the end of the
\* record, so two rows of one call are never in one run of the turn's rows: a row of
\* somebody else stands between them, unless it was retracted from there.  This is
\* less than turn/history.rs:238 says ("any previously-written checkpoint for this
\* turn is replaced"): behind a row of somebody else the calls are written again.
\* It holds through overlapping writers.
CopiesApart ==
  \A t \in Turns \ joined : \A k \in 1 .. MaxCalls : \A i, j \in CopiesOf(t, k) :
    i < j => \E l \in i + 1 .. j - 1 : ~OfTurn(rec.rows[l], t)

\* api/engine.rs:99, "`Ok(true)` when both layers were removed": a retracted
\* message stays away, whatever checkpoint rewrites the record after it, as long
\* as no write was prepared before the retraction and done after it.
RetractedStaysGone ==
  ~raced => \A m \in retracted : Rows(UserRow(m)) = {}

\* mutation.rs:60-99: what a turn checkpointed last is in the record, and a call is
\* there again only behind a row of somebody else.
CheckpointKept == CheckpointSurvives /\ CopiesApart

\* mutation.rs:136-203: the user's messages in the record are those the host was
\* told are there.
MessagesAsTold == AckedMessageKept /\ RetractedStaysGone

=============================================================================
