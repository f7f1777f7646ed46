# Napaxi core: TLA+ models

This directory is the verification project of the Rust core of Napaxi
(`crates/core`, `crates/features`), the runtime kernel of a mobile agent SDK. It
holds TLA+ modules translated from the source, TLC configurations that check
them on small instances, and proofs that TLAPS checks for every value of the
constants. `PROJECT.json` is the machine-readable index: components, runs,
mutants, the source lines of every definition, hazards, theorems.

Unless said otherwise, paths are relative to `crates/core/src/`.

## The system

A host application (Flutter, Android, iOS) owns an engine handle and calls the
core from its own threads: it starts *turns* of chat *sessions*, injects or
retracts messages while a turn runs, answers the questions a turn asks, executes
the tools a turn calls, cancels, and wakes scheduled jobs. A turn is one async
function; the calls of the host run on other threads of the same process. State
is shared through process-wide tables behind mutexes and through files without
locks. The process of a mobile application is killed at any time.

| Part | State | Operations | What is hard | What makes it correct |
| --- | --- | --- | --- | --- |
| Session cancellation (`runtime/session_runtime.rs`) | per session: generation counters, cancelled generation | begin turn, cancel, clear, poll | a cancel racing the start of the next turn | a turn sees exactly the cancels aimed at it |
| Human loop (`human_loop.rs`, `runtime/sessions.rs`) | active sessions with their message queues, waiting requests | activate, inject, retract, drain, ask, answer, cancel | three threads, one lock at a time, overlapping turns | one resolution per request; a message is delivered once or returned |
| Session store (`session/*`) | one JSON record per session | append, checkpoint, inject, remove, mark, delete if empty | unlocked read-modify-write, kill | no accepted message, no checkpointed call is lost |
| Turn recorder (`turn/history.rs`) | segments of text, reasoning, calls | record event, snapshot, checkpoint | stream retries over several replies | the trail is exactly what was executed |
| Turn driver (`turn/orchestration`, `turn/finalize.rs`, `turn/prepare.rs`) | stage, recorder, outcome | prepare, run, retry after overflow, finish | cancel at every point, three engines, two drivers | one terminal event, and it agrees with the history |
| Tool loop (`tools/loop.rs`, `tools/loop/limits.rs`, `skills/private_skill.rs`) | budgets, messages, guard flags | model call, gate, correct, run calls, final reply | corrections that re-enter the loop | bounded model calls; skill before other tools |
| Tool calls (`tools/loop/execution.rs`, `tools/registry/{bridge,pending,registry}.rs`) | pending requests, routes, channels | dispatch, answer, time out, poll cancel, grace | answer, timeout and cancel race over two tables | a call returns; at most one answer is accepted; tables drain |
| Automation (`automation/*`) | `jobs.json`, run logs | wake, run, finalize, expire, cancel, update, delete | unlocked non-atomic file, failed save, kill | one run of a job at a time; no job lost; a one-shot once |
| LLM providers (`llm/*`) | stream state, retry budget | stream, retry, parse | partial streams | see the recorder |
| Evolution (`evolution/*`, `crates/features/evolution`) | review state, run records, pending store | queue a review, propose, apply, reject | background tasks over unlocked files | a proposal is applied at most once |
| Tool registry (`tools/registry/registry.rs`, `rate_limit.rs`) | descriptors, custom names, windows | replace, list, execute, check | two locks updated apart | the custom tools are those of the last replacement |
| Channels (`channel/mod.rs`, `channel_agent/*`) | inbox and outbox files, routes, the conversation a question was put to | submit, lease, acknowledge, fail, release; a pump that drives an agent for a message | overlapping pumps, an answer that comes as the next message, kill | one turn a message; nothing is put away unanswered; an answer stays in its conversation |
| Codex engine (`agent_engine/codex/{process,state,configure,history}.rs`) | processes by session, mapping to a native thread, configuration files, requests to the user | acquire, read, release, configure, bind, delete, clean up, answer | overlapping turns, settings and answers beside them, three places changed apart | no process is left behind; a turn runs in its own thread and process; an answer goes to who asked |
| A2A (`a2a/*`) | tasks and message logs of each device | ask, record, run, tell progress and result, cancel | repeated, reordered and lost messages, kill between two files | a task is taken up once; a success is a run that succeeded, or the word of the worker's host |
| Groups, agents, agent apps | members, action sessions | delegate, confirm | expiry | states only move forward |
| Context, capabilities, MCP, skills, workspace, project | budgets, definitions, tokens, files | compact, resolve, refresh, install | arithmetic, partial installs | see the plan |
| Platform, crypto, adapters, generated code | - | - | pure I/O | out of scope |

Interaction: the adapter calls `api`, which calls `runtime`. `runtime` begins a
generation (*session cancellation*) and runs the *turn driver*; that activates
the *human loop*, prepares, and runs the *tool loop* or another engine; the loop
runs *tool calls*, which ask the host through the bridge, and reports events to
the *recorder*, which checkpoints into the *session store*. *Automation*, agents,
groups and A2A start turns of the same kind through `run_session_turn`, with the
manual flavour of the cancel poll. The *channel* pump starts a turn for each inbound
message, passes the questions of the *human loop* on to the conversation and takes
the next message there for the answer.

## Modules

Every module names the source it stands for, and the comment over a definition
says what of the code it is; `map` in `PROJECT.json` has the lines. Definitions
named "Mutant" are plausible bugs: each replaces a definition of the model in one
checking run, where the property it is listed with must fail.

**SessionRuntime**, **CancelFlags**, **SessionRuntimeProofs**. One session;
`current` and `cancelled` are the fields of `SessionCancelState`, and each action is
one critical section. `Start` is `begin_turn` (a guarded turn, which keeps its
generation) or `clear_session_cancellation` (a manual run, which does not);
`ObserveCancel` and `LastPoll` are the two outcomes of a poll. `CancelFlags` is what
the component promises: a private flag for each run. A refinement mapping
(`Flags`) reads the flag of a guarded turn off the counters, and the run and the theorem
`GenerationsAreFlags` show the counters implement it.

**HumanLoop**, **HumanLoopProofs**. Turns as a program of labels (activate, drain, ask, register,
wait, answered, drop the guard), host threads as calls of two or three steps, as many
as the code takes locks. The queue of a session, the table of waiting requests
and the channel of each are the statics of `human_loop.rs`. History rows appear
as the facts the calls leave in them.

**SessionHistory**, **SessionHistoryProofs**. One session record as a sequence of rows. Every operation is a
`Read` of the file and, later, a `Write` of what `Apply` makes of the copy; the
write itself is atomic (`storage/atomic.rs`). `Crash` may happen anywhere. A
segment of the recorder holds one call here.

**TurnRecorder** (theorems in the last part of `ToolLoopProofs`). The recorder under a provider that streams text, reasoning and
calls, breaks off, retries after a `StreamReset` or does not, and under the loop
that executes the calls. `trail` is a history variable: the calls as executed.

**ToolLoop**, **ToolLoopProofs**. The streaming loop from one model call to the next.
Messages are abstracted to the five flags of `PrivateSkillContext` the guards
read; a reply is a number of visible and of hidden calls, or text with or
without a command.

**ToolCall**, **ToolCallProofs**. Calls of internal handlers and of host tools, with the
poll ticker, the grace period, the two tables of pending requests and the host
thread that answers. Taking the channel out of the table and sending on it is
one action: only the drop of the receiver could fall between them, and that has
the same outcome as a drop after both.

**TurnDriver** (theorems in the last part of `ToolLoopProofs`). One turn in both drivers and three engines; the loop or engine is
its outcome (`Results`) and the events it recorded. `Forgotten` is the start of the next turn,
which clears the flag of this one.

**Automation**, **AutomationProofs**. One job: its file, its log, its runs, one host thread, a small clock.
`saves` is what a call has still to write, since a store operation may write twice
(the expiry, then its own change) and a write is a truncation and a fill, either of which may
fail or be cut off by a kill. The trigger and the policy are in the job, since an update may
change them; of the policy, `delete_after_success`, `max_run_duration_ms` and `max_retries` vary, while the
backoff and the time of a one-shot are constants. `excuses` is a history variable that names
what the code allows to break a property: an overlap, a live run that expired, was forced or cancelled,
a delete, a write that was cut off. A kill or a failed save anywhere else is none of them: `unsaved` names
the runs whose start or end the log has and the file never got, and only `RunningIsMarked` leaves
them out. `won` and `spent` remember under which policies runs succeeded and which run was the
one shot of the job.

**EvolutionPending** (theorems in the last part of `EvolutionReviewsProofs`). The pending proposals of an agent: reviews that add some, a host
that lists, rejects and applies, each a load with the expiry folded in and a save
later. An apply is as many steps as it has actions; what an action
does to the workspace is abstracted to a count (`applied`). Saves fail silently,
as in the code. `disturbed` names what has gone wrong so far.

**EvolutionReviews**, **EvolutionReviewsProofs**. What a finished turn does to the counts
of its thread, memory first and skill after, the guard of reviews in flight, the
spawned task and the record of its run in `runs.json`. Loads and saves of the
records are separate steps of turn ends, tasks and the listing host. The two clocks the
code asks about stale runs are one here (`aged`). `outcome` and `since` are history
variables: the truth the files are compared with.


**Channels** (theorems in the last part of `PeerTasksProofs`). The inbox and the outbox of the gateway, the pumps of the channel agent, the
file of pending questions and the request table of the human loop as far as a pump
reaches it. An entry of the inbox is its message and its status; its id is its
place. A pump is a program of labels; `work` holds the file operations that follow one
another without a wait (reply, settle, upsert, drop), each its own step with the kill
between any two. Other actors act when no pump has work left: of one such
series at most one operation concerns shared entries, so the order makes no
difference, and the instance stays small. `facts` holds the history the
properties compare with: turns driven, answers taken, what the kill left behind.

**PeerTasks**, **PeerTasksProofs**. One device asks another to do a task. `task` and `log` are the files
of each; a call that writes both is two steps (`handling`), with the kill between. The
transport is any message of the log delivered any number of times in any order,
or never. The host of the worker may tell progress and a result, in any word, of any
task at any time: nothing in the code asks whether a run came to that end. Runs of
`run_task` are load, start and finish, beside the calls of the host. A failed send
changes the task of the sender or, when the payload is encrypted by then, nothing.
The save of a task may fail, in each of the calls that make one. Not modelled: a
task file torn by a kill inside its write, and an append to the message log that fails.

**CodexSessions** (theorems in the last part of `ToolCallProofs`). The app-server processes of one Codex session, on
the platforms that have them (Android, iOS). A turn is a program of labels: write the
configuration, drop stale mappings, drop the stale process, load the thread, take the process of the
table or open one, then the loop (`init`, `resume`, `start`, `turn`) and the release. `entry` is
`ACTIVE_CODEX_SESSIONS` at the key, `mapping` the state file, `toml` the two configuration
files, `asked` the table of requests to the user. What the app-server owes is a set of
`jobs`; it answers them in any order, and any turn that reads takes. What a caller does after it
let go of the table (forget the requests, unmap, close) is in `rest`, a step each.
`met`, `disturbed`, `dropped` and `strays` record what the code allows to break a
property, and nothing else. The module is written to be proved about and has no
configuration: its theorems hold for every number of turns, configurations and tool
lists. The two bounds in it are that a turn opens one process and starts one thread, which is
so in the code, and that it asks each process once; one settings call or
deletion is under way at a time.
## Runs and bounds

Each run explores its whole instance. For each property `PROJECT.json` names a mutant,
a plausible bug in the modelled code that breaks it.

| Run | Configuration | Properties | What it shows |
| --- | --- | --- | --- |
| `session_runtime` | `SessionRuntime.cfg` | OnlyOwnCancels, CancelledRunStops, ImplementsFlags | Guarded turns, manual runs and host cancels of one session in every order: no turn sees a cancel aimed at another one, no cancel is consumed, every cancelled run stops, and the counters implement per-run flags. |
| `human_loop` | `HumanLoop.cfg` | OneOutcome, NobodyStranded, MessageOnce, ResolutionResumes | Turns that ask and wait, the host that answers, injects, retracts and cancels, a lock at a time: a request is resolved once, its row says what the turn got, an interjection is delivered at most once, and a turn whose request was answered or interrupted goes on. |
| `session_history` | `SessionHistory.cfg` | CheckpointKept, UnfinishedIsMarked, MessagesAsTold | Turn checkpoints, questions, injections, retractions and a kill over the unlocked record file: without overlapping writes no checkpoint and no accepted message is lost and no retracted one comes back, and a call stands in the record twice only with a row of somebody else between. |
| `turn_recorder` | `TurnRecorder.cfg` | TrailIntact, DeltasAccounted | Deltas, stream retries, tool calls and their results in every order: the recorded trail has each executed call once with its own result, no delta is lost but what stood in the active segment at a reset, a reset reaches back over the last call at most, and an attempt that broke off leaves no more than what a new segment sealed off. |
| `tool_loop` | `ToolLoop.cfg` | WorkBounded, LoadAskedFirst, CommandsAsRequested | The tool loop with its budgets, the skill gate and leak correction, interjections and cancels: the number of model calls is bounded by the limits, visible tools wait for the skill, and the words of the user alone decide about commands until the loop writes a user message itself. |
| `tool_call` | `ToolCall.cfg` | TablesDrain, OneAnswer, CallReturns | Calls from dispatch to return with the answer, the timeout, the cancel poll and the grace period racing: at most one answer is accepted, a late one is refused, the tables are drained, and a call returns by its timeout or, cancelled, by the grace period alone. |
| `turn_driver` | `TurnDriver.cfg` | ToldAsStored, CallsCheckpointed | The streaming and the collected driver with three engines, a cancel, a context overflow and every failure: a native stream has one terminal event, which says what the history says. |
| `automation` | `Automation.cfg` | OneRunAtOnce, JobKept, RunningIsMarked | Wakes, runs, cancels, updates of trigger and policy, deletes, expiry, a failed save and a kill over the automation store, one call at a time: one run of a job at once, the job removed only as its policy says, a spent one-shot not repeated, and a run the log calls running can be found and closed. |
| `evolution_pending` | `EvolutionPending.cfg` | AppliedAsProposed, StatusIsTrue | Reviews that propose and a host that lists, rejects and applies over the unlocked store, with actions and saves that fail and a kill: nothing is called executed that was not, actions are applied in order, and, undisturbed, once and not after a refusal. |
| `evolution_reviews` | `EvolutionReviews.cfg` | GuardKeepsApart, CompletedIsTrue, EndIsRecorded, CountsExact, RecordCloses | Turn ends that count and queue reviews, the spawned tasks, the listings of the host and a kill, with loads and saves of the records overlapping: one review of a type at a time, true records, exact counts, and no record open for ever. |
| `channels` | `Channels.cfg` | DrivenOnce, SettledIsTold, MappingKept, AnswersStayHome, LeasedIsHeld, AnswerIsFollowed | Two overlapping pumps over three messages of two conversations, one without text, a question and its answers, a change of routes or an end of the process between any two file operations: a message is driven once, acknowledged only when it was reacted to, answers the question of its own conversation, and an answer is followed by something. |
| `peer_tasks` | `PeerTasks.cfg` | TakenOnce, SuccessIsTrue, RunningIsRun, ArrivedIsApplied | A task asked for twice between two devices over a transport that loses, repeats and reorders, whose hosts say what they like, with runs that overlap and are forced, and a send or a save that fails or a process that ends: each message works once, a recorded success has a ground, a task marked running is at work but for three named causes, and what arrives is acted on. |

Bounds, and why they are enough:

| Configuration | Bounds | States | Why |
| --- | --- | --- | --- |
| `SessionRuntime` | 2 guarded turns, 2 manual runs, 5 generations (`GenSpace`) | 77 thousand | a cancel, its turn, the next turn and a manual run between; the theorems cover every number |
| `HumanLoop` | 2 turns, 2 host threads, 1 message, 2 questions a turn, 1 cancel | 252 thousand | overlapping turns, and an answer, a cancel or a retraction on the other thread; the theorems cover every number |
| `SessionHistory` | 1 turn with 2 calls, 2 host threads, 1 message | 2.7 million | a lost update needs two writers and a third operation to observe it; the theorems cover every number |
| `TurnRecorder` | 2 attempts, 3 model calls, 2 deltas, 1 call a reply | 7.7 million | a reset over a reply that had text, after one that had calls; ids repeat between replies; the theorems cover every number |
| `ToolLoop` | `TurnMax` 1 (which `limits.rs` raises to 2 tool turns), hidden 2, 2 calls a reply, 2 interjections | 260 thousand | both budgets run out, each before the other; the theorem covers every limit |
| `ToolCall` | 1 handler, 2 host tools, 2 answers a call | 55 thousand | two calls in the shared tables, a duplicated answer |
| `TurnDriver` | 3 engines, 2 drivers, 3 cancels | 17 thousand | a cancel in each phase of a turn that overflows and is retried; the theorems cover every number |
| `Automation` | 2 runs, 1 host thread, symmetric, one-shot and interval, every `delete_after_success`, durations 1, time 0..3, 1 host call, 1 kill or failed save | 8.6 million | a retry, its expiry, and a call or a fault between; `Serial` keeps the calls apart; the theorems cover overlapping calls and every bound |
| `EvolutionPending` | 2 proposals of 2 actions, 2 processes, 4 calls | 1.1 million | apply, fail half-way, refuse or apply again, with another proposal in the store; the theorems cover every number |
| `EvolutionReviews` | 1 turn end at once, 2 turns, 2 runs, interval 2, 2 open copies | 505 thousand | a second review refused or queued after the first, overlapping saves; the theorems cover overlapping turn ends |
| `Channels` | 3 messages in 2 conversations, one blank, 2 pumps, batches of 2, 1 question a turn, 1 release, 1 kill or route change | 459 thousand | a question, its answer by the other pump, and a third message behind it; the same after a kill; the theorems cover every number |
| `PeerTasks` | 1 task, 2 requests for it, 2 messages told in 3 words, 2 runs, 1 fault (a send or a save that fails, or a kill) | 898 thousand | a repeated request under a new message id, two runs that both pass the check, a result before its progress; the theorems cover every number |

`CHECK_DEADLOCK FALSE` stands where the bounds or the end of the turn stop the system;
`SessionRuntime` (a cancel is always possible) and `HumanLoop` (with a step, `Quiet`, for
the end) check for deadlock: a turn that waits for a person can always be answered.

## Fairness

- `SessionRuntime`: weak fairness of `ObserveCancel` of each run: it polls between events and
  every 100 ms in a tool call. A run need not end, and nobody need cancel.
- `HumanLoop`: a turn goes on unless it waits for a person; a host call that began
  is finished. The host may never answer and never cancel.
- `ToolCall` (`LiveSpec`): the dispatch, the poll ticker, the grace period and the steps of
  a call that is under way. The host may never answer, the user never cancel. The
  look of the timeout has no fairness: one half of `CallReturns` assumes it in its own
  statement, so that the other half shows the poll and the grace period
  end a cancelled call alone.
- `EvolutionReviews` (`LiveSpec`): turn ends and tasks are scheduled by the runtime, open
  records get old, and the host lists the runs again and again, as it does to
  show them. Turns may stop coming, and the kill may come at any moment.
- `Channels`: weak fairness of the steps of each pump: it is a task of the runtime, and the turn
  it drives ends. Nobody has to answer, to submit or to release, no pump has to start.
- `PeerTasks`: weak fairness of `Apply`: a call of the host that has begun finishes unless
  its process ends. No message has to arrive and no run has to end.
- The other modules have safety properties only and state no fairness.

## Proofs

The proofs hold for every value of the constants that satisfies the named
assumptions of the module (`ASSUME`), which TLC also evaluates. Four modules prove
about more than one component: they extend each, which is why the names of `CodexSessions`,
`TurnDriver`, `TurnRecorder`, `EvolutionPending` and `Channels` are apart from those of the module they are
proved beside.

- **SessionRuntimeProofs.** The inductive invariant `IInv` has the type invariant and four
  parts: a run that has begun has a generation that was handed out (`Begun`), as many were
  handed out as runs began (`CountInv`), the newest is the current one (`NewestInv`), and a mark
  names a generation handed out when it was made (`MarkInv`). None of the
  safety invariants is inductive alone: that a turn sees no foreign cancel needs
  that generations are distinct, which needs that the counter is above all of them.
  `GenerationsAreFlags` maps each step to a step of `CancelFlags` or a stutter.
- **ToolLoopProofs.** `WorkBounded` is strengthened by an account (`Paid`): every model call so
  far is paid for by a tool turn, visible or hidden, or by one of the two
  corrections. `LoadAskedFirst` needs `GateHolds`, that calls pending behind a closed gate are
  only skill loads. `CommandsAsRequested` needs what the loop knows at each of its labels of the
  words it read last (`Asking`): until the first correction the context says what the
  user asked, a correction only adds to it, and the message before the last reply
  takes it back. For `TurnDriver`, `Told` says that nothing is told before the end of the
  turn, and `Checkpoints` that what is stored before it is marked and there because of a call;
  so the end alone decides what was told and what the record holds, and every way to the
  end is compared with the record it leaves.
- **ToolCallProofs.** The invariant `RequestInv` of one call relates its program counter, its
  entries in the two tables, the state of the answering thread and the
  channel; calls do not interact, so it is a conjunction over calls.
- **EvolutionReviewsProofs.** `GuardMatches` and `OneReview` follow from `WorkInv`: the
  type is in flight exactly if someone is at work on it, whoever is at work is alone
  (`Exclusive`), and a turn end that is about to spawn holds a run nobody else has
  (`Handed`). `CompletedIsTrue` needs more than the file: that every copy anyone
  has loaded and will save is truthful as well, and that an outcome is known only of
  tasks past their review (`TruthInv`). Both hold of any number of turn ends at once,
  where the run has one.
- **PeerTasksProofs.** `TakenOnce` follows from `OnceInv`: a message that had its effect is in
  the log of its receiver, and one a call has still to act on is in the log and had
  none yet. `SuccessIsTrue` speaks of the records; the induction needs that a success has a ground, a run
  or the host's word, wherever it is written: in a message of either log and in a call that is
  about to write one (`TruthInv`). `RunningIsRun` rests
  on `OnceInv` too: a call acts only on messages to its own device, and none of those the worker gets
  says running. No
  bound on messages, words, failures or kills is used.
- **PeerTasksProofs, Channels.** None of the five invariants is inductive, and most rest on the same
  facts: which pump holds which messages (`BatchInv`), what each label of a pump says of its turn
  (`PumpOK`, `TurnOK`), and that one pump at a time has file operations left to do, so that what
  these still owe can be told (`StepsInv`). Then `DriveInv`: of the messages a pump holds only
  the one at hand had its turn. `LeaseInv`: whoever leaves a message has let go of it, or has the
  step for it in its work. `ToldInv`: an acknowledgement that is still to be written has its reply
  before it. `KeptInv`: a turn that waits has its mapping, or is about to write it, for which
  overlapping turns of one session must be known (`SharedInv`). `AnswersStayHome` needs that
  request ids are fresh in a process (`AskInv`) and that everything that leads to a request (a
  mapping, or one a pump has found) has the session of its turn (`SessionInv`); ids
  an earlier process left a mapping of are the exception.
  The file of mappings is a set with places in the model, so that the search for the first of a
  session needs no recursion; that there is a first is that numbers are well founded.
- **HumanLoopProofs.** A request is in one place: with the turn that makes it, in the table, or with one host call
  (`PlaceInv`), and each step of that call has done to the request what the step says
  (`MarkInv`). Both are needed for either `OneOutcome` or `NobodyStranded`: that the loser of
  a race is told so needs that nobody else holds the request. For `MessageOnce`, a message is queued
  once (`QueueInv`), and one whose history row is not written yet has one call that writes it
  (`CallInv`).
- **SessionHistoryProofs.** A step reads the record, writes it or leaves it alone, and each part
  of the invariant is shown over those three. `UnfinishedIsMarked` holds through
  overlaps: no copy anyone holds has an unmarked row of a turn that did not finish
  (`MarkInv`). `MessagesAsTold` needs that a message is in a record, or in a copy, only once it was
  acknowledged, and that one call adds it (`AddInv`); while no two writers overlapped
  the record has what the host was told (`TellInv`). `CheckpointKept` is about the place of
  the rows: those of the last checkpoint stand together (`SegmentInv`, `KeepInv`), and two rows of
  one call are never in one run of the turn's rows, in the record or in a copy (`ApartInv`); the
  second holds through overlaps, since each checkpoint pops that run from the copy it has read. That the names of messages are not those of turns and answers is
  assumed, and true of the ids of the code. Where an induction over the length of the record
  seems to be needed, the least position with the property is taken instead.
- **AutomationProofs.** Every call loads the file, may close an expired run in it, changes its
  copy and saves it in two steps. While calls do not overlap, one of them has something to save,
  and the file is torn only by that call (`FileInv`). `JobKept` says that nothing that is held,
  file or copy, lacks the job (`KeptInv`); `OneRunAtOnce` and `RunningIsMarked` both follow from `MarkInv`: what a
  run has done to the job is in everything that is held, or, while it is saving that, in the copy it
  saves last (`Sees`). A save that fails or a kill can take only the copies of the run itself, and then
  the run is one of `unsaved` (`EndInv` says that it is live or has ended). The proof needed two assumptions
  the module did not state: no run is named like `NoRun`, and no run is a host thread.
- **EvolutionReviewsProofs, further parts.** `EndIsRecorded` and `CountsExact` hold as long as accesses do not
  overlap: then one actor has a copy, and that copy is what the file was plus what its actor
  adds (`RecordInv`, `CountInv`). For `EvolutionPending`, `ExecutedInv` carries that an
  executed proposal was applied through the copies; order is a count (`OrderInv`): an action was applied
  as often as a later one plus once for each apply that stands between the two; and `CalmInv`
  says that, undisturbed, one call is under way and only its own proposal is touched.
- **ToolLoopProofs, TurnRecorder.** `TrailIntact` speaks of the calls of all segments in a row, which a
  recursive function adds up. Its lemmas (`CallsOfAppend`, `CallsOfLast`) say that only the end of
  the row changes with the last segment. That a result finds its own call although ids repeat is that a
  call without a result is the last of the last segment (`CallInv`). `DeltasAccounted` needs `GotInv`
  (the deltas of an attempt are told apart by their numbers, those of attempts that broke off came
  before) and `SealInv`: a delta of the attempt before the last segment has text and then
  reasoning behind it, and one in the last segment has no call beside it and no text before
  it, which is what lets the next delta seal it. How far back a reset reaches is `BehindInv`: every
  call recorded behind a text is of a segment behind it, but for the last one that was run.
- **ToolCallProofs, CodexSessions.** The only assumption is `NamesApart`: the names of the model are no
  turns, and a real list of tools never has the empty fingerprint. `ProcessAccounted` needs that a
  process is opened once and that one in the table is not about to be closed (`ProcInv`).
  `ThreadFits` follows thread names through all the places that hold one: the mapping, the turns, the
  jobs of a process (`MapInv`, `FitInv`, `JobInv`); turns that share a process are for the same
  thing, so whatever thread they hear of fits. `ProcessServesTurn` needs that a turn that met
  no other one has exactly one job in its process, of the kind it waits for (`OwnInv`).
  `AnswerReachesAsker` rests on `ReachInv`: a waiting request is of the process in the table or
  somebody has still to take it back.

Every safety property a run checks is a theorem, and so is each action property. The type
invariants are parts of the inductive invariants; the runs check what rests on
them. Where a property of a
run is a conjunction (`OnlyOwnCancels`, `TablesDrain`, `OneAnswer`,
`GuardKeepsApart`), each part is a theorem of its own, too.

Left to TLC: the liveness properties, since fairness and ENABLED are out of reach of the
prover. No model has a `RECURSIVE` operator; what the recursive function of `CallsOf`
gives is proved without an induction, by the least number for which it would be wrong.

## Differences between code and documents

These were met while modelling. The models have the behaviour of the code, and where a
property would fail by one of them, its statement names the exception:

- A manual run polls the current generation of its session, so it can stop on a
  cancel of a later run (`runtime/session_runtime.rs:79`; docs/module-turn.md:118 says
  a cancel is only seen by the turn it was issued against).
- A cancel of an idle session reports success (`runtime/sessions.rs:85-88`). A
  retraction can return `Ok(false)` although it removed something: the message is out of the
  queue, so the turn never gets it, and no row of it is found (`runtime/sessions.rs:185-196`; `Ok(false)`
  is documented as "nothing matching to retract").
- The wait of `ask_human` does not poll the cancel flag (`human_loop.rs:261`;
  docs/module-turn.md:125-132 counts waiting tools among the cancelled).
- A checkpoint with a row of someone else behind the rows of its turn appends the
  segment again (`session/mutation.rs:72`; `turn/history.rs:238` calls it idempotent and
  promises that any earlier checkpoint of the turn is replaced). `CopiesApart` says how far
  the code keeps that.
- Overlapping writes of a session record can bring back a retracted message
  (`session/store.rs:44`), and `delete_session_if_empty` can delete a record that has just
  received a row (`session/lifecycle.rs:133`).
- A reasoning delta seals the text segment before it, so text of an aborted attempt
  stays; a reset also clears text of a finished reply when nothing followed it
  (`turn/history.rs:72`).
- The correction message the loop writes is read back as words of the user
  (`tools/loop/execution.rs:514`, `skills/private_skill.rs:288`), and the prompt for the
  final reply hides the request (`tools/loop.rs:622`).
- A handler that starts with the cancel set is not polled
  (`tools/loop/execution.rs:224`).
- External engines: an interrupted turn finishes as a success, a stream may end
  without a terminal event, and Codex turns are not checkpointed
  (`turn/orchestration/streaming.rs:112,163,199,233`).
- Overlapping wakes run a job twice (`automation/store.rs:27`), the expiry of a long
  run lets a second one start (`automation/store.rs:47`), and a cancel never finds the
  session of the running run (`automation/handles.rs:188`).
- docs/module-turn.md:103 says a cancel at any point routes through
  `finish_cancelled_turn`; one that ends the rerun after an overflow comes out as a
  plain error event without the finish (`turn/orchestration/streaming.rs:519`).
- docs/mobile-capabilities.md:465 calls the job model durable; `save_store` writes in
  place (`automation/store.rs:97`) and a load takes what it cannot parse for an empty
  store, so a kill or a failure within the write loses every job. `storage/atomic.rs` is not used there. A run is logged before it
  is saved (`automation/runner.rs:115`): a kill or a failed save between the two leaves a run that the log
  calls running for ever, or makes a one-shot run again whose success the log has.
- A question of one conversation can be answered by another: `REQUEST_COUNTER`
  (`human_loop.rs:16`) starts again with the process, the mappings of the process before
  are still on disk, and the upsert of an id that is there keeps its old session
  (`channel_agent/state.rs:8`; docs/channel-capabilities.md:288 promises the same session).
- A lease of an inbound message has no end of its own (`channel/mod.rs:631`): what a kill
  leaves leased waits for `release_channel_inbound`, and the rest of a batch waits
  behind a turn that waits for a person. Two turns of one session drop each other's mapping
  (`channel_agent/state.rs:61`).
- A2A: a kill between the log and the task of a peer message loses the
  message for good, as each later copy is a duplicate (`a2a/local.rs:341`); a progress
  message that arrives after the result reopens the task at the asker; a result in a word that
  is not known, in none, or that cannot be read is recorded as a success, with or without a
  run (`a2a/local.rs:174,623`); a result told as "running", and an end of a run that cannot be
  saved (`a2a/mod.rs:552`), leave the task running with nobody at it; a failed send
  of a result marks the worker's own task failed, and so runnable again; two runs
  pass the check of `run_task` together, and the one that ends last overwrites a cancel
  (`a2a/mod.rs:552`).
- Codex: two turns of one session take the same process and read each other's messages,
  since the acquire does not look at `running` (`agent_engine/codex/process.rs:573`), and the release is by
  key (`process.rs:745`). With a `network_env` the fingerprint of a turn is never the one of
  the prepared configuration, so the write of each turn drops its own idle process and mapping
  (`env.rs:40`, `state.rs:95,248`). A thread that was bound has an empty tools
  fingerprint, which no turn has, and is given up at the next turn (`state.rs:187`, `process.rs:139`;
  docs/mobile-capabilities.md:330 promises it to the session). The cleanup of idle
  processes and a settings save leave the requests of the process they close, and a later
  answer goes to the process after it and is reported as given (`process.rs:875`, `state.rs:111`).
  The configuration files are shared, so a process may be opened under another save's.
- Memory reviews apply what they are sure of by themselves (`evolution/review.rs:168,240`;
  docs/module-evolution.md:111-119 names apply and reject as the only ways to change the
  workspace).

## Hazards no property covers

`hazards` in `PROJECT.json` lists those that a run checks. Met as well, and left to
review:

- the backoff before a retry and the stall wait do not poll the cancel (`llm/sse.rs`);
- after `max_retries` failures `next_run_at_ms` stays in the past, so every further wake
  runs the job again (`automation/runner.rs:369`);
- the count of turns is set back when a review is queued, so a review that fails loses the
  turns it was to look at (`evolution/queue.rs:89`);
- `replace_custom_tools` changes the set of custom names after it let go of the lock of
  the tools (`tools/registry/registry.rs:53`);
- an outbound channel message that was leased when the process ended is not sent again.

## What is not modelled

The components with status `not_modelled` in `PROJECT.json`, each with its reason. Within
the modelled ones: prompt text, attachments, formatting, paging, logs and
diagnostics; backoff and stall times of the providers; poisoned locks (the code turns
them into errors or ignores them). `Channels` takes each load-change-save of its files as one
step, though the code holds no lock there: that two of them overlap is the
hazard `SessionHistory`, `Automation` and `EvolutionPending` model for their files. Of A2A the pairing,
the signatures and the check of the recipient are left out: in the model each message is
from the peer it claims.

## Plan

Done: cancellation, human loop, history, recorder, loop, calls, driver, automation, evolution,
channels, peer tasks, the processes of a Codex session; proofs of the invariants of all of
them. Next, in this order:

1. Models. The tool registry (`replace_custom_tools` and the list of custom names,
   the sliding window of `rate_limit.rs`) beside `ToolCall`; a
   configuration for `CodexSessions` and the mapping of its events under `TurnDriver`; agent app action sessions; capability
   resolution and the context budget as operators checked over bounded inputs.
2. Composition. `HumanLoop` already runs over `SessionRuntime`; a turn made of
   `TurnDriver`, `HumanLoop` and `SessionHistory` would check the promises of
   docs/module-turn.md end to end.
3. Abstract specifications. `CancelFlags` is one; a mailbox that delivers or returns
   for `HumanLoop`, an atomic record for the undisturbed part of
   `SessionHistory`, and a lease for the runs of `Automation`.
4. Proofs. The refinements of item 3, step by step, as `GenerationsAreFlags` is.

## Theorems

| Theorem | Property | What it establishes |
| --- | --- | --- |
| `SessionRuntimeProofs!TypeCorrect` |  | Every reachable state of the cancellation generations is well typed, for any number of runs and any bounds. |
| `SessionRuntimeProofs!ForeignCancelNeverSeen` |  | A guarded turn only ever observes a cancel aimed at itself. |
| `SessionRuntimeProofs!StaleCancelNeverSeen` |  | A cancel issued before a turn started is never seen by it. |
| `SessionRuntimeProofs!EveryGenerationDistinct` |  | No two runs of a session have the same generation. |
| `SessionRuntimeProofs!CancelNotConsumed` |  | Observing a cancel does not use it up. |
| `SessionRuntimeProofs!GenerationsAreFlags` | ImplementsFlags | The generation counters implement one cancel flag per run (the specification of CancelFlags). |
| `ToolLoopProofs!TypeCorrect` |  | The state of the tool loop is well typed for every setting of the limits. |
| `ToolLoopProofs!ModelCallsBounded` | WorkBounded | The loop calls the model at most as often as its two budgets and its corrections allow, for every limit and every model. |
| `ToolLoopProofs!VisibleToolsWait` | LoadAskedFirst | No visible tool runs while a matched skill has still to be asked for. |
| `ToolCallProofs!TypeCorrect` |  | The state of tool calls is well typed for any number of calls. |
| `ToolCallProofs!RouteNeverOutlives` |  | A route never outlives its request, whatever answers, timeouts and cancels do. |
| `ToolCallProofs!TableDrained` |  | A call that returned left a request behind only if its future was dropped and the host never answered. |
| `ToolCallProofs!OneAnswerAccepted` |  | At most one answer of a call is reported to the host as accepted. |
| `ToolCallProofs!NoLateAnswer` |  | An answer is only accepted while the call still waits. |
| `EvolutionReviewsProofs!TypeCorrect` |  | The state of the reviews is well typed for any number of overlapping turn ends, runs and types of review. |
| `EvolutionReviewsProofs!GuardMatchesAlways` |  | The set of reviews in flight is exactly the set of types at work, whatever overlaps, fails or is killed. |
| `EvolutionReviewsProofs!OneReviewAlways` |  | At most one review of a type is under way, with any number of turn ends at once. |
| `EvolutionReviewsProofs!CompletedIsTrueAlways` | CompletedIsTrue | A record says completed only of a review that succeeded, whatever writes overlap and get lost. |
| `SessionRuntimeProofs!OwnCancelsAlways` | OnlyOwnCancels | No run of a session stops on a cancel that cannot have been meant for it, for any number of runs. |
| `ToolCallProofs!TablesDrainAlways` | TablesDrain | Whatever is left in the two tables can still be answered or belongs to a dropped future, for any number of calls. |
| `ToolCallProofs!OneAnswerAlways` | OneAnswer | The race of answers, timeout and cancel for a call has one winner, and a loser is told so. |
| `EvolutionReviewsProofs!GuardKeepsApartAlways` | GuardKeepsApart | The guard keeps the reviews of a type apart and matches who is at work, with any number of turn ends at once. |
| `PeerTasksProofs!TypeCorrect` |  | The records, logs, calls and runs of both sides are well typed, for any number of tasks and runs. |
| `PeerTasksProofs!TakenOnceAlways` | TakenOnce | However often and in whatever order messages arrive, each has its effect once and the worker takes a task up once. |
| `PeerTasksProofs!SuccessIsTrueAlways` | SuccessIsTrue | A success that a device records has a run that succeeded, the word of the worker's host or an unreadable result behind it, whatever sends and saves fail, messages come late and processes end. |
| `PeerTasksProofs!RunningIsRunAlways` | RunningIsRun | A task marked running has a run that works on it, but for an end of the process, an end of a run that was not saved and a result told as running, with any number of runs at once. |
| `ToolCallProofs!CodexTypeCorrect` |  | The table, the files, the processes and the turns of a Codex session are well typed, for any number of overlapping turns. |
| `ToolCallProofs!AccountedAlways` |  | No app-server process is left open that nobody will close, however turns, settings, deletions and cleanups overlap. |
| `ToolCallProofs!ServesAlways` |  | Settings and cleanups leave a turn its process, and a turn that ended left no request in a process that lives on, but for turns that overlapped in one and for deletions. |
| `ToolCallProofs!FitsAlways` |  | A turn runs in a thread started under its own fingerprint and tools, and in a process opened under its own configuration unless another one was written in between. |
| `ToolCallProofs!ReachesAlways` |  | An answer reported as given went to the process that asked, but for the named cases in which that process was closed or shared. |
| `HumanLoopProofs!TypeCorrect` |  | Turns, questions, queues and host calls are well typed, for any number of turns, questions, messages and threads. |
| `HumanLoopProofs!OutcomesAgree` | OneOutcome | Of an answer and a cancel that race for a question one wins, and the turn, the registry and the host agree which, with any number of turns and threads. |
| `HumanLoopProofs!NobodyLeftBehind` | NobodyStranded | A turn that waits for a person can still be answered or cancelled, for any number of overlapping turns. |
| `HumanLoopProofs!MessagesOnce` | MessageOnce | A message put in while a turn runs is read at most once, and not after its retraction was confirmed, for any number of messages and calls. |
| `ToolLoopProofs!CommandsFollowUser` | CommandsAsRequested | A command of a skill runs only if the user asked for it in the words the loop last read, for every setting of the limits. |
| `EvolutionReviewsProofs!EndIsRecordedAlways` | EndIsRecorded | A review that ended is recorded as ended unless its last save overlapped another one, with any number of turn ends at once. |
| `EvolutionReviewsProofs!CountsExactAlways` | CountsExact | The count of turns since a review is exact as long as no two turn ends overlapped in the file. |
| `SessionHistoryProofs!TypeCorrect` |  | The record of a session, its writers and what they were told are well typed, for any number of turns, host threads and messages. |
| `SessionHistoryProofs!CheckpointsKept` | CheckpointKept | The rows of a turn's last finished checkpoint stand together in the record, for any number of turns, whatever hosts append, retract or mark between, as long as no two writers overlapped; and through any overlap a call is there a second time only behind a row of somebody else. |
| `SessionHistoryProofs!UnfinishedMarked` | UnfinishedIsMarked | Only a turn that ran to its end has rows that are not marked interrupted, whatever writers overlap and wherever the process is killed. |
| `SessionHistoryProofs!MessagesTold` | MessagesAsTold | A message the host was told is in the record is in it, and one it was told is out stays out, for any number of messages and checkpoints, as long as no two writers overlapped. |
| `EvolutionReviewsProofs!PendingTypeCorrect` |  | The store of pending proposals and the calls on it are well typed, for any number of proposals, processes and actions. |
| `EvolutionReviewsProofs!AppliedAsProposedAlways` | AppliedAsProposed | The actions of a proposal reach the workspace in their order whatever overlaps, fails or is killed, and at most once each while calls come one by one, for any number of them. |
| `EvolutionReviewsProofs!StatusIsTrueAlways` | StatusIsTrue | What the store says became of a proposal is what did: executed ones were applied, and undisturbed, refused ones left no trace. |
| `ToolLoopProofs!ToldAsStoredAlways` | ToldAsStored | A native stream tells once how its turn ended, and what it told is what the history holds, wherever cancels, overflows, retries and errors come in. |
| `ToolLoopProofs!CallsCheckpointedAlways` | CallsCheckpointed | At every moment of a native turn the calls it made are in the history and the message of the user is there once, through cancels, failures and retries. |
| `ToolLoopProofs!RecorderIsSound` |  | The inductive invariant of the recorder: which delta is in which segment, which call is open and where, and what of an attempt a reset cannot reach; for any number of model calls, attempts, deltas and tool calls. |
| `ToolLoopProofs!TrailsIntact` | TrailIntact | The recorder holds exactly the calls that were run, in their order, each result at its own call although ids repeat, through any number of stream resets. |
| `ToolLoopProofs!DeltasKeptAccount` | DeltasAccounted | Every delta is recorded but those in the active segment at a reset, which reaches back behind the last call at most, and of an attempt that broke off only what a later segment sealed before the reset stays, for any number of attempts and deltas. |
| `AutomationProofs!TypeCorrect` |  | The clock, the job file, the runs and the log are well typed, for any number of runs and host threads and every policy. |
| `AutomationProofs!OneRunAlways` | OneRunAtOnce | A job is at most at one of its runs, and a one-shot whose success was saved at none, whatever its policy keeps, but for the named cases, for any number of runs and host calls. |
| `AutomationProofs!JobKeptAlways` | JobKept | As long as no two calls overlap on the file and no write is cut off, a job leaves the store only when it is deleted or a run succeeded under a policy that removes it. |
| `AutomationProofs!RunningMarkedAlways` | RunningIsMarked | A run the log calls running is the one the job is marked with or is about to be, also after a kill, but for the runs whose start the kill or a failed save kept out of the file. |
| `PeerTasksProofs!ChannelsWellFormed` |  | The files of a channel, its pumps and turns are well formed, and the file operations of one pump follow one another without those of another, for any number of messages and overlapping pumps. |
| `PeerTasksProofs!MessagesDrivenOnce` | DrivenOnce | A platform message has one entry in the inbox and one turn for each time it was queued or released, with any number of overlapping pumps and wherever the process ends. |
| `PeerTasksProofs!SettledMessagesTold` | SettledIsTold | No message is acknowledged that was neither replied to in its conversation nor taken as an answer, for any number of messages and pumps. |
| `PeerTasksProofs!QuestionsFound` | MappingKept | While a turn waits for a person the file leads from its session to its request, but for turns that shared a session and for request ids of an earlier process. |
| `PeerTasksProofs!ConversationsApart` | AnswersStayHome | No answer and no reply leaves its conversation, but for a request id that an earlier process left a mapping of, for any routes, pumps and ends of the process. |
| `PeerTasksProofs!LeasedMessagesHeld` | LeasedIsHeld | A leased message is held by a pump or was when the process ended, for any number of pumps and releases. |
