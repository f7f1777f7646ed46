----------------------------- MODULE CodexSessions -----------------------------
(***************************************************************************)
(* The Codex app-server processes of one session                           *)
(* (crates/core/src/agent_engine/codex: process.rs, state.rs,              *)
(* configure.rs, bind and delete of history.rs).                           *)
(*                                                                         *)
(* A turn writes its model configuration, loads the thread the session is  *)
(* mapped to, takes the session's process from the table or opens one, and *)
(* reads what comes out of it until its turn is over.  The process stays   *)
(* in the table for the next turn.  Settings, deletions, the cleanup of    *)
(* idle processes and the answers of the user go on beside it, and nothing *)
(* keeps two turns of a session apart.                                     *)
(*                                                                         *)
(* A turn opens at most one process and starts at most one thread, so both *)
(* are named by the turn.  Every section under a lock and every access to  *)
(* a file is a step.                                                       *)
(***************************************************************************)

CONSTANTS
  Turns,      \* turns of the session
  Configs,    \* model configurations
  Tools       \* fingerprints of the tools a turn may offer

VARIABLES
  toml,       \* config.toml and auth.json
  mapping,    \* the state file of the session: a thread and what it was for
  entry,      \* ACTIVE_CODEX_SESSIONS at the session's key
  stage,      \* where each turn is
  want,       \* what each turn is for: configuration, network_env or not, tools
  thread,     \* the thread each turn knows of
  pty,        \* the process each turn took
  live,       \* the processes that are open, by the turn that opened them
  config,     \* the config.toml each was opened under
  jobs,       \* requests each has not answered
  rest,       \* what each actor has still to do after it let go of the table
  saving,     \* the settings call or the deletion under way
  asked,      \* PENDING_CODEX_HUMAN_REQUESTS
  taken,      \* requests that a call of answer_human_request has taken out
  met,        \* history: turns that were in the session's process when another one
              \* was, or in a process that such a turn had been in
  disturbed,  \* history: turns whose configuration was overwritten before they
              \* had a process
  dropped,    \* history: processes closed because their thread was deleted
  strays,     \* history: requests their closing process did not take back
  given       \* history: answers reported as given, and the process they went to

files    == <<toml, mapping>>
turns    == <<stage, want, thread, pty>>
procs    == <<live, config, jobs>>
requests == <<asked, taken, strays, given>>
history  == <<met, disturbed, dropped>>
codexVars == <<files, entry, turns, procs, rest, saving, requests, history>>

None     == "none"      \* no process
NoConfig == "noConfig"
NoThread == "noThread"
Elder    == "elder"     \* a thread of Codex's own history
NoTools  == "noTools"   \* the empty fingerprint, which no list of tools has
Host == "host"  Idler == "idler"
Actors == Turns \cup {Host, Idler}

\* runtime_fingerprint and dynamic_tools_fingerprint: with a network_env the
\* former is not that of the configuration.
Want(c, proxy, tools) == [config |-> c, proxy |-> proxy, tools |-> tools]
IsFor(w, c) == c # NoConfig /\ w.config = c /\ ~w.proxy

NoWant    == Want(NoConfig, FALSE, NoTools)
NoMapping == [thread |-> NoThread, want |-> NoWant]
NoEntry   == [pty |-> None, running |-> FALSE, closing |-> FALSE, want |-> NoWant]
Nothing   == [pty |-> None, forget |-> FALSE, unmap |-> FALSE]
NoSave    == [pc |-> "idle", config |-> NoConfig]

CodexInit ==
  /\ toml = NoConfig /\ mapping = NoMapping /\ entry = NoEntry
  /\ stage = [t \in Turns |-> "idle"] /\ want = [t \in Turns |-> NoWant]
  /\ thread = [t \in Turns |-> NoThread] /\ pty = [t \in Turns |-> None]
  /\ live = {} /\ config = [p \in Turns |-> NoConfig] /\ jobs = [p \in Turns |-> {}]
  /\ rest = [a \in Actors |-> Nothing] /\ saving = NoSave
  /\ asked = {} /\ taken = {} /\ strays = {} /\ given = {}
  /\ met = {} /\ disturbed = {} /\ dropped = {}

\* The loop of a turn: initialize, thread/resume, thread/start, turn/start
Loop    == {"init", "resume", "start", "turn"}
Leaving == {"release", "close"}
Reading == {t \in Turns : stage[t] \in Loop}
Inside  == {t \in Turns : stage[t] \in Loop \cup Leaving}
Goto(t, label) == stage' = [stage EXCEPT ![t] = label]

-----------------------------------------------------------------------------
(* Taking the process out of the table, and what is done after the lock:    *)
(* remove_pending_human_requests_for_session, clear_state, close_pty_session *)

Takes(a, forget, unmap) ==
  /\ rest[a] = Nothing
  /\ entry' = NoEntry
  /\ rest' = [rest EXCEPT ![a] = [pty |-> entry.pty, forget |-> forget, unmap |-> unmap]]

Forgets(a) ==
  /\ rest[a].forget
  /\ rest' = [rest EXCEPT ![a].forget = FALSE]
  /\ asked' = {} /\ strays' = strays \cup taken
  /\ UNCHANGED <<files, entry, turns, procs, saving, taken, given, history>>

Unmaps(a) ==
  /\ rest[a].unmap /\ ~rest[a].forget
  /\ rest' = [rest EXCEPT ![a].unmap = FALSE]
  /\ mapping' = NoMapping
  /\ UNCHANGED <<toml, entry, turns, procs, saving, requests, history>>

Closes(a) ==
  /\ rest[a].pty # None /\ ~rest[a].forget /\ ~rest[a].unmap
  /\ live' = live \ {rest[a].pty}
  /\ jobs' = [jobs EXCEPT ![rest[a].pty] = {}]
  /\ rest' = [rest EXCEPT ![a] = Nothing]
  /\ UNCHANGED <<files, entry, turns, config, saving, requests, history>>

-----------------------------------------------------------------------------
(* sync_prepared_config and clear_config_and_sessions: the files, the       *)
(* mappings, the table                                                      *)

\* write_prepared, clear
Writes(c, self) ==
  /\ toml' = c
  /\ disturbed' = disturbed \cup
       ({t \in Turns : stage[t] \in {"unmap", "invalidate", "load", "save", "acquire"}} \ self)

\* clear_stale_native_thread_mappings
ClearsStale(c) == mapping' = IF IsFor(mapping.want, c) THEN mapping ELSE NoMapping

\* invalidate_sessions_for_config: nobody takes back the requests.
Invalidates(a, c) ==
  IF entry = NoEntry \/ IsFor(entry.want, c) THEN UNCHANGED <<entry, rest, strays>>
  ELSE IF entry.running
    THEN entry' = [entry EXCEPT !.closing = TRUE] /\ UNCHANGED <<rest, strays>>
    ELSE Takes(a, FALSE, FALSE) /\ strays' = strays \cup asked \cup taken

-----------------------------------------------------------------------------
(* A turn *)

\* run_codex_turn; NoConfig stands for one that prepare_from_json refuses.
Begin(t) ==
  /\ stage[t] = "idle"
  /\ Goto(t, "write")
  /\ \E c \in Configs \cup {NoConfig}, proxy \in BOOLEAN, tools \in Tools :
       want' = [want EXCEPT ![t] = Want(c, proxy, tools)]
  /\ UNCHANGED <<files, entry, thread, pty, procs, rest, saving, requests, history>>

\* A cancel before the turn began, and the errors before it has a process: the
\* files, the skill export, the command line tool
Refused(t) ==
  /\ rest[t] = Nothing
  /\ \/ stage[t] \in {"idle", "write", "load"}
     \/ stage[t] = "acquire" /\ entry = NoEntry
  /\ Goto(t, "done")
  /\ UNCHANGED <<files, entry, want, thread, pty, procs, rest, saving, requests, history>>

SyncWrite(t) ==
  /\ stage[t] = "write"
  /\ Writes(want[t].config, {t})
  /\ Goto(t, "unmap")
  /\ UNCHANGED <<mapping, entry, want, thread, pty, procs, rest, saving, requests,
                 met, dropped>>

SyncUnmap(t) ==
  /\ stage[t] = "unmap"
  /\ ClearsStale(want[t].config)
  /\ Goto(t, "invalidate")
  /\ UNCHANGED <<toml, entry, want, thread, pty, procs, rest, saving, requests, history>>

SyncInvalidate(t) ==
  /\ stage[t] = "invalidate"
  /\ Invalidates(t, want[t].config)
  /\ Goto(t, IF want[t].config = NoConfig THEN "done" ELSE "load")
  /\ UNCHANGED <<files, want, thread, pty, procs, saving, asked, taken, given, history>>

\* load_state: a thread of another configuration or of other tools is given up.
LoadState(t) ==
  /\ stage[t] = "load" /\ rest[t] = Nothing
  /\ IF mapping.want = want[t]
       THEN thread' = [thread EXCEPT ![t] = mapping.thread] /\ Goto(t, "acquire")
       ELSE Goto(t, "save") /\ UNCHANGED thread
  /\ UNCHANGED <<files, entry, want, pty, procs, rest, saving, requests, history>>

\* save_state
SaveState(t) ==
  /\ stage[t] = "save"
  /\ Goto(t, "acquire")
  /\ mapping' = [thread |-> NoThread, want |-> want[t]]
  /\ UNCHANGED <<toml, entry, want, thread, pty, procs, rest, saving, requests, history>>

Acquiring(t) == stage[t] = "acquire" /\ rest[t] = Nothing

StaleInUse(t) ==
  /\ Acquiring(t) /\ entry # NoEntry /\ entry.want # want[t] /\ entry.running
  /\ Goto(t, "done")
  /\ UNCHANGED <<files, entry, want, thread, pty, procs, rest, saving, requests, history>>

ReplaceStale(t) ==
  /\ Acquiring(t) /\ entry # NoEntry /\ entry.want # want[t] /\ ~entry.running
  /\ Takes(t, TRUE, FALSE)
  /\ UNCHANGED <<files, turns, procs, saving, requests, history>>

Spoilt(p) == \E t \in met : pty[t] = p
Meets(t, p) ==
  met' = met \cup (IF Inside # {} THEN Inside \cup {t} ELSE IF Spoilt(p) THEN {t} ELSE {})

\* The process in the table is taken whether or not a turn has it already.
Reuse(t) ==
  /\ Acquiring(t) /\ entry # NoEntry /\ entry.want = want[t]
  /\ entry' = [entry EXCEPT !.running = TRUE]
  /\ pty' = [pty EXCEPT ![t] = entry.pty]
  /\ LET kind == IF thread[t] = NoThread THEN "start" ELSE "turn" IN
       /\ Goto(t, kind)
       /\ jobs' = [jobs EXCEPT ![entry.pty] =
                     @ \cup {[of |-> t, kind |-> kind, thread |-> thread[t]]}]
  /\ Meets(t, entry.pty)
  /\ UNCHANGED <<files, want, thread, live, config, rest, saving, requests,
                 disturbed, dropped>>

\* open_pty_session and initialize, under the lock of the table
Open(t) ==
  /\ Acquiring(t) /\ entry = NoEntry
  /\ live' = live \cup {t}
  /\ config' = [config EXCEPT ![t] = toml]
  /\ jobs' = [jobs EXCEPT ![t] = {[of |-> t, kind |-> "init", thread |-> thread[t]]}]
  /\ entry' = [pty |-> t, running |-> TRUE, closing |-> FALSE, want |-> want[t]]
  /\ Goto(t, "init")
  /\ pty' = [pty EXCEPT ![t] = t]
  /\ Meets(t, t)
  /\ UNCHANGED <<files, want, thread, rest, saving, requests, disturbed, dropped>>

-----------------------------------------------------------------------------
(* The loop of a turn over the output of its process.  A job is a request   *)
(* the process has not answered.  Whoever reads takes, whether the message  *)
(* was meant for it or not.                                                 *)

Jobs(t) == jobs[pty[t]]
Replaces(t, left) == jobs' = [jobs EXCEPT ![pty[t]] = left]

\* The answer to initialize lets its turn open a thread.
Initialized(t, j) ==
  LET kind == IF thread[t] = NoThread THEN "start" ELSE "resume" IN
  /\ j.kind = "init"
  /\ IF j.of = t
       THEN Goto(t, kind) /\ Replaces(t, (Jobs(t) \ {j}) \cup {[j EXCEPT !.kind = kind]})
       ELSE UNCHANGED stage /\ Replaces(t, Jobs(t) \ {j})
  /\ UNCHANGED <<mapping, thread>>

\* Any message that names a thread makes it the thread of the session, and of a
\* turn that waits for one; a thread that is started has the name of its turn.
NamesThread(t, j, others) ==
  LET named  == IF j.thread = NoThread THEN j.of ELSE j.thread
      begins == stage[t] \in {"resume", "start"} IN
  /\ mapping' = [thread |-> named, want |-> want[t]]
  /\ thread' = [thread EXCEPT ![t] = named]
  /\ IF begins
       THEN /\ Goto(t, "turn")
            /\ Replaces(t, others \cup {[of |-> t, kind |-> "turn", thread |-> named]})
       ELSE UNCHANGED stage /\ Replaces(t, others)

Opened(t, j) == j.kind \in {"resume", "start"} /\ NamesThread(t, j, Jobs(t) \ {j})

\* A turn that waits for a thread begins at any message, the end of another too.
Hears(t, j) ==
  /\ j.kind = "turn"
  /\ \/ NamesThread(t, j, Jobs(t))
     \/ stage[t] \in {"resume", "start"} /\ NamesThread(t, j, Jobs(t) \ {j})

\* thread/resume failed: thread/start instead
StartsThread(t, j) ==
  /\ j.kind = "resume" /\ j.of = t /\ stage[t] = "resume"
  /\ Goto(t, "start")
  /\ Replaces(t, (Jobs(t) \ {j}) \cup {[of |-> t, kind |-> "start", thread |-> NoThread]})
  /\ UNCHANGED <<mapping, thread>>

\* ... and when the answer to that names none, the turn goes on with the old one.
KeepsThread(t, j) ==
  /\ j.kind = "start" /\ j.of = t /\ stage[t] = "start" /\ thread[t] # NoThread
  /\ Goto(t, "turn")
  /\ Replaces(t, (Jobs(t) \ {j}) \cup {[of |-> t, kind |-> "turn", thread |-> thread[t]]})
  /\ UNCHANGED <<mapping, thread>>

Completes(t, j) ==
  /\ j.kind = "turn"
  /\ \E label \in Leaving : Goto(t, label)
  /\ Replaces(t, Jobs(t) \ {j})
  /\ UNCHANGED <<mapping, thread>>

\* Output is parsed with the entry at the key, so only while there is one.
Reads(t, j) ==
  /\ entry # NoEntry
  /\ \/ Initialized(t, j) \/ Opened(t, j) \/ Hears(t, j) \/ StartsThread(t, j)
     \/ KeepsThread(t, j) \/ Completes(t, j)
  /\ UNCHANGED <<toml, entry, want, pty, live, config, rest, saving, requests, history>>

Unread(t, j) ==
  /\ entry = NoEntry
  /\ Replaces(t, Jobs(t) \ {j})
  /\ UNCHANGED <<files, entry, turns, live, config, rest, saving, requests, history>>

\* item/tool/requestUserInput is registered under the key of the session (each
\* turn asks each process once).
Asks(t) ==
  LET q == [pty |-> pty[t], by |-> t] IN
  /\ entry # NoEntry
  /\ \E j \in Jobs(t) : j.kind = "turn"
  /\ q \notin asked \cup taken \cup strays /\ \A g \in given : g.request # q
  /\ asked' = asked \cup {q}
  /\ UNCHANGED <<files, entry, turns, procs, rest, saving, taken, strays, given, history>>

\* An error in answer to a request, a cancel, the time limits, the end of the
\* process
GivesUp(t) ==
  /\ Goto(t, "close")
  /\ UNCHANGED <<files, entry, want, thread, pty, procs, rest, saving, requests, history>>

\* release_session_process: by key, whatever process is there by now
Release(t) ==
  /\ stage[t] \in Leaving
  /\ Goto(t, "done")
  /\ IF entry # NoEntry /\ (stage[t] = "close" \/ entry.closing)
       THEN Takes(t, TRUE, entry.closing)
       ELSE /\ entry' = IF entry = NoEntry THEN NoEntry ELSE [entry EXCEPT !.running = FALSE]
            /\ rest' = [rest EXCEPT ![t].forget = (stage[t] = "close")]
  /\ UNCHANGED <<files, want, thread, pty, procs, saving, requests, history>>

-----------------------------------------------------------------------------
(* Beside the turns *)

\* The host saves or clears the settings.
SaveWrites(c) ==
  /\ saving = NoSave
  /\ Writes(c, {})
  /\ saving' = [pc |-> "unmap", config |-> c]
  /\ UNCHANGED <<mapping, entry, turns, procs, rest, requests, met, dropped>>

SaveUnmaps ==
  /\ saving.pc = "unmap"
  /\ ClearsStale(saving.config)
  /\ saving' = [saving EXCEPT !.pc = "invalidate"]
  /\ UNCHANGED <<toml, entry, turns, procs, rest, requests, history>>

SaveInvalidates ==
  /\ saving.pc = "invalidate"
  /\ Invalidates(Host, saving.config)
  /\ saving' = NoSave
  /\ UNCHANGED <<files, turns, procs, asked, taken, given, history>>

\* bind_native_thread, with the fingerprint of the configuration written last
BindThread ==
  /\ toml # NoConfig
  /\ mapping' = [thread |-> Elder, want |-> Want(toml, FALSE, NoTools)]
  /\ UNCHANGED <<toml, entry, turns, procs, rest, saving, requests, history>>

\* delete_thread, once Codex has deleted it: clear_state, remove_active_session
DeleteThread ==
  /\ saving = NoSave
  /\ mapping' = NoMapping
  /\ saving' = [NoSave EXCEPT !.pc = "drop"]
  /\ UNCHANGED <<toml, entry, turns, procs, rest, requests, history>>

DropProcess ==
  /\ saving.pc = "drop"
  /\ IF entry = NoEntry THEN UNCHANGED <<entry, rest, dropped>>
     ELSE Takes(Host, TRUE, FALSE) /\ dropped' = dropped \cup {entry.pty}
  /\ saving' = NoSave
  /\ UNCHANGED <<files, turns, procs, requests, met, disturbed>>

\* cleanup_idle_sessions, which the acquire of any session begins with
CleanUp ==
  /\ entry # NoEntry /\ ~entry.running
  /\ Takes(Idler, FALSE, FALSE)
  /\ strays' = strays \cup asked \cup taken
  /\ UNCHANGED <<files, turns, procs, saving, asked, taken, given, history>>

\* answer_human_request: out of the map, ...
AnswerTakes(q) ==
  /\ asked' = asked \ {q} /\ taken' = taken \cup {q}
  /\ UNCHANGED <<files, entry, turns, procs, rest, saving, strays, given, history>>

\* ... and to the process that is in the table.  It strays as well if a closing
\* has yet to take back the requests of its process.
AnswerWrites(q) ==
  /\ entry # NoEntry
  /\ taken' = taken \ {q}
  /\ given' = given \cup {[request |-> q, to |-> entry.pty]}
  /\ strays' = IF \E a \in Actors : rest[a].forget THEN strays \cup {q} ELSE strays
  /\ UNCHANGED <<files, entry, turns, procs, rest, saving, asked, history>>

\* No process, or it has ended: back into the map.
AnswerReturns(q) ==
  /\ taken' = taken \ {q} /\ asked' = asked \cup {q}
  /\ UNCHANGED <<files, entry, turns, procs, rest, saving, strays, given, history>>

CodexNext ==
  \/ \E t \in Turns :
       \/ Begin(t) \/ Refused(t) \/ SyncWrite(t) \/ SyncUnmap(t) \/ SyncInvalidate(t)
       \/ LoadState(t) \/ SaveState(t) \/ StaleInUse(t) \/ ReplaceStale(t) \/ Reuse(t) \/ Open(t)
       \/ Release(t)
  \/ \E t \in Reading :
       \/ \E j \in Jobs(t) : Reads(t, j) \/ Unread(t, j)
       \/ Asks(t) \/ GivesUp(t)
  \/ \E a \in Actors : Forgets(a) \/ Unmaps(a) \/ Closes(a)
  \/ \E c \in Configs \cup {NoConfig} : SaveWrites(c)
  \/ SaveUnmaps \/ SaveInvalidates \/ BindThread \/ DeleteThread \/ DropProcess \/ CleanUp
  \/ \E q \in asked : AnswerTakes(q)
  \/ \E q \in taken : AnswerWrites(q) \/ AnswerReturns(q)

CodexSpec == CodexInit /\ [][CodexNext]_codexVars

-----------------------------------------------------------------------------
(* What it promises                                                         *)

\* The names of the model are no turns, and a real list of tools has a fingerprint.
NamesApart ==
  /\ {None, NoThread, Elder, Host, Idler} \cap Turns = {}
  /\ NoTools \notin Tools

IsToClose(p) == \E a \in Actors : rest[a].pty = p

\* release_session_process, acquire_session_process, cleanup_idle_sessions and
\* invalidate_sessions_for_config: however turns, settings, deletions and
\* cleanups overlap, no app-server is left open that nobody will close.
ProcessAccounted == \A p \in live : entry.pty = p \/ IsToClose(p)

\* state.rs:94-106, process.rs:869-873: neither settings nor a cleanup take its process
\* from a turn, and a turn that ended, however it did, left no request in a
\* process that lives on.  Turns that overlapped in a process, and a deletion of
\* the thread, are left out: there the code does both.
ProcessServesTurn ==
  /\ \A t \in Reading \ met :
       pty[t] \notin dropped => entry.pty = pty[t] /\ entry.running /\ pty[t] \in live
  /\ \A p \in live : \A j \in jobs[p] :
       j.of \in Inside \/ Spoilt(p) \/ p \in dropped \/ IsToClose(p)

\* process.rs:138-145, 547-590: a turn runs in a thread that was started under its
\* own fingerprint and tools, never in one bound from elsewhere, and in a process
\* opened under its own configuration, unless another one was written before the
\* process was opened.
ThreadFits ==
  \A p \in live : \A j \in jobs[p] :
    j.kind = "turn" =>
      /\ j.thread \in Turns /\ want[j.thread] = want[j.of]
      /\ p \notin disturbed => config[p] = want[j.of].config

\* answer_human_request: an answer that is reported as given went to the process
\* that asked, unless that process was closed as idle or for new settings, or while
\* the answer was on its way.
AnswerReachesAsker ==
  \A g \in given :
    \/ g.to = g.request.pty
    \/ g.request \in strays \/ g.request.by \in met \/ g.request.pty \in dropped
=============================================================================
