----------------------------- MODULE ToolCallProofs -----------------------------
(***************************************************************************)
(* For every set of calls and every number of answers: a route never       *)
(* outlives its request, one answer at most is accepted and none after the *)
(* call gave up, and nothing but a dropped future stays in the table.      *)
(*                                                                         *)
(* The argument is about one request at a time (RequestInv): its channel   *)
(* tells whether an answer was accepted, the route is there only while     *)
(* neither the host nor the timeout has begun to take the request out.     *)
(*                                                                         *)
(* The second part is about the calls that the app-server of a Codex       *)
(* session asks for, and about the process itself.                         *)
(***************************************************************************)
EXTENDS ToolCall, CodexSessions, TLAPS

\* Before the call is dispatched there is no trace of its request.
Unasked(c) ==
  pc[c] \in {"idle", "started"} =>
    c \notin pending /\ c \notin routes /\ channel[c] = "none" /\ resolver[c] = "none"

ChannelTells(c) ==
  /\ channel[c] = "none" => accepted[c] = 0
  /\ channel[c] = "open" => accepted[c] = 0 /\ pc[c] \in {"waiting", "expiring"}
  /\ channel[c] = "sent" => accepted[c] = 1 /\ c \notin pending
  /\ accepted[c] <= 1
  /\ outcome[c] = "result" => accepted[c] = 1

RouteTells(c) ==
  /\ c \in routes => c \in pending /\ resolver[c] = "none" /\ pc[c] # "removePending"
  /\ resolver[c] = "routed" => answers[c] >= 1

LeftBehind(c) ==
  c \in pending /\ pc[c] = "returned" => grace[c] /\ outcome[c] = "cancelled"

RequestInv(c) == Unasked(c) /\ ChannelTells(c) /\ RouteTells(c) /\ LeftBehind(c)

IInv == TypeOK /\ \A c \in Hosted : RequestInv(c)

-----------------------------------------------------------------------------
LEMMA InitInv == Init => IInv
<1> SUFFICES ASSUME Init PROVE IInv
  OBVIOUS
<1>1. TypeOK
  BY CallAssumption DEF Init, TypeOK, Calls
<1>2. ASSUME NEW c \in Hosted PROVE RequestInv(c)
  BY DEF Init, RequestInv, Unasked, ChannelTells, RouteTells, LeftBehind, Calls
<1> QED BY <1>1, <1>2 DEF IInv

\* Steps every kind of call takes.
LEMMA CallStep ==
  ASSUME IInv, NEW c \in Calls, Cancel(c) \/ Start(c) \/ Tick(c) \/ GraceExpires(c)
  PROVE  IInv'
<1> USE DEF IInv, Calls, request
<1>1. CASE Cancel(c)
  BY <1>1 DEF Cancel, TypeOK, RequestInv, Unasked, ChannelTells, RouteTells, LeftBehind
<1>2. CASE Start(c)
  <2>1. TypeOK'
    BY <1>2 DEF Start, Return, TypeOK
  <2>2. ASSUME NEW d \in Hosted PROVE RequestInv(d)'
    BY <1>2, RequestInv(d)
    DEF Start, Return, TypeOK, RequestInv, Unasked, ChannelTells, RouteTells, LeftBehind
  <2> QED BY <2>1, <2>2
<1>3. CASE Tick(c)
  <2>1. TypeOK'
    BY <1>3 DEF Tick, TypeOK
  <2>2. ASSUME NEW d \in Hosted PROVE RequestInv(d)'
    BY <1>3, RequestInv(d)
    DEF Tick, TypeOK, RequestInv, Unasked, ChannelTells, RouteTells, LeftBehind
  <2> QED BY <2>1, <2>2
<1>4. CASE GraceExpires(c)
  <2>1. TypeOK'
    BY <1>4 DEF GraceExpires, Return, TypeOK
  <2>2. ASSUME NEW d \in Hosted PROVE RequestInv(d)'
    BY <1>4, RequestInv(d)
    DEF GraceExpires, Return, TypeOK, RequestInv, Unasked, ChannelTells, RouteTells,
        LeftBehind
  <2> QED BY <2>1, <2>2
<1> QED BY <1>1, <1>2, <1>3, <1>4

\* An internal handler has no request, so nothing is said of it but its type.
LEMMA InternalStep ==
  ASSUME IInv, NEW c \in Internal, StartHandler(c) \/ HandlerDone(c)
  PROVE  IInv'
<1>1. c \in Calls /\ c \notin Hosted
  BY CallAssumption DEF Calls
<1>2. TypeOK'
  BY <1>1 DEF IInv, StartHandler, HandlerDone, Return, OutputOf, request, TypeOK, Calls
<1>3. ASSUME NEW d \in Hosted PROVE RequestInv(d)'
  BY <1>1, RequestInv(d)
  DEF IInv, StartHandler, HandlerDone, Return, request, TypeOK, Calls,
      RequestInv, Unasked, ChannelTells, RouteTells, LeftBehind
<1> QED BY <1>2, <1>3 DEF IInv

\* The call's side of its request.
LEMMA HostCallStep ==
  ASSUME IInv, NEW c \in Hosted, HostCall(c)
  PROVE  IInv'
<1> USE DEF IInv, request
<1>0. c \in Calls /\ RequestInv(c)
  BY DEF Calls
<1>1. CASE Dispatch(c) \/ DispatchFails(c)
  <2>1. TypeOK'
    BY <1>0, <1>1 DEF Dispatch, DispatchFails, Return, TypeOK
  <2>2. ASSUME NEW d \in Hosted PROVE RequestInv(d)'
    BY <1>0, <1>1, RequestInv(d)
    DEF Dispatch, DispatchFails, Return, TypeOK, Calls,
        RequestInv, Unasked, ChannelTells, RouteTells, LeftBehind
  <2> QED BY <2>1, <2>2
<1>2. CASE Receive(c)
  <2>1. TypeOK'
    BY <1>0, <1>2 DEF Receive, Return, OutputOf, TypeOK
  <2>2. ASSUME NEW d \in Hosted PROVE RequestInv(d)'
    BY <1>0, <1>2, RequestInv(d)
    DEF Receive, Return, OutputOf, TypeOK, Calls,
        RequestInv, Unasked, ChannelTells, RouteTells, LeftBehind
  <2> QED BY <2>1, <2>2
<1>3. CASE TimeoutLooks(c) \/ TimeoutDrops(c)
  <2>1. TypeOK'
    BY <1>0, <1>3 DEF TimeoutLooks, TimeoutDrops, TypeOK
  <2>2. ASSUME NEW d \in Hosted PROVE RequestInv(d)'
    BY <1>0, <1>3, RequestInv(d)
    DEF TimeoutLooks, TimeoutDrops, TypeOK, Calls,
        RequestInv, Unasked, ChannelTells, RouteTells, LeftBehind
  <2> QED BY <2>1, <2>2
<1>4. CASE RemoveRoute(c)
  <2>1. TypeOK'
    BY <1>0, <1>4 DEF RemoveRoute, TypeOK
  <2>2. ASSUME NEW d \in Hosted PROVE RequestInv(d)'
    BY <1>0, <1>4, RequestInv(d)
    DEF RemoveRoute, TypeOK, Calls,
        RequestInv, Unasked, ChannelTells, RouteTells, LeftBehind
  <2> QED BY <2>1, <2>2
<1>5. CASE RemovePending(c)
  <2>1. TypeOK'
    BY <1>0, <1>5 DEF RemovePending, Return, OutputOf, TypeOK
  <2>2. ASSUME NEW d \in Hosted PROVE RequestInv(d)'
    BY <1>0, <1>5, RequestInv(d)
    DEF RemovePending, Return, OutputOf, TypeOK, Calls,
        RequestInv, Unasked, ChannelTells, RouteTells, LeftBehind
  <2> QED BY <2>1, <2>2
<1> QED BY <1>1, <1>2, <1>3, <1>4, <1>5 DEF HostCall

\* The host's side: only an open channel takes an answer.
LEMMA HostThreadStep ==
  ASSUME IInv, NEW c \in Hosted, HostThread(c)
  PROVE  IInv'
<1> USE DEF IInv
<1>0. c \in Calls /\ RequestInv(c)
  BY DEF Calls
<1>1. CASE TakeRoute(c)
  <2>1. TypeOK'
    BY <1>0, <1>1, CallAssumption DEF TakeRoute, TypeOK
  <2>2. ASSUME NEW d \in Hosted PROVE RequestInv(d)'
    BY <1>0, <1>1, RequestInv(d), CallAssumption
    DEF TakeRoute, TypeOK, Calls,
        RequestInv, Unasked, ChannelTells, RouteTells, LeftBehind
  <2> QED BY <2>1, <2>2
<1>2. CASE Resolve(c)
  <2>1. c \in pending /\ channel[c] = "open" => accepted[c] = 0 /\ 1 <= MaxAnswers
    BY <1>0, <1>2, CallAssumption DEF Resolve, TypeOK, RequestInv, ChannelTells, RouteTells
  <2>2. TypeOK'
    BY <1>0, <1>2, <2>1, CallAssumption DEF Resolve, TypeOK
  <2>3. ASSUME NEW d \in Hosted PROVE RequestInv(d)'
    BY <1>0, <1>2, <2>1, RequestInv(d), CallAssumption
    DEF Resolve, TypeOK, Calls,
        RequestInv, Unasked, ChannelTells, RouteTells, LeftBehind
  <2> QED BY <2>2, <2>3
<1> QED BY <1>1, <1>2 DEF HostThread

LEMMA StepInv == IInv /\ [Next]_vars => IInv'
<1> SUFFICES ASSUME IInv, [Next]_vars PROVE IInv'
  OBVIOUS
<1>1. ASSUME NEW c \in Calls, Cancel(c) \/ Start(c) \/ Tick(c) \/ GraceExpires(c)
      PROVE  IInv'
  BY <1>1, CallStep
<1>2. ASSUME NEW c \in Internal, StartHandler(c) \/ HandlerDone(c) PROVE IInv'
  BY <1>2, InternalStep
<1>3. ASSUME NEW c \in Hosted, HostCall(c) \/ HostThread(c) PROVE IInv'
  BY <1>3, HostCallStep, HostThreadStep
<1>4. CASE UNCHANGED vars
  BY <1>4 DEF vars, IInv, TypeOK, RequestInv, Unasked, ChannelTells, RouteTells, LeftBehind
<1> QED BY <1>1, <1>2, <1>3, <1>4 DEF Next

-----------------------------------------------------------------------------
\* The strengthening holds in every reachable state.
THEOREM InductiveInvariant == Spec => []IInv
<1> QED BY InitInv, StepInv, PTL DEF Spec

\* The type invariant; that no more answers are accepted than given needs the
\* whole strengthening.
THEOREM TypeCorrect == Spec => []TypeOK
<1>1. IInv => TypeOK
  BY DEF IInv
<1> QED BY <1>1, InductiveInvariant, PTL

\* An answer that finds a route finds its request, unless the call is giving up
\* (pending.rs:63-91).
THEOREM RouteNeverOutlives == Spec => []RouteHasRequest
<1>1. IInv => RouteHasRequest
  BY DEF IInv, RouteHasRequest, RequestInv, RouteTells, TypeOK
<1> QED BY <1>1, InductiveInvariant, PTL

\* The only entries a returned call leaves in the table are those of a future
\* dropped by the grace period (bridge.rs:36-52).
THEOREM TableDrained == Spec => []NothingLeftBehind
<1>1. IInv => NothingLeftBehind
  BY DEF IInv, NothingLeftBehind, RequestInv, LeftBehind, TypeOK
<1> QED BY <1>1, InductiveInvariant, PTL

\* Of any number of calls in the two tables: what is left in them can still be
\* answered, or belongs to a dropped future (pending.rs:35-96).
THEOREM TablesDrainAlways == Spec => []TablesDrain
<1>1. RouteHasRequest /\ NothingLeftBehind => TablesDrain
  BY DEF TablesDrain
<1> QED BY <1>1, RouteNeverOutlives, TableDrained, PTL

\* At most one answer of the host is accepted, and a returned result is an
\* accepted answer (pending.rs:34-49, 75-91).
THEOREM OneAnswerAccepted == Spec => []AcceptedOnce
<1>1. IInv => AcceptedOnce
  BY DEF IInv, AcceptedOnce, RequestInv, ChannelTells
<1> QED BY <1>1, InductiveInvariant, PTL

\* No step accepts an answer for a call that has given up or returned.
THEOREM NoLateAnswer == Spec => LateAnswerRefused
<1>1. IInv /\ [Next]_vars =>
        [\A c \in Hosted : accepted'[c] # accepted[c] => pc[c] \in {"waiting", "expiring"}]_vars
  <2> SUFFICES ASSUME IInv, [Next]_vars, NEW c \in Hosted, accepted'[c] # accepted[c]
               PROVE  pc[c] \in {"waiting", "expiring"}
    OBVIOUS
  <2>1. PICK d \in Hosted : Resolve(d)
    BY DEF Next, vars, request, Cancel, Start, Tick, GraceExpires, StartHandler,
           HandlerDone, HostCall, Dispatch, DispatchFails, Receive, TimeoutLooks,
           TimeoutDrops, RemoveRoute, RemovePending, HostThread, TakeRoute
  <2>2. d = c /\ channel[c] = "open"
    BY <2>1 DEF Resolve, IInv, TypeOK
  <2> QED BY <2>2 DEF IInv, RequestInv, ChannelTells
<1> QED BY <1>1, InductiveInvariant, PTL DEF Spec, LateAnswerRefused

\* The race for a call has one winner, and a loser is told that it lost, for any
\* number of calls and of answers (pending.rs:41-56).
THEOREM OneAnswerAlways == Spec => OneAnswer
<1> QED BY OneAnswerAccepted, NoLateAnswer, PTL DEF OneAnswer

-----------------------------------------------------------------------------
(* CodexSessions, for any number of turns, configurations and lists of tools: *)
(* a process asks for tool calls too, but its table and its requests are its  *)
(* own, so the two parts share nothing but the module.                        *)


Wants    == [config : Configs \cup {NoConfig}, proxy : BOOLEAN, tools : Tools \cup {NoTools}]
Threads  == Turns \cup {Elder, NoThread}
Prepare  == {"idle", "write", "unmap", "invalidate", "load", "save", "acquire"}
Labels   == Prepare \cup Loop \cup Leaving \cup {"done"}
Mappings == [thread : Threads, want : Wants]
Entries  == [pty : Turns \cup {None}, running : BOOLEAN, closing : BOOLEAN, want : Wants]
Job      == [of : Turns, kind : Loop, thread : Threads]
Rest     == [pty : Turns \cup {None}, forget : BOOLEAN, unmap : BOOLEAN]
Saves    == [pc : {"idle", "unmap", "invalidate", "drop"}, config : Configs \cup {NoConfig}]
Requests == [pty : Turns, by : Turns]

CodexTypeOK ==
  /\ toml \in Configs \cup {NoConfig}
  /\ mapping \in Mappings
  /\ entry \in Entries
  /\ stage \in [Turns -> Labels]
  /\ want \in [Turns -> Wants]
  /\ thread \in [Turns -> Threads]
  /\ pty \in [Turns -> Turns \cup {None}]
  /\ live \subseteq Turns
  /\ config \in [Turns -> Configs \cup {NoConfig}]
  /\ jobs \in [Turns -> SUBSET Job]
  /\ rest \in [Actors -> Rest]
  /\ saving \in Saves
  /\ asked \subseteq Requests /\ taken \subseteq Requests /\ strays \subseteq Requests
  /\ given \subseteq [request : Requests, to : Turns]
  /\ met \subseteq Turns /\ disturbed \subseteq Turns /\ dropped \subseteq Turns

\* A table entry has a process, and so has a turn that took one.
Placed ==
  /\ entry.pty = None => entry = NoEntry
  /\ \A t \in Inside : pty[t] \in Turns

TypeInv == CodexTypeOK /\ Placed

Begun(t) == stage[t] # "idle"
Alike(t, u) == Begun(u) /\ want[u] = want[t]

\* A turn has no process before it opens one.  The process in the table is open,
\* nobody is about to close it, and it is for what the table says; every other
\* open one is about to be closed.
ProcInv ==
  /\ \A t \in Turns : stage[t] \in Prepare =>
       pty[t] = None /\ t \notin live /\ entry.pty # t /\ ~IsToClose(t)
  /\ entry.pty # None =>
       entry.pty \in live /\ ~IsToClose(entry.pty) /\ entry.want = want[entry.pty]
  /\ ProcessAccounted

\* A turn, the turn that opened its process and the one that started its thread
\* are for the same; what a turn is for does not change once it began.
FitInv ==
  /\ \A t \in Turns : pty[t] # None => Alike(t, pty[t])
  /\ \A t \in Turns : thread[t] # NoThread => thread[t] \in Turns /\ Alike(t, thread[t])
  /\ \A t \in Turns : stage[t] \notin {"idle", "done"} => want[t].tools # NoTools
  /\ \A t \in Turns : ~Begun(t) => thread[t] = NoThread /\ pty[t] = None

\* The mapping is true of its thread, but for one that was bound, which it gives
\* tools that no turn has.
MapInv ==
  /\ mapping.thread = Elder => mapping.want.tools = NoTools
  /\ mapping.thread \in Turns =>
       Begun(mapping.thread) /\ mapping.want = want[mapping.thread]

\* A job is of a turn in that process, and in a thread that fits the turn.
JobInv ==
  \A p \in Turns : \A j \in jobs[p] :
    /\ p \in live
    /\ pty[j.of] = p
    /\ j.thread # NoThread => j.thread \in Turns /\ Alike(j.of, j.thread)
    /\ j.kind = "turn" => j.thread # NoThread

\* Until another one is written, the files hold the configuration of a turn that
\* wrote it, and its process is opened under them.
ConfigInv ==
  \A t \in Turns \ disturbed :
    /\ stage[t] \in {"unmap", "invalidate", "load", "save", "acquire"} => toml = want[t].config
    /\ t \in live => config[t] = want[t].config

ThreadInv == FitInv /\ MapInv /\ JobInv /\ ConfigInv

\* A turn has nothing left to do after the lock while it reads.
RestInv ==
  \A t \in Turns :
    t \in Inside \/ stage[t] \in {"idle", "write", "unmap", "invalidate"} => rest[t] = Nothing

MetInv ==
  /\ \A t, u \in Inside : t # u => t \in met
  /\ \A t \in met : pty[t] \in Turns

\* A turn that met nobody holds the process in the table, and a process that was
\* dropped does not come back.
HoldInv ==
  /\ \A t \in Inside \ met : pty[t] \notin dropped => entry.pty = pty[t] /\ entry.running
  /\ \A p \in dropped : stage[p] \notin Prepare /\ entry.pty # p

\* A turn that met nobody has one job, its own, of the kind it waits for; a job
\* whose turn is over is in a process that was spoilt, dropped or is to be closed.
OwnInv ==
  /\ \A t \in Inside \ met : \A j \in Jobs(t) :
       j.of = t /\ Jobs(t) = {j} /\ (stage[t] \in Loop => j.kind = stage[t])
  /\ \A t \in Inside \ met : stage[t] = "release" => Jobs(t) = {}
  /\ \A p \in Turns : \A j \in jobs[p] :
       j.of \in Inside \/ Spoilt(p) \/ p \in dropped \/ IsToClose(p)

ServeInv == RestInv /\ MetInv /\ HoldInv /\ OwnInv

\* A request that waits for its answer is of the process in the table, or somebody
\* has still to take the requests back.
Excused(q) == q \in strays \/ q.by \in met \/ q.pty \in dropped
ReachInv ==
  /\ \A q \in asked \cup taken :
       Excused(q) \/ entry.pty = q.pty \/ \E a \in Actors : rest[a].forget
  /\ AnswerReachesAsker

CodexInv == TypeInv /\ ProcInv /\ ThreadInv /\ ServeInv /\ ReachInv

\* What reading a message leaves alone
Heard ==
  /\ entry # NoEntry
  /\ UNCHANGED <<toml, entry, want, pty, live, config, rest, saving, requests, history>>

-----------------------------------------------------------------------------
\* The initial state is well typed.
LEMMA TypeInit == CodexInit => TypeInv
BY DEF CodexInit, TypeInv, CodexTypeOK, Placed, Inside, NoMapping, NoEntry, NoWant, Want,
      Nothing, NoSave, Prepare, Threads, Wants, Requests, Loop, Leaving, Labels, Mappings,
      Entries, Rest, Saves

\* What taking the process out of the table leaves is well typed.
LEMMA TakesTyped ==
  ASSUME TypeInv, NEW a \in Actors, NEW forget \in BOOLEAN, NEW unmap \in BOOLEAN,
         Takes(a, forget, unmap)
  PROVE  entry' = NoEntry /\ NoEntry \in Entries /\ rest' \in [Actors -> Rest]
BY DEF Takes, TypeInv, CodexTypeOK, Entries, Rest, NoEntry, NoWant, Want, Wants

\* So is what a message that names a thread leaves.
LEMMA NamesTyped ==
  ASSUME TypeInv, NEW t \in Reading, NEW j \in Job, NEW others \in SUBSET Job,
         NamesThread(t, j, others)
  PROVE  /\ mapping' \in Mappings /\ thread' \in [Turns -> Threads]
         /\ stage' \in [Turns -> Labels] /\ jobs' \in [Turns -> SUBSET Job]
         /\ Inside' \subseteq Inside
<1> DEFINE named == IF j.thread = NoThread THEN j.of ELSE j.thread
<1> USE DEF TypeInv, CodexTypeOK, Reading
<1>1. named \in Threads /\ [of |-> t, kind |-> "turn", thread |-> named] \in Job
  BY DEF Job, Threads, Loop
<1>2. mapping' \in Mappings /\ thread' \in [Turns -> Threads]
  BY <1>1 DEF NamesThread, Mappings
<1>3. stage' \in [Turns -> Labels] /\ Inside' \subseteq Inside
  BY DEF NamesThread, Goto, Labels, Loop, Inside
<1>4. jobs' \in [Turns -> SUBSET Job]
  BY <1>1 DEF NamesThread, Replaces
<1> QED
  BY <1>2, <1>3, <1>4

\* Every step keeps the types, and a process with every turn that took one.
LEMMA TypeStep == NamesApart /\ TypeInv /\ [CodexNext]_codexVars => TypeInv'
<1> SUFFICES ASSUME NamesApart, TypeInv, [CodexNext]_codexVars PROVE TypeInv'
  OBVIOUS
<1> USE DEF TypeInv, CodexTypeOK, Placed, Inside, Reading, Actors, Goto, Want, NoWant,
            Nothing, NoSave, Prepare, Threads, Loop, Leaving, Labels, files, turns, procs,
            requests, history
<1>1. ASSUME NEW t \in Turns, Begin(t) PROVE TypeInv'
  <2>1. want' \in [Turns -> Wants]
    BY <1>1 DEF Begin, Wants
  <2> QED
    BY <1>1, <2>1 DEF Begin
<1>2. ASSUME NEW t \in Turns, Refused(t) \/ StaleInUse(t) PROVE TypeInv'
  BY <1>2 DEF Refused, StaleInUse, Acquiring
<1>3. ASSUME NEW t \in Turns, SyncWrite(t) PROVE TypeInv'
  BY <1>3 DEF SyncWrite, Writes, Wants
<1>4. ASSUME NEW t \in Turns, SyncUnmap(t) PROVE TypeInv'
  <2>1. mapping' \in Mappings
    BY <1>4 DEF SyncUnmap, ClearsStale, NoMapping, Mappings, Wants
  <2> QED
    BY <1>4, <2>1 DEF SyncUnmap, Saves
<1>5. ASSUME NEW t \in Turns, SyncInvalidate(t) PROVE TypeInv'
  <2>1. (UNCHANGED <<entry, rest, strays>>)
        \/ (entry' = [entry EXCEPT !.closing = TRUE] /\ UNCHANGED <<rest, strays>>)
        \/ (Takes(t, FALSE, FALSE) /\ strays' = strays \cup asked \cup taken)
    BY <1>5 DEF SyncInvalidate, Invalidates
  <2>2. entry' \in Entries /\ (entry'.pty = None => entry' = NoEntry)
    <3>1. CASE entry' = [entry EXCEPT !.closing = TRUE] /\ entry # NoEntry
      BY <3>1 DEF Entries, NoEntry
    <3>2. CASE entry' = NoEntry
      BY <3>2 DEF Entries, NoEntry, Wants
    <3>3. CASE entry' = entry
      BY <3>3
    <3> QED
      BY <1>5, <3>1, <3>2, <3>3 DEF SyncInvalidate, Invalidates, Takes
  <2>3. rest' \in [Actors -> Rest]
    <3>1. CASE rest' = rest
      BY <3>1
    <3>2. CASE Takes(t, FALSE, FALSE)
      <4>1. [pty |-> entry.pty, forget |-> FALSE, unmap |-> FALSE] \in Rest
        BY DEF Rest, Entries
      <4> QED
        BY <3>2, <4>1 DEF Takes
    <3> QED
      BY <2>1, <3>1, <3>2
  <2> QED
    BY <1>5, <2>1, <2>2, <2>3 DEF SyncInvalidate, Saves
<1>6. ASSUME NEW t \in Turns, LoadState(t) \/ SaveState(t) PROVE TypeInv'
  <2>1. mapping' \in Mappings
    BY <1>6 DEF LoadState, SaveState, Mappings
  <2>2. thread' \in [Turns -> Threads]
    BY <1>6 DEF LoadState, SaveState, Mappings
  <2> QED
    BY <1>6, <2>1, <2>2 DEF LoadState, SaveState
<1>8. ASSUME NEW t \in Turns, ReplaceStale(t) PROVE TypeInv'
  BY <1>8, TakesTyped DEF ReplaceStale
<1>9. ASSUME NEW t \in Turns, Reuse(t) PROVE TypeInv'
  <2>1. entry.pty \in Turns
    BY <1>9 DEF Reuse, Entries
  <2>2. PICK kind \in Loop :
          /\ jobs' = [jobs EXCEPT ![entry.pty] =
                        @ \cup {[of |-> t, kind |-> kind, thread |-> thread[t]]}]
          /\ Goto(t, kind)
    BY <1>9 DEF Reuse
  <2>3. [of |-> t, kind |-> kind, thread |-> thread[t]] \in Job
    BY DEF Job
  <2>4. jobs' \in [Turns -> SUBSET Job]
    BY <2>1, <2>2, <2>3
  <2>5. entry' \in Entries /\ entry'.pty = entry.pty
    BY <1>9 DEF Reuse, Entries
  <2>6. met' \subseteq Turns
    BY <1>9 DEF Reuse, Meets
  <2> QED
    BY <1>9, <2>1, <2>2, <2>4, <2>5, <2>6 DEF Reuse
<1>10. ASSUME NEW t \in Turns, Open(t) PROVE TypeInv'
  <2>1. [of |-> t, kind |-> "init", thread |-> thread[t]] \in Job
    BY DEF Job
  <2>2. jobs' \in [Turns -> SUBSET Job]
    BY <1>10, <2>1 DEF Open
  <2>3. entry' \in Entries /\ entry'.pty = t
    BY <1>10 DEF Open, Entries
  <2>4. met' \subseteq Turns
    BY <1>10 DEF Open, Meets
  <2>5. stage' \in [Turns -> Labels] /\ pty' \in [Turns -> Turns \cup {None}]
        /\ \A u \in Inside' : pty'[u] \in Turns
    BY <1>10 DEF Open
  <2> QED
    BY <1>10, <2>2, <2>3, <2>4, <2>5 DEF Open, NamesApart
<1>11. ASSUME NEW t \in Turns, Release(t) PROVE TypeInv'
  <2>1. CASE Takes(t, TRUE, entry.closing)
    <3>1. entry.closing \in BOOLEAN /\ t \in Actors
      BY DEF Entries
    <3>2. entry' = NoEntry /\ NoEntry \in Entries /\ rest' \in [Actors -> Rest]
      BY <2>1, <3>1, TakesTyped
    <3> QED
      BY <1>11, <3>2 DEF Release
  <2>2. CASE ~Takes(t, TRUE, entry.closing)
    <3>1. entry' \in Entries /\ (entry'.pty = None => entry' = NoEntry)
      <4>1. entry' = entry \/ (entry # NoEntry /\ entry' = [entry EXCEPT !.running = FALSE])
        BY <1>11, <2>2 DEF Release
      <4> QED
        BY <4>1 DEF Entries, NoEntry
    <3>2. rest' \in [Actors -> Rest]
      <4>1. rest' = [rest EXCEPT ![t].forget = (stage[t] = "close")]
        BY <1>11, <2>2 DEF Release
      <4>2. \A b \in BOOLEAN : [rest[t] EXCEPT !.forget = b] \in Rest
        BY rest[t] \in Rest DEF Rest
      <4> QED
        BY <4>1, <4>2
    <3> QED
      BY <1>11, <2>2, <3>1, <3>2 DEF Release
  <2> QED
    BY <2>1, <2>2
<1>12. ASSUME NEW t \in Reading, NEW j \in Jobs(t), Initialized(t, j) /\ Heard
        PROVE TypeInv'
  <2>1. j \in Job /\ [j EXCEPT !.kind = "start"] \in Job /\ [j EXCEPT !.kind = "resume"] \in Job
    BY DEF Jobs, Job
  <2>2. jobs' \in [Turns -> SUBSET Job]
    BY <1>12, <2>1 DEF Initialized, Replaces, Jobs
  <2>3. stage' \in [Turns -> Labels] /\ Inside' \subseteq Inside
    BY <1>12 DEF Initialized
  <2> QED
    BY <1>12, <2>2, <2>3 DEF Initialized, Heard
<1>13. ASSUME NEW t \in Reading, NEW j \in Jobs(t), Opened(t, j) /\ Heard PROVE TypeInv'
  <2>1. j \in Job /\ Jobs(t) \ {j} \subseteq Job
    BY DEF Jobs
  <2> QED
    BY <1>13, <2>1, NamesTyped DEF Opened, Heard
<1>14. ASSUME NEW t \in Reading, NEW j \in Jobs(t), Hears(t, j) /\ Heard PROVE TypeInv'
  <2>1. j \in Job /\ Jobs(t) \subseteq Job
    BY DEF Jobs
  <2> QED
    BY <1>14, <2>1, NamesTyped DEF Hears, Heard
<1>15. ASSUME NEW t \in Reading, NEW j \in Jobs(t), (StartsThread(t, j) \/ KeepsThread(t, j)) /\ Heard
        PROVE TypeInv'
  <2>1. /\ [of |-> t, kind |-> "start", thread |-> NoThread] \in Job
        /\ [of |-> t, kind |-> "turn", thread |-> thread[t]] \in Job
    BY DEF Job
  <2>2. CASE StartsThread(t, j)
    BY <1>15, <2>1, <2>2 DEF StartsThread, Replaces, Jobs, Heard
  <2>3. CASE KeepsThread(t, j)
    BY <1>15, <2>1, <2>3 DEF KeepsThread, Replaces, Jobs, Heard
  <2> QED
    BY <1>15, <2>2, <2>3
<1>16. ASSUME NEW t \in Reading, NEW j \in Jobs(t),
              (Completes(t, j) /\ Heard) \/ Unread(t, j)
        PROVE TypeInv'
  BY <1>16 DEF Completes, Replaces, Jobs, Heard, Unread
<1>18. ASSUME NEW t \in Reading, Asks(t) PROVE TypeInv'
  <2>1. [pty |-> pty[t], by |-> t] \in Requests
    BY DEF Requests
  <2> QED
    BY <1>18, <2>1 DEF Asks
<1>19. ASSUME NEW t \in Reading, GivesUp(t) PROVE TypeInv'
  BY <1>19 DEF GivesUp
<1>20. ASSUME NEW a \in Actors, Forgets(a) PROVE TypeInv'
  BY <1>20 DEF Forgets, Rest
<1>21. ASSUME NEW a \in Actors, Unmaps(a) PROVE TypeInv'
  <2>1. mapping' \in Mappings
    BY <1>21 DEF Unmaps, NoMapping, Mappings, Wants
  <2> QED
    BY <1>21, <2>1 DEF Unmaps, Rest
<1>22. ASSUME NEW a \in Actors, Closes(a) PROVE TypeInv'
  BY <1>22 DEF Closes, Rest
<1>23. ASSUME NEW c \in Configs \cup {NoConfig}, SaveWrites(c) PROVE TypeInv'
  BY <1>23 DEF SaveWrites, Writes, Saves
<1>24. CASE SaveUnmaps
  <2>1. mapping' \in Mappings
    BY <1>24 DEF SaveUnmaps, ClearsStale, NoMapping, Mappings, Wants
  <2> QED
    BY <1>24, <2>1 DEF SaveUnmaps, Saves
<1>25. CASE SaveInvalidates
  <2>1. (UNCHANGED <<entry, rest, strays>>)
        \/ (entry' = [entry EXCEPT !.closing = TRUE] /\ UNCHANGED <<rest, strays>>)
        \/ (Takes(Host, FALSE, FALSE) /\ strays' = strays \cup asked \cup taken)
    BY <1>25 DEF SaveInvalidates, Invalidates
  <2>2. entry' \in Entries /\ (entry'.pty = None => entry' = NoEntry)
    <3>1. CASE entry' = [entry EXCEPT !.closing = TRUE] /\ entry # NoEntry
      BY <3>1 DEF Entries, NoEntry
    <3>2. CASE entry' = NoEntry
      BY <3>2 DEF Entries, NoEntry, Wants
    <3>3. CASE entry' = entry
      BY <3>3
    <3> QED
      BY <1>25, <3>1, <3>2, <3>3 DEF SaveInvalidates, Invalidates, Takes
  <2>3. rest' \in [Actors -> Rest]
    <3>1. CASE rest' = rest
      BY <3>1
    <3>2. CASE Takes(Host, FALSE, FALSE)
      <4>1. [pty |-> entry.pty, forget |-> FALSE, unmap |-> FALSE] \in Rest
        BY DEF Rest, Entries
      <4> QED
        BY <3>2, <4>1 DEF Takes
    <3> QED
      BY <2>1, <3>1, <3>2
  <2> QED
    BY <1>25, <2>1, <2>2, <2>3 DEF SaveInvalidates, Saves
<1>26. CASE BindThread
  BY <1>26 DEF BindThread, Mappings, Wants
<1>27. CASE DeleteThread
  BY <1>27 DEF DeleteThread, NoMapping, Mappings, Wants, Saves
<1>28. CASE DropProcess
  <2>1. entry' \in Entries /\ rest' \in [Actors -> Rest] /\ (entry'.pty = None => entry' = NoEntry)
    BY <1>28, TakesTyped DEF DropProcess
  <2>2. entry # NoEntry => entry.pty \in Turns
    BY DEF Entries
  <2> QED
    BY <1>28, <2>1, <2>2 DEF DropProcess, Saves
<1>29. CASE CleanUp
  BY <1>29, TakesTyped DEF CleanUp
<1>30. ASSUME NEW q \in asked, AnswerTakes(q) PROVE TypeInv'
  BY <1>30 DEF AnswerTakes
<1>31. ASSUME NEW q \in taken, AnswerWrites(q) PROVE TypeInv'
  <2>1. entry.pty \in Turns
    BY <1>31 DEF AnswerWrites, Entries
  <2>2. [request |-> q, to |-> entry.pty] \in [request : Requests, to : Turns]
    BY <2>1
  <2> QED
    BY <1>31, <2>2 DEF AnswerWrites
<1>32. ASSUME NEW q \in taken, AnswerReturns(q) PROVE TypeInv'
  BY <1>32 DEF AnswerReturns
<1>33. CASE UNCHANGED codexVars
  BY <1>33 DEF codexVars
<1> QED
  BY <1>1, <1>2, <1>3, <1>4, <1>5, <1>6, <1>8, <1>9, <1>10, <1>11, <1>12, <1>13, <1>14,
        <1>15, <1>16, <1>18, <1>19, <1>20, <1>21, <1>22, <1>23, <1>24, <1>25, <1>26,
        <1>27, <1>28, <1>29, <1>30, <1>31, <1>32, <1>33
     DEF CodexNext, Reads, Heard

-----------------------------------------------------------------------------
\* At first there is no process.
LEMMA ProcInit == NamesApart /\ CodexInit => ProcInv
BY DEF NamesApart, CodexInit, ProcInv, ProcessAccounted, NoEntry, NoWant, Want, Nothing,
      IsToClose

\* A process that is taken out of the table is to be closed.
LEMMA TakesAccounted ==
  ASSUME NamesApart, TypeInv, ProcInv, NEW a \in Actors, NEW forget, NEW unmap,
         Takes(a, forget, unmap), UNCHANGED <<live, pty, want>>,
         \A t \in Turns : stage'[t] \in Prepare => stage[t] \in Prepare
  PROVE  ProcInv'
<1> USE DEF TypeInv, CodexTypeOK, ProcInv, ProcessAccounted, NamesApart, IsToClose
<1>1. rest[a].pty = None /\ entry' = NoEntry /\ entry'.pty = None
      /\ rest' = [rest EXCEPT ![a] = [pty |-> entry.pty, forget |-> forget, unmap |-> unmap]]
  BY DEF Takes, Nothing, NoEntry
<1>2. \A b \in Actors : rest'[b].pty = IF b = a THEN entry.pty ELSE rest[b].pty
  BY <1>1
<1>3. \A p \in Turns : IsToClose(p)' <=> IsToClose(p) \/ entry.pty = p
  BY <1>1, <1>2
<1> QED
  BY <1>1, <1>3

\* Every step keeps the table and the open processes in agreement.
LEMMA ProcStep ==
  NamesApart /\ TypeInv /\ TypeInv' /\ ProcInv /\ [CodexNext]_codexVars => ProcInv'
<1> SUFFICES ASSUME NamesApart, TypeInv, TypeInv', ProcInv, [CodexNext]_codexVars PROVE ProcInv'
  OBVIOUS
<1> USE DEF TypeInv, CodexTypeOK, Placed, Inside, Reading, Actors, Goto, Nothing, NoSave,
            Prepare, Loop, Leaving, Labels, files, turns, procs, requests, history, ProcInv,
            ProcessAccounted, NamesApart, IsToClose
<1>1. ASSUME NEW t \in Turns, Begin(t) \/ Refused(t) \/ SyncWrite(t) \/ SyncUnmap(t) \/
             LoadState(t) \/ SaveState(t)
       PROVE ProcInv'
  BY <1>1 DEF Begin, Refused, SyncWrite, Writes, SyncUnmap, ClearsStale, IsFor, LoadState, SaveState
<1>5. ASSUME NEW t \in Turns, SyncInvalidate(t) PROVE ProcInv'
  <2>1. CASE Takes(t, FALSE, FALSE)
    BY <1>5, <2>1, TakesAccounted DEF SyncInvalidate
  <2>2. CASE ~Takes(t, FALSE, FALSE)
    <3>1. entry' = entry \/ entry' = [entry EXCEPT !.closing = TRUE]
      BY <1>5, <2>2 DEF SyncInvalidate, Invalidates
    <3>2. entry'.pty = entry.pty /\ entry'.want = entry.want
      BY <3>1 DEF Entries
    <3>3. rest' = rest
      BY <1>5, <2>2 DEF SyncInvalidate, Invalidates
    <3> QED
      BY <1>5, <3>2, <3>3 DEF SyncInvalidate
  <2> QED
    BY <2>1, <2>2
<1>7. ASSUME NEW t \in Turns, StaleInUse(t) PROVE ProcInv'
  BY <1>7 DEF StaleInUse, Acquiring
<1>8. ASSUME NEW t \in Turns, ReplaceStale(t) PROVE ProcInv'
  BY <1>8, TakesAccounted DEF ReplaceStale
<1>9. ASSUME NEW t \in Turns, Reuse(t) PROVE ProcInv'
  BY <1>9 DEF Reuse, Acquiring, Meets
<1>10. ASSUME NEW t \in Turns, Open(t) PROVE ProcInv'
  BY <1>10 DEF Open, Acquiring, NoEntry
<1>11. ASSUME NEW t \in Turns, Release(t) PROVE ProcInv'
  <2>1. CASE Takes(t, TRUE, entry.closing)
    <3>1. \A u \in Turns : stage'[u] \in Prepare => stage[u] \in Prepare
      BY <1>11 DEF Release
    <3> QED
      BY <1>11, <2>1, <3>1, TakesAccounted DEF Release
  <2>2. CASE ~Takes(t, TRUE, entry.closing)
    <3>1. \A a \in Actors : rest'[a].pty = rest[a].pty
      <4>1. rest' = [rest EXCEPT ![t].forget = (stage[t] = "close")]
        BY <1>11, <2>2 DEF Release
      <4> QED
        BY <4>1 DEF Rest
    <3>2. entry'.pty = entry.pty /\ entry'.want = entry.want
      <4>1. entry' = entry \/ entry' = [entry EXCEPT !.running = FALSE]
        BY <1>11, <2>2 DEF Release
      <4> QED
        BY <4>1 DEF Entries
    <3> QED
      BY <1>11, <3>1, <3>2 DEF Release
  <2> QED
    BY <2>1, <2>2
<1>12. ASSUME NEW t \in Reading, NEW j \in Jobs(t), (Initialized(t, j) \/ Opened(t, j) \/
              Hears(t, j) \/ StartsThread(t, j) \/ KeepsThread(t, j) \/ Completes(t, j)) /\ Heard
        PROVE ProcInv'
  BY <1>12 DEF Initialized, Replaces, Jobs, Heard, Opened, NamesThread, Hears,
        StartsThread, KeepsThread, Completes
<1>17. ASSUME NEW t \in Reading, NEW j \in Jobs(t), Unread(t, j) PROVE ProcInv'
  BY <1>17 DEF Unread, Replaces, Jobs
<1>18. ASSUME NEW t \in Reading, Asks(t) \/ GivesUp(t) PROVE ProcInv'
  BY <1>18 DEF Asks, GivesUp
<1>20. ASSUME NEW a \in Actors, Forgets(a) PROVE ProcInv'
  BY <1>20 DEF Forgets
<1>21. ASSUME NEW a \in Actors, Unmaps(a) PROVE ProcInv'
  BY <1>21 DEF Unmaps
<1>22. ASSUME NEW a \in Actors, Closes(a) PROVE ProcInv'
  BY <1>22 DEF Closes
<1>23. ASSUME NEW c \in Configs \cup {NoConfig}, SaveWrites(c) PROVE ProcInv'
  BY <1>23 DEF SaveWrites, Writes
<1>24. CASE SaveUnmaps \/ BindThread \/ DeleteThread
  BY <1>24 DEF SaveUnmaps, ClearsStale, IsFor, BindThread, DeleteThread
<1>25. CASE SaveInvalidates
  <2>1. CASE Takes(Host, FALSE, FALSE)
    BY <1>25, <2>1, TakesAccounted DEF SaveInvalidates
  <2>2. CASE ~Takes(Host, FALSE, FALSE)
    <3>1. entry' = entry \/ entry' = [entry EXCEPT !.closing = TRUE]
      BY <1>25, <2>2 DEF SaveInvalidates, Invalidates
    <3>2. entry'.pty = entry.pty /\ entry'.want = entry.want
      BY <3>1 DEF Entries
    <3>3. rest' = rest
      BY <1>25, <2>2 DEF SaveInvalidates, Invalidates
    <3> QED
      BY <1>25, <3>2, <3>3 DEF SaveInvalidates
  <2> QED
    BY <2>1, <2>2
<1>28. CASE DropProcess
  <2>1. CASE entry = NoEntry
    BY <1>28, <2>1 DEF DropProcess
  <2>2. CASE entry # NoEntry
    BY <1>28, <2>2, TakesAccounted DEF DropProcess
  <2> QED
    BY <2>1, <2>2
<1>29. CASE CleanUp
  BY <1>29, TakesAccounted DEF CleanUp
<1>30. ASSUME NEW q \in asked, AnswerTakes(q) PROVE ProcInv'
  BY <1>30 DEF AnswerTakes
<1>31. ASSUME NEW q \in taken, AnswerWrites(q) \/ AnswerReturns(q) PROVE ProcInv'
  BY <1>31 DEF AnswerWrites, AnswerReturns
<1>33. CASE UNCHANGED codexVars
  BY <1>33 DEF codexVars
<1> QED
  BY <1>1, <1>5, <1>7, <1>8, <1>9, <1>10, <1>11, <1>12, <1>17, <1>18, <1>20, <1>21,
        <1>22, <1>23, <1>24, <1>25, <1>28, <1>29, <1>30, <1>31, <1>33
     DEF CodexNext, Reads, Heard

-----------------------------------------------------------------------------
\* At first there is neither mapping nor job.
LEMMA ThreadInit == NamesApart /\ CodexInit => ThreadInv
BY DEF NamesApart, CodexInit, ThreadInv, FitInv, MapInv, JobInv, ConfigInv, NoMapping,
      NoThread, Elder, Begun

\* The thread a job names was started for the turn that reads its message: both
\* are in the same process.
LEMMA NamedFits ==
  ASSUME NamesApart, TypeInv, FitInv, JobInv, NEW t \in Reading, NEW j \in Jobs(t)
  PROVE  LET named == IF j.thread = NoThread THEN j.of ELSE j.thread
         IN  j \in Job /\ named \in Turns /\ Alike(t, named)
<1>1. pty[t] \in Turns /\ t \in Turns
  BY DEF TypeInv, Placed, Reading, Inside
<1>2. j \in Job /\ j.of \in Turns /\ pty[j.of] = pty[t]
  BY <1>1 DEF Jobs, JobInv, TypeInv, CodexTypeOK, Job
<1>3. want[j.of] = want[t] /\ Begun(j.of)
  BY <1>1, <1>2 DEF FitInv, Alike, NamesApart
<1> QED
  BY <1>1, <1>2, <1>3 DEF JobInv, Alike, Jobs

\* Every step keeps turns, processes and threads fitting one another.
LEMMA FitInvStep ==
  NamesApart /\ TypeInv /\ TypeInv' /\ ProcInv /\ ThreadInv /\ [CodexNext]_codexVars => FitInv'
<1> SUFFICES ASSUME NamesApart, TypeInv, TypeInv', ProcInv, ThreadInv, [CodexNext]_codexVars PROVE FitInv'
  OBVIOUS
<1> USE DEF TypeInv, CodexTypeOK, Placed, Inside, Reading, Actors, Goto, Nothing, NoSave,
            Prepare, Loop, Leaving, Labels, files, turns, procs, requests, history,
            ThreadInv, FitInv, MapInv, JobInv, Alike, Begun, NamesApart, ProcInv
<1>1. ASSUME NEW t \in Turns, Begin(t) PROVE FitInv'
  <2>1. PICK c \in Configs \cup {NoConfig}, proxy \in BOOLEAN, tools \in Tools :
          want' = [want EXCEPT ![t] = Want(c, proxy, tools)]
    BY <1>1 DEF Begin
  <2>2. want'[t].tools \in Tools
    BY <2>1 DEF Want
  <2>3. \A u \in Turns : u # t => want'[u] = want[u] /\ stage'[u] = stage[u]
    BY <1>1, <2>1 DEF Begin
  <2>4. thread[t] = NoThread /\ pty[t] = None
    BY <1>1 DEF Begin
  <2> QED
    BY <1>1, <2>2, <2>3, <2>4 DEF Begin
<1>2. ASSUME NEW t \in Turns, Refused(t) \/ SyncWrite(t) \/ SyncUnmap(t) \/
             SyncInvalidate(t) \/ StaleInUse(t)
       PROVE FitInv'
  BY <1>2 DEF Refused, SyncWrite, Writes, SyncUnmap, ClearsStale, IsFor,
        SyncInvalidate, Invalidates, Takes, StaleInUse, Acquiring
<1>6. ASSUME NEW t \in Turns, LoadState(t) PROVE FitInv'
  <2>1. CASE mapping.want = want[t]
    <3>1. mapping.thread # Elder
      BY <1>6, <2>1 DEF LoadState
    <3>2. thread' = [thread EXCEPT ![t] = mapping.thread] /\ mapping.thread \in Threads
      BY <1>6, <2>1 DEF LoadState, Mappings
    <3> QED
      BY <1>6, <2>1, <3>1, <3>2 DEF LoadState, Threads
  <2>2. CASE mapping.want # want[t]
    BY <1>6, <2>2 DEF LoadState
  <2> QED
    BY <2>1, <2>2
<1>7. ASSUME NEW t \in Turns, SaveState(t) PROVE FitInv'
  BY <1>7 DEF SaveState
<1>8. ASSUME NEW t \in Turns, ReplaceStale(t) \/ Reuse(t) \/ Open(t) \/ Release(t)
       PROVE FitInv'
  BY <1>8 DEF ReplaceStale, Acquiring, Takes, Reuse, Meets, Open, Release
<1>12. ASSUME NEW t \in Reading, NEW j \in Jobs(t), (Initialized(t, j) /\ Heard) \/
              ((StartsThread(t, j) \/ KeepsThread(t, j)) /\ Heard) \/ (Completes(t, j) /\ Heard) \/ Unread(t, j)
        PROVE FitInv'
  BY <1>12 DEF Initialized, Replaces, Jobs, Heard, StartsThread, KeepsThread, Completes, Unread
<1>13. ASSUME NEW t \in Reading, NEW j \in Jobs(t), Opened(t, j) /\ Heard PROVE FitInv'
  <2> DEFINE named == IF j.thread = NoThread THEN j.of ELSE j.thread
  <2>1. named \in Turns /\ Alike(t, named) /\ t \in Turns
    BY NamedFits
  <2>2. thread' = [thread EXCEPT ![t] = named]
    BY <1>13 DEF Opened, NamesThread
  <2> QED
    BY <1>13, <2>1, <2>2 DEF Opened, NamesThread, Heard
<1>14. ASSUME NEW t \in Reading, NEW j \in Jobs(t), Hears(t, j) /\ Heard PROVE FitInv'
  <2> DEFINE named == IF j.thread = NoThread THEN j.of ELSE j.thread
  <2>1. named \in Turns /\ Alike(t, named) /\ t \in Turns
    BY NamedFits
  <2>2. thread' = [thread EXCEPT ![t] = named]
    BY <1>14 DEF Hears, NamesThread
  <2> QED
    BY <1>14, <2>1, <2>2 DEF Hears, NamesThread, Heard
<1>18. ASSUME NEW t \in Reading, Asks(t) \/ GivesUp(t) PROVE FitInv'
  BY <1>18 DEF Asks, GivesUp
<1>20. ASSUME NEW a \in Actors, Forgets(a) \/ Unmaps(a) \/ Closes(a) PROVE FitInv'
  BY <1>20 DEF Forgets, Unmaps, Closes
<1>23. ASSUME NEW c \in Configs \cup {NoConfig}, SaveWrites(c) PROVE FitInv'
  BY <1>23 DEF SaveWrites, Writes
<1>24. CASE SaveUnmaps
  BY <1>24 DEF SaveUnmaps, ClearsStale, IsFor
<1>25. CASE SaveInvalidates
  BY <1>25 DEF SaveInvalidates, Invalidates, Takes
<1>26. CASE BindThread
  BY <1>26 DEF BindThread
<1>27. CASE DeleteThread
  BY <1>27 DEF DeleteThread
<1>28. CASE DropProcess
  BY <1>28 DEF DropProcess, Takes
<1>29. CASE CleanUp
  BY <1>29 DEF CleanUp, Takes
<1>30. ASSUME NEW q \in asked, AnswerTakes(q) PROVE FitInv'
  BY <1>30 DEF AnswerTakes
<1>31. ASSUME NEW q \in taken, AnswerWrites(q) \/ AnswerReturns(q) PROVE FitInv'
  BY <1>31 DEF AnswerWrites, AnswerReturns
<1>33. CASE UNCHANGED codexVars
  BY <1>33 DEF codexVars
<1> QED
  BY <1>1, <1>2, <1>6, <1>7, <1>8, <1>12, <1>13, <1>14, <1>18, <1>20, <1>23, <1>24, <1>25,
        <1>26, <1>27, <1>28, <1>29, <1>30, <1>31, <1>33
     DEF CodexNext, Reads, Heard

\* Every step keeps the mapping true of its thread.
LEMMA MapInvStep ==
  NamesApart /\ TypeInv /\ TypeInv' /\ ProcInv /\ ThreadInv /\ [CodexNext]_codexVars => MapInv'
<1> SUFFICES ASSUME NamesApart, TypeInv, TypeInv', ProcInv, ThreadInv, [CodexNext]_codexVars PROVE MapInv'
  OBVIOUS
<1> USE DEF TypeInv, CodexTypeOK, Placed, Inside, Reading, Actors, Goto, Nothing, NoSave,
            Prepare, Loop, Leaving, Labels, files, turns, procs, requests, history,
            ThreadInv, FitInv, MapInv, JobInv, Alike, Begun, NamesApart, ProcInv
<1>1. ASSUME NEW t \in Turns, Begin(t) \/ Refused(t) \/ SyncWrite(t) \/ SyncInvalidate(t) \/
             StaleInUse(t)
       PROVE MapInv'
  BY <1>1 DEF Begin, Refused, SyncWrite, Writes, SyncInvalidate, Invalidates, Takes,
        StaleInUse, Acquiring
<1>4. ASSUME NEW t \in Turns, SyncUnmap(t) PROVE MapInv'
  BY <1>4 DEF SyncUnmap, ClearsStale, NoMapping, NoThread, Elder
<1>6. ASSUME NEW t \in Turns, LoadState(t) \/ SaveState(t) PROVE MapInv'
  BY <1>6 DEF LoadState, SaveState, NoThread, Elder
<1>8. ASSUME NEW t \in Turns, ReplaceStale(t) \/ Reuse(t) \/ Open(t) \/ Release(t)
       PROVE MapInv'
  BY <1>8 DEF ReplaceStale, Acquiring, Takes, Reuse, Meets, Open, Release
<1>12. ASSUME NEW t \in Reading, NEW j \in Jobs(t), (Initialized(t, j) /\ Heard) \/
              ((StartsThread(t, j) \/ KeepsThread(t, j)) /\ Heard) \/ (Completes(t, j) /\ Heard) \/ Unread(t, j)
        PROVE MapInv'
  BY <1>12 DEF Initialized, Replaces, Jobs, Heard, StartsThread, KeepsThread, Completes, Unread
<1>13. ASSUME NEW t \in Reading, NEW j \in Jobs(t), Opened(t, j) /\ Heard PROVE MapInv'
  <2> DEFINE named == IF j.thread = NoThread THEN j.of ELSE j.thread
  <2>1. named \in Turns /\ Alike(t, named) /\ t \in Turns
    BY NamedFits
  <2>2. mapping' = [thread |-> named, want |-> want[t]]
    BY <1>13 DEF Opened, NamesThread
  <2> QED
    BY <1>13, <2>1, <2>2 DEF Opened, NamesThread, Heard
<1>14. ASSUME NEW t \in Reading, NEW j \in Jobs(t), Hears(t, j) /\ Heard PROVE MapInv'
  <2> DEFINE named == IF j.thread = NoThread THEN j.of ELSE j.thread
  <2>1. named \in Turns /\ Alike(t, named) /\ t \in Turns
    BY NamedFits
  <2>2. mapping' = [thread |-> named, want |-> want[t]]
    BY <1>14 DEF Hears, NamesThread
  <2> QED
    BY <1>14, <2>1, <2>2 DEF Hears, NamesThread, Heard
<1>18. ASSUME NEW t \in Reading, Asks(t) \/ GivesUp(t) PROVE MapInv'
  BY <1>18 DEF Asks, GivesUp
<1>20. ASSUME NEW a \in Actors, Forgets(a) \/ Closes(a) PROVE MapInv'
  BY <1>20 DEF Forgets, Closes
<1>21. ASSUME NEW a \in Actors, Unmaps(a) PROVE MapInv'
  BY <1>21 DEF Unmaps, NoMapping, NoThread, Elder
<1>23. ASSUME NEW c \in Configs \cup {NoConfig}, SaveWrites(c) PROVE MapInv'
  BY <1>23 DEF SaveWrites, Writes
<1>24. CASE SaveUnmaps
  BY <1>24 DEF SaveUnmaps, ClearsStale, NoMapping, NoThread, Elder
<1>25. CASE SaveInvalidates
  BY <1>25 DEF SaveInvalidates, Invalidates, Takes
<1>26. CASE BindThread
  BY <1>26 DEF BindThread, Want
<1>27. CASE DeleteThread
  BY <1>27 DEF DeleteThread, NoMapping, NoThread, Elder
<1>28. CASE DropProcess
  BY <1>28 DEF DropProcess, Takes
<1>29. CASE CleanUp
  BY <1>29 DEF CleanUp, Takes
<1>30. ASSUME NEW q \in asked, AnswerTakes(q) PROVE MapInv'
  BY <1>30 DEF AnswerTakes
<1>31. ASSUME NEW q \in taken, AnswerWrites(q) \/ AnswerReturns(q) PROVE MapInv'
  BY <1>31 DEF AnswerWrites, AnswerReturns
<1>33. CASE UNCHANGED codexVars
  BY <1>33 DEF codexVars
<1> QED
  BY <1>1, <1>4, <1>6, <1>8, <1>12, <1>13, <1>14, <1>18, <1>20, <1>21, <1>23, <1>24,
        <1>25, <1>26, <1>27, <1>28, <1>29, <1>30, <1>31, <1>33
     DEF CodexNext, Reads, Heard

\* Every step keeps the jobs of a process to the turns in it and their threads.
LEMMA JobInvStep ==
  NamesApart /\ TypeInv /\ TypeInv' /\ ProcInv /\ ThreadInv /\ [CodexNext]_codexVars => JobInv'
<1> SUFFICES ASSUME NamesApart, TypeInv, TypeInv', ProcInv, ThreadInv, [CodexNext]_codexVars PROVE JobInv'
  OBVIOUS
<1> USE DEF TypeInv, CodexTypeOK, Placed, Inside, Reading, Actors, Goto, Nothing, NoSave,
            Prepare, Loop, Leaving, Labels, files, turns, procs, requests, history,
            ThreadInv, FitInv, JobInv, Alike, Begun, NamesApart, ProcInv
<1>1. ASSUME NEW t \in Turns, Begin(t) PROVE JobInv'
  BY <1>1 DEF Begin
<1>2. ASSUME NEW t \in Turns, Refused(t) \/ SyncWrite(t) \/ SyncUnmap(t) \/ StaleInUse(t) \/
             Release(t)
       PROVE JobInv'
  BY <1>2 DEF Refused, SyncWrite, Writes, SyncUnmap, ClearsStale, IsFor, StaleInUse,
        Acquiring, Release, Takes
<1>5. ASSUME NEW t \in Turns, SyncInvalidate(t) PROVE JobInv'
  BY <1>5 DEF SyncInvalidate, Invalidates, Takes
<1>6. ASSUME NEW t \in Turns, LoadState(t) \/ SaveState(t) PROVE JobInv'
  BY <1>6 DEF LoadState, SaveState
<1>8. ASSUME NEW t \in Turns, ReplaceStale(t) PROVE JobInv'
  BY <1>8 DEF ReplaceStale, Acquiring, Takes
<1>9. ASSUME NEW t \in Turns, Reuse(t) PROVE JobInv'
  BY <1>9 DEF Reuse, Acquiring, Meets
<1>10. ASSUME NEW t \in Turns, Open(t) PROVE JobInv'
  BY <1>10 DEF Open, Acquiring, Meets
<1>12. ASSUME NEW t \in Reading, NEW j \in Jobs(t), Initialized(t, j) /\ Heard PROVE JobInv'
  <2>1. pty[t] \in Turns /\ j \in jobs[pty[t]] /\ j \in Job
    BY DEF Jobs
  <2>2. PICK kind \in {"start", "resume"} :
          \/ jobs' = [jobs EXCEPT ![pty[t]] = @ \ {j}]
          \/ jobs' = [jobs EXCEPT ![pty[t]] = (@ \ {j}) \cup {[j EXCEPT !.kind = kind]}]
    BY <1>12 DEF Initialized, Replaces, Jobs
  <2>3. [j EXCEPT !.kind = kind].of = j.of /\ [j EXCEPT !.kind = kind].thread = j.thread
        /\ [j EXCEPT !.kind = kind].kind # "turn"
    BY <2>1 DEF Job
  <2>4. \A u \in Turns : stage'[u] = "idle" <=> stage[u] = "idle"
    BY <1>12 DEF Initialized
  <2>5. \A k \in jobs'[pty[t]] : \E i \in jobs[pty[t]] :
          k.of = i.of /\ k.thread = i.thread /\ (k.kind = "turn" => i.kind = "turn")
    <3> DEFINE moved == [j EXCEPT !.kind = kind]
    <3>1. moved.of = j.of /\ moved.thread = j.thread /\ moved.kind # "turn"
      BY <2>3
    <3> HIDE DEF moved
    <3>2. \A k \in jobs'[pty[t]] : k \in jobs[pty[t]] \/ k = moved
      BY <2>1, <2>2 DEF moved
    <3> QED
      BY <2>1, <3>1, <3>2
  <2>6. \A p \in Turns : p # pty[t] => jobs'[p] = jobs[p]
    BY <2>1, <2>2
  <2> QED
    BY <1>12, <2>1, <2>4, <2>5, <2>6 DEF Heard
<1>13. ASSUME NEW t \in Reading, NEW j \in Jobs(t), Opened(t, j) /\ Heard PROVE JobInv'
  <2> DEFINE named == IF j.thread = NoThread THEN j.of ELSE j.thread
  <2>1. named \in Turns /\ Alike(t, named) /\ t \in Turns
    BY NamedFits
  <2>2. pty[t] \in Turns /\ j \in jobs[pty[t]]
    BY DEF Jobs
  <2>3. \A k \in jobs'[pty[t]] : 
          k \in jobs[pty[t]] \/ k = [of |-> t, kind |-> "turn", thread |-> named]
    BY <1>13, <2>2 DEF Opened, NamesThread, Replaces, Jobs
  <2>4. \A p \in Turns : p # pty[t] => jobs'[p] = jobs[p]
    BY <1>13, <2>2 DEF Opened, NamesThread, Replaces
  <2>5. \A u \in Turns : stage'[u] = "idle" <=> stage[u] = "idle"
    BY <1>13 DEF Opened, NamesThread
  <2> QED
    BY <1>13, <2>1, <2>2, <2>3, <2>4, <2>5 DEF Heard
<1>14. ASSUME NEW t \in Reading, NEW j \in Jobs(t), Hears(t, j) /\ Heard PROVE JobInv'
  <2> DEFINE named == IF j.thread = NoThread THEN j.of ELSE j.thread
  <2>1. named \in Turns /\ Alike(t, named) /\ t \in Turns
    BY NamedFits
  <2>2. pty[t] \in Turns /\ j \in jobs[pty[t]]
    BY DEF Jobs
  <2>3. \A k \in jobs'[pty[t]] : 
          k \in jobs[pty[t]] \/ k = [of |-> t, kind |-> "turn", thread |-> named]
    BY <1>14, <2>2 DEF Hears, NamesThread, Replaces, Jobs
  <2>4. \A p \in Turns : p # pty[t] => jobs'[p] = jobs[p]
    BY <1>14, <2>2 DEF Hears, NamesThread, Replaces
  <2>5. \A u \in Turns : stage'[u] = "idle" <=> stage[u] = "idle"
    BY <1>14 DEF Hears, NamesThread
  <2> QED
    BY <1>14, <2>1, <2>2, <2>3, <2>4, <2>5 DEF Heard
<1>15. ASSUME NEW t \in Reading, NEW j \in Jobs(t), ((StartsThread(t, j) \/ KeepsThread(t, j)) /\ Heard) \/
              (Completes(t, j) /\ Heard) \/ Unread(t, j)
        PROVE JobInv'
  BY <1>15 DEF StartsThread, KeepsThread, Replaces, Jobs, Heard, Completes, Unread
<1>18. ASSUME NEW t \in Reading, Asks(t) \/ GivesUp(t) PROVE JobInv'
  BY <1>18 DEF Asks, GivesUp
<1>20. ASSUME NEW a \in Actors, Forgets(a) \/ Unmaps(a) \/ Closes(a) PROVE JobInv'
  BY <1>20 DEF Forgets, Unmaps, Closes
<1>23. ASSUME NEW c \in Configs \cup {NoConfig}, SaveWrites(c) PROVE JobInv'
  BY <1>23 DEF SaveWrites, Writes
<1>24. CASE SaveUnmaps
  BY <1>24 DEF SaveUnmaps, ClearsStale, IsFor
<1>25. CASE SaveInvalidates
  BY <1>25 DEF SaveInvalidates, Invalidates, Takes
<1>26. CASE BindThread
  BY <1>26 DEF BindThread
<1>27. CASE DeleteThread
  BY <1>27 DEF DeleteThread
<1>28. CASE DropProcess
  BY <1>28 DEF DropProcess, Takes
<1>29. CASE CleanUp
  BY <1>29 DEF CleanUp, Takes
<1>30. ASSUME NEW q \in asked, AnswerTakes(q) PROVE JobInv'
  BY <1>30 DEF AnswerTakes
<1>31. ASSUME NEW q \in taken, AnswerWrites(q) \/ AnswerReturns(q) PROVE JobInv'
  BY <1>31 DEF AnswerWrites, AnswerReturns
<1>33. CASE UNCHANGED codexVars
  BY <1>33 DEF codexVars
<1> QED
  BY <1>1, <1>2, <1>5, <1>6, <1>8, <1>9, <1>10, <1>12, <1>13, <1>14, <1>15, <1>18,
        <1>20, <1>23, <1>24, <1>25, <1>26, <1>27, <1>28, <1>29, <1>30, <1>31, <1>33
     DEF CodexNext, Reads, Heard

\* Every step keeps the configuration of a turn that nobody disturbed.
LEMMA ConfigInvStep ==
  NamesApart /\ TypeInv /\ TypeInv' /\ ProcInv /\ ThreadInv /\ [CodexNext]_codexVars => ConfigInv'
<1> SUFFICES ASSUME NamesApart, TypeInv, TypeInv', ProcInv, ThreadInv, [CodexNext]_codexVars PROVE ConfigInv'
  OBVIOUS
<1> USE DEF TypeInv, CodexTypeOK, Placed, Inside, Reading, Actors, Goto, Nothing, NoSave,
            Prepare, Loop, Leaving, Labels, files, turns, procs, requests, history,
            ThreadInv, ConfigInv, Alike, Begun, NamesApart, ProcInv
<1>1. ASSUME NEW t \in Turns, Begin(t) \/ Refused(t) \/ SyncWrite(t) \/ SyncUnmap(t) \/
             SyncInvalidate(t)
       PROVE ConfigInv'
  BY <1>1 DEF Begin, Refused, SyncWrite, Writes, SyncUnmap, ClearsStale, IsFor,
        SyncInvalidate, Invalidates, Takes
<1>6. ASSUME NEW t \in Turns, LoadState(t) \/ SaveState(t) \/ StaleInUse(t) \/ ReplaceStale(t) \/ Reuse(t)
             \/ Open(t)
       PROVE ConfigInv'
  BY <1>6 DEF LoadState, SaveState, StaleInUse, Acquiring, ReplaceStale, Takes, Reuse, Meets, Open
<1>11. ASSUME NEW t \in Turns, Release(t) PROVE ConfigInv'
  BY <1>11 DEF Release, Takes
<1>12. ASSUME NEW t \in Reading, NEW j \in Jobs(t), (Initialized(t, j) \/ Opened(t, j) \/
              Hears(t, j) \/ StartsThread(t, j) \/ KeepsThread(t, j) \/ Completes(t, j)) /\ Heard
        PROVE ConfigInv'
  BY <1>12 DEF Initialized, Replaces, Jobs, Heard, Opened, NamesThread, Hears,
        StartsThread, KeepsThread, Completes
<1>17. ASSUME NEW t \in Reading, NEW j \in Jobs(t), Unread(t, j) PROVE ConfigInv'
  BY <1>17 DEF Unread, Replaces, Jobs
<1>18. ASSUME NEW t \in Reading, Asks(t) \/ GivesUp(t) PROVE ConfigInv'
  BY <1>18 DEF Asks, GivesUp
<1>20. ASSUME NEW a \in Actors, Forgets(a) \/ Unmaps(a) \/ Closes(a) PROVE ConfigInv'
  BY <1>20 DEF Forgets, Unmaps, Closes
<1>23. ASSUME NEW c \in Configs \cup {NoConfig}, SaveWrites(c) PROVE ConfigInv'
  BY <1>23 DEF SaveWrites, Writes
<1>24. CASE SaveUnmaps \/ BindThread \/ DeleteThread \/ CleanUp
  BY <1>24 DEF SaveUnmaps, ClearsStale, IsFor, BindThread, DeleteThread, CleanUp, Takes
<1>25. CASE SaveInvalidates
  BY <1>25 DEF SaveInvalidates, Invalidates, Takes
<1>28. CASE DropProcess
  BY <1>28 DEF DropProcess, Takes
<1>30. ASSUME NEW q \in asked, AnswerTakes(q) PROVE ConfigInv'
  BY <1>30 DEF AnswerTakes
<1>31. ASSUME NEW q \in taken, AnswerWrites(q) \/ AnswerReturns(q) PROVE ConfigInv'
  BY <1>31 DEF AnswerWrites, AnswerReturns
<1>33. CASE UNCHANGED codexVars
  BY <1>33 DEF codexVars
<1> QED
  BY <1>1, <1>6, <1>11, <1>12, <1>17, <1>18, <1>20, <1>23, <1>24, <1>25, <1>28, <1>30,
        <1>31, <1>33
     DEF CodexNext, Reads, Heard

-----------------------------------------------------------------------------
\* At first no turn is in a process.
LEMMA ServeInit == NamesApart /\ CodexInit => ServeInv
BY DEF NamesApart, CodexInit, ServeInv, RestInv, MetInv, HoldInv, OwnInv, Inside, Loop,
      Leaving, NoEntry, Prepare, Actors

\* Every step leaves a turn that reads nothing to do after the lock.
LEMMA RestInvStep ==
  NamesApart /\ TypeInv /\ TypeInv' /\ ProcInv /\ ThreadInv /\ ServeInv /\ [CodexNext]_codexVars => RestInv'
<1> SUFFICES ASSUME NamesApart, TypeInv, TypeInv', ProcInv, ThreadInv, ServeInv, [CodexNext]_codexVars PROVE
      RestInv'
  OBVIOUS
<1> USE DEF TypeInv, CodexTypeOK, Placed, Inside, Reading, Actors, Goto, Nothing, Prepare,
            Loop, Leaving, Labels, files, turns, procs, requests, history, ServeInv,
            RestInv, NamesApart
<1>1. ASSUME NEW t \in Turns, Begin(t) \/ Refused(t) \/ SyncWrite(t) \/ SyncUnmap(t) \/
             SyncInvalidate(t)
       PROVE RestInv'
  BY <1>1 DEF Begin, Refused, SyncWrite, Writes, SyncUnmap, ClearsStale, IsFor,
        SyncInvalidate, Invalidates, Takes
<1>6. ASSUME NEW t \in Turns, LoadState(t) \/ SaveState(t) \/ StaleInUse(t) \/ ReplaceStale(t) \/ Reuse(t)
             \/ Open(t)
       PROVE RestInv'
  BY <1>6 DEF LoadState, SaveState, StaleInUse, Acquiring, ReplaceStale, Takes, Reuse, Meets, Open
<1>11. ASSUME NEW t \in Turns, Release(t) PROVE RestInv'
  BY <1>11 DEF Release, Takes
<1>12. ASSUME NEW t \in Reading, NEW j \in Jobs(t), (Initialized(t, j) \/ Opened(t, j) \/
              Hears(t, j) \/ StartsThread(t, j) \/ KeepsThread(t, j) \/ Completes(t, j)) /\ Heard
        PROVE RestInv'
  BY <1>12 DEF Initialized, Replaces, Jobs, Heard, Opened, NamesThread, Hears,
        StartsThread, KeepsThread, Completes
<1>17. ASSUME NEW t \in Reading, NEW j \in Jobs(t), Unread(t, j) PROVE RestInv'
  BY <1>17 DEF Unread, Replaces, Jobs
<1>18. ASSUME NEW t \in Reading, Asks(t) \/ GivesUp(t) PROVE RestInv'
  BY <1>18 DEF Asks, GivesUp
<1>20. ASSUME NEW a \in Actors, Forgets(a) PROVE RestInv'
  <2>1. rest[a] # Nothing
    BY <1>20 DEF Forgets
  <2>2. \A b \in Actors : b # a => rest'[b] = rest[b]
    BY <1>20 DEF Forgets
  <2> QED
    BY <1>20, <2>1, <2>2 DEF Forgets
<1>21. ASSUME NEW a \in Actors, Unmaps(a) PROVE RestInv'
  <2>1. rest[a] # Nothing
    BY <1>21 DEF Unmaps
  <2>2. \A b \in Actors : b # a => rest'[b] = rest[b]
    BY <1>21 DEF Unmaps
  <2> QED
    BY <1>21, <2>1, <2>2 DEF Unmaps
<1>22. ASSUME NEW a \in Actors, Closes(a) PROVE RestInv'
  BY <1>22 DEF Closes
<1>23. ASSUME NEW c \in Configs \cup {NoConfig}, SaveWrites(c) PROVE RestInv'
  BY <1>23 DEF SaveWrites, Writes
<1>24. CASE SaveUnmaps \/ BindThread \/ DeleteThread \/ CleanUp
  BY <1>24 DEF SaveUnmaps, ClearsStale, IsFor, BindThread, DeleteThread, CleanUp, Takes
<1>25. CASE SaveInvalidates
  BY <1>25 DEF SaveInvalidates, Invalidates, Takes
<1>28. CASE DropProcess
  BY <1>28 DEF DropProcess, Takes
<1>30. ASSUME NEW q \in asked, AnswerTakes(q) PROVE RestInv'
  BY <1>30 DEF AnswerTakes
<1>31. ASSUME NEW q \in taken, AnswerWrites(q) \/ AnswerReturns(q) PROVE RestInv'
  BY <1>31 DEF AnswerWrites, AnswerReturns
<1>33. CASE UNCHANGED codexVars
  BY <1>33 DEF codexVars
<1> QED
  BY <1>1, <1>6, <1>11, <1>12, <1>17, <1>18, <1>20, <1>21, <1>22, <1>23, <1>24, <1>25,
        <1>28, <1>30, <1>31, <1>33
     DEF CodexNext, Reads, Heard

\* Every step records the turns that meet in a process.
LEMMA MetInvStep ==
  NamesApart /\ TypeInv /\ TypeInv' /\ ProcInv /\ ThreadInv /\ ServeInv /\ [CodexNext]_codexVars => MetInv'
<1> SUFFICES ASSUME NamesApart, TypeInv, TypeInv', ProcInv, ThreadInv, ServeInv, [CodexNext]_codexVars PROVE
      MetInv'
  OBVIOUS
<1> USE DEF TypeInv, CodexTypeOK, Placed, Inside, Reading, Actors, Goto, Nothing, Prepare,
            Loop, Leaving, Labels, files, turns, procs, requests, history, ServeInv,
            RestInv, MetInv, NamesApart
<1>1. ASSUME NEW t \in Turns, Begin(t) \/ Refused(t) \/ SyncWrite(t) \/ SyncUnmap(t) \/
             SyncInvalidate(t)
       PROVE MetInv'
  BY <1>1 DEF Begin, Refused, SyncWrite, Writes, SyncUnmap, ClearsStale, IsFor,
        SyncInvalidate, Invalidates, Takes
<1>6. ASSUME NEW t \in Turns, LoadState(t) \/ SaveState(t) \/ StaleInUse(t) \/ ReplaceStale(t) \/ Reuse(t)
             \/ Open(t)
       PROVE MetInv'
  BY <1>6 DEF LoadState, SaveState, StaleInUse, Acquiring, ReplaceStale, Takes, Reuse, Meets, Open
<1>11. ASSUME NEW t \in Turns, Release(t) PROVE MetInv'
  BY <1>11 DEF Release, Takes
<1>12. ASSUME NEW t \in Reading, NEW j \in Jobs(t), (Initialized(t, j) \/ Opened(t, j) \/
              Hears(t, j) \/ StartsThread(t, j) \/ KeepsThread(t, j) \/ Completes(t, j)) /\ Heard
        PROVE MetInv'
  BY <1>12 DEF Initialized, Replaces, Jobs, Heard, Opened, NamesThread, Hears,
        StartsThread, KeepsThread, Completes
<1>17. ASSUME NEW t \in Reading, NEW j \in Jobs(t), Unread(t, j) PROVE MetInv'
  BY <1>17 DEF Unread, Replaces, Jobs
<1>18. ASSUME NEW t \in Reading, Asks(t) \/ GivesUp(t) PROVE MetInv'
  BY <1>18 DEF Asks, GivesUp
<1>20. ASSUME NEW a \in Actors, Forgets(a) \/ Unmaps(a) \/ Closes(a) PROVE MetInv'
  BY <1>20 DEF Forgets, Unmaps, Closes
<1>23. ASSUME NEW c \in Configs \cup {NoConfig}, SaveWrites(c) PROVE MetInv'
  BY <1>23 DEF SaveWrites, Writes
<1>24. CASE SaveUnmaps \/ BindThread \/ DeleteThread \/ CleanUp
  BY <1>24 DEF SaveUnmaps, ClearsStale, IsFor, BindThread, DeleteThread, CleanUp, Takes
<1>25. CASE SaveInvalidates
  BY <1>25 DEF SaveInvalidates, Invalidates, Takes
<1>28. CASE DropProcess
  BY <1>28 DEF DropProcess, Takes
<1>30. ASSUME NEW q \in asked, AnswerTakes(q) PROVE MetInv'
  BY <1>30 DEF AnswerTakes
<1>31. ASSUME NEW q \in taken, AnswerWrites(q) \/ AnswerReturns(q) PROVE MetInv'
  BY <1>31 DEF AnswerWrites, AnswerReturns
<1>33. CASE UNCHANGED codexVars
  BY <1>33 DEF codexVars
<1> QED
  BY <1>1, <1>6, <1>11, <1>12, <1>17, <1>18, <1>20, <1>23, <1>24, <1>25, <1>28, <1>30,
        <1>31, <1>33
     DEF CodexNext, Reads, Heard

\* Every step leaves a turn that met nobody its process.
LEMMA HoldInvStep ==
  NamesApart /\ TypeInv /\ TypeInv' /\ ProcInv /\ ThreadInv /\ ServeInv /\ [CodexNext]_codexVars => HoldInv'
<1> SUFFICES ASSUME NamesApart, TypeInv, TypeInv', ProcInv, ThreadInv, ServeInv, [CodexNext]_codexVars PROVE
      HoldInv'
  OBVIOUS
<1> USE DEF TypeInv, CodexTypeOK, Placed, Inside, Reading, Actors, Goto, Nothing, Prepare,
            Loop, Leaving, Labels, files, turns, procs, requests, history, ServeInv,
            RestInv, MetInv, HoldInv, NamesApart
<1>1. ASSUME NEW t \in Turns,
             Begin(t) \/ Refused(t) \/ SyncWrite(t) \/ SyncUnmap(t) \/ LoadState(t) \/ SaveState(t)
       PROVE HoldInv'
  <2>1. /\ UNCHANGED <<entry, pty, met, dropped>>
        /\ t \notin Inside /\ stage'[t] \notin Loop \cup Leaving
        /\ stage[t] \in Prepare
        /\ stage' = [stage EXCEPT ![t] = stage'[t]]
    BY <1>1 DEF Begin, Refused, SyncWrite, Writes, SyncUnmap, ClearsStale, IsFor, LoadState, SaveState
  <2>2. Inside' = Inside
    BY <2>1
  <2>3. \A p \in Turns : stage'[p] \in Prepare => stage[p] \in Prepare
    BY <2>1
  <2> QED
    BY <2>1, <2>2, <2>3
<1>5. ASSUME NEW t \in Turns, SyncInvalidate(t) PROVE HoldInv'
  <2>1. Inside' = Inside
        /\ UNCHANGED <<pty, met, dropped>>
        /\ \A p \in Turns : stage'[p] \in Prepare => stage[p] \in Prepare
    BY <1>5 DEF SyncInvalidate
  <2>2. CASE Takes(t, FALSE, FALSE)
    <3>1. entry'.pty = None
      BY <2>2 DEF Takes, NoEntry
    <3>2. (entry # NoEntry /\ ~entry.running) \/ entry = NoEntry
      BY <1>5, <2>2 DEF SyncInvalidate, Invalidates, Takes
    <3>3. ~entry.running
      BY <3>2 DEF NoEntry
    <3> QED
      BY <2>1, <3>1, <3>3
  <2>3. CASE ~Takes(t, FALSE, FALSE)
    <3>1. entry' = entry \/ entry' = [entry EXCEPT !.closing = TRUE]
      BY <1>5, <2>3 DEF SyncInvalidate, Invalidates
    <3>2. entry'.pty = entry.pty /\ entry'.running = entry.running
      BY <3>1 DEF Entries
    <3> QED
      BY <2>1, <3>2
  <2> QED
    BY <2>2, <2>3
<1>7. ASSUME NEW t \in Turns, StaleInUse(t) PROVE HoldInv'
  BY <1>7 DEF StaleInUse, Acquiring
<1>8. ASSUME NEW t \in Turns, ReplaceStale(t) PROVE HoldInv'
  <2>1. entry'.pty = None /\ ~entry.running
    BY <1>8 DEF ReplaceStale, Takes, NoEntry
  <2> QED
    BY <1>8, <2>1 DEF ReplaceStale
<1>9. ASSUME NEW t \in Turns, Reuse(t) PROVE HoldInv'
  BY <1>9 DEF Reuse, Acquiring, Meets
<1>10. ASSUME NEW t \in Turns, Open(t) PROVE HoldInv'
  BY <1>10 DEF Open, Acquiring, Meets
<1>11. ASSUME NEW t \in Turns, Release(t) PROVE HoldInv'
  <2>1. Inside' = Inside \ {t}
        /\ UNCHANGED <<pty, met, dropped>>
        /\ \A p \in Turns : stage'[p] \in Prepare => stage[p] \in Prepare
    BY <1>11 DEF Release
  <2>2. Inside \ {t} \subseteq met
    BY <1>11 DEF Release
  <2>3. entry'.pty \in {entry.pty, None}
    <3>1. CASE entry' = NoEntry
      BY <3>1 DEF NoEntry
    <3>2. CASE entry' = [entry EXCEPT !.running = FALSE]
      BY <3>2 DEF Entries
    <3> QED
      BY <1>11, <3>1, <3>2 DEF Release, Takes
  <2> QED
    BY <2>1, <2>2, <2>3
<1>12. ASSUME NEW t \in Reading, NEW j \in Jobs(t), (Initialized(t, j) \/ Opened(t, j) \/
              Hears(t, j) \/ StartsThread(t, j) \/ KeepsThread(t, j) \/ Completes(t, j)) /\ Heard
        PROVE HoldInv'
  BY <1>12 DEF Initialized, Replaces, Jobs, Heard, Opened, NamesThread, Hears,
        StartsThread, KeepsThread, Completes
<1>17. ASSUME NEW t \in Reading, NEW j \in Jobs(t), Unread(t, j) PROVE HoldInv'
  BY <1>17 DEF Unread, Replaces, Jobs
<1>18. ASSUME NEW t \in Reading, Asks(t) \/ GivesUp(t) PROVE HoldInv'
  BY <1>18 DEF Asks, GivesUp
<1>20. ASSUME NEW a \in Actors, Forgets(a) \/ Unmaps(a) \/ Closes(a) PROVE HoldInv'
  BY <1>20 DEF Forgets, Unmaps, Closes
<1>23. ASSUME NEW c \in Configs \cup {NoConfig}, SaveWrites(c) PROVE HoldInv'
  BY <1>23 DEF SaveWrites, Writes
<1>24. CASE SaveUnmaps \/ BindThread \/ DeleteThread
  BY <1>24 DEF SaveUnmaps, ClearsStale, IsFor, BindThread, DeleteThread
<1>25. CASE SaveInvalidates
  <2>1. Inside' = Inside
        /\ UNCHANGED <<pty, met, dropped>>
        /\ \A p \in Turns : stage'[p] \in Prepare => stage[p] \in Prepare
    BY <1>25 DEF SaveInvalidates
  <2>2. CASE Takes(Host, FALSE, FALSE)
    <3>1. entry'.pty = None
      BY <2>2 DEF Takes, NoEntry
    <3>2. (entry # NoEntry /\ ~entry.running) \/ entry = NoEntry
      BY <1>25, <2>2 DEF SaveInvalidates, Invalidates, Takes
    <3>3. ~entry.running
      BY <3>2 DEF NoEntry
    <3> QED
      BY <2>1, <3>1, <3>3
  <2>3. CASE ~Takes(Host, FALSE, FALSE)
    <3>1. entry' = entry \/ entry' = [entry EXCEPT !.closing = TRUE]
      BY <1>25, <2>3 DEF SaveInvalidates, Invalidates
    <3>2. entry'.pty = entry.pty /\ entry'.running = entry.running
      BY <3>1 DEF Entries
    <3> QED
      BY <2>1, <3>2
  <2> QED
    BY <2>2, <2>3
<1>28. CASE DropProcess
  <2>1. CASE entry = NoEntry
    BY <1>28, <2>1 DEF DropProcess
  <2>2. CASE entry # NoEntry
    <3>1. entry'.pty = None /\ dropped' = dropped \cup {entry.pty} /\ UNCHANGED <<stage, pty, met>>
      BY <1>28, <2>2 DEF DropProcess, Takes, NoEntry
    <3>2. stage[entry.pty] \notin Prepare
      BY <2>2 DEF ProcInv
    <3> QED
      BY <3>1, <3>2
  <2> QED
    BY <2>1, <2>2
<1>29. CASE CleanUp
  <2>1. entry'.pty = None /\ ~entry.running
    BY <1>29 DEF CleanUp, Takes, NoEntry
  <2> QED
    BY <1>29, <2>1 DEF CleanUp
<1>30. ASSUME NEW q \in asked, AnswerTakes(q) PROVE HoldInv'
  BY <1>30 DEF AnswerTakes
<1>31. ASSUME NEW q \in taken, AnswerWrites(q) \/ AnswerReturns(q) PROVE HoldInv'
  BY <1>31 DEF AnswerWrites, AnswerReturns
<1>33. CASE UNCHANGED codexVars
  BY <1>33 DEF codexVars
<1> QED
  BY <1>1, <1>5, <1>7, <1>8, <1>9, <1>10, <1>11, <1>12, <1>17, <1>18, <1>20, <1>23,
        <1>24, <1>25, <1>28, <1>29, <1>30, <1>31, <1>33
     DEF CodexNext, Reads, Heard

\* Every step leaves such a turn the one job it waits for.
LEMMA OwnInvStep ==
  NamesApart /\ TypeInv /\ TypeInv' /\ ProcInv /\ ThreadInv /\ ServeInv /\ [CodexNext]_codexVars => OwnInv'
<1> SUFFICES ASSUME NamesApart, TypeInv, TypeInv', ProcInv, ThreadInv, ServeInv, [CodexNext]_codexVars PROVE
      OwnInv'
  OBVIOUS
<1> USE DEF TypeInv, CodexTypeOK, Placed, Inside, Reading, Actors, Goto, Nothing, Prepare,
            Loop, Leaving, Labels, files, turns, procs, requests, history, ServeInv,
            RestInv, MetInv, HoldInv, OwnInv, IsToClose, Spoilt, Jobs, NamesApart
<1>1. ASSUME NEW t \in Turns,
             Begin(t) \/ Refused(t) \/ SyncWrite(t) \/ SyncUnmap(t) \/ LoadState(t) \/ SaveState(t)
       PROVE OwnInv'
  <2>1. /\ UNCHANGED <<pty, met, dropped, rest, jobs>>
        /\ t \notin Inside /\ stage'[t] \notin Loop \cup Leaving
        /\ stage' = [stage EXCEPT ![t] = stage'[t]]
    BY <1>1 DEF Begin, Refused, SyncWrite, Writes, SyncUnmap, ClearsStale, IsFor, LoadState, SaveState
  <2>2. Inside' = Inside /\ \A u \in Inside : stage'[u] = stage[u]
    BY <2>1
  <2>3. \A p \in Turns : (Spoilt(p) <=> Spoilt(p)') /\ (IsToClose(p) <=> IsToClose(p)')
    BY <2>1
  <2>4. \A u \in Inside : Jobs(u)' = Jobs(u)
    BY <2>1
  <2> QED
    BY <2>1, <2>2, <2>3, <2>4
<1>5. ASSUME NEW t \in Turns, SyncInvalidate(t) PROVE OwnInv'
  <2>1. \A p \in Turns : IsToClose(p) => IsToClose(p)'
    <3>1. CASE rest' = rest
      BY <3>1
    <3>2. CASE Takes(t, FALSE, FALSE)
      BY <3>2 DEF Takes
    <3> QED
      BY <1>5, <3>1, <3>2 DEF SyncInvalidate, Invalidates
  <2> QED
    BY <1>5, <2>1 DEF SyncInvalidate
<1>7. ASSUME NEW t \in Turns, StaleInUse(t) PROVE OwnInv'
  BY <1>7, SMTT(60) DEF StaleInUse, Acquiring
<1>8. ASSUME NEW t \in Turns, ReplaceStale(t) PROVE OwnInv'
  BY <1>8, SMTT(60) DEF ReplaceStale, Acquiring, Takes
<1>9. ASSUME NEW t \in Turns, Reuse(t) PROVE OwnInv'
  <2>1. t \notin Inside /\ t \notin met /\ entry.pty \in Turns /\ ~IsToClose(entry.pty)
        /\ entry.pty \notin dropped
    BY <1>9 DEF Reuse, Acquiring, ProcInv
  <2>2. Inside' = Inside \cup {t} /\ met \subseteq met' /\ UNCHANGED <<dropped, rest>>
        /\ pty' = [pty EXCEPT ![t] = entry.pty]
    BY <1>9 DEF Reuse, Meets
  <2>3. PICK new : new.of = t /\ new.kind = stage'[t]
                    /\ jobs' = [jobs EXCEPT ![entry.pty] = @ \cup {new}]
    <3>1. PICK kind \in Loop :
            stage' = [stage EXCEPT ![t] = kind] /\
            jobs' = [jobs EXCEPT ![entry.pty] =
                       @ \cup {[of |-> t, kind |-> kind, thread |-> thread[t]]}]
      BY <1>9 DEF Reuse
    <3>2. /\ [of |-> t, kind |-> kind, thread |-> thread[t]].of = t
          /\ [of |-> t, kind |-> kind, thread |-> thread[t]].kind = kind
      OBVIOUS
    <3>3. stage'[t] = kind
      BY <3>1
    <3> QED
      BY <3>1, <3>2, <3>3
  <2>4. \A p \in Turns : \A j \in jobs'[p] :
          j.of \in Inside' \/ Spoilt(p)' \/ p \in dropped' \/ IsToClose(p)'
    <3>1. \A p \in Turns : Spoilt(p) => Spoilt(p)'
      BY <2>1, <2>2
    <3>2. \A p \in Turns : \A j \in jobs'[p] : j.of = t \/ j \in jobs[p]
      BY <2>1, <2>3
    <3> QED
      BY <2>2, <3>1, <3>2
  <2>5. CASE Inside # {} \/ Spoilt(entry.pty)
    <3>1. Inside' \subseteq met'
      BY <1>9, <2>2, <2>5 DEF Reuse, Meets
    <3> QED
      BY <2>4, <3>1
  <2>6. CASE Inside = {} /\ ~Spoilt(entry.pty)
    <3>1. jobs[entry.pty] = {}
      BY <2>1, <2>6, SMTT(60)
    <3>2. Inside' = {t} /\ pty'[t] = entry.pty /\ jobs'[entry.pty] = {new}
      BY <2>1, <2>2, <2>3, <2>6, <3>1
    <3>3. stage'[t] # "release"
      BY <1>9 DEF Reuse
    <3> QED
      BY <2>3, <2>4, <3>2, <3>3
  <2> QED
    BY <2>5, <2>6
<1>10. ASSUME NEW t \in Turns, Open(t) PROVE OwnInv'
  <2>1. t \notin Inside
    BY <1>10 DEF Open, Acquiring
  <2>2. Inside' = Inside \cup {t} /\ met \subseteq met' /\ UNCHANGED <<dropped, rest>>
        /\ pty' = [pty EXCEPT ![t] = t] /\ t \notin met
    BY <1>10 DEF Open, Meets, Acquiring, ProcInv
  <2>3. PICK new : new.of = t /\ new.kind = stage'[t] /\ jobs' = [jobs EXCEPT ![t] = {new}]
    <3>1. /\ [of |-> t, kind |-> "init", thread |-> thread[t]].of = t
          /\ [of |-> t, kind |-> "init", thread |-> thread[t]].kind = "init"
      OBVIOUS
    <3>2. stage'[t] = "init"
          /\ jobs' = [jobs EXCEPT ![t] = {[of |-> t, kind |-> "init", thread |-> thread[t]]}]
      BY <1>10 DEF Open
    <3> QED
      BY <3>1, <3>2
  <2>4. \A p \in Turns : \A j \in jobs'[p] :
          j.of \in Inside' \/ Spoilt(p)' \/ p \in dropped' \/ IsToClose(p)'
    <3>1. \A p \in Turns : Spoilt(p) => Spoilt(p)'
      BY <2>1, <2>2
    <3>2. \A p \in Turns : \A j \in jobs'[p] : j.of = t \/ j \in jobs[p]
      BY <2>1, <2>3
    <3> QED
      BY <2>2, <3>1, <3>2
  <2>5. CASE Inside # {}
    <3>1. Inside' \subseteq met'
      BY <1>10, <2>2, <2>5 DEF Open, Meets
    <3> QED
      BY <2>4, <3>1
  <2>6. CASE Inside = {}
    <3>1. Inside' = {t} /\ pty'[t] = t /\ jobs'[t] = {new}
      BY <2>1, <2>2, <2>3, <2>6
    <3>2. stage'[t] # "release"
      BY <1>10 DEF Open
    <3> QED
      BY <2>3, <2>4, <3>1, <3>2
  <2> QED
    BY <2>5, <2>6
<1>11. ASSUME NEW t \in Turns, Release(t) PROVE OwnInv'
  <2>1. t \in Inside /\ Inside' = Inside \ {t} /\ UNCHANGED <<pty, met, dropped, jobs>>
    BY <1>11 DEF Release
  <2>2. Inside \ {t} \subseteq met
    BY <2>1
  <2>3. \A p \in Turns : IsToClose(p) => IsToClose(p)'
    <3>1. CASE Takes(t, TRUE, entry.closing)
      BY <3>1 DEF Takes
    <3>2. CASE ~Takes(t, TRUE, entry.closing)
      <4>1. rest' = [rest EXCEPT ![t].forget = (stage[t] = "close")]
        BY <1>11, <3>2 DEF Release
      <4> QED
        BY <4>1 DEF Rest
    <3> QED
      BY <3>1, <3>2
  <2>4. \A p \in Turns : \A j \in jobs[p] :
          j.of = t => Spoilt(p) \/ p \in dropped \/ IsToClose(p)'
    <3> SUFFICES ASSUME NEW p \in Turns, NEW j \in jobs[p], j.of = t, t \notin met, p \notin dropped
                 PROVE  IsToClose(p)'
      BY <2>1 DEF JobInv, ThreadInv
    <3>1. pty[t] = p /\ entry.pty = p /\ entry # NoEntry
      BY <2>1 DEF JobInv, ThreadInv, NoEntry
    <3>2. stage[t] = "close"
      BY <1>11, <2>1, <3>1 DEF Release
    <3>3. Takes(t, TRUE, entry.closing)
      BY <1>11, <3>1, <3>2 DEF Release
    <3> QED
      BY <3>1, <3>3 DEF Takes
  <2> QED
    BY <2>1, <2>2, <2>3, <2>4
<1>12. ASSUME NEW t \in Reading, NEW j \in Jobs(t), Initialized(t, j) /\ Heard PROVE OwnInv'
  <2>0. t \in Turns /\ pty[t] \in Turns /\ j \in Job /\ j \in jobs[pty[t]]
        /\ stage[t] \in Loop /\ t \in Inside
    BY DEF Jobs

  <2>1. Inside' = Inside /\ \A u \in Turns : stage'[u] = "release" => stage[u] = "release"
    BY <1>12 DEF Initialized
  <2>2. UNCHANGED <<pty, met, dropped, rest>>
    BY <1>12 DEF Heard
  <2>3. PICK moved : moved.of = j.of
          /\ \/ j.of # t /\ jobs' = [jobs EXCEPT ![pty[t]] = @ \ {j}]
             \/ moved.kind = stage'[t] /\ jobs' = [jobs EXCEPT ![pty[t]] = (@ \ {j}) \cup {moved}]
    <3>1. PICK kind \in Loop :
            \/ j.of # t /\ jobs' = [jobs EXCEPT ![pty[t]] = @ \ {j}]
            \/ stage' = [stage EXCEPT ![t] = kind]
               /\ jobs' = [jobs EXCEPT ![pty[t]] = (@ \ {j}) \cup {[j EXCEPT !.kind = kind]}]
      BY <1>12 DEF Initialized, Replaces, Jobs
    <3>2. [j EXCEPT !.kind = kind].of = j.of /\ [j EXCEPT !.kind = kind].kind = kind
      BY <2>0 DEF Job
    <3>3. CASE j.of # t /\ jobs' = [jobs EXCEPT ![pty[t]] = @ \ {j}]
      BY <3>2, <3>3
    <3>4. CASE stage' = [stage EXCEPT ![t] = kind]
               /\ jobs' = [jobs EXCEPT ![pty[t]] = (@ \ {j}) \cup {[j EXCEPT !.kind = kind]}]
      <4>1. stage'[t] = kind
        BY <2>0, <3>4
      <4> QED
        BY <3>2, <3>4, <4>1
    <3> QED
      BY <3>1, <3>3, <3>4
  <2>4. \A p \in Turns : \A k \in jobs'[p] :
          k.of \in Inside' \/ Spoilt(p)' \/ p \in dropped' \/ IsToClose(p)'
    BY <2>0, <2>1, <2>2, <2>3
  <2>5. CASE t \in met
    <3>1. Inside' \subseteq met'
      BY <2>1, <2>2, <2>5
    <3> QED
      BY <2>4, <3>1
  <2>6. CASE t \notin met
    <3>1. Inside' = {t} /\ met' = met /\ pty' = pty
      BY <2>0, <2>1, <2>2, <2>6
    <3>2. jobs[pty[t]] = {j} /\ j.of = t /\ j.kind = stage[t]
      BY <2>0, <2>6
    <3>3. \A k \in jobs'[pty[t]] : k.of = t /\ jobs'[pty[t]] = {k} /\ k.kind = stage'[t]
      BY <1>12, <2>0, <2>3, <3>2 DEF Initialized
    <3>4. stage'[t] # "release"
      BY <2>0, <2>1
    <3> QED
      BY <2>4, <3>1, <3>3, <3>4
  <2> QED
    BY <2>5, <2>6
<1>13. ASSUME NEW t \in Reading, NEW j \in Jobs(t), Opened(t, j) /\ Heard PROVE OwnInv'
  <2>0. t \in Turns /\ pty[t] \in Turns /\ j \in Job /\ j \in jobs[pty[t]]
        /\ stage[t] \in Loop /\ t \in Inside
    BY DEF Jobs

  <2>1. Inside' = Inside /\ \A u \in Turns : stage'[u] = "release" => stage[u] = "release"
    BY <1>13 DEF Opened, NamesThread
  <2>2. UNCHANGED <<pty, met, dropped, rest>>
    BY <1>13 DEF Heard
  <2>3. PICK new : new.of = t /\ new.kind = "turn"
          /\ \/ stage' = stage /\ stage[t] \notin {"resume", "start"}
                /\ jobs' = [jobs EXCEPT ![pty[t]] = @ \ {j}]
             \/ stage[t] \in {"resume", "start"} /\ stage' = [stage EXCEPT ![t] = "turn"]
                /\ jobs' = [jobs EXCEPT ![pty[t]] = (@ \ {j}) \cup {new}]
    <3> DEFINE named == IF j.thread = NoThread THEN j.of ELSE j.thread
    <3>1. [of |-> t, kind |-> "turn", thread |-> named].of = t
          /\ [of |-> t, kind |-> "turn", thread |-> named].kind = "turn"
      OBVIOUS
    <3> QED
      BY <1>13, <2>0, <3>1 DEF Opened, NamesThread, Replaces, Jobs
  <2>4. \A p \in Turns : \A k \in jobs'[p] :
          k.of \in Inside' \/ Spoilt(p)' \/ p \in dropped' \/ IsToClose(p)'
    BY <2>0, <2>1, <2>2, <2>3
  <2>5. CASE t \in met
    <3>1. Inside' \subseteq met'
      BY <2>1, <2>2, <2>5
    <3> QED
      BY <2>4, <3>1
  <2>6. CASE t \notin met
    <3>1. Inside' = {t} /\ met' = met /\ pty' = pty
      BY <2>0, <2>1, <2>2, <2>6
    <3>2. jobs[pty[t]] = {j} /\ j.of = t /\ j.kind = stage[t]
      BY <2>0, <2>6
    <3>3. \A k \in jobs'[pty[t]] : k.of = t /\ jobs'[pty[t]] = {k} /\ k.kind = stage'[t]
      BY <1>13, <2>0, <2>3, <3>2 DEF Opened
    <3>4. stage'[t] # "release"
      BY <2>0, <2>1
    <3> QED
      BY <2>4, <3>1, <3>3, <3>4
  <2> QED
    BY <2>5, <2>6
<1>14. ASSUME NEW t \in Reading, NEW j \in Jobs(t), Hears(t, j) /\ Heard PROVE OwnInv'
  <2>0. t \in Turns /\ pty[t] \in Turns /\ j \in Job /\ j \in jobs[pty[t]]
        /\ stage[t] \in Loop /\ t \in Inside
    BY DEF Jobs

  <2>1. Inside' = Inside /\ \A u \in Turns : stage'[u] = "release" => stage[u] = "release"
    BY <1>14 DEF Hears, NamesThread
  <2>2. UNCHANGED <<pty, met, dropped, rest>>
    BY <1>14 DEF Heard
  <2>3. PICK new : new.of = t /\ new.kind = "turn"
          /\ \/ stage' = stage /\ stage[t] \notin {"resume", "start"}
                /\ jobs' = [jobs EXCEPT ![pty[t]] = @]
             \/ stage[t] \in {"resume", "start"} /\ stage' = [stage EXCEPT ![t] = "turn"]
                /\ \/ jobs' = [jobs EXCEPT ![pty[t]] = @ \cup {new}]
                   \/ jobs' = [jobs EXCEPT ![pty[t]] = (@ \ {j}) \cup {new}]
    <3> DEFINE named == IF j.thread = NoThread THEN j.of ELSE j.thread
    <3>1. [of |-> t, kind |-> "turn", thread |-> named].of = t
          /\ [of |-> t, kind |-> "turn", thread |-> named].kind = "turn"
      OBVIOUS
    <3> QED
      BY <1>14, <2>0, <3>1 DEF Hears, NamesThread, Replaces, Jobs
  <2>4. \A p \in Turns : \A k \in jobs'[p] :
          k.of \in Inside' \/ Spoilt(p)' \/ p \in dropped' \/ IsToClose(p)'
    BY <2>0, <2>1, <2>2, <2>3
  <2>5. CASE t \in met
    <3>1. Inside' \subseteq met'
      BY <2>1, <2>2, <2>5
    <3> QED
      BY <2>4, <3>1
  <2>6. CASE t \notin met
    <3>1. Inside' = {t} /\ met' = met /\ pty' = pty
      BY <2>0, <2>1, <2>2, <2>6
    <3>2. jobs[pty[t]] = {j} /\ j.of = t /\ j.kind = stage[t]
      BY <2>0, <2>6
    <3>3. \A k \in jobs'[pty[t]] : k.of = t /\ jobs'[pty[t]] = {k} /\ k.kind = stage'[t]
      BY <1>14, <2>0, <2>3, <3>2 DEF Hears
    <3>4. stage'[t] # "release"
      BY <2>0, <2>1
    <3> QED
      BY <2>4, <3>1, <3>3, <3>4
  <2> QED
    BY <2>5, <2>6
<1>15. ASSUME NEW t \in Reading, NEW j \in Jobs(t), (StartsThread(t, j) \/ KeepsThread(t, j)) /\ Heard
        PROVE OwnInv'
  <2>1. CASE StartsThread(t, j)
    BY <1>15, <2>1 DEF StartsThread, Replaces, Jobs, Heard
  <2>2. CASE KeepsThread(t, j)
    <3>1. stage' = [stage EXCEPT ![t] = "turn"] /\ Inside' = Inside /\ UNCHANGED <<pty, met, dropped, rest>>
      BY <1>15, <2>2 DEF KeepsThread, Heard
    <3>2. jobs' = [jobs EXCEPT ![pty[t]] = (Jobs(t) \ {j}) \cup
                     {[of |-> t, kind |-> "turn", thread |-> thread[t]]}]
      BY <2>2 DEF KeepsThread, Replaces
    <3> QED
      BY <1>15, <2>2, <3>1, <3>2 DEF Jobs
  <2> QED
    BY <1>15, <2>1, <2>2
<1>16. ASSUME NEW t \in Reading, NEW j \in Jobs(t), Completes(t, j) /\ Heard PROVE OwnInv'
  BY <1>16, SMTT(60) DEF Completes, Replaces, Jobs, Heard
<1>17. ASSUME NEW t \in Reading, NEW j \in Jobs(t), Unread(t, j) PROVE OwnInv'
  BY <1>17, SMTT(60) DEF Unread, Replaces, Jobs
<1>18. ASSUME NEW t \in Reading, Asks(t) \/ GivesUp(t) PROVE OwnInv'
  <2>1. CASE Asks(t)
    <3>1. UNCHANGED <<stage, pty, jobs, rest, met, dropped>>
      BY <2>1 DEF Asks
    <3> QED
      BY <3>1
  <2>2. CASE GivesUp(t)
    <3>1. /\ UNCHANGED <<pty, jobs, rest, met, dropped>>
          /\ stage' = [stage EXCEPT ![t] = "close"] /\ t \in Inside
      BY <2>2 DEF GivesUp
    <3>2. Inside' = Inside /\ \A u \in Inside : u # t => stage'[u] = stage[u]
      BY <3>1
    <3>3. stage'[t] = "close" /\ "close" \notin Loop /\ "close" # "release"
      BY <3>1
    <3> QED
      BY <3>1, <3>2, <3>3, SMTT(60)
  <2> QED
    BY <1>18, <2>1, <2>2
<1>20. ASSUME NEW a \in Actors, Forgets(a) PROVE OwnInv'
  BY <1>20, SMTT(60) DEF Forgets
<1>21. ASSUME NEW a \in Actors, Unmaps(a) PROVE OwnInv'
  BY <1>21, SMTT(60) DEF Unmaps
<1>22. ASSUME NEW a \in Actors, Closes(a) PROVE OwnInv'
  BY <1>22, SMTT(60) DEF Closes
<1>23. ASSUME NEW c \in Configs \cup {NoConfig}, SaveWrites(c) PROVE OwnInv'
  BY <1>23, SMTT(60) DEF SaveWrites, Writes
<1>24. CASE SaveUnmaps
  BY <1>24, SMTT(60) DEF SaveUnmaps, ClearsStale, IsFor
<1>25. CASE SaveInvalidates
  BY <1>25, SMTT(60) DEF SaveInvalidates, Invalidates, Takes
<1>26. CASE BindThread
  BY <1>26, SMTT(60) DEF BindThread
<1>27. CASE DeleteThread
  BY <1>27, SMTT(60) DEF DeleteThread
<1>28. CASE DropProcess
  BY <1>28, SMTT(60) DEF DropProcess, Takes
<1>29. CASE CleanUp
  BY <1>29, SMTT(60) DEF CleanUp, Takes
<1>30. ASSUME NEW q \in asked, AnswerTakes(q) PROVE OwnInv'
  BY <1>30, SMTT(60) DEF AnswerTakes
<1>31. ASSUME NEW q \in taken, AnswerWrites(q) \/ AnswerReturns(q) PROVE OwnInv'
  BY <1>31, SMTT(60) DEF AnswerWrites, AnswerReturns
<1>33. CASE UNCHANGED codexVars
  BY <1>33, SMTT(60) DEF codexVars
<1> QED
  BY <1>1, <1>5, <1>7, <1>8, <1>9, <1>10, <1>11, <1>12, <1>13, <1>14, <1>15,
        <1>16, <1>17, <1>18, <1>20, <1>21, <1>22, <1>23, <1>24, <1>25, <1>26, <1>27,
        <1>28, <1>29, <1>30, <1>31, <1>33
     DEF CodexNext, Reads, Heard

-----------------------------------------------------------------------------
\* At first nobody has asked.
LEMMA ReachInit == CodexInit => ReachInv
BY DEF CodexInit, ReachInv, AnswerReachesAsker

\* Every step keeps the waiting requests with the process that asked, or excused.
LEMMA ReachStep ==
  NamesApart /\ TypeInv /\ TypeInv' /\ ProcInv /\ ServeInv /\ ReachInv /\ [CodexNext]_codexVars => ReachInv'
<1> SUFFICES ASSUME NamesApart, TypeInv, TypeInv', ProcInv, ServeInv, ReachInv, [CodexNext]_codexVars PROVE
      ReachInv'
  OBVIOUS
<1> USE DEF TypeInv, CodexTypeOK, Placed, Inside, Reading, Actors, Goto, Nothing, Loop,
            Leaving, Labels, files, turns, procs, requests, history, ServeInv, NamesApart,
            ReachInv, Excused, AnswerReachesAsker, Requests
<1>1. ASSUME NEW t \in Turns, Begin(t) \/ Refused(t) \/ SyncWrite(t) \/ SyncUnmap(t) \/
             LoadState(t) \/ SaveState(t)
       PROVE ReachInv'
  BY <1>1, SMTT(60) DEF Begin, Refused, SyncWrite, Writes, SyncUnmap, ClearsStale, IsFor, LoadState, SaveState
<1>5. ASSUME NEW t \in Turns, SyncInvalidate(t) PROVE ReachInv'
  <2>1. UNCHANGED <<asked, taken, given, met, dropped>>
    BY <1>5 DEF SyncInvalidate
  <2>2. CASE Takes(t, FALSE, FALSE)
    <3>1. entry # NoEntry => strays' = strays \cup asked \cup taken
      BY <1>5, <2>2 DEF SyncInvalidate, Invalidates, Takes
    <3>2. CASE entry = NoEntry
      <4>1. entry.pty = None /\ UNCHANGED <<entry, rest, strays>>
        BY <1>5, <3>2 DEF SyncInvalidate, Invalidates, NoEntry
      <4> QED
        BY <2>1, <4>1
    <3>3. CASE entry # NoEntry
      BY <2>1, <3>1, <3>3
    <3> QED
      BY <3>2, <3>3
  <2>3. CASE ~Takes(t, FALSE, FALSE)
    <3>1. rest' = rest /\ strays' = strays
          /\ (entry' = entry \/ entry' = [entry EXCEPT !.closing = TRUE])
      BY <1>5, <2>3 DEF SyncInvalidate, Invalidates
    <3>2. entry'.pty = entry.pty
      BY <3>1 DEF Entries
    <3> QED
      BY <2>1, <3>1, <3>2
  <2> QED
    BY <2>2, <2>3
<1>7. ASSUME NEW t \in Turns, StaleInUse(t) PROVE ReachInv'
  BY <1>7, SMTT(60) DEF StaleInUse, Acquiring
<1>8. ASSUME NEW t \in Turns, ReplaceStale(t) PROVE ReachInv'
  BY <1>8, SMTT(60) DEF ReplaceStale, Acquiring, Takes
<1>9. ASSUME NEW t \in Turns, Reuse(t) PROVE ReachInv'
  BY <1>9, SMTT(60) DEF Reuse, Acquiring, Meets
<1>10. ASSUME NEW t \in Turns, Open(t) PROVE ReachInv'
  <2>1. UNCHANGED <<asked, taken, strays, given, dropped, rest>> /\ met \subseteq met'
        /\ entry.pty = None
    BY <1>10 DEF Open, Meets, NoEntry
  <2> QED
    BY <2>1
<1>11. ASSUME NEW t \in Turns, Release(t) PROVE ReachInv'
  <2>1. UNCHANGED <<asked, taken, strays, given, dropped, met>>
    BY <1>11 DEF Release
  <2>2. t \in Inside /\ t \in Actors /\ ~rest[t].forget
    BY <1>11 DEF Release, RestInv
  <2>3. CASE Takes(t, TRUE, entry.closing)
    <3>1. rest'[t].forget
      BY <2>2, <2>3 DEF Takes
    <3> QED
      BY <2>1, <2>2, <3>1
  <2>4. CASE ~Takes(t, TRUE, entry.closing)
    <3>1. rest' = [rest EXCEPT ![t].forget = (stage[t] = "close")]
          /\ (entry' = entry \/ entry' = [entry EXCEPT !.running = FALSE])
      BY <1>11, <2>4 DEF Release
    <3>2. entry'.pty = entry.pty
      BY <3>1 DEF Entries
    <3>3. \A a \in Actors : rest[a].forget => rest'[a].forget
      BY <2>2, <3>1
    <3> QED
      BY <2>1, <3>2, <3>3
  <2> QED
    BY <2>3, <2>4
<1>12. ASSUME NEW t \in Reading, NEW j \in Jobs(t), (Initialized(t, j) \/ Opened(t, j) \/
              Hears(t, j) \/ StartsThread(t, j) \/ KeepsThread(t, j) \/ Completes(t, j)) /\ Heard
        PROVE ReachInv'
  BY <1>12, SMTT(60) DEF Initialized, Replaces, Jobs, Heard, Opened, NamesThread, Hears,
        StartsThread, KeepsThread, Completes
<1>17. ASSUME NEW t \in Reading, NEW j \in Jobs(t), Unread(t, j) PROVE ReachInv'
  BY <1>17, SMTT(60) DEF Unread, Replaces, Jobs
<1>18. ASSUME NEW t \in Reading, Asks(t) PROVE ReachInv'
  <2>1. PICK q \in Requests : /\ q.pty = pty[t] /\ q.by = t
                              /\ asked' = asked \cup {q}
                              /\ UNCHANGED <<entry, rest, taken, strays, given, met, dropped>>
    <3>1. [pty |-> pty[t], by |-> t] \in Requests
      BY DEF Requests
    <3> QED
      BY <1>18, <3>1 DEF Asks
  <2>2. t \in met \/ pty[t] \in dropped \/ entry.pty = pty[t]
    BY DEF HoldInv
  <2> QED
    BY <2>1, <2>2
<1>19. ASSUME NEW t \in Reading, GivesUp(t) PROVE ReachInv'
  BY <1>19, SMTT(60) DEF GivesUp
<1>20. ASSUME NEW a \in Actors, Forgets(a) \/ Unmaps(a) \/ Closes(a) PROVE ReachInv'
  BY <1>20, SMTT(60) DEF Forgets, Unmaps, Closes
<1>23. ASSUME NEW c \in Configs \cup {NoConfig}, SaveWrites(c) PROVE ReachInv'
  BY <1>23, SMTT(60) DEF SaveWrites, Writes
<1>24. CASE SaveUnmaps \/ BindThread \/ DeleteThread
  <2>1. UNCHANGED <<entry, rest, asked, taken, strays, given, met, dropped>>
    BY <1>24 DEF SaveUnmaps, BindThread, DeleteThread
  <2> QED
    BY <2>1
<1>25. CASE SaveInvalidates
  <2>1. UNCHANGED <<asked, taken, given, met, dropped>>
    BY <1>25 DEF SaveInvalidates
  <2>2. CASE Takes(Host, FALSE, FALSE)
    <3>1. entry # NoEntry => strays' = strays \cup asked \cup taken
      BY <1>25, <2>2 DEF SaveInvalidates, Invalidates, Takes
    <3>2. CASE entry = NoEntry
      <4>1. entry.pty = None /\ UNCHANGED <<entry, rest, strays>>
        BY <1>25, <3>2 DEF SaveInvalidates, Invalidates, NoEntry
      <4> QED
        BY <2>1, <4>1
    <3>3. CASE entry # NoEntry
      BY <2>1, <3>1, <3>3
    <3> QED
      BY <3>2, <3>3
  <2>3. CASE ~Takes(Host, FALSE, FALSE)
    <3>1. rest' = rest /\ strays' = strays
          /\ (entry' = entry \/ entry' = [entry EXCEPT !.closing = TRUE])
      BY <1>25, <2>3 DEF SaveInvalidates, Invalidates
    <3>2. entry'.pty = entry.pty
      BY <3>1 DEF Entries
    <3> QED
      BY <2>1, <3>1, <3>2
  <2> QED
    BY <2>2, <2>3
<1>28. CASE DropProcess
  BY <1>28, SMTT(60) DEF DropProcess, Takes
<1>29. CASE CleanUp
  BY <1>29, SMTT(60) DEF CleanUp, Takes
<1>30. ASSUME NEW q \in asked, AnswerTakes(q) PROVE ReachInv'
  BY <1>30, SMTT(60) DEF AnswerTakes
<1>31. ASSUME NEW q \in taken, AnswerWrites(q) \/ AnswerReturns(q) PROVE ReachInv'
  BY <1>31, SMTT(60) DEF AnswerWrites, AnswerReturns
<1>33. CASE UNCHANGED codexVars
  BY <1>33, SMTT(60) DEF codexVars
<1> QED
  BY <1>1, <1>5, <1>7, <1>8, <1>9, <1>10, <1>11, <1>12, <1>17, <1>18, <1>19, <1>20,
        <1>23, <1>24, <1>25, <1>28, <1>29, <1>30, <1>31, <1>33
     DEF CodexNext, Reads, Heard

-----------------------------------------------------------------------------
\* The invariant is inductive.
LEMMA Inductive == ASSUME NamesApart PROVE CodexSpec => []CodexInv
<1>1. CodexInit => CodexInv
  BY TypeInit, ProcInit, ThreadInit, ServeInit, ReachInit DEF CodexInv
<1>2. CodexInv /\ [CodexNext]_codexVars => CodexInv'
  <2> SUFFICES ASSUME CodexInv, [CodexNext]_codexVars PROVE CodexInv'
    OBVIOUS
  <2>1. TypeInv'
    BY TypeStep DEF CodexInv
  <2>2. ProcInv'
    BY <2>1, ProcStep DEF CodexInv
  <2>3. ThreadInv'
    BY <2>1, FitInvStep, MapInvStep, JobInvStep, ConfigInvStep DEF CodexInv, ThreadInv
  <2>4. ServeInv'
    BY <2>1, RestInvStep, MetInvStep, HoldInvStep, OwnInvStep DEF CodexInv, ServeInv
  <2>5. ReachInv'
    BY <2>1, ReachStep DEF CodexInv
  <2> QED
    BY <2>1, <2>2, <2>3, <2>4, <2>5 DEF CodexInv
<1> QED
  BY <1>1, <1>2, PTL DEF CodexSpec

\* Every variable keeps to its type, whatever turns, settings and answers do at once.
THEOREM CodexTypeCorrect == ASSUME NamesApart PROVE CodexSpec => []CodexTypeOK
<1>1. CodexInv => CodexTypeOK
  BY DEF CodexInv, TypeInv
<1> QED
  BY <1>1, Inductive, PTL

\* release_session_process, acquire_session_process, cleanup_idle_sessions,
\* invalidate_sessions_for_config: an app-server that is open is in the table or
\* somebody is about to close it, in every interleaving.
THEOREM AccountedAlways == ASSUME NamesApart PROVE CodexSpec => []ProcessAccounted
<1>1. CodexInv => ProcessAccounted
  BY DEF CodexInv, ProcInv
<1> QED
  BY <1>1, Inductive, PTL

\* invalidate_sessions_for_config, cleanup_idle_sessions, release_session_process:
\* a turn that overlapped no other keeps its process until its end, and leaves no
\* request behind in a process that goes on.
THEOREM ServesAlways == ASSUME NamesApart PROVE CodexSpec => []ProcessServesTurn
<1>1. CodexInv => ProcessServesTurn
  <2> SUFFICES ASSUME CodexInv PROVE ProcessServesTurn
    OBVIOUS
  <2>1. ASSUME NEW t \in Reading \ met, pty[t] \notin dropped
        PROVE  entry.pty = pty[t] /\ entry.running /\ pty[t] \in live
    <3>1. t \in Inside /\ pty[t] \in Turns
      BY <2>1 DEF Reading, Inside, CodexInv, TypeInv, Placed
    <3>2. entry.pty = pty[t] /\ entry.running /\ entry.pty # None
      BY <2>1, <3>1 DEF CodexInv, ServeInv, HoldInv, NamesApart
    <3> QED
      BY <3>2 DEF CodexInv, ProcInv
  <2>2. \A p \in live : \A j \in jobs[p] :
          j.of \in Inside \/ Spoilt(p) \/ p \in dropped \/ IsToClose(p)
    BY DEF CodexInv, TypeInv, CodexTypeOK, ServeInv, OwnInv
  <2> QED
    BY <2>1, <2>2 DEF ProcessServesTurn
<1> QED
  BY <1>1, Inductive, PTL

\* load_state, acquire_session_process: a turn runs in a thread, and in a process,
\* that were made for what the turn is for.
THEOREM FitsAlways == ASSUME NamesApart PROVE CodexSpec => []ThreadFits
<1>1. CodexInv => ThreadFits
  <2> SUFFICES ASSUME CodexInv, NEW p \in live, NEW j \in jobs[p], j.kind = "turn"
               PROVE  /\ j.thread \in Turns /\ want[j.thread] = want[j.of]
                      /\ p \notin disturbed => config[p] = want[j.of].config
    BY DEF ThreadFits
  <2>1. p \in Turns /\ j.of \in Turns
    BY DEF CodexInv, TypeInv, CodexTypeOK, Job
  <2>2. j.thread \in Turns /\ want[j.thread] = want[j.of] /\ pty[j.of] = p
    BY <2>1 DEF CodexInv, ThreadInv, JobInv, Alike
  <2>3. want[p] = want[j.of]
    BY <2>1, <2>2 DEF CodexInv, ThreadInv, FitInv, Alike, NamesApart
  <2> QED
    BY <2>1, <2>2, <2>3 DEF CodexInv, ThreadInv, ConfigInv
<1> QED
  BY <1>1, Inductive, PTL

\* answer_human_request: an answer that is reported as given went to the process
\* that asked, outside the three cases the property names.
THEOREM ReachesAlways == ASSUME NamesApart PROVE CodexSpec => []AnswerReachesAsker
<1>1. CodexInv => AnswerReachesAsker
  BY DEF CodexInv, ReachInv
<1> QED
  BY <1>1, Inductive, PTL
=============================================================================
