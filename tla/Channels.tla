------------------------------- MODULE Channels -------------------------------
(***************************************************************************)
(* Messages of an instant-messaging channel on their way to an agent and   *)
(* back: the inbox and outbox files of the gateway                         *)
(* (crates/core/src/channel/mod.rs), the pumps that drive an agent for     *)
(* each inbound message (crates/core/src/channel_agent/mod.rs), and the    *)
(* file that remembers which conversation a question was put to            *)
(* (crates/core/src/channel_agent/state.rs).                               *)
(*                                                                         *)
(* A host starts a new pump while earlier ones still wait, so pumps        *)
(* overlap, two of them in one conversation included.  The process may end *)
(* between any two file operations.  The files outlive it; the pumps, the  *)
(* requests of the human loop and its request counter do not.              *)
(***************************************************************************)
EXTENDS Naturals, Sequences, FiniteSets, SequencesExt

CONSTANTS
  Messages,     \* platform messages of one channel, numbered as they come
  Aside,        \* those of the second conversation; the others are of the first
  Blank,        \* those without text
  Froms,        \* conversations, or "any", the host may register routes for
  Agents,       \* agents it may register them to
  DefaultAgent, \* default_agent_id of the bridge configuration
  Pumps,        \* calls of stream_channel_agent_pump, numbered
  BatchLimit,   \* inbound_limit of the bridge configuration
  MaxQuestions, \* bound: questions the agent asks in one turn
  MaxReleases,  \* bound: release_channel_inbound calls
  MaxUpsets     \* bound: times the process ends or a route changes

Conversations == {"first", "second"}

\* Routes for one conversation's peer, and those for the whole channel.
Routes == [from : Froms, agent : Agents]

ASSUME ChannelsAssumption ==
  /\ IsFiniteSet(Messages) /\ Messages \subseteq Nat
  /\ IsFiniteSet(Pumps) /\ Pumps \subseteq Nat
  /\ Aside \subseteq Messages /\ Blank \subseteq Messages
  /\ Froms \subseteq Conversations \cup {"any"}
  /\ BatchLimit \in Nat \ {0}

VARIABLES
  inbox,      \* entries of channel_inbox.json; an entry's id is its place
  outbox,     \* entries of channel_outbox.json, without their order: each is the
              \* nth said for one inbound message
  mappings,   \* entries of channel_agent_pending_human.json: those of later places
              \* are behind
  routes,     \* entries of channel_agent_routes.json
  pump,       \* of each pump: what it does next and with what
  turn,       \* of each pump: the turn it drives
  counter,    \* REQUEST_COUNTER of the human loop
  requests,   \* ids of its pending_requests
  facts,      \* history, for the properties
  life,       \* times the process ended
  rerouted    \* times a route was registered or removed

stores      == <<inbox, outbox, mappings, routes>>
loop        == <<counter, requests>>
channelVars == <<stores, pump, turn, loop, facts, life, rerouted>>

Inbounds  == 1 .. Len(inbox)
Said(i)   == Cardinality({o \in outbox : o.for = i})
ConversationOf(i) == IF inbox[i].msg \in Aside THEN "second" ELSE "first"

NoMapping == [at |-> 0, request |-> 0, session |-> <<>>, answer |-> 0]

\* Where the file gets a new mapping.
End == 1 + Max({m.at : m \in mappings} \cup {0})

\* pc is what the pump does once its work, the file operations that follow one
\* another without a wait, is done; found is what find_pending_by_session gave.
IdlePump == [pc |-> "idle", work |-> <<>>, batch |-> {}, session |-> <<>>,
             found |-> NoMapping]

\* target is reply_target_id; asking the request the turn waits for.
NoTurn == [target |-> 0, asks |-> 0, asking |-> 0, outcome |-> "none"]

ChannelsInit ==
  /\ inbox = <<>> /\ outbox = {} /\ mappings = {} /\ routes = <<>>
  /\ pump = [p \in Pumps |-> IdlePump]
  /\ turn = [p \in Pumps |-> NoTurn]
  /\ counter = 1 /\ requests = {}
  /\ facts = [drives   |-> <<>>, \* turns started for each inbound id as it was queued
             released |-> 0,    \* release_channel_inbound calls
             answers  |-> {},   \* messages the human loop took as answers
             shared   |-> {},   \* inbound ids whose turn met another of its session
             stranded |-> {},   \* inbound ids a pump held when the process ended
             leftover |-> {},   \* requests with a mapping when the process ended
             reused   |-> {}]   \* inbound ids whose turn was given such a request
  /\ life = 0 /\ rerouted = 0

Current(p) == Min(pump[p].batch)    \* messages are handled as they came
Driving(p) == turn[p].target # 0

\* Between two operations of one pump's work only the end of the process makes
\* a difference: of one work at most one operation concerns the mappings, and
\* the others, of entries this pump holds, commute with what other actors do.
\* So they act when no pump has work left.
Settled == \A p \in Pumps : pump[p].work = <<>> /\ pump[p].pc # "next"
At(p, label) == Settled /\ pump[p].pc = label
Goto(p, label) == pump' = [pump EXCEPT ![p].pc = label]
Then(p, ops, label) ==
  pump' = [pump EXCEPT ![p].work = ops, ![p].pc = label]

Reply(i)          == [op |-> "reply", at |-> i]
Settle(i, status) == [op |-> "settle", at |-> i, status |-> status]
Upsert(r)         == [op |-> "upsert", request |-> r]
DropRequest(r)    == [op |-> "dropRequest", request |-> r]
DropSession       == [op |-> "dropSession"]

-----------------------------------------------------------------------------
(* The gateway and the routes: calls of the host *)

Push(m) ==
  /\ Settled
  /\ inbox' = Append(inbox, [msg |-> m, status |-> "queued"])
  /\ facts' = [facts EXCEPT !.drives = Append(@, 0)]
  /\ UNCHANGED <<outbox, mappings, routes, pump, turn, loop, life, rerouted>>

\* Mutant: no look for an entry with the same dedupe key.
SubmitAnyway(m) == Len(inbox) <= Cardinality(Messages) /\ Push(m)

\* submit_channel_inbound: the platform may deliver a message again at any
\* time; then the entry it already has is the answer and nothing changes.
Submit(m) ==
  /\ \A i \in Inbounds : inbox[i].msg # m
  /\ \A k \in Messages : k < m => \E i \in Inbounds : inbox[i].msg = k
  /\ Push(m)

\* release_channel_inbound, for an entry no pump holds.  The host has nothing
\* but the status to go by, so it releases after a restart.
Release(i) ==
  /\ Settled
  /\ inbox[i].status = "leased"
  /\ \A p \in Pumps : i \notin pump[p].batch
  /\ facts.released < MaxReleases
  /\ inbox' = [inbox EXCEPT ![i].status = "queued"]
  /\ facts' = [facts EXCEPT !.released = @ + 1, !.drives[i] = 0]
  /\ UNCHANGED <<outbox, mappings, routes, pump, turn, loop, life, rerouted>>

\* register_channel_agent_route, where a route that is there keeps its place,
\* and remove_channel_agent_route.
Reroute(r) ==
  /\ Settled
  /\ rerouted + life < MaxUpsets
  /\ routes' = IF Contains(routes, r) THEN Remove(routes, r)
               ELSE Append(routes, r)
  /\ rerouted' = rerouted + 1
  /\ UNCHANGED <<inbox, outbox, mappings, pump, turn, loop, facts, life>>

-----------------------------------------------------------------------------
(* A pump up to the turn *)

\* take_channel_inbound.  A call that starts is the first pump that is idle:
\* pumps have no identity.
Take(p) ==
  LET queued == {i \in Inbounds : inbox[i].status = "queued"}
      taken  == {i \in queued : Cardinality({k \in queued : k < i}) < BatchLimit}
  IN  /\ At(p, "idle")
      /\ \A q \in Pumps : q < p => pump[q].pc # "idle"
      /\ taken # {}
      /\ pump' = [pump EXCEPT ![p].pc = "message", ![p].batch = taken]
      /\ inbox' = [i \in Inbounds |->
                     IF i \in taken
                     THEN [inbox[i] EXCEPT !.status = "leased"] ELSE inbox[i]]
      /\ facts' = [facts EXCEPT !.stranded = @ \ taken]
      /\ UNCHANGED <<outbox, mappings, routes, turn, loop, life, rerouted>>

\* route_score: a route for the sender's conversation before one for all.
Score(r) == IF r.from = "any" THEN 10 ELSE 20

\* resolve_route: the best of the routes that apply, the last of equals; none
\* is the default agent.
AgentFor(c) ==
  LET fit  == SelectSeq(routes, LAMBDA r : r.from \in {c, "any"})
      best == {n \in DOMAIN fit :
                 \A k \in DOMAIN fit :
                   \/ Score(fit[k]) < Score(fit[n])
                   \/ Score(fit[k]) = Score(fit[n]) /\ k <= n}
  IN  IF fit = <<>> THEN DefaultAgent ELSE fit[CHOOSE n \in best : TRUE].agent

\* stable_session_thread_id of an inbound message.
SessionOf(i) == <<ConversationOf(i), AgentFor(ConversationOf(i))>>

\* The pump turns to its next message: resolve_route, create_session and then
\* find_pending_by_session.  What changes a route in between might as well
\* come after, and what changes a mapping, before.
\* Mutant: the entry is left as it is.
SessionFailsUntold(p) ==
  /\ At(p, "message")
  /\ Goto(p, "next")
  /\ UNCHANGED <<stores, turn, loop, facts, life, rerouted>>

\* create_session failed.
SessionFails(p) ==
  /\ At(p, "message")
  /\ Then(p, <<Settle(Current(p), "failed")>>, "next")
  /\ UNCHANGED <<stores, turn, loop, facts, life, rerouted>>

\* What a search from the start of the file finds.
FirstOf(own) ==
  IF own = {} THEN NoMapping ELSE CHOOSE m \in own : \A o \in own : m.at <= o.at

\* Mutant: the first mapping of the agent, whatever the conversation.
MappingOfAgent(s) == FirstOf({m \in mappings : m.session[2] = s[2]})

\* find_pending_by_session.
MappingOf(s) == FirstOf({m \in mappings : m.session = s})

\* No question to answer: drive_agent_for_inbound starts the turn.
StartTurn(p) ==
  LET i   == Current(p)
      met == {q \in Pumps \ {p} : Driving(q) /\ pump[q].session = SessionOf(i)}
  IN  /\ At(p, "message")
      /\ MappingOf(SessionOf(i)) = NoMapping
      /\ turn' = [turn EXCEPT ![p].target = i]
      /\ facts' = [facts EXCEPT
                    !.drives[i] = @ + 1,
                    !.shared = @ \cup (IF met = {} THEN {} ELSE
                                       {i} \cup {Current(q) : q \in met})]
      /\ pump' = [pump EXCEPT ![p].pc = "turn", ![p].session = SessionOf(i)]
      /\ UNCHANGED <<stores, loop, life, rerouted>>

\* handle_pending_answer turns a message without text down.
TurnDown(p) ==
  LET i == Current(p)
  IN  /\ At(p, "message")
      /\ MappingOf(SessionOf(i)) # NoMapping
      /\ inbox[i].msg \in Blank
      /\ Then(p, <<Reply(i), Settle(i, "acknowledged")>>, "next")
      /\ UNCHANGED <<stores, turn, loop, facts, life, rerouted>>

\* Any other message is tried as the answer.
FindQuestion(p) ==
  LET i == Current(p)
  IN  /\ At(p, "message")
      /\ MappingOf(SessionOf(i)) # NoMapping
      /\ inbox[i].msg \notin Blank
      /\ pump' = [pump EXCEPT ![p].pc = "note",
                              ![p].found = MappingOf(SessionOf(i))]
      /\ UNCHANGED <<stores, turn, loop, facts, life, rerouted>>

\* replace_pending with the mapping read before, whatever became of it since.
Note(p) ==
  LET m    == [pump[p].found EXCEPT !.answer = Current(p)]
      same == {o \in mappings : o.request = m.request}
  IN  /\ At(p, "note")
      /\ mappings' = (mappings \ same) \cup
           IF same = {} THEN {[m EXCEPT !.at = End]}
           ELSE {[m EXCEPT !.at = o.at] : o \in same}
      /\ Goto(p, "answer")
      /\ UNCHANGED <<inbox, outbox, routes, turn, loop, facts, life, rerouted>>

\* answer_human_request: the first answer takes the request out of the table
\* and resumes the turn that waits for it.
Accepted(p) ==
  LET r == pump[p].found.request
  IN  /\ At(p, "answer")
      /\ r \in requests
      /\ requests' = requests \ {r}
      /\ \E q \in Pumps :
           /\ turn[q].asking = r
           /\ turn' = [turn EXCEPT ![q].outcome = "answered"]
           /\ facts' = [facts EXCEPT !.answers = @ \cup
                         {[by |-> Current(p), to |-> Current(q),
                           said |-> Said(Current(q)), life |-> life]}]
      /\ Then(p, <<Settle(Current(p), "acknowledged")>>, "next")
      /\ UNCHANGED <<stores, counter, life, rerouted>>

\* A request that is gone is the end of its mapping.
Gone(p) ==
  LET r == pump[p].found.request
  IN  /\ At(p, "answer")
      /\ r \notin requests
      /\ Then(p, <<DropRequest(r), Reply(Current(p)),
                   Settle(Current(p), "failed")>>, "next")
      /\ UNCHANGED <<stores, turn, loop, facts, life, rerouted>>

-----------------------------------------------------------------------------
(* The turn, as the pump sees its events *)

\* ask_human registers its request before it tells the event; the pump then
\* remembers the session, passes the question on and is done with the message.
AskPerson(p) ==
  /\ At(p, "turn")
  /\ turn[p].asks < MaxQuestions
  /\ turn' = [turn EXCEPT ![p].asks = @ + 1, ![p].asking = counter,
                          ![p].outcome = "none"]
  /\ requests' = requests \cup {counter}
  /\ counter' = counter + 1
  /\ Then(p, <<Upsert(counter), Reply(Current(p)),
               Settle(Current(p), "acknowledged")>>, "waiting")
  /\ facts' = [facts EXCEPT !.reused =
                IF counter \in facts.leftover THEN @ \cup {Current(p)} ELSE @]
  /\ UNCHANGED <<stores, life, rerouted>>

\* The host answers in its own interface, or cancels the session.
HostResolves(p, how) ==
  /\ Settled
  /\ turn[p].asking \in requests
  /\ requests' = requests \ {turn[p].asking}
  /\ turn' = [turn EXCEPT ![p].outcome = how]
  /\ UNCHANGED <<stores, pump, counter, facts, life, rerouted>>

\* The human_response event: the reply goes to the message that was the answer.
Answered(p) ==
  LET answer == FirstOf({m \in mappings : m.request = turn[p].asking}).answer
  IN  /\ At(p, "waiting") /\ turn[p].outcome = "answered"
      /\ turn' = [turn EXCEPT ![p].target = IF answer # 0 THEN answer ELSE @,
                              ![p].asking = 0]
      /\ Goto(p, "turn")
      /\ UNCHANGED <<stores, loop, facts, life, rerouted>>

\* Mutants: a turn is over without a word to its conversation.
CompletedUntold(p) == <<Settle(turn[p].target, "acknowledged"), DropSession>>

FailedUntold(p) == <<Settle(Current(p), "failed"), DropSession>>

\* What drive_agent_for_inbound does when the stream of the turn is over.
Completed(p) == <<Reply(turn[p].target), Settle(turn[p].target, "acknowledged"),
              DropSession>>

Failed(p) == <<Settle(Current(p), "failed"), Reply(turn[p].target), DropSession>>

\* A turn that is cancelled while it waits is over as well.
TurnEnds(p) ==
  /\ \/ At(p, "turn")
     \/ At(p, "waiting") /\ turn[p].outcome = "cancelled"
  /\ \E ops \in {Completed(p), Failed(p)} : Then(p, ops, "next")
  /\ UNCHANGED <<stores, turn, loop, facts, life, rerouted>>

-----------------------------------------------------------------------------
(* The file operations of a pump *)

\* upsert_pending_human: the mapping of a request id that is there keeps its
\* session.
Upserted(p, r) ==
  LET same == {m \in mappings : m.request = r}
  IN  (mappings \ same) \cup
        IF same = {}
        THEN {[at |-> End, request |-> r, session |-> pump[p].session, answer |-> 0]}
        ELSE {[m EXCEPT !.answer = 0] : m \in same}

\* Mutant: the end of a turn drops the mappings of all conversations.
MappingsOfOthersDropped(p) == {}

\* remove_pending_by_session.
MappingsOfOthers(p) == {m \in mappings : m.session # pump[p].session}

\* reply_channel_inbound: the message goes where inbound entry `at` came from.
\* ack_ and fail_channel_inbound set the status whatever it was.
Perform(p) ==
  /\ pump[p].work # <<>>
  /\ pump' = [pump EXCEPT ![p].work = Tail(@)]
  /\ LET step == Head(pump[p].work) IN
       \/ /\ step.op = "reply"
          /\ outbox' = outbox \cup {[re |-> step.at, for |-> Current(p),
                                    nth |-> Said(Current(p)) + 1]}
          /\ UNCHANGED <<inbox, mappings>>
       \/ /\ step.op = "settle"
          /\ inbox' = [inbox EXCEPT ![step.at].status = step.status]
          /\ UNCHANGED <<outbox, mappings>>
       \/ /\ \/ /\ step.op = "upsert"
                /\ mappings' = Upserted(p, step.request)
             \/ /\ step.op = "dropRequest"
                /\ mappings' = {m \in mappings : m.request # step.request}
             \/ /\ step.op = "dropSession"
                /\ mappings' = MappingsOfOthers(p)
          /\ UNCHANGED <<inbox, outbox>>
  /\ UNCHANGED <<routes, turn, loop, facts, life, rerouted>>

\* The pump turns to the next message of its batch, or is over.
Advance(p) ==
  /\ pump[p].pc = "next" /\ pump[p].work = <<>>
  /\ LET rest == pump[p].batch \ {Current(p)}
     IN  pump' = [pump EXCEPT ![p] =
                    IF rest = {} THEN IdlePump
                    ELSE [IdlePump EXCEPT !.pc = "message", !.batch = rest]]
  /\ turn' = [turn EXCEPT ![p] = NoTurn]
  /\ UNCHANGED <<stores, loop, facts, life, rerouted>>

\* The process ends: what is in memory is gone, the counter starts again.
ProcessEnds ==
  /\ rerouted + life < MaxUpsets
  /\ life' = life + 1
  /\ pump' = [p \in Pumps |-> IdlePump]
  /\ turn' = [p \in Pumps |-> NoTurn]
  /\ counter' = 1 /\ requests' = {}
  /\ facts' = [facts EXCEPT
                !.stranded = @ \cup UNION {pump[p].batch : p \in Pumps},
                !.leftover = @ \cup {m.request : m \in mappings}]
  /\ UNCHANGED <<stores, rerouted>>

-----------------------------------------------------------------------------
PumpStep(p) ==
  \/ SessionFails(p) \/ StartTurn(p) \/ TurnDown(p)
  \/ FindQuestion(p) \/ Note(p) \/ Accepted(p) \/ Gone(p)
  \/ Answered(p) \/ TurnEnds(p) \/ Perform(p) \/ Advance(p)

ChannelsNext ==
  \/ \E m \in Messages : Submit(m)
  \/ \E i \in Inbounds : Release(i)
  \/ \E r \in Routes : Reroute(r)
  \/ \E p \in Pumps : Take(p) \/ AskPerson(p) \/ PumpStep(p)
  \/ \E p \in Pumps, how \in {"answered", "cancelled"} : HostResolves(p, how)
  \/ ProcessEnds

\* A pump is a task of the runtime: it goes on as long as the process does, and
\* the turns of the engine end.  Nothing else has to happen.
PumpsGoOn == \A p \in Pumps : WF_channelVars(PumpStep(p))

ChannelsSpec == ChannelsInit /\ [][ChannelsNext]_channelVars /\ PumpsGoOn

-----------------------------------------------------------------------------
(* Properties *)

\* A platform message, however often the platform delivers it, has one entry,
\* and no two pumps start a turn for it: a second turn needs a release.
DrivenOnce ==
  /\ \A i, k \in Inbounds : inbox[i].msg = inbox[k].msg => i = k
  /\ \A i \in Inbounds : facts.drives[i] <= 1

\* An acknowledged message was answered in its conversation, or was itself the
\* answer to a question: whenever the process ends, no message is put away
\* that nobody reacted to.
SettledIsTold ==
  \A i \in Inbounds :
    inbox[i].status = "acknowledged" =>
      \/ \E o \in outbox : o.re = i
      \/ \E a \in facts.answers : a.by = i

\* While a turn waits for a person the file leads from its conversation to its
\* request, so that the next message there is the answer.  Two things lose it
\* and are left out: a second turn of the session, whose end drops the
\* mappings of both, and a request id that an earlier process left a mapping of.
MappingKept ==
  \A p \in Pumps :
    /\ At(p, "waiting") /\ turn[p].outcome = "none"
    /\ Current(p) \notin facts.reused \cup facts.shared
    => \E m \in mappings : /\ m.request = turn[p].asking
                           /\ m.session = pump[p].session

\* What a person writes in one conversation answers no question of another, and
\* a turn replies only where its message, or the answer to its question, came
\* from; except after a request id that an earlier process left a mapping of.
AnswersStayHome ==
  /\ \A a \in facts.answers :
       ConversationOf(a.by) = ConversationOf(a.to) \/ a.to \in facts.reused
  /\ \A o \in outbox :
       ConversationOf(o.re) = ConversationOf(o.for) \/ o.for \in facts.reused

\* A message a pump took is acknowledged or failed before the pump lets go of
\* it, whatever fails: only those the process ended with stay leased, and for
\* them nothing but release_channel_inbound helps.
LeasedIsHeld ==
  \A i \in Inbounds :
    inbox[i].status = "leased" =>
      i \in facts.stranded \/ \E p \in Pumps : i \in pump[p].batch

\* The turn that message i answered a question of has said nothing since.
Unfollowed(i) ==
  \E a \in facts.answers :
    a.by = i /\ a.life = life /\ a.said = Said(a.to)

\* A person who answered hears more: the next question, the reply, or that the
\* turn failed.
AnswerIsFollowed ==
  \A i \in 1 .. Cardinality(Messages) : Unfollowed(i) ~> ~Unfollowed(i)
===============================================================================
