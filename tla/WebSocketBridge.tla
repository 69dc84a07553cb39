--------------------------- MODULE WebSocketBridge ---------------------------
(***************************************************************************)
(* Bridge (src/websocket_bridge.cpp) between the browsers and the owner    *)
(* task. The HTTP task opens and closes sessions, queues their requests in *)
(* one inbox and takes the events out of one outbox per session. The owner *)
(* task, once in every turn of its loop, announces what has changed and    *)
(* handles one request. The lock protects the queues only: between two of  *)
(* the owner's lock sections (todo) the HTTP task does as it likes.        *)
(***************************************************************************)
EXTENDS Integers, Sequences, FiniteSets

CONSTANTS
  Slots,            (* 1 .. max_clients, 4 in the code                      *)
  InboxCapacity,    (* 16 in the code                                       *)
  OutboxCapacity,   (* 8 in the code                                        *)
  MaxOutstanding,   (* requests of one session at a time: 4 in the code     *)
  Offered,          (* the requests that the browser behind a slot sends    *)
  MaxGen,           (* generations of sessions, UINT32_MAX in the code      *)
  MaxToken,         (* archive sessions, UINT32_MAX in the code             *)
  MaxChanges        (* bound: changes of the scene and of the topics        *)

Topics == {"settings", "maintenance", "wifi"}

(* What a browser shows: the scene, the presets' states, whether the sender *)
(* runs, and what it has subscribed to.                                     *)
Parts == Topics \cup {"scene", "presets", "mode"}

(* A chunk is the next one of the session's mode, to read or to stage.       *)
ArchiveOps == {"export", "import", "chunk", "commit", "cancel"}

Messages ==
  [op : {"snapshot"}, arg : {"state"}] \cup
  [op : {"command"}, arg : {"channel", "bulk", "load", "presets"}] \cup
  [op : {"get", "write"}, arg : Topics] \cup
  [op : {"archive"}, arg : ArchiveOps]

ASSUME BridgeAssumption ==
  /\ Slots = 1 .. Cardinality(Slots) /\ Slots # {}
  /\ InboxCapacity \in Nat \ {0} /\ OutboxCapacity \in Nat \ {0, 1}
  /\ MaxOutstanding \in Nat \ {0}
  /\ Offered \in [Slots -> SUBSET Messages]
  /\ {MaxGen, MaxToken} \subseteq Nat \ {0} /\ MaxChanges \in Nat

VARIABLES
  clients,    (* clients_; with it, history of the browser behind the slot, *)
              (* once it has read its outbox: owed, the answers it waits    *)
              (* for, less those that it got for nothing; knows, its screen *)
  inbox,      (* inbox_[head_ ..] of length count_                          *)
  generation, (* generation_                                                *)
  pc,         (* where the owner's turn is: "away" outside of the bridge,   *)
              (* "poll" in ownerPoll before it takes a request              *)
  todo,       (* the lock sections still to come of the owner's call        *)
  flight,     (* flight_ while in_flight_                                   *)
  sender,     (* sender_                                                    *)
  seen,       (* settings_revision_, maintenance_revision_, wifi_revision_  *)
  presets, presetsReady,   (* presets_, presets_ready_                      *)
  session,    (* archive_                                                   *)
  counter,    (* archive_.counter                                           *)
  (* What the bridge reads of the others.                                   *)
  scene,      (* scene_mode is mode_sender                                  *)
  revision,   (* revision of the controller                                 *)
  stored,     (* the presets' states in flash                               *)
  topic,      (* the revisions of the three topics' snapshots               *)
  maintenance, wifi    (* "idle", "active", and "committed" of maintenance  *)

http == <<clients, inbox, generation>>
owner == <<pc, todo, flight, sender, seen, presets, presetsReady, session, counter>>
domain == <<scene, revision, stored, topic, maintenance, wifi>>
vars == <<http, owner, domain>>

Nobody == [slot |-> 0, gen |-> 0, op |-> "none", arg |-> "none", to |-> 0]
Closed == [active |-> FALSE, gen |-> 0, ready |-> FALSE, subs |-> {}, out |-> 0,
           outstanding |-> 0, owed |-> 0, knows |-> <<>>]
NoSession == [mode |-> "none", owner |-> 0, token |-> 0, whole |-> FALSE]

Requests ==
  [slot : Slots, gen : 1 .. MaxGen, op : {"initial"} \cup {m.op : m \in Messages},
   arg : {"none"} \cup {m.arg : m \in Messages}, to : 0 .. MaxToken]

TypeOK ==
  /\ \A s \in Slots :
       /\ clients[s].active \in BOOLEAN /\ clients[s].ready \in BOOLEAN
       /\ clients[s].gen \in 0 .. MaxGen
       /\ clients[s].subs \subseteq Topics
       /\ DOMAIN clients[s].knows \subseteq Parts
       /\ clients[s].out \in 0 .. OutboxCapacity
       /\ clients[s].outstanding \in 0 .. MaxOutstanding
  /\ inbox \in Seq(Requests) /\ Len(inbox) <= InboxCapacity
  /\ flight \in Requests \cup {Nobody}
  /\ generation \in 0 .. MaxGen
  /\ pc \in {"away", "poll"}
  /\ sender \in BOOLEAN /\ scene \in BOOLEAN /\ presetsReady \in BOOLEAN
  /\ \A t \in Topics : seen[t] \in 0 .. topic[t]
  /\ session.mode \in {"none", "export", "import", "committing"}

(* The startup screen: no browser yet.                                      *)
Init ==
  /\ clients = [s \in Slots |-> Closed]
  /\ inbox = <<>> /\ generation = 0
  /\ pc = "away" /\ todo = <<>> /\ flight = Nobody
  /\ sender = FALSE /\ presets = "none" /\ presetsReady = FALSE
  /\ session = NoSession /\ counter = 0
  /\ scene = FALSE /\ revision = 1 /\ stored = "old"
  /\ topic = [t \in Topics |-> 1] /\ seen = [t \in Topics |-> 0]
  /\ maintenance = "idle" /\ wifi = "idle"

----------------------------------------------------------------------------
(* The HTTP task.                                                           *)

(* client(token): the slot still belongs to the session the token names.    *)
Live_AnySession(slot, gen) == clients[slot].active

Live(slot, gen) == clients[slot].active /\ clients[slot].gen = gen

(* A reply is for one request of one session; the other events tell news of *)
(* some parts. delta: a channel's event.                                    *)
Event(news) == [for |-> 0, news |-> news, delta |-> FALSE]
Reply(r, news) == [for |-> r.gen, news |-> news, delta |-> FALSE]

(* What the browser shows after an event: what it has subscribed to. A      *)
(* channel's event holds one value, and is of use only on the scene before. *)
Shows(c, e) ==
  LET gap == e.delta /\ ("scene" \notin DOMAIN c.knows \/ c.knows["scene"] # e.news["scene"] - 1)
      told == DOMAIN e.news \ (Topics \ c.subs)
  IN [p \in told \cup DOMAIN c.knows |->
        IF p \notin told THEN c.knows[p] ELSE IF gap /\ p = "scene" THEN 0 ELSE e.news[p]]

Reads(c, e) ==
  [c EXCEPT !.knows = Shows(c, e),
            !.owed = IF e.for = 0 THEN @ ELSE IF e.for = c.gen THEN @ - 1 ELSE -1]

(* push: a full outbox ends the session.                                    *)
Push(c, e) ==
  IF ~c.active \/ c.out = OutboxCapacity THEN Closed
  ELSE Reads([c EXCEPT !.out = @ + 1], e)

(* The one event of a lock section, or the two that greet a new session.    *)
PushAll(c, es) == IF Len(es) = 1 THEN Push(c, es[1]) ELSE Push(Push(c, es[1]), es[2])

Open ==
  /\ generation < MaxGen /\ Len(inbox) < InboxCapacity
  /\ \E s \in Slots :
       /\ ~clients[s].active /\ \A r \in Slots : r < s => clients[r].active
       /\ clients' = [clients EXCEPT ![s] = [Closed EXCEPT !.active = TRUE, !.gen = generation + 1]]
       /\ inbox' = Append(inbox,
                            [Nobody EXCEPT !.slot = s, !.gen = generation + 1, !.op = "initial"])
  /\ generation' = generation + 1
  /\ UNCHANGED <<owner, domain>>

(* drop: the browser leaves, a frame cannot be sent to it (sendFailed), or  *)
(* it sends too fast (the rate limit of receive).                           *)
Drop(s) ==
  /\ clients[s].active
  /\ clients' = [clients EXCEPT ![s] = Closed]
  /\ UNCHANGED <<inbox, generation, owner, domain>>

(* receive: a message that decode accepts, with its id in order, is queued. *)
Room(c) == c.ready /\ c.outstanding < MaxOutstanding /\ Len(inbox) < InboxCapacity

Receive(s, m) ==
  LET c == clients[s]
  IN /\ c.active
     /\ Room(c)
     /\ clients' = [clients EXCEPT ![s].outstanding = @ + 1, ![s].owed = @ + 1]
     /\ inbox' = Append(inbox, [slot |-> s, gen |-> c.gen, op |-> m.op, arg |-> m.arg,
                                to |-> IF session.owner = c.gen THEN session.token ELSE 0])
     /\ UNCHANGED <<generation, owner, domain>>

(* Any other message is refused at once, with an error.                     *)
Refuse(s) ==
  /\ clients[s].active
  /\ clients' = [clients EXCEPT ![s] = Push(@, Event(<<>>))]
  /\ UNCHANGED <<inbox, generation, owner, domain>>

(* take, by the pump of the HTTP task, and the frame is sent.               *)
Take(s) ==
  /\ clients[s].active /\ clients[s].out > 0
  /\ clients' = [clients EXCEPT ![s].out = @ - 1]
  /\ UNCHANGED <<inbox, generation, owner, domain>>

----------------------------------------------------------------------------
(* The owner task: what it announces.                                       *)

ModeEvent(mode) == Event([p \in {"mode"} |-> mode])

Broadcast(e) == [to |-> "all", req |-> Nobody, events |-> <<e>>, opens |-> FALSE]
Announce(t) ==
  [to |-> t, req |-> Nobody, events |-> <<Event([p \in {t} |-> topic'[t]])>>, opens |-> FALSE]
Answer(r) == [to |-> "asker", req |-> r, events |-> <<Reply(r, <<>>)>>, opens |-> FALSE]

Hears(e, s) ==
  LET c == clients[s]
  IN IF e.to = "asker" THEN Live(e.req.slot, e.req.gen) /\ s = e.req.slot
     ELSE c.active /\ c.ready /\ (e.to = "all" \/ e.to \in c.subs)

(* With its answer a request gives back its quota, and a snapshot makes the *)
(* session ready, unless the answer has just filled the outbox.             *)
Credit(c, e) ==
  IF e.to = "asker" /\ c.outstanding > 0 THEN [c EXCEPT !.outstanding = @ - 1] ELSE c

Concludes(c, e) ==
  IF c.active THEN [Credit(c, e) EXCEPT !.ready = @ \/ e.opens] ELSE c

(* One lock section: the events are pushed to all who hear them.            *)
Publish ==
  LET e == Head(todo)
  IN /\ todo # <<>>
     /\ clients' = [s \in Slots |-> IF Hears(e, s) THEN Concludes(PushAll(clients[s], e.events), e)
                                    ELSE clients[s]]
     /\ todo' = Tail(todo)
     /\ UNCHANGED <<inbox, generation, domain>>
     /\ UNCHANGED <<pc, flight, sender, seen, presets, presetsReady, session, counter>>

(* state(), for the kinds that hold the presets: they are read again if     *)
(* something may have changed them, and a read may fail.                    *)
ReadPresets(ready) ==
  IF ready THEN UNCHANGED <<presets, presetsReady>>
  ELSE \E read \in {stored', "error"} : presets' = read /\ presetsReady' = (read # "error")

SceneParts == {"scene", "presets", "mode"}

Universe ==
  Event([p \in SceneParts |->
           IF p = "scene" THEN revision' ELSE IF p = "presets" THEN presets' ELSE sender])

(* A channel's event, of the value of one channel.                          *)
Delta ==
  [for |-> 0, delta |-> TRUE,
   news |-> [p \in {"scene", "mode"} |-> IF p = "scene" THEN revision' ELSE sender]]

----------------------------------------------------------------------------
(* The rest of the turn.                                                    *)

Away == pc = "away" /\ todo = <<>>

Changes == revision + topic["settings"] + topic["maintenance"] + topic["wifi"] - 4

Bump(ts) == topic' = [t \in Topics |-> topic[t] + IF t \in ts THEN 1 ELSE 0]

(* enterSenderFromStartup. The loop of the sender's view never asks to leave. *)
EnterSender ==
  /\ Away
  /\ ~scene
  /\ scene' = TRUE
  /\ UNCHANGED <<http, owner, revision, stored, topic, maintenance, wifi>>

(* The panel, the maintenance and the Wi-Fi configuration go on.            *)
TopicChanges ==
  /\ Away
  /\ Changes < MaxChanges
  /\ \/ Bump({"settings"}) /\ UNCHANGED <<maintenance, wifi>>
     \/ /\ Bump({"maintenance"}) /\ UNCHANGED wifi
        /\ maintenance' \in CASE maintenance = "idle" -> {"idle", "committed"}
                              [] maintenance = "active" -> {"idle", "active", "committed"}
                              [] maintenance = "committed" -> {"committed"}
     \/ Bump({"wifi"}) /\ wifi' \in {"idle", wifi} /\ UNCHANGED maintenance
  /\ UNCHANGED <<http, owner, scene, revision, stored>>

(* completed: the dispatcher has performed a command, of a browser or not.  *)
Invalidates(kind) == kind \in {"load", "presets", "replace"}

Tells(kind, result, changed) ==
  \/ changed
  \/ kind = "load" /\ result # "rejected"
  \/ kind = "presets" /\ result = "error"

Completed(kind, result, changed, replies) ==
  /\ changed => Changes < MaxChanges /\ result # "rejected"
  /\ kind \in {"channel", "bulk"} => result # "error"
  /\ changed /\ kind = "load" => result = "ok"
  /\ revision' = revision + IF changed THEN 1 ELSE 0
  /\ IF (changed \/ result = "error") /\ kind \in {"presets", "replace"}
     THEN stored' \in {"old", "new"} /\ (kind = "replace" /\ ~changed => stored' = stored)
     ELSE UNCHANGED stored
  /\ IF Tells(kind, result, changed)
     THEN IF kind = "channel"
          THEN /\ todo' = <<Broadcast(Delta)>> \o replies
               /\ UNCHANGED <<presets, presetsReady>>
          ELSE /\ ReadPresets(presetsReady /\ ~Invalidates(kind))
               /\ todo' = <<Broadcast(Universe)>> \o replies
     ELSE /\ todo' = replies
          /\ presetsReady' = (presetsReady /\ ~Invalidates(kind))
          /\ UNCHANGED presets
  /\ UNCHANGED <<http, pc, sender, seen, counter, scene, topic, maintenance, wifi>>

Results == {"ok", "error", "rejected"}

(* setSenderActive of the dispatcher.                                       *)
Active == scene /\ maintenance # "committed"

(* A command of the panel, and the reset when the sender's view is set up:  *)
(* executeLocal performs an older one of a browser first, or gives up.      *)
LocalCommand ==
  /\ Away
  /\ Active
  /\ flight = Nobody
  /\ \E kind \in {"channel", "bulk", "load", "presets"}, result \in Results, changed \in BOOLEAN :
       Completed(kind, result, changed, <<>>)
  /\ UNCHANGED <<flight, session>>

(* The import is refused by the gate, or if its session is over; whatever   *)
(* comes of it, its session ends.                                           *)
Alive(gen) == \E s \in Slots : Live(s, gen)

Allowed ==
  /\ sender /\ session.mode # "none" /\ Alive(session.owner)
  /\ maintenance = "idle" /\ wifi = "idle"

AfterFlight(import) == IF import THEN NoSession ELSE session

FlightCompletes ==
  LET import == flight.op = "archive"
  IN /\ Away
     /\ flight # Nobody
     /\ \E result \in Results, changed \in BOOLEAN :
          /\ ~Active \/ (import /\ ~Allowed) => result = "rejected"
          /\ Completed(IF import THEN "replace" ELSE flight.arg, result, changed, <<Answer(flight)>>)
     /\ session' = AfterFlight(import)
     /\ flight' = Nobody

----------------------------------------------------------------------------
(* ownerPoll, until it takes a request.                                     *)

Announces(ts) ==
  (IF "wifi" \in ts THEN <<Announce("wifi")>> ELSE <<>>) \o
  (IF "settings" \in ts THEN <<Announce("settings")>> ELSE <<>>) \o
  (IF "maintenance" \in ts THEN <<Announce("maintenance")>> ELSE <<>>)

(* The archive session is over 10 s after its last request, 120 s after its *)
(* first, or with what it needs; a preview of settings, or a proposal of    *)
(* Wi-Fi, that is over by now has changed its topic.                        *)
PollBegins ==
  /\ Away
  /\ \E late \in BOOLEAN, ts \in SUBSET {"settings", "wifi"} :
       /\ Cardinality(ts) + Changes <= MaxChanges
       /\ Bump(ts)
       /\ wifi' \in IF "wifi" \in ts THEN {"idle", wifi} ELSE {wifi}
       /\ session' = IF late \/ ~scene \/ ~Allowed THEN NoSession ELSE session
  /\ todo' = Announces({t \in Topics : topic'[t] # seen[t]})
               \o (IF sender = scene THEN <<>> ELSE <<Broadcast(ModeEvent(scene))>>)
  /\ seen' = topic' /\ sender' = scene
  /\ pc' = "poll"
  /\ UNCHANGED <<http, flight, presets, presetsReady, counter, scene, revision, stored, maintenance>>

InFlight_Never == FALSE

InFlight == flight # Nobody

(* The request whose turn it is. The session that sent it was alive when it *)
(* was taken: what follows is one step, for if it leaves in between, no one *)
(* can tell that from its leaving a moment before or after.                 *)
req == IF inbox = <<>> THEN Nobody ELSE Head(inbox)

Polled == pc = "poll" /\ todo = <<>>

Handling == Polled /\ ~InFlight /\ req # Nobody /\ Live(req.slot, req.gen)

Handled ==
  /\ pc' = "away"
  /\ inbox' = Tail(inbox)
  /\ UNCHANGED generation

NothingToHandle ==
  /\ Polled
  /\ InFlight \/ req = Nobody
  /\ pc' = "away"
  /\ UNCHANGED <<http, todo, flight, sender, seen, presets, presetsReady, session, counter, domain>>

Stale ==
  /\ Polled
  /\ ~InFlight /\ req # Nobody /\ ~Live(req.slot, req.gen)
  /\ Handled
  /\ UNCHANGED <<clients, todo, flight, sender, seen, presets, presetsReady, session, counter, domain>>

(* The state is captured, and only then does the session become ready. What *)
(* a new read of the presets shows is told to the others first.             *)
ToPeers_Nothing == <<>>

ToPeers == IF presets' = presets THEN <<>> ELSE <<Broadcast(Universe)>>

Snapshot ==
  /\ Handling /\ req.op \in {"initial", "snapshot"}
  /\ UNCHANGED domain
  /\ ReadPresets(presetsReady)
  /\ todo' = ToPeers \o
       <<[to |-> "asker", req |-> req, opens |-> TRUE,
          events |-> IF req.op = "initial" THEN <<ModeEvent(sender), Universe>>
                     ELSE <<Reply(req, Universe.news)>>]>>
  /\ Handled
  /\ UNCHANGED <<clients, flight, sender, seen, session, counter>>

Subscribed(t) == t \in clients[req.slot].subs

(* The first lock section of a request about a topic.                       *)
Subscribes ==
  clients' = IF req.op = "get" THEN [clients EXCEPT ![req.slot].subs = @ \cup {req.arg}] ELSE clients

(* The topics a write may change: none if it is refused.                    *)
Affects ==
  CASE ~Subscribed(req.arg) -> {}
    [] req.arg = "wifi" -> IF maintenance = "idle" THEN {"wifi"} ELSE {}
    [] req.arg = "maintenance" -> IF sender /\ wifi = "idle" THEN {"maintenance", "settings"} ELSE {}
    [] req.arg = "settings" -> {"settings"}

(* A proposal or a cancellation of Wi-Fi; a request of maintenance, which   *)
(* cancels a preview, or its cancellation; an edit of a setting.            *)
TopicRequest ==
  /\ Handling /\ req.op \in {"get", "write"}
  /\ ~(req.arg = "settings" /\ req.op = "write" /\ maintenance = "committed")
  /\ Subscribes
  /\ \E ts \in SUBSET (IF req.op = "write" THEN Affects ELSE {}) :
       /\ Cardinality(ts) + Changes <= MaxChanges
       /\ "maintenance" \in ts => maintenance # "committed"
       /\ req.arg \notin ts => ts = {}
       /\ req.arg = "maintenance" /\ "settings" \in ts => maintenance = "idle"
       /\ Bump(ts)
       /\ maintenance' = IF "maintenance" \notin ts THEN maintenance
                         ELSE IF maintenance = "idle" THEN "active" ELSE "idle"
       /\ wifi' = IF "wifi" \notin ts THEN wifi ELSE IF wifi = "idle" THEN "active" ELSE "idle"
       /\ todo' = Announces(ts) \o
            <<[to |-> "asker", req |-> req, opens |-> FALSE,
               events |-> <<Reply(req, [p \in {req.arg} |-> topic'[req.arg]])>>]>>
  /\ seen' = topic'
  /\ Handled
  /\ UNCHANGED <<flight, sender, presets, presetsReady>>
  /\ UNCHANGED <<session, counter, scene, revision, stored>>

(* reply and archiveReply of a request that goes no further.                *)
Answers(ses) ==
  /\ todo' = <<Answer(req)>>
  /\ session' = ses
  /\ Handled
  /\ UNCHANGED <<clients, flight, sender, seen, presets, presetsReady, domain>>

CommittedAnswersBusy ==
  /\ Handling
  /\ maintenance = "committed"
  /\ req.op = "command" \/ (req.op = "write" /\ req.arg = "settings")
  /\ Answers(session)
  /\ UNCHANGED counter

(* submit: the dispatcher takes the command, or it is answered at once.     *)
Submits(taken, ses) ==
  IF ~taken THEN Answers(IF req.op = "archive" THEN NoSession ELSE session)
  ELSE /\ flight' = req /\ session' = ses
       /\ Handled
       /\ UNCHANGED <<clients, todo, sender, seen, presets, presetsReady, domain>>

Command ==
  /\ Handling /\ req.op = "command"
  /\ maintenance # "committed"
  /\ \E taken \in BOOLEAN : (taken => Active) /\ Submits(taken, session)
  /\ UNCHANGED counter

----------------------------------------------------------------------------
(* archiveRequest.                                                          *)

MayArchive == sender /\ maintenance = "idle" /\ wifi = "idle"

ArchiveBusy ==
  /\ Handling /\ req.op = "archive"
  /\ \/ ~MayArchive
     \/ req.arg \in {"export", "import"} /\ (session # NoSession \/ counter = MaxToken)
  /\ Answers(session)
  /\ UNCHANGED counter

(* An export is captured at once, which may fail.                           *)
ArchiveBegins ==
  /\ Handling /\ req.op = "archive" /\ req.arg \in {"export", "import"}
  /\ MayArchive
  /\ session = NoSession /\ counter < MaxToken
  /\ counter' = counter + 1
  /\ \E begun \in BOOLEAN :
       /\ req.arg = "import" => begun
       /\ Answers(IF begun THEN [mode |-> req.arg, owner |-> req.gen, token |-> counter + 1, whole |-> FALSE]
                  ELSE NoSession)

Named == session # NoSession /\ session.owner = req.gen /\ session.token = req.to

ArchiveUnauthorized ==
  /\ Handling /\ req.op = "archive" /\ req.arg \notin {"export", "import"}
  /\ MayArchive
  /\ ~Named
  /\ Answers(session)
  /\ UNCHANGED counter

(* A chunk is staged, or read; anything out of place, and a cancellation,   *)
(* ends the session.                                                        *)
ArchiveContinues ==
  /\ Handling /\ req.op = "archive" /\ req.arg \in {"chunk", "commit", "cancel"}
  /\ MayArchive
  /\ Named
  /\ \/ Answers(NoSession)
     \/ /\ req.arg = "chunk" /\ ~session.whole
        /\ \E whole \in BOOLEAN :
             (whole => session.mode = "import") /\ Answers([session EXCEPT !.whole = whole])
  /\ UNCHANGED counter

(* The import is staged, under the gate, and submitted.                     *)
ArchiveCommits ==
  /\ Handling /\ req.op = "archive" /\ req.arg = "commit"
  /\ MayArchive
  /\ Named /\ session.mode = "import" /\ session.whole
  /\ Allowed
  /\ \E taken \in BOOLEAN : (taken => Active) /\ Submits(taken, [session EXCEPT !.mode = "committing"])
  /\ UNCHANGED counter

----------------------------------------------------------------------------
Http ==
  \/ Open
  \/ \E s \in Slots :
       \/ Drop(s) \/ Refuse(s) \/ Take(s)
       \/ \E m \in Offered[s] : Receive(s, m)

Polls ==
  \/ NothingToHandle \/ Stale \/ Snapshot \/ TopicRequest \/ CommittedAnswersBusy \/ Command
  \/ ArchiveBusy \/ ArchiveBegins \/ ArchiveUnauthorized \/ ArchiveContinues \/ ArchiveCommits

Turn ==
  \/ EnterSender \/ TopicChanges \/ LocalCommand \/ FlightCompletes
  \/ PollBegins \/ Polls \/ Publish

Next == Http \/ Turn

Spec == Init /\ [][Next]_vars

----------------------------------------------------------------------------
(* Properties.                                                              *)

(* The requests of a session on their way to an answer.                     *)
Asks(gen, r) == r.gen = gen /\ r.op # "initial"

Queued(gen, q) == {i \in DOMAIN q : Asks(gen, q[i])}

Replies(gen, sections) ==
  {i \in DOMAIN sections : sections[i].to = "asker" /\ Asks(gen, sections[i].req)}

Waiting(gen) ==
  Cardinality(Queued(gen, inbox)) + (IF Asks(gen, flight) THEN 1 ELSE 0)
    + Cardinality(Replies(gen, todo))

(* Every request that was queued is answered exactly once, its quota comes  *)
(* back with the answer, and nobody else reads it: whichever sessions were  *)
(* dropped, and whoever took their slots, while it was on its way.          *)
EveryRequestAnswered ==
  \A s \in Slots : clients[s].active =>
    LET c == clients[s]
    IN c.owed = Waiting(c.gen) /\ c.outstanding = Waiting(c.gen)

(* What the owner task last announced: of the presets, what a read that did *)
(* not fail finds in flash, unless the last one failed.                     *)
Announced ==
  [p \in Parts |-> IF p \in Topics THEN seen[p]
                  ELSE IF p = "scene" THEN revision
                  ELSE IF p = "presets" THEN IF presetsReady THEN stored ELSE presets
                  ELSE sender]

(* Whatever was pushed to a browser that has its snapshot, read in order,   *)
(* leaves it with what the owner task last announced: no change is missed   *)
(* between the capture of a snapshot and the session becoming ready, in a   *)
(* broadcast during which another session is dropped, or by a subscription. *)
BrowsersInformed ==
  todo = <<>> =>
    \A s \in Slots : clients[s].active /\ clients[s].ready =>
      \A p \in clients[s].subs \cup SceneParts :
        p \in DOMAIN clients[s].knows /\ clients[s].knows[p] = Announced[p]

(* ... and no outbox, inbox or count of requests passes its limit meanwhile. *)
BrowsersServed == TypeOK /\ BrowsersInformed

(* An archive session is ended, or moved on, by a request of its own        *)
(* browser that is being handled or completes, or by the poll that finds it *)
(* over: never by the late completion of an import whose session has ended  *)
(* and made room for it. in_flight_ holds the other requests back.          *)
SessionUndisturbed ==
  [][session.mode # "none" /\ session' # session =>
       \/ pc # "poll" /\ pc' = "poll"
       \/ pc = "poll" /\ session.owner = req.gen
       \/ pc # "poll" /\ session.owner = flight.gen]_vars
=============================================================================
