----------------------- MODULE WebSocketBridgeProofs -----------------------
(***************************************************************************)
(* The bridge, for every number of browsers, every capacity of its queues  *)
(* and every message: each request is answered once and to its own         *)
(* session, no browser that has its snapshot misses a change, and an       *)
(* archive session is its own browser's.                                   *)
(***************************************************************************)
EXTENDS WebSocketBridge, FiniteSetTheorems, TLAPS

----------------------------------------------------------------------------
(* The inductive invariant.                                                 *)

(* What a browser shows, and what is told to it.                            *)
Values == Nat \cup BOOLEAN \cup {"none", "old", "new", "error"}
News == UNION {[D -> Values] : D \in SUBSET Parts}
Events == [for : 0 .. MaxGen, news : News, delta : BOOLEAN]

Sessions ==
  [active : BOOLEAN, gen : 0 .. MaxGen, ready : BOOLEAN, subs : SUBSET Topics,
   out : 0 .. OutboxCapacity, outstanding : 0 .. MaxOutstanding, owed : Int, knows : News]

Asked == {r \in Requests : r.op \in {"get", "write"} => r.arg \in Topics}

Sections ==
  [to : Topics \cup {"all", "asker"}, req : Asked \cup {Nobody}, events : Seq(Events),
   opens : BOOLEAN]

Archives ==
  [mode : {"none", "export", "import", "committing"}, owner : 0 .. MaxGen,
   token : 0 .. MaxToken, whole : BOOLEAN]

(* An answer holds one event, for the session that asked; the greeting of a *)
(* session and what is told to all is for nobody.                           *)
SectionOK(e) ==
  IF e.to = "asker"
  THEN /\ e.req \in Asked
       /\ e.opens <=> e.req.op \in {"initial", "snapshot"}
       /\ e.opens => SceneParts \subseteq DOMAIN e.events[Len(e.events)].news
       /\ IF e.req.op = "initial"
          THEN Len(e.events) = 2 /\ e.events[1].for = 0 /\ e.events[2].for = 0
          ELSE Len(e.events) = 1 /\ e.events[1].for = e.req.gen
  ELSE ~e.opens /\ Len(e.events) = 1 /\ e.events[1].for = 0

Scalars ==
  /\ pc \in {"away", "poll"}
  /\ sender \in BOOLEAN /\ scene \in BOOLEAN /\ presetsReady \in BOOLEAN
  /\ presets \in {"none", "old", "new", "error"} /\ stored \in {"old", "new"}
  /\ revision \in Nat \ {0}
  /\ topic \in [Topics -> Nat] /\ seen \in [Topics -> Nat]
  /\ \A t \in Topics : seen[t] <= topic[t]
  /\ session \in Archives /\ counter \in 0 .. MaxToken

Types ==
  /\ clients \in [Slots -> Sessions]
  /\ inbox \in Seq(Asked) /\ Len(inbox) <= InboxCapacity
  /\ generation \in 0 .. MaxGen
  /\ flight \in Asked \cup {Nobody}
  /\ todo \in Seq(Sections)
  /\ \A i \in DOMAIN todo : SectionOK(todo[i])
  /\ \A i \in DOMAIN todo : todo[i].to = "asker" => i = Len(todo)
  /\ Scalars

(* No two sessions share a generation, and one that is not ready yet has    *)
(* asked for nothing.                                                       *)
Distinct ==
  \A s \in Slots : clients[s].active =>
    /\ clients[s].gen \in 1 .. generation
    /\ \A r \in Slots : clients[r].active /\ clients[r].gen = clients[s].gen => r = s
    /\ ~clients[s].ready => clients[s].subs = {} /\ clients[s].outstanding = 0

(* A request on its way names the session that sent it, if that is there    *)
(* still: ready, unless the request is the one that its opening queued.     *)
Placed(r, last, cs) ==
  /\ r.gen <= last
  /\ \A s \in Slots : cs[s].active /\ cs[s].gen = r.gen =>
       r.slot = s /\ (cs[s].ready <=> r.op # "initial")

Initial(r) == r.op = "initial"

(* A session's opening queues one request, ahead of all its others.         *)
Once(q) ==
  \A i, j \in DOMAIN q : Initial(q[i]) /\ Initial(q[j]) /\ q[i].gen = q[j].gen => i = j

Apart(q, sections) ==
  \A i \in DOMAIN q, j \in DOMAIN sections :
    sections[j].to = "asker" /\ Initial(sections[j].req) /\ Initial(q[i]) =>
      q[i].gen # sections[j].req.gen

Pending ==
  /\ \A i \in DOMAIN inbox : Placed(inbox[i], generation, clients)
  /\ flight # Nobody =>
       Placed(flight, generation, clients) /\ flight.op \in {"command", "archive"}
  /\ \A i \in DOMAIN todo : todo[i].to = "asker" => Placed(todo[i].req, generation, clients)
  /\ Once(inbox) /\ Apart(inbox, todo)

(* Whatever is still to be told is what is announced. A channel's event     *)
(* comes first, to sessions that show the scene before it.                  *)
TellsTrue ==
  \A i \in DOMAIN todo : \A j \in DOMAIN todo[i].events :
    LET e == todo[i].events[j]
    IN /\ \A p \in DOMAIN e.news : e.news[p] = Announced[p]
       /\ e.delta =>
            /\ i = 1 /\ todo[i].to = "all" /\ "scene" \in DOMAIN e.news
            /\ \A s \in Slots : clients[s].active /\ clients[s].ready =>
                 "scene" \in DOMAIN clients[s].knows /\ clients[s].knows["scene"] = revision - 1

Carries(e, p) == \E j \in DOMAIN e.events : p \in DOMAIN e.events[j].news

(* What a session follows it shows, or it is still to be told.              *)
Informed ==
  \A s \in Slots : clients[s].active /\ clients[s].ready =>
    \A p \in clients[s].subs \cup SceneParts :
      \/ p \in DOMAIN clients[s].knows /\ clients[s].knows[p] = Announced[p]
      \/ \E i \in DOMAIN todo : Hears(todo[i], s) /\ Carries(todo[i], p)

Caches ==
  /\ pc = "poll" => seen = topic
  /\ presetsReady => presets = stored

(* An import that is being performed is of the session that is.             *)
ImportOwned ==
  flight.op = "archive" /\ session.mode # "none" => session.owner = flight.gen

IInv ==
  /\ Types /\ Distinct /\ Pending /\ EveryRequestAnswered
  /\ TellsTrue /\ Informed /\ Caches /\ ImportOwned

----------------------------------------------------------------------------
(* Events and sections.                                                     *)

LEMMA Bounds ==
  /\ MaxGen \in Nat \ {0} /\ MaxToken \in Nat \ {0} /\ MaxOutstanding \in Nat \ {0}
  /\ InboxCapacity \in Nat \ {0} /\ OutboxCapacity \in Nat \ {0, 1} /\ MaxChanges \in Nat
  BY BridgeAssumption

LEMMA NewsIntro ==
  ASSUME NEW D \in SUBSET Parts, NEW f \in [D -> Values]
  PROVE  f \in News
  BY DEF News

LEMMA NewsElim ==
  ASSUME NEW f \in News
  PROVE  DOMAIN f \in SUBSET Parts /\ f \in [DOMAIN f -> Values]
  BY DEF News

LEMMA NoNews == <<>> \in News /\ DOMAIN <<>> = {}
<1>1. <<>> \in [{} -> Values] /\ DOMAIN <<>> = {}
  OBVIOUS
<1>2. QED
  BY <1>1, NewsIntro

LEMMA EventType ==
  ASSUME NEW f \in News
  PROVE  /\ Event(f) \in Events /\ Event(f).for = 0 /\ Event(f).news = f
         /\ ~Event(f).delta
  BY Bounds DEF Event, Events

Ops == {"initial"} \cup {m.op : m \in Messages}
Args == {"none"} \cup {m.arg : m \in Messages}

LEMMA RequestFields ==
  /\ Requests = [slot : Slots, gen : 1 .. MaxGen, op : Ops, arg : Args, to : 0 .. MaxToken]
  /\ \A r \in Requests : r.slot \in Slots /\ r.gen \in 1 .. MaxGen /\ r.to \in 0 .. MaxToken
<1>1. Requests = [slot : Slots, gen : 1 .. MaxGen, op : Ops, arg : Args, to : 0 .. MaxToken]
  BY Zenon DEF Requests, Ops, Args
<1>2. QED
  BY <1>1

LEMMA ReplyType ==
  ASSUME NEW f \in News, NEW r \in Requests
  PROVE  /\ Reply(r, f) \in Events /\ Reply(r, f).for = r.gen /\ Reply(r, f).news = f
         /\ ~Reply(r, f).delta
<1>1. r.gen \in 1 .. MaxGen
  BY RequestFields
<1>2. r.gen \in 0 .. MaxGen
  BY <1>1, Bounds
<1>3. QED
  BY <1>2 DEF Events, Reply

(* A part's value as the only news.                                         *)
LEMMA OnePart ==
  ASSUME NEW p \in Parts, NEW v \in Values
  PROVE  [q \in {p} |-> v] \in News
<1>1. [q \in {p} |-> v] \in [{p} -> Values] /\ {p} \in SUBSET Parts
  OBVIOUS
<1>2. QED
  BY <1>1, NewsIntro

LEMMA ShowsType ==
  ASSUME NEW c \in Sessions, NEW e \in Events
  PROVE  /\ Shows(c, e) \in News
         /\ DOMAIN Shows(c, e) = (DOMAIN e.news \ (Topics \ c.subs)) \cup DOMAIN c.knows
<1> DEFINE told == DOMAIN e.news \ (Topics \ c.subs)
           D == told \cup DOMAIN c.knows
<1>1. c.knows \in News /\ e.news \in News
  BY DEF Sessions, Events
<1>2. /\ DOMAIN c.knows \in SUBSET Parts /\ c.knows \in [DOMAIN c.knows -> Values]
      /\ DOMAIN e.news \in SUBSET Parts /\ e.news \in [DOMAIN e.news -> Values]
  BY <1>1, NewsElim
<1>3. 0 \in Values
  BY DEF Values
<1>4. Shows(c, e) \in [D -> Values]
  BY <1>2, <1>3 DEF Shows
<1>5. D \in SUBSET Parts
  BY <1>2
<1>6. Shows(c, e) \in News
  BY <1>4, <1>5, NewsIntro
<1>7. QED
  BY <1>4, <1>6

(* A screen after an event that does not skip over a change.                *)
LEMMA ShowsValue ==
  ASSUME NEW c \in Sessions, NEW e \in Events, NEW p \in Parts,
         e.delta => "scene" \in DOMAIN c.knows /\ c.knows["scene"] = e.news["scene"] - 1
  PROVE  /\ p \in DOMAIN e.news /\ p \notin Topics \ c.subs => Shows(c, e)[p] = e.news[p]
         /\ p \in DOMAIN c.knows /\ p \notin DOMAIN e.news => Shows(c, e)[p] = c.knows[p]
  BY DEF Shows

(* The outcome of a push.                                                   *)
Owes(c, e) == IF e.for = 0 THEN c.owed ELSE IF e.for = c.gen THEN c.owed - 1 ELSE -1

LEMMA ClosedType == Closed \in Sessions /\ ~Closed.active
<1>1. <<>> \in News
  BY NoNews
<1>2. QED
  BY <1>1, Bounds DEF Closed, Sessions

LEMMA PushResult ==
  ASSUME NEW c \in Sessions, NEW e \in Events
  PROVE  /\ Push(c, e) \in Sessions
         /\ Push(c, e).active =>
              /\ c.active /\ Push(c, e).gen = c.gen /\ Push(c, e).ready = c.ready
              /\ Push(c, e).subs = c.subs /\ Push(c, e).outstanding = c.outstanding
              /\ Push(c, e).owed = Owes(c, e) /\ Push(c, e).knows = Shows(c, e)
<1>1. Shows(c, e) \in News
  BY ShowsType
<1> DEFINE d == [c EXCEPT !.out = @ + 1]
<1>2. Shows(d, e) = Shows(c, e)
  BY DEF Shows, Sessions
<1>3. CASE ~c.active \/ c.out = OutboxCapacity
  BY <1>3, ClosedType DEF Push
<1>4. CASE ~(~c.active \/ c.out = OutboxCapacity)
  <2>1. Push(c, e) = Reads(d, e)
    BY <1>4 DEF Push
  <2>2. d = [active |-> c.active, gen |-> c.gen, ready |-> c.ready, subs |-> c.subs,
             out |-> c.out + 1, outstanding |-> c.outstanding, owed |-> c.owed,
             knows |-> c.knows]
    BY DEF Sessions
  <2>3. Reads(d, e) = [d EXCEPT !.knows = Shows(c, e), !.owed = Owes(c, e)]
    BY <1>2, <2>2 DEF Reads, Owes
  <2>4. Reads(d, e) = [active |-> c.active, gen |-> c.gen, ready |-> c.ready, subs |-> c.subs,
                       out |-> c.out + 1, outstanding |-> c.outstanding, owed |-> Owes(c, e),
                       knows |-> Shows(c, e)]
    BY <2>2, <2>3
  <2>5. c.out + 1 \in 0 .. OutboxCapacity /\ Owes(c, e) \in Int
    BY <1>4, Bounds DEF Sessions, Owes
  <2> HIDE DEF d
  <2>6. QED
    BY <1>1, <1>4, <2>1, <2>4, <2>5 DEF Sessions
<1>5. QED
  BY <1>3, <1>4

(* A section's events tell what A holds.                                    *)
Agrees(e, A) ==
  \A j \in DOMAIN e.events : \A p \in DOMAIN e.events[j].news : e.events[j].news[p] = A[p]

Plain(e) == \A j \in DOMAIN e.events : ~e.events[j].delta

Telling(e, A) == e \in Sections /\ SectionOK(e) /\ e.to # "asker" /\ Agrees(e, A)

Asking(e, A) == e \in Sections /\ SectionOK(e) /\ e.to = "asker" /\ Agrees(e, A) /\ Plain(e)

LEMMA BroadcastTells ==
  ASSUME NEW A, NEW e \in Events, e.for = 0, \A p \in DOMAIN e.news : e.news[p] = A[p]
  PROVE  /\ Telling(Broadcast(e), A)
         /\ Broadcast(e).to = "all" /\ Broadcast(e).events = <<e>>
         /\ \A p \in DOMAIN e.news : Carries(Broadcast(e), p)
<1>1. <<e>> \in Seq(Events) /\ Len(<<e>>) = 1 /\ <<e>>[1] = e /\ DOMAIN <<e>> = {1}
  OBVIOUS
<1>2. Broadcast(e) \in Sections
  BY <1>1 DEF Broadcast, Sections
<1>3. SectionOK(Broadcast(e)) /\ Broadcast(e).to # "asker"
  BY <1>1 DEF Broadcast, SectionOK
<1>4. Agrees(Broadcast(e), A) /\ \A p \in DOMAIN e.news : Carries(Broadcast(e), p)
  BY <1>1 DEF Broadcast, Agrees, Carries
<1>5. QED
  BY <1>2, <1>3, <1>4 DEF Telling, Broadcast

LEMMA AnnounceTells ==
  ASSUME NEW A, NEW t \in Topics, topic' \in [Topics -> Nat], A[t] = topic'[t]
  PROVE  /\ Telling(Announce(t), A) /\ Plain(Announce(t))
         /\ Announce(t).to = t /\ Carries(Announce(t), t)
<1> DEFINE f == [p \in {t} |-> topic'[t]]
           e == Event(f)
<1>1. f \in News
  <2>1. t \in Parts /\ topic'[t] \in Values
    BY DEF Parts, Values
  <2>2. QED
    BY <2>1, OnePart
<1>2. DOMAIN f = {t} /\ f[t] = A[t]
  OBVIOUS
<1> HIDE DEF f
<1>3. e \in Events /\ e.for = 0 /\ e.news = f /\ ~e.delta
  BY <1>1, EventType
<1> HIDE DEF e
<1>4. <<e>> \in Seq(Events) /\ Len(<<e>>) = 1 /\ <<e>>[1] = e /\ DOMAIN <<e>> = {1}
  BY <1>3
<1>5. Announce(t) = [to |-> t, req |-> Nobody, events |-> <<e>>, opens |-> FALSE]
  BY DEF Announce, e, f
<1>6. Announce(t) \in Sections
  BY <1>4, <1>5 DEF Sections
<1>7. SectionOK(Announce(t)) /\ Announce(t).to = t /\ t # "asker"
  BY <1>3, <1>4, <1>5 DEF SectionOK, Topics
<1>8. Agrees(Announce(t), A) /\ Plain(Announce(t)) /\ Carries(Announce(t), t)
  BY <1>2, <1>3, <1>4, <1>5 DEF Agrees, Plain, Carries
<1>9. QED
  BY <1>6, <1>7, <1>8 DEF Telling

(* A section that answers r with one event.                                 *)
LEMMA ReplyAsks ==
  ASSUME NEW A, NEW r \in Asked, NEW f \in News, \A p \in DOMAIN f : f[p] = A[p],
         NEW opens \in BOOLEAN, NEW e,
         r.op # "initial", opens <=> r.op = "snapshot", opens => SceneParts \subseteq DOMAIN f,
         e = [to |-> "asker", req |-> r, opens |-> opens, events |-> <<Reply(r, f)>>]
  PROVE  Asking(e, A) /\ e.req = r /\ \A p \in DOMAIN f : Carries(e, p)
<1> DEFINE v == Reply(r, f)
<1>1. v \in Events /\ v.for = r.gen /\ v.news = f /\ ~v.delta
  BY ReplyType DEF Asked
<1> HIDE DEF v
<1>2. <<v>> \in Seq(Events) /\ Len(<<v>>) = 1 /\ <<v>>[1] = v /\ DOMAIN <<v>> = {1}
  BY <1>1
<1>3. e.to = "asker" /\ e.req = r /\ e.opens = opens /\ e.events = <<v>>
  BY DEF v
<1>4. e \in Sections
  BY <1>2 DEF Sections, v
<1>5. SectionOK(e)
  BY <1>1, <1>2, <1>3 DEF SectionOK
<1>6. Agrees(e, A) /\ Plain(e) /\ \A p \in DOMAIN f : Carries(e, p)
  BY <1>1, <1>2, <1>3 DEF Agrees, Plain, Carries
<1>7. QED
  BY <1>3, <1>4, <1>5, <1>6 DEF Asking

LEMMA AnswerAsks ==
  ASSUME NEW A, NEW r \in Asked, r.op \notin {"initial", "snapshot"}
  PROVE  Asking(Answer(r), A) /\ Answer(r).req = r
<1>1. Answer(r) = [to |-> "asker", req |-> r, opens |-> FALSE, events |-> <<Reply(r, <<>>)>>]
  BY DEF Answer
<1>2. QED
  BY <1>1, NoNews, ReplyAsks

(* What is to be told after a turn: nothing but news, and one answer at the *)
(* end if any.                                                              *)
Tellings(q, A) == q \in Seq(Sections) /\ \A i \in DOMAIN q : Telling(q[i], A)

(* r holds what p and q hold.                                               *)
Joins(r, p, q) ==
  /\ \A i \in DOMAIN p : \E k \in DOMAIN r : r[k] = p[i]
  /\ \A i \in DOMAIN q : \E k \in DOMAIN r : r[k] = q[i]
  /\ \A i \in DOMAIN r :
       (\E k \in DOMAIN p : r[i] = p[k]) \/ (\E k \in DOMAIN q : r[i] = q[k])

LEMMA TellingsConcat ==
  ASSUME NEW A, NEW p, NEW q, Tellings(p, A), Tellings(q, A)
  PROVE  Tellings(p \o q, A) /\ Joins(p \o q, p, q)
<1> DEFINE r == p \o q
<1>1. p \in Seq(Sections) /\ q \in Seq(Sections)
  BY DEF Tellings
<1>2. \A i \in DOMAIN p : i \in DOMAIN r /\ r[i] = p[i]
  BY <1>1
<1>3. \A i \in DOMAIN q : Len(p) + i \in DOMAIN r /\ r[Len(p) + i] = q[i]
  BY <1>1
<1>4. ASSUME NEW i \in DOMAIN r, i \notin DOMAIN p
      PROVE  \E k \in DOMAIN q : r[i] = q[k]
  <2>1. i - Len(p) \in DOMAIN q /\ i = Len(p) + (i - Len(p))
    BY <1>1, <1>4
  <2>2. QED
    BY <1>3, <2>1
<1>5. r \in Seq(Sections)
  BY <1>1
<1> HIDE DEF r
<1>6. Tellings(r, A) /\ Joins(r, p, q)
  BY <1>2, <1>3, <1>4, <1>5 DEF Tellings, Joins
<1>7. QED
  BY <1>6 DEF r

(* The sections to be told after a turn, with at most one answer, at the    *)
(* end.                                                                     *)
Turned(q, A) ==
  /\ q \in Seq(Sections)
  /\ \A i \in DOMAIN q : SectionOK(q[i]) /\ Agrees(q[i], A)
  /\ \A i \in DOMAIN q : q[i].to = "asker" => i = Len(q) /\ Plain(q[i])

LEMMA TurnedTelling ==
  ASSUME NEW A, NEW p, Tellings(p, A)
  PROVE  Turned(p, A) /\ \A i \in DOMAIN p : p[i].to # "asker"
  BY DEF Tellings, Telling, Turned

(* q is p and then a.                                                       *)
Ends(q, p, a) ==
  /\ Len(q) \in Nat \ {0} /\ Len(q) \in DOMAIN q /\ q[Len(q)] = a
  /\ \A i \in DOMAIN p : i \in DOMAIN q /\ q[i] = p[i] /\ i # Len(q)
  /\ \A i \in DOMAIN q : i # Len(q) => i \in DOMAIN p /\ q[i] = p[i] /\ q[i].to # "asker"

LEMMA TurnedAnswering ==
  ASSUME NEW A, NEW p, NEW a, Tellings(p, A), Asking(a, A)
  PROVE  Turned(p \o <<a>>, A) /\ Ends(p \o <<a>>, p, a)
<1> DEFINE q == p \o <<a>>
<1>1. p \in Seq(Sections) /\ a \in Sections
  BY DEF Tellings, Asking
<1>2. q \in Seq(Sections) /\ Len(q) \in Nat \ {0} /\ Len(q) \in DOMAIN q /\ q[Len(q)] = a
  BY <1>1
<1>3. \A i \in DOMAIN p : i \in DOMAIN q /\ q[i] = p[i] /\ i # Len(q)
  BY <1>1
<1>4. \A i \in DOMAIN q : i # Len(q) => i \in DOMAIN p /\ q[i] = p[i]
  BY <1>1
<1> HIDE DEF q
<1>5. \A i \in DOMAIN q : i # Len(q) => q[i].to # "asker"
  BY <1>4 DEF Tellings, Telling
<1>6. Turned(q, A)
  <2> SUFFICES ASSUME NEW i \in DOMAIN q
               PROVE  /\ SectionOK(q[i]) /\ Agrees(q[i], A)
                      /\ q[i].to = "asker" => i = Len(q) /\ Plain(q[i])
    BY <1>2 DEF Turned
  <2>1. CASE i = Len(q)
    BY <1>2, <2>1 DEF Asking
  <2>2. CASE i # Len(q)
    BY <1>4, <1>5, <2>2 DEF Tellings, Telling
  <2>3. QED
    BY <2>1, <2>2
<1>7. Ends(q, p, a)
  BY <1>2, <1>3, <1>4, <1>5 DEF Ends
<1>8. QED
  BY <1>6, <1>7 DEF q

LEMMA AnnouncesTell ==
  ASSUME NEW A, NEW ts, topic' \in [Topics -> Nat], \A t \in Topics : t \in ts => A[t] = topic'[t]
  PROVE  /\ Tellings(Announces(ts), A)
         /\ \A i \in DOMAIN Announces(ts) : Plain(Announces(ts)[i])
         /\ \A t \in Topics : t \in ts =>
              \E i \in DOMAIN Announces(ts) :
                Announces(ts)[i].to = t /\ Carries(Announces(ts)[i], t)
<1> DEFINE One(t) == IF t \in ts THEN <<Announce(t)>> ELSE <<>>
           Good(q, us) == /\ Tellings(q, A)
                          /\ \A i \in DOMAIN q : Plain(q[i])
                          /\ \A t \in us : t \in ts =>
                               \E i \in DOMAIN q : q[i].to = t /\ Carries(q[i], t)
<1>1. ASSUME NEW t \in Topics PROVE Good(One(t), {t})
  <2>1. CASE t \in ts
    <3>1. A[t] = topic'[t]
      BY <2>1
    <3>2. Telling(Announce(t), A) /\ Plain(Announce(t)) /\ Announce(t).to = t
          /\ Carries(Announce(t), t)
      BY <3>1, AnnounceTells
    <3> DEFINE a == Announce(t)
    <3> HIDE DEF a
    <3>3. One(t) = <<a>> /\ a \in Sections
      BY <2>1, <3>2 DEF a, Telling
    <3>4. <<a>> \in Seq(Sections) /\ DOMAIN <<a>> = {1} /\ <<a>>[1] = a
      BY <3>3
    <3>5. QED
      BY <3>2, <3>3, <3>4 DEF Tellings, a
  <2>2. CASE t \notin ts
    <3>1. One(t) = <<>> /\ <<>> \in Seq(Sections) /\ DOMAIN <<>> = {}
      BY <2>2
    <3>2. QED
      BY <2>2, <3>1 DEF Tellings
  <2>3. QED
    BY <2>1, <2>2
<1>2. ASSUME NEW p, NEW q, NEW us, NEW vs, Good(p, us), Good(q, vs)
      PROVE  Good(p \o q, us \cup vs)
  <2> DEFINE r == p \o q
  <2>0. Tellings(p, A) /\ Tellings(q, A)
    BY <1>2
  <2> HIDE DEF Good, r
  <2>1. Tellings(r, A) /\ Joins(r, p, q)
    BY <2>0, TellingsConcat, Zenon DEF r
  <2> USE DEF Good
  <2>2. \A i \in DOMAIN r : Plain(r[i])
    BY <1>2, <2>1 DEF Joins
  <2>3. ASSUME NEW t \in us \cup vs, t \in ts
        PROVE  \E i \in DOMAIN r : r[i].to = t /\ Carries(r[i], t)
    <3>1. CASE t \in us
      BY <1>2, <2>1, <2>3, <3>1 DEF Joins
    <3>2. CASE t \in vs
      BY <1>2, <2>1, <2>3, <3>2 DEF Joins
    <3>3. QED
      BY <3>1, <3>2
  <2>4. QED
    BY <2>1, <2>2, <2>3 DEF r
<1> HIDE DEF Good
<1>3. Good(One("wifi"), {"wifi"}) /\ Good(One("settings"), {"settings"})
      /\ Good(One("maintenance"), {"maintenance"})
  BY <1>1 DEF Topics
<1> HIDE DEF One
<1>4. Good(One("wifi") \o One("settings"), {"wifi"} \cup {"settings"})
  BY <1>2, <1>3
<1>5. Good((One("wifi") \o One("settings")) \o One("maintenance"),
           ({"wifi"} \cup {"settings"}) \cup {"maintenance"})
  BY <1>2, <1>3, <1>4
<1>6. Announces(ts) = (One("wifi") \o One("settings")) \o One("maintenance")
  BY DEF Announces, One
<1>7. ({"wifi"} \cup {"settings"}) \cup {"maintenance"} = Topics
  BY DEF Topics
<1>8. Good(Announces(ts), Topics)
  BY <1>5, <1>6, <1>7
<1>9. QED
  BY <1>8 DEF Good

----------------------------------------------------------------------------
(* What a turn of the owner task announces.                                 *)

LEMMA AnnouncedValues ==
  /\ \A t \in Topics : t \in Parts /\ Announced[t] = seen[t]
  /\ SceneParts \subseteq Parts
  /\ Announced["scene"] = revision /\ Announced["mode"] = sender
  /\ Announced["presets"] = IF presetsReady THEN stored ELSE presets
  /\ \A p \in Parts : p \in Topics \/ p = "scene" \/ p = "presets" \/ p = "mode"
  BY DEF Announced, Parts, Topics, SceneParts

(* The same of the next state.                                              *)
LEMMA AnnouncedNext ==
  /\ \A t \in Topics : t \in Parts /\ Announced'[t] = seen'[t]
  /\ Announced'["scene"] = revision' /\ Announced'["mode"] = sender'
  /\ presetsReady' = TRUE => Announced'["presets"] = stored'
  /\ presetsReady' = FALSE => Announced'["presets"] = presets'
  BY DEF Announced, Parts, Topics, SceneParts

Reaches(q, p) == \E i \in DOMAIN q : (q[i].to = "all" \/ q[i].to = p) /\ Carries(q[i], p)

(* A channel's event is first, and of the change that was just made.        *)
DeltaFirst(q) ==
  \A i \in DOMAIN q : ~Plain(q[i]) =>
    i = 1 /\ q[i].to = "all" /\ Carries(q[i], "scene") /\ revision' = revision + 1

Moves(A0, A) ==
  /\ Turned(todo', A)
  /\ \A p \in Parts : A[p] = A0[p] \/ Reaches(todo', p)
  /\ DeltaFirst(todo')

LEMMA UniverseTells ==
  ASSUME revision' \in Nat, presets' \in {"none", "old", "new", "error"}, sender \in BOOLEAN,
         NEW A, A["scene"] = revision', A["presets"] = presets', A["mode"] = sender
  PROVE  /\ Universe \in Events /\ Universe.for = 0 /\ ~Universe.delta
         /\ Universe.news \in News /\ DOMAIN Universe.news = SceneParts
         /\ \A p \in SceneParts : Universe.news[p] = A[p]
<1> DEFINE f == [p \in SceneParts |->
                   IF p = "scene" THEN revision' ELSE IF p = "presets" THEN presets' ELSE sender]
<1>1. f \in [SceneParts -> Values] /\ SceneParts \in SUBSET Parts
  BY DEF Values, SceneParts, Parts
<1>2. f \in News /\ DOMAIN f = SceneParts
  BY <1>1, NewsIntro
<1>3. \A p \in SceneParts : f[p] = A[p]
  BY DEF SceneParts
<1> HIDE DEF f
<1>4. Universe = Event(f)
  BY DEF Universe, f
<1>5. QED
  BY <1>2, <1>3, <1>4, EventType

LEMMA DeltaTells ==
  ASSUME revision' \in Nat, sender \in BOOLEAN,
         NEW A, A["scene"] = revision', A["mode"] = sender
  PROVE  /\ Delta \in Events /\ Delta.for = 0
         /\ DOMAIN Delta.news = {"scene", "mode"}
         /\ \A p \in DOMAIN Delta.news : Delta.news[p] = A[p]
<1> DEFINE f == [p \in {"scene", "mode"} |-> IF p = "scene" THEN revision' ELSE sender]
<1>1. f \in [{"scene", "mode"} -> Values] /\ {"scene", "mode"} \in SUBSET Parts
  BY DEF Values, Parts
<1>2. f \in News /\ DOMAIN f = {"scene", "mode"}
  BY <1>1, NewsIntro
<1>3. \A p \in {"scene", "mode"} : f[p] = A[p]
  OBVIOUS
<1> HIDE DEF f
<1>4. Delta = [for |-> 0, delta |-> TRUE, news |-> f]
  BY DEF Delta, f
<1>5. QED
  BY <1>2, <1>3, <1>4, Bounds DEF Events

LEMMA ModeTells ==
  ASSUME NEW m \in BOOLEAN, NEW A, A["mode"] = m
  PROVE  /\ ModeEvent(m) \in Events /\ ModeEvent(m).for = 0 /\ ~ModeEvent(m).delta
         /\ DOMAIN ModeEvent(m).news = {"mode"}
         /\ \A p \in DOMAIN ModeEvent(m).news : ModeEvent(m).news[p] = A[p]
<1> DEFINE f == [p \in {"mode"} |-> m]
<1>1. "mode" \in Parts /\ m \in Values
  BY DEF Parts, Values
<1>2. f \in News /\ DOMAIN f = {"mode"} /\ f["mode"] = A["mode"]
  BY <1>1, OnePart
<1> HIDE DEF f
<1>3. ModeEvent(m) = Event(f)
  BY DEF ModeEvent, f
<1>4. QED
  BY <1>2, <1>3, EventType

(* One section before the answers, if any.                                  *)
LEMMA OneTelling ==
  ASSUME NEW A, NEW e, Telling(e, A)
  PROVE  /\ Tellings(<<e>>, A) /\ DOMAIN <<e>> = {1} /\ <<e>>[1] = e
         /\ \A p : (e.to = "all" \/ e.to = p) /\ Carries(e, p) => Reaches(<<e>>, p)
<1>1. e \in Sections
  BY DEF Telling
<1>2. <<e>> \in Seq(Sections) /\ DOMAIN <<e>> = {1} /\ <<e>>[1] = e
  BY <1>1
<1>3. QED
  BY <1>2 DEF Tellings, Reaches

LEMMA NoTelling ==
  ASSUME NEW A
  PROVE  Tellings(<<>>, A) /\ DeltaFirst(<<>>)
<1>1. <<>> \in Seq(Sections) /\ DOMAIN <<>> = {}
  OBVIOUS
<1>2. QED
  BY <1>1 DEF Tellings, DeltaFirst

(* A command's event, of the whole state or of one channel's value.         *)
LEMMA UniverseSection ==
  ASSUME revision' \in Nat, presets' \in {"none", "old", "new", "error"}, sender \in BOOLEAN,
         NEW A, A["scene"] = revision', A["presets"] = presets', A["mode"] = sender
  PROVE  /\ Tellings(<<Broadcast(Universe)>>, A) /\ DeltaFirst(<<Broadcast(Universe)>>)
         /\ \A p \in SceneParts : Reaches(<<Broadcast(Universe)>>, p)
<1> DEFINE e == Broadcast(Universe)
<1>1. /\ Universe \in Events /\ Universe.for = 0 /\ ~Universe.delta
      /\ DOMAIN Universe.news = SceneParts
      /\ \A p \in DOMAIN Universe.news : Universe.news[p] = A[p]
  BY UniverseTells
<1>2. /\ Telling(e, A) /\ e.to = "all" /\ e.events = <<Universe>>
      /\ \A p \in SceneParts : Carries(e, p)
  BY <1>1, BroadcastTells
<1>3. Plain(e)
  BY <1>1, <1>2 DEF Plain
<1> HIDE DEF e
<1>4. Tellings(<<e>>, A) /\ DOMAIN <<e>> = {1} /\ <<e>>[1] = e
      /\ \A p \in SceneParts : Reaches(<<e>>, p)
  BY <1>2, OneTelling
<1>5. DeltaFirst(<<e>>)
  BY <1>3, <1>4 DEF DeltaFirst
<1>6. QED
  BY <1>4, <1>5 DEF e

LEMMA DeltaSection ==
  ASSUME revision' \in Nat, sender \in BOOLEAN, revision' = revision + 1,
         NEW A, A["scene"] = revision', A["mode"] = sender
  PROVE  /\ Tellings(<<Broadcast(Delta)>>, A) /\ DeltaFirst(<<Broadcast(Delta)>>)
         /\ \A p \in {"scene", "mode"} : Reaches(<<Broadcast(Delta)>>, p)
<1> DEFINE e == Broadcast(Delta)
<1>1. /\ Delta \in Events /\ Delta.for = 0 /\ DOMAIN Delta.news = {"scene", "mode"}
      /\ \A p \in DOMAIN Delta.news : Delta.news[p] = A[p]
  BY DeltaTells
<1>2. Telling(e, A) /\ e.to = "all" /\ \A p \in {"scene", "mode"} : Carries(e, p)
  BY <1>1, BroadcastTells
<1> HIDE DEF e
<1>3. Tellings(<<e>>, A) /\ DOMAIN <<e>> = {1} /\ <<e>>[1] = e
      /\ \A p \in {"scene", "mode"} : Reaches(<<e>>, p)
  BY <1>2, OneTelling
<1>4. DeltaFirst(<<e>>)
  BY <1>2, <1>3 DEF DeltaFirst
<1>5. QED
  BY <1>3, <1>4 DEF e

(* The presets after state(): read again, or what they were.                *)
LEMMA ReadResult ==
  ASSUME stored' \in {"old", "new"}, presets \in {"none", "old", "new", "error"},
         presetsReady \in BOOLEAN, NEW ready \in BOOLEAN, ReadPresets(ready),
         ready => presetsReady /\ presets = stored'
  PROVE  /\ presets' \in {"none", "old", "new", "error"} /\ presetsReady' \in BOOLEAN
         /\ presetsReady' = TRUE => presets' = stored'
  BY DEF ReadPresets

(* completed: whatever the command changes of what is announced is told to  *)
(* everyone, in one section before the answer.                              *)
Before(replies) ==
  \E ts : /\ todo' = ts \o replies
          /\ Tellings(ts, Announced') /\ DeltaFirst(ts)
          /\ \A p \in Parts : Announced'[p] = Announced[p] \/ Reaches(ts, p)

LEMMA CompletedTells ==
  ASSUME Types, Caches, NEW kind, NEW result \in Results, NEW changed \in BOOLEAN,
         NEW replies, replies \in Seq(Sections), Completed(kind, result, changed, replies)
  PROVE  /\ Before(replies)
         /\ revision' \in Nat \ {0} /\ stored' \in {"old", "new"}
         /\ presets' \in {"none", "old", "new", "error"} /\ presetsReady' \in BOOLEAN
         /\ presetsReady' = TRUE => presets' = stored'
<1> DEFINE told == Tells(kind, result, changed)
           A == Announced'
<1>1. /\ revision \in Nat \ {0} /\ stored \in {"old", "new"} /\ sender \in BOOLEAN
      /\ presets \in {"none", "old", "new", "error"} /\ presetsReady \in BOOLEAN
      /\ presetsReady = TRUE => presets = stored
      /\ sender' = sender /\ seen' = seen
  BY DEF Types, Scalars, Caches, Completed
<1>2. revision' \in Nat \ {0} /\ stored' \in {"old", "new"}
      /\ (changed => revision' = revision + 1) /\ (~changed => revision' = revision)
  BY <1>1 DEF Completed
<1>3. ~Invalidates(kind) => stored' = stored
  BY DEF Completed, Invalidates
<1>4. ~told => stored' = stored /\ ~changed
  BY DEF Completed, Tells, Results
<1>5. /\ \A t \in Topics : A[t] = Announced[t]
      /\ A["scene"] = revision' /\ A["mode"] = sender /\ Announced["mode"] = sender
      /\ Announced["scene"] = revision /\ Announced["presets"] = presets
      /\ \A p \in Parts : p \in Topics \/ p = "scene" \/ p = "presets" \/ p = "mode"
  BY <1>1, AnnouncedValues, AnnouncedNext
<1>6. (presetsReady' \in BOOLEAN /\ (presetsReady' = TRUE => presets' = stored')) =>
        A["presets"] = presets'
  BY AnnouncedNext
<1> HIDE DEF A
<1>7. CASE told /\ kind # "channel"
  <2> DEFINE ready == presetsReady /\ ~Invalidates(kind)
  <2>1. ReadPresets(ready) /\ todo' = <<Broadcast(Universe)>> \o replies
    BY <1>7 DEF Completed
  <2>2. ready \in BOOLEAN /\ (ready => presetsReady /\ presets = stored')
    BY <1>1, <1>3
  <2> HIDE DEF ready
  <2>3. /\ presets' \in {"none", "old", "new", "error"} /\ presetsReady' \in BOOLEAN
        /\ presetsReady' = TRUE => presets' = stored'
    BY <1>1, <1>2, <2>1, <2>2, ReadResult
  <2>4. A["presets"] = presets'
    BY <1>6, <2>3
  <2>5. /\ Tellings(<<Broadcast(Universe)>>, A) /\ DeltaFirst(<<Broadcast(Universe)>>)
        /\ \A p \in SceneParts : Reaches(<<Broadcast(Universe)>>, p)
    BY <1>1, <1>2, <1>5, <2>3, <2>4, UniverseSection
  <2>6. \A p \in Parts : A[p] = Announced[p] \/ Reaches(<<Broadcast(Universe)>>, p)
    BY <1>5, <2>5 DEF SceneParts
  <2>7. Before(replies)
    BY <2>1, <2>5, <2>6 DEF Before, A
  <2>8. QED
    BY <1>2, <2>3, <2>7
<1>8. CASE told /\ kind = "channel"
  <2>1. changed /\ todo' = <<Broadcast(Delta)>> \o replies /\ UNCHANGED <<presets, presetsReady>>
    BY <1>8 DEF Completed, Tells
  <2>2. ~Invalidates(kind)
    BY <1>8 DEF Invalidates
  <2>3. A["presets"] = Announced["presets"]
    BY <1>1, <1>3, <1>5, <1>6, <2>1, <2>2
  <2>4. /\ Tellings(<<Broadcast(Delta)>>, A) /\ DeltaFirst(<<Broadcast(Delta)>>)
        /\ \A p \in {"scene", "mode"} : Reaches(<<Broadcast(Delta)>>, p)
    BY <1>1, <1>2, <1>5, <2>1, DeltaSection
  <2>5. \A p \in Parts : A[p] = Announced[p] \/ Reaches(<<Broadcast(Delta)>>, p)
    BY <1>5, <2>3, <2>4
  <2>6. Before(replies)
    BY <2>1, <2>4, <2>5 DEF Before, A
  <2>7. QED
    BY <1>1, <1>2, <1>3, <2>1, <2>2, <2>6
<1>9. CASE ~told
  <2>1. /\ todo' = replies /\ presets' = presets
        /\ presetsReady' = (presetsReady /\ ~Invalidates(kind))
    BY <1>9 DEF Completed
  <2>2. presetsReady' \in BOOLEAN /\ (presetsReady' = TRUE => presets' = stored')
    BY <1>1, <1>4, <1>9, <2>1
  <2>3. \A p \in Parts : A[p] = Announced[p]
    BY <1>2, <1>4, <1>5, <1>6, <1>9, <2>1, <2>2
  <2>4. todo' = <<>> \o replies
    BY <2>1
  <2>5. Before(replies)
    BY <2>3, <2>4, NoTelling DEF Before, A
  <2>6. QED
    BY <1>1, <1>2, <2>1, <2>2, <2>5
<1>10. QED
  BY <1>7, <1>8, <1>9

(* From a section to the turn: with no answer, or with one.                 *)
LEMMA MovesWithout ==
  ASSUME Before(<<>>)
  PROVE  Moves(Announced, Announced') /\ \A i \in DOMAIN todo' : todo'[i].to # "asker"
<1>1. PICK ts : /\ todo' = ts \o <<>>
                /\ Tellings(ts, Announced') /\ DeltaFirst(ts)
                /\ \A p \in Parts : Announced'[p] = Announced[p] \/ Reaches(ts, p)
  BY DEF Before
<1>2. todo' = ts
  BY <1>1 DEF Tellings
<1>3. QED
  BY <1>1, <1>2, TurnedTelling DEF Moves

Answered(r) ==
  /\ Len(todo') \in DOMAIN todo' /\ todo'[Len(todo')].to = "asker"
  /\ todo'[Len(todo')].req = r
  /\ \A i \in DOMAIN todo' : todo'[i].to = "asker" => i = Len(todo')

LEMMA MovesWith ==
  ASSUME NEW a, NEW r, Asking(a, Announced'), a.req = r, Before(<<a>>)
  PROVE  Moves(Announced, Announced') /\ Answered(r) /\ todo'[Len(todo')] = a
<1> DEFINE A == Announced'
<1>1. PICK ts : /\ todo' = ts \o <<a>>
                /\ Tellings(ts, A) /\ DeltaFirst(ts)
                /\ \A p \in Parts : A[p] = Announced[p] \/ Reaches(ts, p)
  BY DEF Before
<1> DEFINE q == todo'
<1>2. Turned(q, A) /\ Ends(q, ts, a)
  BY <1>1, TurnedAnswering
<1> HIDE DEF A
<1>3. \A p : Reaches(ts, p) => Reaches(q, p)
  BY <1>2 DEF Ends, Reaches
<1>4. DeltaFirst(q)
  <2> SUFFICES ASSUME NEW i \in DOMAIN q, ~Plain(q[i])
               PROVE  i = 1 /\ q[i].to = "all" /\ Carries(q[i], "scene") /\ revision' = revision + 1
    BY DEF DeltaFirst
  <2>1. i # Len(q)
    BY <1>2 DEF Asking, Ends
  <2>2. i \in DOMAIN ts /\ q[i] = ts[i]
    BY <1>2, <2>1 DEF Ends
  <2>3. QED
    BY <1>1, <2>2 DEF DeltaFirst
<1>5. Moves(Announced, A)
  BY <1>1, <1>2, <1>3, <1>4 DEF Moves
<1>6. Answered(r) /\ q[Len(q)] = a
  BY <1>2 DEF Answered, Ends, Asking
<1>7. QED
  BY <1>5, <1>6 DEF A

----------------------------------------------------------------------------
(* What each action does to the state that is neither queue nor client.     *)

LEMMA HandlingRequest ==
  ASSUME Types, Handling
  PROVE  /\ inbox # <<>> /\ req = Head(inbox) /\ req \in Asked /\ req = inbox[1]
         /\ req.slot \in Slots /\ req.gen \in 1 .. MaxGen
         /\ clients[req.slot].active /\ clients[req.slot].gen = req.gen
         /\ todo = <<>> /\ flight = Nobody /\ pc = "poll"
<1>1. inbox # <<>> /\ req = Head(inbox) /\ inbox \in Seq(Asked)
  BY DEF Types, Handling, req
<1>2. req \in Asked /\ req = inbox[1]
  BY <1>1
<1> HIDE DEF req
<1>3. req.slot \in Slots /\ req.gen \in 1 .. MaxGen
  BY <1>2, RequestFields DEF Asked
<1>4. QED
  BY <1>1, <1>2, <1>3 DEF Handling, Live, Polled, InFlight

LEMMA BumpResult ==
  ASSUME NEW ts, topic \in [Topics -> Nat], Bump(ts)
  PROVE  /\ topic' \in [Topics -> Nat] /\ \A t \in Topics : topic[t] <= topic'[t]
         /\ \A t \in Topics : t \notin ts => topic'[t] = topic[t]
  BY DEF Bump

LEMMA ArchiveTypes ==
  ASSUME NEW ses \in Archives
  PROVE  /\ NoSession \in Archives
         /\ \A w \in BOOLEAN : [ses EXCEPT !.whole = w] \in Archives
                              /\ [ses EXCEPT !.whole = w].owner = ses.owner
         /\ [ses EXCEPT !.mode = "committing"] \in Archives
         /\ [ses EXCEPT !.mode = "committing"].owner = ses.owner
  BY Bounds DEF Archives, NoSession

Quietly == UNCHANGED <<presets, presetsReady, stored, revision>>

LEMMA QuietScalars ==
  ASSUME Types, Caches, Quietly,
         pc' \in {"away", "poll"}, sender' \in BOOLEAN, scene' \in BOOLEAN,
         topic' \in [Topics -> Nat], seen' \in [Topics -> Nat],
         \A t \in Topics : seen'[t] <= topic'[t],
         session' \in Archives, counter' \in 0 .. MaxToken,
         pc' = "poll" => seen' = topic'
  PROVE  Scalars' /\ Caches'
  BY DEF Types, Scalars, Caches, Quietly

LEMMA AnswersScalars ==
  ASSUME Types, Caches, Handled, UNCHANGED <<sender, seen, presets, presetsReady, domain>>,
         session' \in Archives, counter' \in 0 .. MaxToken
  PROVE  Scalars' /\ Caches'
<1>1. pc' = "away" /\ UNCHANGED <<scene, revision, stored, topic>>
  BY DEF Handled, domain
<1>2. QED
  BY <1>1, QuietScalars DEF Types, Scalars, Quietly

LEMMA PollsScalars ==
  ASSUME Types, Caches, Polls
  PROVE  Scalars' /\ Caches'
<1>1. session \in Archives /\ counter \in 0 .. MaxToken /\ NoSession \in Archives
  BY ArchiveTypes DEF Types, Scalars
<1>2. CASE NothingToHandle
  BY <1>1, <1>2, QuietScalars DEF Types, Scalars, Quietly, NothingToHandle, domain
<1>3. CASE Stale
  BY <1>1, <1>3, AnswersScalars DEF Stale
<1>4. CASE Snapshot
  <2>1. UNCHANGED <<stored, scene, revision, topic, sender, seen, session, counter>> /\ pc' = "away"
        /\ ReadPresets(presetsReady)
    BY <1>4 DEF Snapshot, Handled, domain
  <2>2. /\ stored' \in {"old", "new"} /\ presets \in {"none", "old", "new", "error"}
        /\ presetsReady \in BOOLEAN /\ (presetsReady => presetsReady /\ presets = stored')
    BY <2>1 DEF Types, Scalars, Caches
  <2>3. /\ presets' \in {"none", "old", "new", "error"} /\ presetsReady' \in BOOLEAN
        /\ presetsReady' = TRUE => presets' = stored'
    BY <2>1, <2>2, ReadResult
  <2>4. QED
    BY <2>1, <2>3 DEF Types, Scalars, Caches
<1>5. CASE TopicRequest
  <2>1. PICK ts : Bump(ts)
    BY <1>5 DEF TopicRequest
  <2>2. topic' \in [Topics -> Nat] /\ seen' = topic' /\ pc' = "away"
        /\ UNCHANGED <<sender, presets, presetsReady, session, counter, scene, revision, stored>>
    BY <1>5, <2>1, BumpResult DEF TopicRequest, Types, Scalars, Handled
  <2>3. QED
    BY <1>1, <2>2, QuietScalars DEF Types, Scalars, Quietly
<1>6. CASE CommittedAnswersBusy
  BY <1>1, <1>6, AnswersScalars DEF CommittedAnswersBusy, Answers
<1>7. CASE Command
  <2>1. session' \in {session, NoSession}
    BY <1>7 DEF Command, Submits, Answers
  <2>2. QED
    BY <1>1, <1>7, <2>1, AnswersScalars DEF Command, Submits, Answers
<1>8. CASE ArchiveBusy
  BY <1>1, <1>8, AnswersScalars DEF ArchiveBusy, Answers
<1>9. CASE ArchiveBegins
  <2>1. req.gen \in 1 .. MaxGen
    BY <1>9, HandlingRequest DEF ArchiveBegins
  <2>2. counter + 1 \in 1 .. MaxToken /\ counter' = counter + 1
    BY <1>1, <1>9, Bounds DEF ArchiveBegins
  <2>3. \/ session' = NoSession
        \/ session' = [mode |-> req.arg, owner |-> req.gen, token |-> counter + 1, whole |-> FALSE]
    BY <1>9 DEF ArchiveBegins, Answers
  <2>4. session' \in Archives
    <3>1. req.arg \in {"export", "import"}
      BY <1>9 DEF ArchiveBegins
    <3>2. [mode |-> req.arg, owner |-> req.gen, token |-> counter + 1, whole |-> FALSE] \in Archives
      BY <2>1, <2>2, <3>1, Bounds DEF Archives
    <3>3. QED
      BY <1>1, <2>3, <3>2
  <2>5. QED
    BY <1>9, <2>2, <2>4, AnswersScalars DEF ArchiveBegins, Answers
<1>10. CASE ArchiveUnauthorized
  BY <1>1, <1>10, AnswersScalars DEF ArchiveUnauthorized, Answers
<1>11. CASE ArchiveContinues
  <2>1. session' = NoSession \/ \E w \in BOOLEAN : session' = [session EXCEPT !.whole = w]
    BY <1>11 DEF ArchiveContinues, Answers
  <2>2. session' \in Archives
    BY <1>1, <2>1, ArchiveTypes
  <2>3. QED
    BY <1>1, <1>11, <2>2, AnswersScalars DEF ArchiveContinues, Answers
<1>12. CASE ArchiveCommits
  <2>1. session' = NoSession \/ session' = [session EXCEPT !.mode = "committing"]
    BY <1>12 DEF ArchiveCommits, Submits, Answers
  <2>2. session' \in Archives
    BY <1>1, <2>1, ArchiveTypes
  <2>3. QED
    BY <1>1, <1>12, <2>2, AnswersScalars DEF ArchiveCommits, Submits, Answers
<1>13. QED
  BY <1>2, <1>3, <1>4, <1>5, <1>6, <1>7, <1>8, <1>9, <1>10, <1>11, <1>12 DEF Polls

LEMMA DomainScalars ==
  ASSUME Types, Caches, EnterSender \/ TopicChanges
  PROVE  Scalars' /\ Caches'
<1>1. session \in Archives /\ counter \in 0 .. MaxToken
  BY DEF Types, Scalars
<1>2. CASE EnterSender
  <2>1. UNCHANGED <<pc, sender, seen, presets, presetsReady, session, counter, revision, stored,
                    topic>> /\ scene' = TRUE
    BY <1>2 DEF EnterSender, owner
  <2>2. QED
    BY <2>1, QuietScalars DEF Types, Scalars, Caches, Quietly
<1>3. CASE TopicChanges
  <2>1. \E ts : Bump(ts)
    BY <1>3 DEF TopicChanges
  <2>2. /\ UNCHANGED <<pc, sender, seen, presets, presetsReady, session, counter, revision, stored,
                       scene>>
        /\ pc = "away"
    BY <1>3 DEF TopicChanges, owner, Away
  <2>3. topic' \in [Topics -> Nat] /\ \A t \in Topics : topic[t] <= topic'[t]
    BY <2>1, BumpResult DEF Types, Scalars
  <2>4. \A t \in Topics : seen'[t] <= topic'[t]
    BY <2>2, <2>3 DEF Types, Scalars
  <2>5. QED
    BY <2>2, <2>3, <2>4, QuietScalars DEF Types, Scalars, Quietly
<1>4. QED
  BY <1>2, <1>3

(* The turns that announce: what is still to be told holds every change.    *)
LEMMA LocalCommandMoves ==
  ASSUME Types, Caches, LocalCommand
  PROVE  /\ Scalars' /\ Caches' /\ Moves(Announced, Announced')
         /\ \A i \in DOMAIN todo' : todo'[i].to # "asker"
<1>1. PICK kind \in {"channel", "bulk", "load", "presets"}, result \in Results,
            changed \in BOOLEAN :
        Completed(kind, result, changed, <<>>)
  BY DEF LocalCommand
<1>2. <<>> \in Seq(Sections)
  OBVIOUS
<1>3. /\ Before(<<>>)
      /\ revision' \in Nat \ {0} /\ stored' \in {"old", "new"}
      /\ presets' \in {"none", "old", "new", "error"} /\ presetsReady' \in BOOLEAN
      /\ presetsReady' = TRUE => presets' = stored'
  BY <1>1, <1>2, CompletedTells
<1>4. Moves(Announced, Announced') /\ \A i \in DOMAIN todo' : todo'[i].to # "asker"
  BY <1>3, MovesWithout
<1>5. UNCHANGED <<pc, sender, seen, session, counter, scene, topic>>
  BY <1>1 DEF Completed, LocalCommand
<1>6. Scalars' /\ Caches'
  BY <1>3, <1>5 DEF Types, Scalars, Caches
<1>7. QED
  BY <1>4, <1>6

LEMMA FlightCompletesMoves ==
  ASSUME Types, Caches, Pending, FlightCompletes
  PROVE  Scalars' /\ Caches' /\ Moves(Announced, Announced') /\ Answered(flight)
<1>1. flight \in Asked /\ flight.op \notin {"initial", "snapshot"}
  BY DEF FlightCompletes, Types, Pending
<1> DEFINE a == Answer(flight)
<1>2. Asking(a, Announced') /\ a.req = flight
  BY <1>1, AnswerAsks
<1> DEFINE kind == IF flight.op = "archive" THEN "replace" ELSE flight.arg
<1>3. PICK result \in Results, changed \in BOOLEAN : Completed(kind, result, changed, <<a>>)
  BY DEF FlightCompletes
<1> HIDE DEF kind
<1> HIDE DEF a
<1>4. <<a>> \in Seq(Sections)
  BY <1>2 DEF Asking
<1>5. /\ Before(<<a>>)
      /\ revision' \in Nat \ {0} /\ stored' \in {"old", "new"}
      /\ presets' \in {"none", "old", "new", "error"} /\ presetsReady' \in BOOLEAN
      /\ presetsReady' = TRUE => presets' = stored'
  BY <1>3, <1>4, CompletedTells
<1>6. Moves(Announced, Announced') /\ Answered(flight)
  BY <1>2, <1>5, MovesWith
<1>7. UNCHANGED <<pc, sender, seen, counter, scene, topic>>
  BY <1>3 DEF Completed
<1>8. session' \in Archives
  BY ArchiveTypes DEF FlightCompletes, AfterFlight, Types, Scalars
<1>9. Scalars' /\ Caches'
  BY <1>5, <1>7, <1>8 DEF Types, Scalars, Caches
<1>10. QED
  BY <1>6, <1>9

LEMMA PollBeginsMoves ==
  ASSUME Types, Caches, PollBegins
  PROVE  /\ Scalars' /\ Caches' /\ Moves(Announced, Announced')
         /\ \A i \in DOMAIN todo' : todo'[i].to # "asker"
<1> DEFINE A == Announced'
           us == {t \in Topics : topic'[t] # seen[t]}
           mode == IF sender = scene THEN <<>> ELSE <<Broadcast(ModeEvent(scene))>>
<1>1. /\ UNCHANGED <<presets, presetsReady, counter, scene, revision, stored>>
      /\ seen' = topic' /\ sender' = scene /\ pc' = "poll" /\ session' \in {session, NoSession}
      /\ todo' = Announces(us) \o mode
  BY DEF PollBegins
<1>2. topic' \in [Topics -> Nat]
  BY BumpResult DEF PollBegins, Types, Scalars
<1>3. session' \in Archives /\ sender \in BOOLEAN /\ scene \in BOOLEAN
  BY <1>1, ArchiveTypes DEF Types, Scalars
<1>4. /\ \A t \in Topics : A[t] = topic'[t] /\ Announced[t] = seen[t]
      /\ A["scene"] = Announced["scene"] /\ A["presets"] = Announced["presets"]
      /\ A["mode"] = scene /\ Announced["mode"] = sender
      /\ \A p \in Parts : p \in Topics \/ p = "scene" \/ p = "presets" \/ p = "mode"
  BY <1>1, AnnouncedValues, AnnouncedNext DEF Types, Scalars
<1> HIDE DEF A
<1>5. /\ Tellings(Announces(us), A)
      /\ \A i \in DOMAIN Announces(us) : Plain(Announces(us)[i])
      /\ \A t \in Topics : t \in us =>
           \E i \in DOMAIN Announces(us) : Announces(us)[i].to = t /\ Carries(Announces(us)[i], t)
  BY <1>2, <1>4, AnnouncesTell
<1>6. /\ Tellings(mode, A) /\ \A i \in DOMAIN mode : Plain(mode[i])
      /\ sender # scene => Reaches(mode, "mode")
  <2>1. CASE sender = scene
    <3>1. mode = <<>> /\ DOMAIN mode = {}
      BY <2>1
    <3>2. QED
      BY <2>1, <3>1, NoTelling
  <2>2. CASE sender # scene
    <3> DEFINE v == ModeEvent(scene)
               e == Broadcast(v)
    <3>1. v \in Events /\ v.for = 0 /\ ~v.delta /\ DOMAIN v.news = {"mode"}
          /\ \A p \in DOMAIN v.news : v.news[p] = A[p]
      BY <1>3, <1>4, ModeTells
    <3> HIDE DEF v
    <3>2. Telling(e, A) /\ e.to = "all" /\ e.events = <<v>> /\ Carries(e, "mode")
      BY <3>1, BroadcastTells
    <3>3. Plain(e)
      BY <3>1, <3>2 DEF Plain
    <3> HIDE DEF e
    <3>4. Tellings(<<e>>, A) /\ DOMAIN <<e>> = {1} /\ <<e>>[1] = e /\ Reaches(<<e>>, "mode")
      BY <3>2, OneTelling
    <3>5. mode = <<e>>
      BY <2>2 DEF e, v
    <3>6. QED
      BY <3>3, <3>4, <3>5
  <2>3. QED
    BY <2>1, <2>2
<1> HIDE DEF us, mode
<1> DEFINE q == todo'
<1>7. Tellings(q, A) /\ Joins(q, Announces(us), mode)
  BY <1>1, <1>5, <1>6, TellingsConcat, Zenon
<1>8. Turned(q, A) /\ \A i \in DOMAIN q : q[i].to # "asker"
  BY <1>7, TurnedTelling
<1> HIDE DEF q
<1>9. DeltaFirst(q)
  BY <1>5, <1>6, <1>7 DEF DeltaFirst, Joins
<1>10. \A p \in Parts : A[p] = Announced[p] \/ Reaches(q, p)
  <2>1. \A p : (\E i \in DOMAIN Announces(us) :
                  Announces(us)[i].to = p /\ Carries(Announces(us)[i], p)) => Reaches(q, p)
    BY <1>7 DEF Reaches, Joins
  <2>2. Reaches(mode, "mode") => Reaches(q, "mode")
    BY <1>7 DEF Reaches, Joins
  <2>3. QED
    BY <1>4, <1>5, <1>6, <2>1, <2>2 DEF us
<1>11. Moves(Announced, A)
  BY <1>8, <1>9, <1>10 DEF Moves, q
<1>12. \A t \in Topics : seen'[t] <= topic'[t]
  BY <1>1, <1>2
<1>13. Scalars' /\ Caches'
  BY <1>1, <1>2, <1>3, <1>12 DEF Types, Scalars, Caches
<1>14. QED
  BY <1>8, <1>11, <1>13 DEF A, q

LEMMA SnapshotMoves ==
  ASSUME Types, Caches, Snapshot
  PROVE  Moves(Announced, Announced') /\ Answered(req)
<1> DEFINE A == Announced'
           events == IF req.op = "initial" THEN <<ModeEvent(sender), Universe>>
                     ELSE <<Reply(req, Universe.news)>>
           a == [to |-> "asker", req |-> req, opens |-> TRUE, events |-> events]
           replies == <<a>>
<1>1. req \in Asked /\ req.op \in {"initial", "snapshot"}
  BY HandlingRequest DEF Snapshot
<1>2. /\ UNCHANGED <<stored, revision, sender, seen>> /\ ReadPresets(presetsReady)
      /\ todo' = ToPeers \o replies
  BY DEF Snapshot, domain
<1>3. /\ stored' \in {"old", "new"} /\ presets \in {"none", "old", "new", "error"}
      /\ presetsReady \in BOOLEAN /\ (presetsReady => presetsReady /\ presets = stored')
      /\ revision' \in Nat /\ sender \in BOOLEAN
  BY <1>2 DEF Types, Scalars, Caches
<1>4. /\ presets' \in {"none", "old", "new", "error"} /\ presetsReady' \in BOOLEAN
      /\ presetsReady' = TRUE => presets' = stored'
  BY <1>2, <1>3, ReadResult
<1>5. /\ \A t \in Topics : A[t] = Announced[t]
      /\ A["scene"] = revision' /\ A["presets"] = presets' /\ A["mode"] = sender
      /\ Announced["scene"] = revision' /\ Announced["presets"] = presets
      /\ Announced["mode"] = sender
      /\ \A p \in Parts : p \in Topics \/ p = "scene" \/ p = "presets" \/ p = "mode"
  BY <1>2, <1>3, <1>4, AnnouncedValues, AnnouncedNext
<1> HIDE DEF A
<1>6. /\ Universe \in Events /\ Universe.for = 0 /\ ~Universe.delta
      /\ Universe.news \in News /\ DOMAIN Universe.news = SceneParts
      /\ \A p \in SceneParts : Universe.news[p] = A[p]
  BY <1>3, <1>4, <1>5, UniverseTells
<1>7. Asking(a, A) /\ a.req = req
  <2>1. CASE req.op = "initial"
    <3> DEFINE v == ModeEvent(sender)
               u == Universe
    <3>1. v \in Events /\ v.for = 0 /\ ~v.delta /\ \A p \in DOMAIN v.news : v.news[p] = A[p]
      BY <1>3, <1>5, ModeTells
    <3>2. u \in Events /\ u.for = 0 /\ ~u.delta /\ DOMAIN u.news = SceneParts
          /\ \A p \in DOMAIN u.news : u.news[p] = A[p]
      BY <1>6
    <3>3. events = <<v, u>>
      BY <2>1
    <3> HIDE DEF v, u, events
    <3>4. /\ events \in Seq(Events) /\ Len(events) = 2 /\ DOMAIN events = {1, 2}
          /\ events[1] = v /\ events[2] = u
      BY <3>1, <3>2, <3>3
    <3>5. a \in Sections
      BY <1>1, <3>4 DEF Sections
    <3>6. SectionOK(a)
      BY <1>1, <2>1, <3>1, <3>2, <3>4 DEF SectionOK
    <3>7. Agrees(a, A) /\ Plain(a)
      BY <3>1, <3>2, <3>4 DEF Agrees, Plain
    <3>8. QED
      BY <3>5, <3>6, <3>7 DEF Asking
  <2>2. CASE req.op = "snapshot"
    <3> DEFINE f == Universe.news
    <3>1. a = [to |-> "asker", req |-> req, opens |-> TRUE, events |-> <<Reply(req, f)>>]
      BY <2>2
    <3>2. f \in News /\ DOMAIN f = SceneParts /\ \A p \in DOMAIN f : f[p] = A[p]
      BY <1>6
    <3> HIDE DEF f, a
    <3>3. QED
      BY <1>1, <2>2, <3>1, <3>2, ReplyAsks
  <2>3. QED
    BY <1>1, <2>1, <2>2
<1> HIDE DEF a, events
<1>8. Before(<<a>>)
  <2>1. CASE presets' = presets
    <3>1. \A p \in Parts : A[p] = Announced[p]
      BY <1>5, <2>1
    <3>2. todo' = <<>> \o <<a>>
      BY <1>2, <2>1 DEF ToPeers
    <3>3. QED
      BY <3>1, <3>2, NoTelling DEF Before, A
  <2>2. CASE presets' # presets
    <3> DEFINE ts == <<Broadcast(Universe)>>
    <3>1. Tellings(ts, A) /\ DeltaFirst(ts) /\ \A p \in SceneParts : Reaches(ts, p)
      BY <1>3, <1>4, <1>5, UniverseSection
    <3>2. todo' = ts \o <<a>>
      BY <1>2, <2>2 DEF ToPeers
    <3> HIDE DEF ts
    <3>3. \A p \in Parts : A[p] = Announced[p] \/ Reaches(ts, p)
      BY <1>5, <3>1 DEF SceneParts
    <3>4. QED
      BY <3>1, <3>2, <3>3 DEF Before, A
  <2>3. QED
    BY <2>1, <2>2
<1>9. QED
  BY <1>7, <1>8, MovesWith DEF A

LEMMA TopicRequestMoves ==
  ASSUME Types, Caches, TopicRequest
  PROVE  /\ Moves(Announced, Announced') /\ Answered(req) /\ req.arg \in Topics
         /\ Carries(todo'[Len(todo')], req.arg)
<1> DEFINE A == Announced'
           f == [p \in {req.arg} |-> topic'[req.arg]]
           a == [to |-> "asker", req |-> req, opens |-> FALSE, events |-> <<Reply(req, f)>>]
<1>1. req \in Asked /\ req.op \in {"get", "write"} /\ seen = topic
  BY HandlingRequest DEF TopicRequest, Caches
<1>2. req.arg \in Topics
  BY <1>1 DEF Asked
<1>3. PICK ts : Bump(ts) /\ todo' = Announces(ts) \o <<a>>
  BY DEF TopicRequest
<1>4. seen' = topic' /\ UNCHANGED <<sender, presets, presetsReady, revision, stored>>
  BY DEF TopicRequest
<1>5. topic' \in [Topics -> Nat] /\ \A t \in Topics : t \notin ts => topic'[t] = topic[t]
  BY <1>3, BumpResult DEF Types, Scalars
<1>6. /\ \A t \in Topics : A[t] = topic'[t] /\ Announced[t] = seen[t]
      /\ A["scene"] = Announced["scene"] /\ A["presets"] = Announced["presets"]
      /\ A["mode"] = Announced["mode"]
      /\ \A p \in Parts : p \in Topics \/ p = "scene" \/ p = "presets" \/ p = "mode"
  BY <1>4, AnnouncedValues, AnnouncedNext DEF Types, Scalars
<1> HIDE DEF A
<1>7. f \in News /\ DOMAIN f = {req.arg} /\ \A p \in DOMAIN f : f[p] = A[p]
  <2>1. req.arg \in Parts /\ topic'[req.arg] \in Values
    BY <1>2, <1>5 DEF Parts, Values
  <2>2. f \in News
    BY <2>1, OnePart
  <2>3. QED
    BY <1>2, <1>6, <2>2
<1> HIDE DEF f
<1>8. a = [to |-> "asker", req |-> req, opens |-> FALSE, events |-> <<Reply(req, f)>>]
  OBVIOUS
<1> HIDE DEF a
<1>9. Asking(a, A) /\ a.req = req /\ Carries(a, req.arg)
  <2>1. req.op # "initial" /\ req.op # "snapshot" /\ (FALSE <=> req.op = "snapshot")
    BY <1>1
  <2>2. Asking(a, A) /\ a.req = req /\ \A p \in DOMAIN f : Carries(a, p)
    BY <1>1, <1>7, <1>8, <2>1, ReplyAsks
  <2>3. QED
    BY <1>7, <2>2
<1>10. /\ Tellings(Announces(ts), A)
       /\ \A i \in DOMAIN Announces(ts) : Plain(Announces(ts)[i])
       /\ \A t \in Topics : t \in ts =>
            \E i \in DOMAIN Announces(ts) : Announces(ts)[i].to = t /\ Carries(Announces(ts)[i], t)
  BY <1>5, <1>6, AnnouncesTell
<1>11. \A p \in Parts : A[p] = Announced[p] \/ Reaches(Announces(ts), p)
  BY <1>1, <1>5, <1>6, <1>10 DEF Reaches
<1>12. DeltaFirst(Announces(ts))
  BY <1>10 DEF DeltaFirst
<1>13. Before(<<a>>)
  BY <1>3, <1>10, <1>11, <1>12 DEF Before, A
<1>14. Moves(Announced, Announced') /\ Answered(req) /\ todo'[Len(todo')] = a
  BY <1>9, <1>13, MovesWith DEF A
<1>15. QED
  BY <1>2, <1>9, <1>14

(* A request that is answered at once, and nothing else.                    *)
LEMMA AnswersMoves ==
  ASSUME Types, Handling, NEW ses, Answers(ses), req.op \notin {"initial", "snapshot"}
  PROVE  Moves(Announced, Announced') /\ Answered(req)
<1> DEFINE a == Answer(req)
<1>1. req \in Asked
  BY HandlingRequest
<1>2. Asking(a, Announced') /\ a.req = req
  BY <1>1, AnswerAsks
<1>3. UNCHANGED <<sender, seen, presets, presetsReady, revision, stored>> /\ todo' = <<a>>
  BY DEF Answers, domain
<1>4. Announced' = Announced
  BY <1>3 DEF Announced
<1> HIDE DEF a
<1>5. todo' = <<>> \o <<a>>
  BY <1>3
<1>6. Before(<<a>>)
  BY <1>4, <1>5, NoTelling DEF Before
<1>7. QED
  BY <1>2, <1>6, MovesWith

LEMMA StillMoves ==
  ASSUME todo' = <<>>, UNCHANGED <<sender, seen, presets, presetsReady, revision, stored>>
  PROVE  Moves(Announced, Announced') /\ \A i \in DOMAIN todo' : todo'[i].to # "asker"
<1>1. Announced' = Announced
  BY DEF Announced
<1>2. todo' = <<>> \o <<>>
  OBVIOUS
<1>3. Before(<<>>)
  BY <1>1, <1>2, NoTelling DEF Before
<1>4. QED
  BY <1>3, MovesWithout

----------------------------------------------------------------------------
(* The turns of the owner task, by what becomes of the request in hand.     *)

NoAnswer == \A i \in DOMAIN todo' : todo'[i].to # "asker"

Quiet == UNCHANGED <<clients, inbox, flight>> /\ NoAnswer

Flown ==
  /\ UNCHANGED <<clients, inbox>>
  /\ flight # Nobody /\ flight' = Nobody /\ Answered(flight)

Forgotten ==
  /\ UNCHANGED <<clients, flight>> /\ inbox # <<>> /\ inbox' = Tail(inbox)
  /\ ~Live(Head(inbox).slot, Head(inbox).gen) /\ NoAnswer

Submitted ==
  /\ UNCHANGED clients /\ Handling /\ inbox' = Tail(inbox)
  /\ flight' = req /\ req.op \in {"command", "archive"} /\ NoAnswer

Concluded ==
  /\ Handling /\ inbox' = Tail(inbox) /\ UNCHANGED flight /\ Answered(req)
  /\ \/ UNCHANGED clients
     \/ /\ req.op = "get" /\ req.arg \in Topics /\ Carries(todo'[Len(todo')], req.arg)
        /\ clients' = [clients EXCEPT ![req.slot].subs = @ \cup {req.arg}]

OwnerStep ==
  \/ EnterSender \/ TopicChanges \/ LocalCommand \/ FlightCompletes
  \/ PollBegins \/ Polls

Outcome == Quiet \/ Flown \/ Forgotten \/ Submitted \/ Concluded

LEMMA AtOnce ==
  ASSUME Types, Handling, NEW ses, Answers(ses), req.op \notin {"initial", "snapshot"}
  PROVE  Moves(Announced, Announced') /\ Concluded /\ generation' = generation
<1>1. Moves(Announced, Announced') /\ Answered(req)
  BY AnswersMoves
<1>2. QED
  BY <1>1 DEF Answers, Handled, Concluded

LEMMA Submission ==
  ASSUME Types, Handling, NEW ses, NEW taken \in BOOLEAN, Submits(taken, ses),
         req.op \in {"command", "archive"}
  PROVE  Moves(Announced, Announced') /\ Outcome /\ generation' = generation
<1>1. CASE ~taken
  BY <1>1, AtOnce DEF Submits, Outcome
<1>2. CASE taken
  <2>1. todo' = <<>> /\ UNCHANGED <<clients, sender, seen, presets, presetsReady, revision, stored>>
        /\ flight' = req /\ inbox' = Tail(inbox) /\ generation' = generation
    BY <1>2, HandlingRequest DEF Submits, Handled, domain
  <2>2. Moves(Announced, Announced') /\ NoAnswer
    BY <2>1, StillMoves DEF NoAnswer
  <2>3. Submitted
    BY <2>1, <2>2 DEF Submitted
  <2>4. QED
    BY <2>1, <2>2, <2>3 DEF Outcome
<1>3. QED
  BY <1>1, <1>2

LEMMA PollsOutcome ==
  ASSUME Types, Caches, Polls
  PROVE  Moves(Announced, Announced') /\ Outcome /\ generation' = generation /\ todo = <<>>
<1>1. todo = <<>>
  BY DEF Polls, NothingToHandle, Stale, Snapshot, TopicRequest, CommittedAnswersBusy, Command,
         ArchiveBusy, ArchiveBegins, ArchiveUnauthorized, ArchiveContinues, ArchiveCommits,
         Handling, Polled
<1>2. CASE NothingToHandle
  <2>1. todo' = <<>> /\ UNCHANGED <<sender, seen, presets, presetsReady, revision, stored>>
        /\ UNCHANGED <<clients, inbox, flight, generation>>
    BY <1>1, <1>2 DEF NothingToHandle, domain, http
  <2>2. QED
    BY <1>1, <2>1, StillMoves DEF Outcome, Quiet, NoAnswer
<1>3. CASE Stale
  <2>1. todo' = <<>> /\ UNCHANGED <<sender, seen, presets, presetsReady, revision, stored>>
        /\ UNCHANGED <<clients, flight, generation>> /\ inbox' = Tail(inbox)
    BY <1>1, <1>3 DEF Stale, Handled, domain
  <2>2. inbox # <<>> /\ ~Live(Head(inbox).slot, Head(inbox).gen)
    BY <1>3 DEF Stale, req
  <2>3. QED
    BY <1>1, <2>1, <2>2, StillMoves DEF Outcome, Forgotten, NoAnswer
<1>4. CASE Snapshot
  BY <1>1, <1>4, SnapshotMoves DEF Snapshot, Handled, Outcome, Concluded
<1>5. CASE TopicRequest
  <2>1. /\ Moves(Announced, Announced') /\ Answered(req) /\ req.arg \in Topics
        /\ Carries(todo'[Len(todo')], req.arg)
    BY <1>5, TopicRequestMoves
  <2>2. Handling /\ inbox' = Tail(inbox) /\ flight' = flight /\ generation' = generation
        /\ Subscribes
    BY <1>5 DEF TopicRequest, Handled
  <2>3. QED
    BY <1>1, <2>1, <2>2 DEF Subscribes, Outcome, Concluded
<1>6. CASE CommittedAnswersBusy
  BY <1>1, <1>6, AtOnce DEF CommittedAnswersBusy, Outcome
<1>7. CASE Command
  <2>1. PICK taken \in BOOLEAN : Submits(taken, session)
    BY <1>7 DEF Command
  <2>2. QED
    BY <1>1, <1>7, <2>1, Submission DEF Command
<1>8. CASE ArchiveBusy
  BY <1>1, <1>8, AtOnce DEF ArchiveBusy, Outcome
<1>9. CASE ArchiveBegins
  <2>1. \E ses : Answers(ses)
    BY <1>9 DEF ArchiveBegins
  <2>2. QED
    BY <1>1, <1>9, <2>1, AtOnce DEF ArchiveBegins, Outcome
<1>10. CASE ArchiveUnauthorized
  BY <1>1, <1>10, AtOnce DEF ArchiveUnauthorized, Outcome
<1>11. CASE ArchiveContinues
  <2>1. \E ses : Answers(ses)
    BY <1>11 DEF ArchiveContinues
  <2>2. QED
    BY <1>1, <1>11, <2>1, AtOnce DEF ArchiveContinues, Outcome
<1>12. CASE ArchiveCommits
  <2>1. PICK taken \in BOOLEAN : Submits(taken, [session EXCEPT !.mode = "committing"])
    BY <1>12 DEF ArchiveCommits
  <2>2. QED
    BY <1>1, <1>12, <2>1, Submission DEF ArchiveCommits
<1>13. QED
  BY <1>2, <1>3, <1>4, <1>5, <1>6, <1>7, <1>8, <1>9, <1>10, <1>11, <1>12 DEF Polls

LEMMA OwnerOutcome ==
  ASSUME Types, Caches, Pending, OwnerStep
  PROVE  /\ Moves(Announced, Announced') /\ Outcome /\ generation' = generation /\ todo = <<>>
         /\ Scalars' /\ Caches'
<1>1. CASE EnterSender \/ TopicChanges
  <2>1. /\ todo = <<>> /\ todo' = <<>>
        /\ UNCHANGED <<sender, seen, presets, presetsReady, revision, stored>>
        /\ UNCHANGED <<clients, inbox, flight, generation>>
    BY <1>1 DEF EnterSender, TopicChanges, http, owner, Away
  <2>2. QED
    BY <1>1, <2>1, StillMoves, DomainScalars DEF Outcome, Quiet, NoAnswer
<1>2. CASE LocalCommand
  <2>1. todo = <<>> /\ UNCHANGED <<clients, inbox, flight, generation>>
    BY <1>2 DEF LocalCommand, Away, Completed, http
  <2>2. QED
    BY <1>2, <2>1, LocalCommandMoves DEF Outcome, Quiet, NoAnswer
<1>3. CASE FlightCompletes
  <2>1. /\ todo = <<>> /\ UNCHANGED <<clients, inbox, generation>>
        /\ flight # Nobody /\ flight' = Nobody
    BY <1>3 DEF FlightCompletes, Away, Completed, http
  <2>2. QED
    BY <1>3, <2>1, FlightCompletesMoves DEF Outcome, Flown
<1>4. CASE PollBegins
  <2>1. todo = <<>> /\ UNCHANGED <<clients, inbox, flight, generation>>
    BY <1>4 DEF PollBegins, Away, http
  <2>2. QED
    BY <1>4, <2>1, PollBeginsMoves DEF Outcome, Quiet, NoAnswer
<1>5. CASE Polls
  BY <1>5, PollsOutcome, PollsScalars
<1>6. QED
  BY <1>1, <1>2, <1>3, <1>4, <1>5 DEF OwnerStep

----------------------------------------------------------------------------
(* Publish, for one session.                                                *)

(* A section has one event, or the two that greet a session.                *)
LEMMA SectionEvents ==
  ASSUME NEW e \in Sections, SectionOK(e)
  PROVE  /\ Len(e.events) = 1 \/ Len(e.events) = 2
         /\ e.events[1] \in Events /\ 1 \in DOMAIN e.events
         /\ Len(e.events) = 1 => DOMAIN e.events = {1}
         /\ Len(e.events) = 2 => DOMAIN e.events = {1, 2} /\ e.events[2] \in Events
         /\ Len(e.events) = 2 => e.to = "asker" /\ e.events[1].for = 0 /\ e.events[2].for = 0
                                 /\ e.req.op = "initial"
         /\ Len(e.events) = 1 => e.to # "asker" \/ e.req.op # "initial"
<1>1. e.events \in Seq(Events)
  BY DEF Sections
<1>2. Len(e.events) = 1 \/ Len(e.events) = 2
  BY DEF SectionOK
<1>3. /\ Len(e.events) = 2 => e.to = "asker" /\ e.events[1].for = 0 /\ e.events[2].for = 0
                                 /\ e.req.op = "initial"
      /\ Len(e.events) = 1 => e.to # "asker" \/ e.req.op # "initial"
  BY DEF SectionOK
<1>4. QED
  BY <1>1, <1>2, <1>3

(* An event of one channel finds the scene before it.                       *)
Prepared(c, e) ==
  \A j \in DOMAIN e.events : e.events[j].delta =>
    /\ Len(e.events) = 1 /\ "scene" \in DOMAIN c.knows
    /\ c.knows["scene"] = e.events[1].news["scene"] - 1

(* What a session shows after a section that tells what A holds.            *)
Learns(c, d, e, A) ==
  \A p \in Parts :
    /\ p \notin Topics \ c.subs /\ Carries(e, p) => p \in DOMAIN d.knows /\ d.knows[p] = A[p]
    /\ ~Carries(e, p) /\ p \in DOMAIN c.knows =>
         p \in DOMAIN d.knows /\ d.knows[p] = c.knows[p]

Alike(d, c) ==
  d.gen = c.gen /\ d.ready = c.ready /\ d.subs = c.subs /\ d.outstanding = c.outstanding

LEMMA PushAllResult ==
  ASSUME NEW c \in Sessions, NEW e \in Sections, SectionOK(e), NEW d, d = PushAll(c, e.events)
  PROVE  /\ d \in Sessions
         /\ d.active => c.active /\ Alike(d, c)
         /\ d.active => d.owed = IF Len(e.events) = 1 THEN Owes(c, e.events[1]) ELSE c.owed
         /\ \A A : d.active /\ Agrees(e, A) /\ Prepared(c, e) => Learns(c, d, e, A)
<1> DEFINE e1 == e.events[1]
           e2 == e.events[2]
           b == Push(c, e1)
<1>1. /\ e1 \in Events /\ 1 \in DOMAIN e.events
      /\ Len(e.events) = 1 \/ Len(e.events) = 2
      /\ Len(e.events) = 1 => DOMAIN e.events = {1}
      /\ Len(e.events) = 2 => DOMAIN e.events = {1, 2} /\ e2 \in Events /\ e1.for = 0 /\ e2.for = 0
  BY SectionEvents
<1>2. /\ b \in Sessions
      /\ b.active => c.active /\ Alike(b, c) /\ b.owed = Owes(c, e1) /\ b.knows = Shows(c, e1)
  BY <1>1, PushResult DEF Alike
<1>3. CASE Len(e.events) = 1
  <2>1. d = b
    BY <1>3 DEF PushAll
  <2>2. ASSUME NEW A, d.active, Agrees(e, A), Prepared(c, e)
        PROVE  Learns(c, d, e, A)
    <3> SUFFICES ASSUME NEW p \in Parts
                 PROVE  /\ p \notin Topics \ c.subs /\ Carries(e, p) =>
                             p \in DOMAIN d.knows /\ d.knows[p] = A[p]
                        /\ ~Carries(e, p) /\ p \in DOMAIN c.knows =>
                             p \in DOMAIN d.knows /\ d.knows[p] = c.knows[p]
      BY DEF Learns
    <3>1. Carries(e, p) <=> p \in DOMAIN e1.news
      BY <1>1, <1>3 DEF Carries
    <3>2. p \in DOMAIN e1.news => e1.news[p] = A[p]
      BY <1>1, <2>2 DEF Agrees
    <3>3. e1.delta => "scene" \in DOMAIN c.knows /\ c.knows["scene"] = e1.news["scene"] - 1
      BY <1>1, <2>2 DEF Prepared
    <3>4. /\ d.knows = Shows(c, e1)
          /\ DOMAIN Shows(c, e1) = (DOMAIN e1.news \ (Topics \ c.subs)) \cup DOMAIN c.knows
      BY <1>1, <1>2, <2>1, <2>2, ShowsType
    <3>5. /\ p \in DOMAIN e1.news /\ p \notin Topics \ c.subs => Shows(c, e1)[p] = e1.news[p]
          /\ p \in DOMAIN c.knows /\ p \notin DOMAIN e1.news => Shows(c, e1)[p] = c.knows[p]
      BY <1>1, <3>3, ShowsValue
    <3>6. QED
      BY <3>1, <3>2, <3>4, <3>5
  <2>3. QED
    BY <1>2, <1>3, <2>1, <2>2
<1>4. CASE Len(e.events) = 2
  <2>1. d = Push(b, e2)
    BY <1>4 DEF PushAll
  <2>2. /\ d \in Sessions
        /\ d.active => b.active /\ Alike(d, b) /\ d.owed = Owes(b, e2) /\ d.knows = Shows(b, e2)
    BY <1>1, <1>2, <1>4, <2>1, PushResult DEF Alike
  <2>3. d.active => c.active /\ Alike(d, c) /\ d.owed = c.owed
    BY <1>1, <1>2, <1>4, <2>2 DEF Alike, Owes
  <2>4. ASSUME NEW A, d.active, Agrees(e, A), Prepared(c, e)
        PROVE  Learns(c, d, e, A)
    <3> SUFFICES ASSUME NEW p \in Parts
                 PROVE  /\ p \notin Topics \ c.subs /\ Carries(e, p) =>
                             p \in DOMAIN d.knows /\ d.knows[p] = A[p]
                        /\ ~Carries(e, p) /\ p \in DOMAIN c.knows =>
                             p \in DOMAIN d.knows /\ d.knows[p] = c.knows[p]
      BY DEF Learns
    <3>1. Carries(e, p) <=> p \in DOMAIN e1.news \/ p \in DOMAIN e2.news
      BY <1>1, <1>4 DEF Carries
    <3>2. /\ p \in DOMAIN e1.news => e1.news[p] = A[p]
          /\ p \in DOMAIN e2.news => e2.news[p] = A[p]
      BY <1>1, <1>4, <2>4 DEF Agrees
    <3>3. ~e1.delta /\ ~e2.delta
      BY <1>1, <1>4, <2>4 DEF Prepared
    <3>4. /\ b.knows = Shows(c, e1) /\ d.knows = Shows(b, e2) /\ b.subs = c.subs
          /\ DOMAIN Shows(c, e1) = (DOMAIN e1.news \ (Topics \ c.subs)) \cup DOMAIN c.knows
          /\ DOMAIN Shows(b, e2) = (DOMAIN e2.news \ (Topics \ b.subs)) \cup DOMAIN b.knows
      BY <1>1, <1>2, <1>4, <2>2, <2>4, ShowsType DEF Alike
    <3>5. /\ p \in DOMAIN e1.news /\ p \notin Topics \ c.subs => Shows(c, e1)[p] = e1.news[p]
          /\ p \in DOMAIN c.knows /\ p \notin DOMAIN e1.news => Shows(c, e1)[p] = c.knows[p]
      BY <1>1, <3>3, ShowsValue
    <3>6. /\ p \in DOMAIN e2.news /\ p \notin Topics \ b.subs => Shows(b, e2)[p] = e2.news[p]
          /\ p \in DOMAIN b.knows /\ p \notin DOMAIN e2.news => Shows(b, e2)[p] = b.knows[p]
      BY <1>1, <1>2, <1>4, <3>3, ShowsValue
    <3> HIDE DEF e1, e2, b
    <3>7. QED
      BY <3>1, <3>2, <3>4, <3>5, <3>6
  <2>5. QED
    BY <1>4, <2>2, <2>3, <2>4
<1>5. QED
  BY <1>1, <1>3, <1>4

LEMMA ConcludesResult ==
  ASSUME NEW c \in Sessions, NEW e \in Sections, NEW d, d = Concludes(c, e)
  PROVE  /\ d \in Sessions /\ d.active = c.active
         /\ d.active => /\ d.gen = c.gen /\ d.subs = c.subs /\ d.owed = c.owed
                        /\ d.knows = c.knows
                        /\ d.ready = (c.ready \/ e.opens)
                        /\ d.outstanding = IF e.to = "asker" /\ c.outstanding > 0
                                           THEN c.outstanding - 1 ELSE c.outstanding
<1>1. CASE ~c.active
  BY <1>1 DEF Concludes
<1>2. CASE c.active
  <2> DEFINE n == IF e.to = "asker" /\ c.outstanding > 0 THEN c.outstanding - 1 ELSE c.outstanding
             b == Credit(c, e)
  <2>1. b = [active |-> c.active, gen |-> c.gen, ready |-> c.ready, subs |-> c.subs,
             out |-> c.out, outstanding |-> n, owed |-> c.owed, knows |-> c.knows]
    BY DEF Credit, Sessions
  <2>2. n \in 0 .. MaxOutstanding
    BY Bounds DEF Sessions
  <2>3. d = [b EXCEPT !.ready = @ \/ e.opens]
    BY <1>2 DEF Concludes
  <2> HIDE DEF b
  <2>4. d = [active |-> c.active, gen |-> c.gen, ready |-> (c.ready \/ e.opens), subs |-> c.subs,
             out |-> c.out, outstanding |-> n, owed |-> c.owed, knows |-> c.knows]
    BY <2>1, <2>3
  <2> HIDE DEF n
  <2>5. (c.ready \/ e.opens) \in BOOLEAN
    OBVIOUS
  <2>6. d \in Sessions
    BY <2>2, <2>4, <2>5 DEF Sessions
  <2>7. QED
    BY <1>2, <2>4, <2>6 DEF n
<1>3. QED
  BY <1>1, <1>2

LEMMA TailOf ==
  ASSUME NEW S, NEW q \in Seq(S), q # <<>>
  PROVE  /\ Tail(q) \in Seq(S) /\ Len(Tail(q)) = Len(q) - 1 /\ Len(q) \in Nat \ {0}
         /\ Head(q) = q[1] /\ 1 \in DOMAIN q /\ q[1] \in S
         /\ \A i \in DOMAIN Tail(q) : i + 1 \in DOMAIN q /\ Tail(q)[i] = q[i + 1]
         /\ \A i \in DOMAIN q : i # 1 => i - 1 \in DOMAIN Tail(q) /\ Tail(q)[i - 1] = q[i]
         /\ \A i \in DOMAIN q : i \in Nat \ {0}
         /\ \A i \in DOMAIN Tail(q) : i \in Nat \ {0}
  OBVIOUS

LEMMA PublishTodo ==
  ASSUME Types, Publish
  PROVE  /\ Head(todo) = todo[1] /\ 1 \in DOMAIN todo /\ todo[1] \in Sections /\ SectionOK(todo[1])
         /\ todo' \in Seq(Sections) /\ Len(todo') = Len(todo) - 1 /\ Len(todo) \in Nat \ {0}
         /\ \A i \in DOMAIN todo' :
              i \in Nat \ {0} /\ i + 1 \in DOMAIN todo /\ todo'[i] = todo[i + 1]
         /\ \A i \in DOMAIN todo : i \in Nat \ {0}
         /\ \A i \in DOMAIN todo : i # 1 => i - 1 \in DOMAIN todo' /\ todo'[i - 1] = todo[i]
         /\ UNCHANGED <<inbox, generation, domain, pc, flight, sender, seen, presets, presetsReady,
                        session, counter>>
<1>1. todo \in Seq(Sections) /\ todo # <<>> /\ todo' = Tail(todo)
      /\ \A i \in DOMAIN todo : SectionOK(todo[i])
  BY DEF Types, Publish
<1>2. UNCHANGED <<inbox, generation, domain, pc, flight, sender, seen, presets, presetsReady,
                  session, counter>>
  BY DEF Publish
<1>3. QED
  BY <1>1, <1>2, TailOf

Credited(c, e) ==
  IF e.to = "asker" /\ c.outstanding > 0 THEN c.outstanding - 1 ELSE c.outstanding

LEMMA PublishOne ==
  ASSUME Types, Publish, NEW s \in Slots, NEW c, c = clients[s], NEW d, d = clients'[s],
         NEW e, e = todo[1]
  PROVE  /\ c \in Sessions /\ d \in Sessions
         /\ ~Hears(e, s) => d = c
         /\ Hears(e, s) /\ d.active =>
              /\ c.active /\ d.gen = c.gen /\ d.subs = c.subs
              /\ d.ready = (c.ready \/ e.opens) /\ d.outstanding = Credited(c, e)
              /\ d.owed = IF e.to = "asker" /\ e.req.op # "initial" THEN c.owed - 1 ELSE c.owed
              /\ \A A : Agrees(e, A) /\ Prepared(c, e) => Learns(c, d, e, A)
<1>1. e \in Sections /\ SectionOK(e) /\ e = Head(todo)
  BY PublishTodo
<1>2. c \in Sessions
  BY DEF Types
<1> DEFINE b == PushAll(c, e.events)
<1>3. d = IF Hears(e, s) THEN Concludes(b, e) ELSE c
  BY <1>1 DEF Publish
<1>4. /\ b \in Sessions
      /\ b.active => c.active /\ Alike(b, c)
      /\ b.active => b.owed = IF Len(e.events) = 1 THEN Owes(c, e.events[1]) ELSE c.owed
      /\ \A A : b.active /\ Agrees(e, A) /\ Prepared(c, e) => Learns(c, b, e, A)
  BY <1>1, <1>2, PushAllResult
<1> HIDE DEF b
<1>5. CASE ~Hears(e, s)
  BY <1>2, <1>3, <1>5
<1>6. CASE Hears(e, s)
  <2>1. d = Concludes(b, e)
    BY <1>3, <1>6
  <2>2. /\ d \in Sessions /\ d.active = b.active
        /\ d.active => /\ d.gen = b.gen /\ d.subs = b.subs /\ d.owed = b.owed /\ d.knows = b.knows
                       /\ d.ready = (b.ready \/ e.opens) /\ d.outstanding = Credited(b, e)
    BY <1>1, <1>4, <2>1, ConcludesResult DEF Credited
  <2>3. ASSUME d.active
        PROVE  /\ c.active /\ d.gen = c.gen /\ d.subs = c.subs
               /\ d.ready = (c.ready \/ e.opens) /\ d.outstanding = Credited(c, e)
    BY <1>4, <2>2, <2>3 DEF Alike, Credited
  <2>4. ASSUME d.active
        PROVE  d.owed = IF e.to = "asker" /\ e.req.op # "initial" THEN c.owed - 1 ELSE c.owed
    <3>1. d.owed = IF Len(e.events) = 1 THEN Owes(c, e.events[1]) ELSE c.owed
      BY <1>4, <2>2, <2>4
    <3>2. CASE e.to = "asker" /\ e.req.op # "initial"
      <4>1. Len(e.events) = 1 /\ e.events[1].for = e.req.gen /\ e.req \in Asked
        BY <1>1, <3>2 DEF SectionOK
      <4>2. e.req.gen \in 1 .. MaxGen
        BY <4>1, RequestFields DEF Asked
      <4>3. c.gen = e.req.gen
        BY <1>6, <3>2 DEF Hears, Live
      <4>4. QED
        BY <3>1, <3>2, <4>1, <4>2, <4>3, Bounds DEF Owes
    <3>3. CASE e.to = "asker" /\ e.req.op = "initial"
      BY <1>1, <3>1, <3>3 DEF SectionOK
    <3>4. CASE e.to # "asker"
      BY <1>1, <3>1, <3>4 DEF SectionOK, Owes
    <3>5. QED
      BY <3>2, <3>3, <3>4
  <2>5. ASSUME d.active, NEW A, Agrees(e, A), Prepared(c, e)
        PROVE  Learns(c, d, e, A)
    <3>1. Learns(c, b, e, A) /\ d.knows = b.knows
      BY <1>4, <2>2, <2>5
    <3>2. QED
      BY <3>1 DEF Learns
  <2>6. QED
    BY <1>2, <1>6, <2>2, <2>3, <2>4, <2>5
<1>7. QED
  BY <1>5, <1>6

LEMMA PublishTypes ==
  ASSUME Types, Caches, Publish
  PROVE  Types' /\ Caches'
<1>1. clients' \in [Slots -> Sessions]
  <2>1. \A s \in Slots : clients'[s] \in Sessions
    BY PublishOne
  <2>2. clients' = [s \in Slots |-> clients'[s]]
    BY DEF Publish
  <2>3. QED
    BY <2>1, <2>2
<1>2. /\ UNCHANGED <<inbox, generation, pc, flight, sender, seen, presets, presetsReady,
                     session, counter, scene, stored, revision, topic>>
      /\ todo' \in Seq(Sections) /\ Len(todo') = Len(todo) - 1 /\ Len(todo) \in Nat \ {0}
      /\ \A i \in DOMAIN todo' : i \in Nat \ {0} /\ i + 1 \in DOMAIN todo /\ todo'[i] = todo[i + 1]
  BY PublishTodo DEF domain
<1>3. \A i \in DOMAIN todo' : SectionOK(todo'[i]) /\ (todo'[i].to = "asker" => i = Len(todo'))
  BY <1>2 DEF Types
<1>4. Scalars' /\ Caches'
  BY <1>2 DEF Types, Scalars, Caches
<1>5. QED
  BY <1>1, <1>2, <1>3, <1>4 DEF Types

----------------------------------------------------------------------------
(* The steps of the HTTP task.                                              *)

Fresh(g) == [Closed EXCEPT !.active = TRUE, !.gen = g]
Greeting(s, g) == [Nobody EXCEPT !.slot = s, !.gen = g, !.op = "initial"]

LEMMA FreshType ==
  ASSUME NEW g \in 1 .. MaxGen, NEW s \in Slots
  PROVE  /\ Fresh(g) \in Sessions
         /\ Fresh(g).active = TRUE /\ Fresh(g).gen = g /\ Fresh(g).ready = FALSE
         /\ Fresh(g).subs = {} /\ Fresh(g).outstanding = 0 /\ Fresh(g).owed = 0
         /\ Greeting(s, g) \in Asked
         /\ Greeting(s, g).slot = s /\ Greeting(s, g).gen = g /\ Greeting(s, g).op = "initial"
<1> DEFINE closed == Closed
           nobody == Nobody
<1>a. closed = [active |-> FALSE, gen |-> 0, ready |-> FALSE, subs |-> {}, out |-> 0,
                outstanding |-> 0, owed |-> 0, knows |-> <<>>]
  BY DEF Closed
<1>b. nobody = [slot |-> 0, gen |-> 0, op |-> "none", arg |-> "none", to |-> 0]
  BY DEF Nobody
<1>c. Fresh(g) = [closed EXCEPT !.active = TRUE, !.gen = g]
      /\ Greeting(s, g) = [nobody EXCEPT !.slot = s, !.gen = g, !.op = "initial"]
  BY DEF Fresh, Greeting
<1> HIDE DEF closed, nobody
<1>1. Fresh(g) = [active |-> TRUE, gen |-> g, ready |-> FALSE, subs |-> {}, out |-> 0,
                  outstanding |-> 0, owed |-> 0, knows |-> <<>>]
  BY <1>a, <1>c
<1>2. Greeting(s, g) = [slot |-> s, gen |-> g, op |-> "initial", arg |-> "none", to |-> 0]
  BY <1>b, <1>c
<1>3. <<>> \in News
  BY NoNews
<1>4. g \in 0 .. MaxGen /\ 0 \in 0 .. OutboxCapacity /\ 0 \in 0 .. MaxOutstanding
      /\ 0 \in 0 .. MaxToken
  BY Bounds
<1>5. Fresh(g) \in Sessions
  BY <1>1, <1>3, <1>4 DEF Sessions
<1>6. "initial" \in Ops /\ "none" \in Args
  BY DEF Ops, Args
<1>7. Greeting(s, g) \in Requests
  BY <1>2, <1>4, <1>6, RequestFields
<1>8. QED
  BY <1>1, <1>2, <1>5, <1>7 DEF Asked

Question(s, m) ==
  [slot |-> s, gen |-> clients[s].gen, op |-> m.op, arg |-> m.arg,
   to |-> IF session.owner = clients[s].gen THEN session.token ELSE 0]

LEMMA QuestionType ==
  ASSUME Types, NEW s \in Slots, NEW m \in Offered[s], clients[s].gen \in 1 .. MaxGen
  PROVE  /\ Question(s, m) \in Asked /\ Question(s, m).slot = s
         /\ Question(s, m).gen = clients[s].gen /\ Question(s, m).op # "initial"
<1>1. m \in Messages
  BY BridgeAssumption
<1>2. m.op \in Ops /\ m.arg \in Args
  BY <1>1 DEF Ops, Args
<1>3. m.op # "initial" /\ (m.op \in {"get", "write"} => m.arg \in Topics)
  BY <1>1 DEF Messages
<1>4. (IF session.owner = clients[s].gen THEN session.token ELSE 0) \in 0 .. MaxToken
  BY Bounds DEF Types, Scalars, Archives
<1>5. Question(s, m) \in Requests
  BY <1>2, <1>4, RequestFields DEF Question
<1>6. QED
  BY <1>3, <1>5 DEF Asked, Question

(* Of one session: gone, just opened, with one more request, or as it was   *)
(* but for its outbox.                                                      *)
Same(d, c) ==
  /\ d.active = c.active /\ d.gen = c.gen /\ d.ready = c.ready /\ d.subs = c.subs
  /\ d.knows = c.knows

Opened(s) ==
  /\ ~clients[s].active /\ generation < MaxGen /\ Len(inbox) < InboxCapacity
  /\ clients' = [clients EXCEPT ![s] = Fresh(generation + 1)]
  /\ inbox' = Append(inbox, Greeting(s, generation + 1))
  /\ generation' = generation + 1

Received(s, m) ==
  /\ clients[s].active /\ Room(clients[s])
  /\ clients' = [clients EXCEPT ![s].outstanding = @ + 1, ![s].owed = @ + 1]
  /\ inbox' = Append(inbox, Question(s, m))
  /\ generation' = generation

(* Leaves a session's requests as they are, or ends it.                     *)
Touched ==
  /\ UNCHANGED <<inbox, generation>>
  /\ clients' \in [Slots -> Sessions]
  /\ \A s \in Slots :
       \/ ~clients'[s].active
       \/ /\ Same(clients'[s], clients[s])
          /\ clients'[s].outstanding = clients[s].outstanding
          /\ clients'[s].owed = clients[s].owed

LEMMA HttpOutcome ==
  ASSUME Types, Http
  PROVE  /\ UNCHANGED <<owner, domain>>
         /\ \/ Touched
            \/ \E s \in Slots : Opened(s)
            \/ \E s \in Slots : \E m \in Offered[s] : Received(s, m)
<1>1. clients \in [Slots -> Sessions]
  BY DEF Types
<1>2. CASE Open
  BY <1>2 DEF Open, Opened, Fresh, Greeting
<1>3. ASSUME NEW s \in Slots, Drop(s)
      PROVE  Touched /\ UNCHANGED <<owner, domain>>
  <2>1. clients' = [clients EXCEPT ![s] = Closed] /\ UNCHANGED <<inbox, generation, owner, domain>>
    BY <1>3 DEF Drop
  <2>2. QED
    BY <1>1, <2>1, ClosedType DEF Touched, Same
<1>4. ASSUME NEW s \in Slots, Refuse(s)
      PROVE  Touched /\ UNCHANGED <<owner, domain>>
  <2> DEFINE c == clients[s]
             e == Event(<<>>)
             d == Push(c, e)
  <2>1. e \in Events /\ e.for = 0 /\ e.news = <<>> /\ ~e.delta
    BY NoNews, EventType
  <2>2. clients' = [clients EXCEPT ![s] = d] /\ UNCHANGED <<inbox, generation, owner, domain>>
    BY <1>4 DEF Refuse
  <2> HIDE DEF e
  <2>3. /\ d \in Sessions
        /\ d.active => /\ c.active /\ d.gen = c.gen /\ d.ready = c.ready /\ d.subs = c.subs
                       /\ d.outstanding = c.outstanding /\ d.owed = Owes(c, e)
                       /\ d.knows = Shows(c, e)
    BY <1>1, <2>1, PushResult
  <2>4. Shows(c, e) = c.knows
    <3>1. DOMAIN e.news = {}
      BY <2>1, NoNews
    <3>2. c.knows \in News
      BY <1>1 DEF Sessions
    <3>3. c.knows = [p \in DOMAIN c.knows |-> c.knows[p]]
      BY <3>2, NewsElim
    <3>4. Shows(c, e) = [p \in DOMAIN c.knows |-> c.knows[p]]
      BY <3>1 DEF Shows
    <3>5. QED
      BY <3>3, <3>4
  <2>5. Owes(c, e) = c.owed
    BY <2>1 DEF Owes
  <2> HIDE DEF d
  <2>6. d.active => Same(d, c) /\ d.outstanding = c.outstanding /\ d.owed = c.owed
    BY <1>4, <2>3, <2>4, <2>5 DEF Same, Sessions
  <2>7. QED
    BY <1>1, <2>2, <2>3, <2>6 DEF Touched, Same
<1>5. ASSUME NEW s \in Slots, Take(s)
      PROVE  Touched /\ UNCHANGED <<owner, domain>>
  <2> DEFINE c == clients[s]
             d == [c EXCEPT !.out = @ - 1]
  <2>1. clients' = [clients EXCEPT ![s] = d] /\ UNCHANGED <<inbox, generation, owner, domain>>
    BY <1>1, <1>5 DEF Take
  <2>2. c \in Sessions /\ c.out > 0
    BY <1>1, <1>5 DEF Take
  <2>3. d \in Sessions /\ Same(d, c) /\ d.outstanding = c.outstanding /\ d.owed = c.owed
    BY <2>2, Bounds DEF Sessions, Same
  <2> HIDE DEF d
  <2>4. QED
    BY <1>1, <2>1, <2>3 DEF Touched, Same
<1>6. ASSUME NEW s \in Slots, NEW m \in Offered[s], Receive(s, m)
      PROVE  Received(s, m) /\ UNCHANGED <<owner, domain>>
  BY <1>6 DEF Receive, Received, Question
<1>7. QED
  BY <1>2, <1>3, <1>4, <1>5, <1>6 DEF Http, Open

(* q with x at its end.                                                     *)
Grown(r, q, x) ==
  /\ Len(q) \in Nat /\ Len(r) = Len(q) + 1 /\ Len(r) \in DOMAIN r /\ r[Len(r)] = x
  /\ \A i \in DOMAIN q : i \in DOMAIN r /\ r[i] = q[i] /\ i # Len(r)
  /\ \A i \in DOMAIN r : i # Len(r) => i \in DOMAIN q /\ r[i] = q[i]

LEMMA AppendOf ==
  ASSUME NEW S, NEW q \in Seq(S), NEW x \in S
  PROVE  Append(q, x) \in Seq(S) /\ Grown(Append(q, x), q, x)
  BY DEF Grown

LEMMA OpenedOne ==
  ASSUME Types, NEW s \in Slots, Opened(s)
  PROVE  /\ clients' \in [Slots -> Sessions] /\ clients'[s] = Fresh(generation')
         /\ \A r \in Slots : r # s => clients'[r] = clients[r]
         /\ generation' = generation + 1 /\ generation' \in 1 .. MaxGen /\ generation \in Nat
         /\ inbox' \in Seq(Asked) /\ Grown(inbox', inbox, Greeting(s, generation'))
<1>1. generation' = generation + 1 /\ generation' \in 1 .. MaxGen /\ generation \in Nat
  BY Bounds DEF Types, Opened
<1>2. Fresh(generation') \in Sessions /\ Greeting(s, generation') \in Asked
  BY <1>1, FreshType
<1>3. /\ clients' = [clients EXCEPT ![s] = Fresh(generation')]
      /\ inbox' = Append(inbox, Greeting(s, generation'))
  BY <1>1 DEF Opened
<1>4. inbox \in Seq(Asked) /\ clients \in [Slots -> Sessions]
  BY DEF Types
<1>5. inbox' \in Seq(Asked) /\ Grown(inbox', inbox, Greeting(s, generation'))
  BY <1>2, <1>3, <1>4, AppendOf
<1>6. QED
  BY <1>1, <1>2, <1>3, <1>4, <1>5

LEMMA ReceivedOne ==
  ASSUME Types, Distinct, NEW s \in Slots, NEW m \in Offered[s], Received(s, m)
  PROVE  /\ clients' \in [Slots -> Sessions] /\ Same(clients'[s], clients[s])
         /\ clients[s].active /\ clients[s].ready /\ clients[s].gen \in 1 .. generation
         /\ clients'[s].outstanding = clients[s].outstanding + 1
         /\ clients'[s].owed = clients[s].owed + 1
         /\ \A r \in Slots : r # s => clients'[r] = clients[r]
         /\ generation' = generation
         /\ inbox' \in Seq(Asked) /\ Grown(inbox', inbox, Question(s, m))
<1> DEFINE c == clients[s]
           b == [c EXCEPT !.outstanding = @ + 1]
           d == [b EXCEPT !.owed = @ + 1]
<1>1. c \in Sessions /\ clients \in [Slots -> Sessions] /\ generation \in 0 .. MaxGen
  BY DEF Types
<1>2. /\ c.active /\ c.ready /\ c.outstanding < MaxOutstanding /\ c.gen \in 1 .. generation
      /\ generation' = generation
  BY DEF Received, Room, Distinct
<1>3. clients' = [clients EXCEPT ![s] = d]
  BY <1>1 DEF Received
<1>4. d = [active |-> c.active, gen |-> c.gen, ready |-> c.ready, subs |-> c.subs,
           out |-> c.out, outstanding |-> c.outstanding + 1, owed |-> c.owed + 1,
           knows |-> c.knows]
  <2>1. b = [active |-> c.active, gen |-> c.gen, ready |-> c.ready, subs |-> c.subs,
             out |-> c.out, outstanding |-> c.outstanding + 1, owed |-> c.owed,
             knows |-> c.knows]
    BY <1>1 DEF Sessions
  <2> HIDE DEF b
  <2>2. QED
    BY <2>1
<1>5. c.outstanding + 1 \in 0 .. MaxOutstanding /\ c.owed + 1 \in Int
  <2>1. c.outstanding \in 0 .. MaxOutstanding /\ c.owed \in Int
    BY <1>1 DEF Sessions
  <2>2. QED
    BY <1>2, <2>1, Bounds
<1> HIDE DEF d
<1>6. d \in Sessions
  BY <1>1, <1>4, <1>5 DEF Sessions
<1>7. Same(d, c)
  BY <1>4 DEF Same
<1>8. clients'[s] = d
  BY <1>1, <1>3
<1>9. c.gen \in 1 .. MaxGen
  BY <1>1, <1>2, Bounds
<1>10. Question(s, m) \in Asked /\ inbox \in Seq(Asked)
  BY <1>9, QuestionType DEF Types
<1>11. inbox' \in Seq(Asked) /\ Grown(inbox', inbox, Question(s, m))
  BY <1>10, AppendOf DEF Received
<1>12. QED
  BY <1>1, <1>2, <1>3, <1>4, <1>6, <1>7, <1>8, <1>11

LEMMA HttpTypes ==
  ASSUME Types, Caches, Distinct, Http
  PROVE  Types' /\ Caches'
<1>1. UNCHANGED <<owner, domain>>
  BY HttpOutcome
<1>2. UNCHANGED <<pc, todo, flight, sender, seen, presets, presetsReady, session, counter, scene,
                  revision, stored, topic>>
  BY <1>1 DEF owner, domain
<1>3. Scalars' /\ Caches'
  BY <1>2 DEF Types, Scalars, Caches
<1>4. /\ todo' \in Seq(Sections) /\ \A i \in DOMAIN todo' : SectionOK(todo'[i])
      /\ \A i \in DOMAIN todo' : todo'[i].to = "asker" => i = Len(todo')
      /\ flight' \in Asked \cup {Nobody}
  BY <1>2 DEF Types
<1> DEFINE Fit == /\ clients' \in [Slots -> Sessions] /\ generation' \in 0 .. MaxGen
                  /\ inbox' \in Seq(Asked) /\ Len(inbox') <= InboxCapacity
<1>5. Fit
  <2>1. CASE Touched
    BY <2>1 DEF Touched, Types
  <2>2. ASSUME NEW s \in Slots, Opened(s)
        PROVE  Fit
    <3>1. Len(inbox) < InboxCapacity
      BY <2>2 DEF Opened
    <3>2. QED
      BY <2>2, <3>1, OpenedOne, Bounds DEF Grown
  <2>3. ASSUME NEW s \in Slots, NEW m \in Offered[s], Received(s, m)
        PROVE  Fit
    <3>1. Len(inbox) < InboxCapacity
      BY <2>3 DEF Received, Room
    <3>2. QED
      BY <2>3, <3>1, ReceivedOne, Bounds DEF Grown, Types
  <2>4. QED
    BY <2>1, <2>2, <2>3, HttpOutcome
<1>6. QED
  BY <1>3, <1>4, <1>5 DEF Types

----------------------------------------------------------------------------
(* The sessions and the queues after a turn of the owner task.              *)

Keeps(d, c) ==
  /\ d.active = c.active /\ d.gen = c.gen /\ d.ready = c.ready /\ d.knows = c.knows
  /\ d.outstanding = c.outstanding /\ d.owed = c.owed

Gains(s) == Concluded /\ s = req.slot /\ req.op = "get" /\ req.arg \in Topics
            /\ Carries(todo'[Len(todo')], req.arg)

LEMMA OutcomeOne ==
  ASSUME Types, Outcome
  PROVE  /\ clients' \in [Slots -> Sessions]
         /\ \A s \in Slots :
              /\ Keeps(clients'[s], clients[s])
              /\ \/ clients'[s].subs = clients[s].subs
                 \/ Gains(s) /\ clients'[s].subs = clients[s].subs \cup {req.arg}
<1>1. clients \in [Slots -> Sessions]
  BY DEF Types
<1>2. CASE UNCHANGED clients
  BY <1>1, <1>2 DEF Keeps
<1>3. CASE /\ Concluded /\ req.op = "get" /\ req.arg \in Topics
           /\ Carries(todo'[Len(todo')], req.arg)
           /\ clients' = [clients EXCEPT ![req.slot].subs = @ \cup {req.arg}]
  <2> DEFINE c == clients[req.slot]
             d == [c EXCEPT !.subs = @ \cup {req.arg}]
  <2>1. req.slot \in Slots
    BY <1>3, HandlingRequest DEF Concluded
  <2>2. c \in Sessions /\ clients' = [clients EXCEPT ![req.slot] = d]
    BY <1>1, <1>3, <2>1
  <2>3. d \in Sessions /\ Keeps(d, c) /\ d.subs = c.subs \cup {req.arg}
    BY <1>3, <2>2 DEF Sessions, Keeps
  <2> HIDE DEF d
  <2>4. QED
    BY <1>1, <1>3, <2>1, <2>2, <2>3 DEF Keeps, Gains
<1>4. QED
  BY <1>2, <1>3 DEF Outcome, Quiet, Flown, Forgotten, Submitted, Concluded

LEMMA OwnerTypes ==
  ASSUME Types, Caches, Pending, OwnerStep
  PROVE  Types' /\ Caches'
<1>1. /\ Moves(Announced, Announced') /\ Outcome /\ generation' = generation
      /\ Scalars' /\ Caches'
  BY OwnerOutcome
<1>2. clients' \in [Slots -> Sessions]
  BY <1>1, OutcomeOne
<1>3. /\ todo' \in Seq(Sections) /\ \A i \in DOMAIN todo' : SectionOK(todo'[i])
      /\ \A i \in DOMAIN todo' : todo'[i].to = "asker" => i = Len(todo')
  BY <1>1 DEF Moves, Turned
<1>4. inbox' = inbox \/ (inbox # <<>> /\ inbox' = Tail(inbox))
  BY <1>1, HandlingRequest DEF Outcome, Quiet, Flown, Forgotten, Submitted, Concluded
<1>5. inbox' \in Seq(Asked) /\ Len(inbox') <= InboxCapacity
  <2>1. inbox \in Seq(Asked) /\ Len(inbox) <= InboxCapacity
    BY DEF Types
  <2>2. inbox # <<>> => Tail(inbox) \in Seq(Asked) /\ Len(Tail(inbox)) = Len(inbox) - 1
                        /\ Len(inbox) \in Nat
    BY <2>1, TailOf
  <2>3. QED
    BY <1>4, <2>1, <2>2, Bounds
<1>6. flight' \in {flight, Nobody} \/ (Handling /\ flight' = req)
  BY <1>1 DEF Outcome, Quiet, Flown, Forgotten, Submitted, Concluded
<1>7. flight' \in Asked \cup {Nobody}
  BY <1>6, HandlingRequest DEF Types
<1>8. QED
  BY <1>1, <1>2, <1>3, <1>5, <1>7 DEF Types

----------------------------------------------------------------------------
(* Distinct and Pending.                                                    *)

(* A session that is there after a step is one of before, or as new as the  *)
(* request is not.                                                          *)
LEMMA PlacedStays ==
  ASSUME NEW r, NEW g, NEW h, NEW cs, NEW ds, g \in Int, h \in Int, r.gen \in Int,
         Placed(r, g, cs), g <= h,
         \A s \in Slots : \/ ~ds[s].active
                          \/ r.gen # ds[s].gen
                          \/ cs[s].active /\ ds[s].gen = cs[s].gen /\ ds[s].ready = cs[s].ready
  PROVE  Placed(r, h, ds)
  BY DEF Placed

(* What is on its way are requests.                                         *)
LEMMA OnTheWay ==
  ASSUME Types
  PROVE  /\ generation \in Nat
         /\ \A i \in DOMAIN inbox : inbox[i] \in Asked /\ inbox[i].gen \in Nat
         /\ flight # Nobody => flight \in Asked /\ flight.gen \in Nat
         /\ \A i \in DOMAIN todo : todo[i].to = "asker" =>
              todo[i].req \in Asked /\ todo[i].req.gen \in Nat
         /\ \A s \in Slots : clients[s].gen \in Nat
<1>1. generation \in Nat /\ \A s \in Slots : clients[s].gen \in Nat
  BY Bounds DEF Types, Sessions
<1>2. \A r \in Asked : r.gen \in Nat
  BY RequestFields DEF Asked
<1>3. \A i \in DOMAIN inbox : inbox[i] \in Asked
  BY DEF Types
<1>4. flight # Nobody => flight \in Asked
  BY DEF Types
<1>5. \A i \in DOMAIN todo : todo[i].to = "asker" => todo[i].req \in Asked
  BY DEF Types, SectionOK
<1>6. QED
  BY <1>1, <1>2, <1>3, <1>4, <1>5

LEMMA HttpDistinct ==
  ASSUME Types, Distinct, Http
  PROVE  Distinct'
<1> USE OnTheWay
<1>1. CASE Touched
  <2>1. generation' = generation
        /\ \A s \in Slots : clients'[s].active =>
             /\ clients[s].active /\ clients'[s].gen = clients[s].gen
             /\ clients'[s].ready = clients[s].ready /\ clients'[s].subs = clients[s].subs
             /\ clients'[s].outstanding = clients[s].outstanding
    BY <1>1 DEF Touched, Same
  <2>2. QED
    BY <2>1 DEF Distinct
<1>2. ASSUME NEW s \in Slots, Opened(s)
      PROVE  Distinct'
  <2>1. /\ clients'[s] = Fresh(generation')
        /\ \A r \in Slots : r # s => clients'[r] = clients[r]
        /\ generation' = generation + 1 /\ generation' \in 1 .. MaxGen
    BY <1>2, OpenedOne
  <2> DEFINE g == generation'
  <2> HIDE DEF g
  <2>2. /\ clients'[s].gen = generation' /\ clients'[s].subs = {} /\ clients'[s].outstanding = 0
    <3>1. clients'[s] = Fresh(g) /\ g \in 1 .. MaxGen
      BY <2>1 DEF g
    <3>2. Fresh(g).gen = g /\ Fresh(g).subs = {} /\ Fresh(g).outstanding = 0
      BY <1>2, <3>1, FreshType, Zenon
    <3>3. QED
      BY <3>1, <3>2 DEF g
  <2>3. \A r \in Slots : r # s /\ clients'[r].active => clients'[r].gen \in 1 .. generation
    BY <2>1 DEF Distinct
  <2>4. QED
    BY <2>1, <2>2, <2>3 DEF Distinct
<1>3. ASSUME NEW s \in Slots, NEW m \in Offered[s], Received(s, m)
      PROVE  Distinct'
  <2>1. /\ Same(clients'[s], clients[s]) /\ clients[s].ready /\ clients[s].active
        /\ \A r \in Slots : r # s => clients'[r] = clients[r]
        /\ generation' = generation
    BY <1>3, ReceivedOne
  <2>2. \A r \in Slots :
          /\ clients'[r].active = clients[r].active /\ clients'[r].gen = clients[r].gen
          /\ clients'[r].ready = clients[r].ready /\ clients'[r].subs = clients[r].subs
          /\ clients'[r].outstanding = clients[r].outstanding \/ clients[r].ready
    BY <2>1 DEF Same
  <2>3. QED
    BY <2>1, <2>2 DEF Distinct
<1>4. QED
  BY <1>1, <1>2, <1>3, HttpOutcome

LEMMA HttpPending ==
  ASSUME Types, Distinct, Pending, Http
  PROVE  Pending'
<1> USE OnTheWay
<1>1. flight' = flight /\ todo' = todo
  BY HttpOutcome DEF owner
<1> DEFINE Stays ==
      /\ generation' \in Nat /\ generation <= generation'
      /\ \A s \in Slots : \/ ~clients'[s].active
                          \/ clients'[s].gen > generation
                          \/ /\ clients[s].active /\ clients'[s].gen = clients[s].gen
                             /\ clients'[s].ready = clients[s].ready
<1>2. ASSUME Stays
      PROVE  /\ \A i \in DOMAIN inbox : Placed(inbox[i], generation', clients')
             /\ flight # Nobody =>
                  Placed(flight, generation', clients') /\ flight.op \in {"command", "archive"}
             /\ \A i \in DOMAIN todo :
                  todo[i].to = "asker" => Placed(todo[i].req, generation', clients')
  <2>1. ASSUME NEW r, r.gen \in Nat, Placed(r, generation, clients)
        PROVE  Placed(r, generation', clients')
    <3>1. r.gen <= generation
      BY <2>1 DEF Placed
    <3>2. QED
      BY <1>2, <2>1, <3>1, PlacedStays
  <2>2. QED
    BY <2>1 DEF Pending
<1>3. CASE Touched
  <2>1. Stays /\ inbox' = inbox
    BY <1>3 DEF Touched, Same
  <2>2. QED
    BY <1>1, <1>2, <2>1 DEF Pending
<1>4. ASSUME NEW s \in Slots, Opened(s)
      PROVE  Pending'
  <2> DEFINE x == Greeting(s, generation')
  <2>1. /\ clients'[s] = Fresh(generation')
        /\ \A r \in Slots : r # s => clients'[r] = clients[r]
        /\ generation' = generation + 1 /\ generation' \in 1 .. MaxGen
        /\ Grown(inbox', inbox, x)
    BY <1>4, OpenedOne
  <2>2. /\ clients'[s].gen = generation' /\ ~clients'[s].ready
        /\ x.slot = s /\ x.gen = generation' /\ x.op = "initial"
    BY <2>1, FreshType
  <2>3. Stays
    BY <2>1, <2>2
  <2>4. Placed(x, generation', clients')
    <3>1. ASSUME NEW r \in Slots, r # s, clients'[r].active
          PROVE  clients'[r].gen # x.gen
      <4>1. clients[r].gen \in 1 .. generation /\ clients'[r].gen = clients[r].gen
        BY <2>1, <3>1 DEF Distinct
      <4>2. QED
        BY <2>1, <2>2, <4>1
    <3>2. QED
      BY <2>1, <2>2, <3>1 DEF Placed
  <2> HIDE DEF x, Stays
  <2>5. \A i \in DOMAIN inbox' : Placed(inbox'[i], generation', clients')
    BY <1>2, <2>1, <2>3, <2>4 DEF Grown
  <2>6. \A i \in DOMAIN inbox : inbox[i].gen < x.gen
    BY <2>1, <2>2 DEF Pending, Placed
  <2>7. Once(inbox')
    <3> SUFFICES ASSUME NEW i \in DOMAIN inbox', NEW j \in DOMAIN inbox',
                        Initial(inbox'[i]), Initial(inbox'[j]), inbox'[i].gen = inbox'[j].gen
                 PROVE  i = j
      BY DEF Once
    <3>1. i # Len(inbox') /\ j # Len(inbox') => i = j
      BY <2>1 DEF Grown, Pending, Once
    <3>2. i = Len(inbox') <=> j = Len(inbox')
      BY <2>1, <2>6 DEF Grown
    <3>3. QED
      BY <3>1, <3>2
  <2>8. Apart(inbox', todo')
    <3>1. \A j \in DOMAIN todo : todo[j].to = "asker" => todo[j].req.gen < x.gen
      BY <2>1, <2>2 DEF Pending, Placed
    <3>2. QED
      BY <1>1, <2>1, <3>1 DEF Grown, Pending, Apart
  <2>9. QED
    BY <1>1, <1>2, <2>3, <2>5, <2>7, <2>8 DEF Pending
<1>5. ASSUME NEW s \in Slots, NEW m \in Offered[s], Received(s, m)
      PROVE  Pending'
  <2> DEFINE x == Question(s, m)
  <2>1. /\ Same(clients'[s], clients[s]) /\ clients[s].ready /\ clients[s].active
        /\ \A r \in Slots : r # s => clients'[r] = clients[r]
        /\ generation' = generation /\ clients[s].gen \in 1 .. generation
        /\ Grown(inbox', inbox, x)
    BY <1>5, ReceivedOne
  <2>2. x.slot = s /\ x.gen = clients[s].gen /\ ~Initial(x)
    <3>1. clients[s].gen \in 1 .. MaxGen
      BY <2>1, Bounds DEF Types
    <3>2. QED
      BY <3>1, QuestionType DEF Initial
  <2> HIDE DEF x
  <2>a. \A r \in Slots : /\ clients'[r].active = clients[r].active
                        /\ clients'[r].gen = clients[r].gen /\ clients'[r].ready = clients[r].ready
    BY <2>1 DEF Same
  <2>3. Stays
    BY <2>1, <2>a
  <2>4. Placed(x, generation', clients')
    <3>1. \A r \in Slots : clients'[r].active /\ clients'[r].gen = x.gen => r = s
      BY <2>1, <2>2, <2>a DEF Distinct
    <3>2. QED
      BY <2>1, <2>2, <2>a, <3>1 DEF Placed, Initial
  <2> HIDE DEF Stays
  <2>5. \A i \in DOMAIN inbox' : Placed(inbox'[i], generation', clients')
    BY <1>2, <2>1, <2>3, <2>4 DEF Grown
  <2>6. Once(inbox')
    BY <2>1, <2>2 DEF Grown, Pending, Once
  <2>7. Apart(inbox', todo')
    BY <1>1, <2>1, <2>2 DEF Grown, Pending, Apart
  <2>8. QED
    BY <1>1, <1>2, <2>3, <2>5, <2>6, <2>7 DEF Pending
<1>6. QED
  BY <1>3, <1>4, <1>5, HttpOutcome

LEMMA PublishOpens ==
  ASSUME Types, Pending, Publish, NEW s \in Slots, clients'[s].active
  PROVE  /\ clients[s].active /\ clients'[s].gen = clients[s].gen
         /\ clients'[s].subs = clients[s].subs
         /\ \/ clients'[s].ready = clients[s].ready
            \/ /\ ~clients[s].ready /\ clients'[s].ready = TRUE /\ Hears(todo[1], s)
               /\ todo[1].to = "asker" /\ todo[1].opens /\ Initial(todo[1].req)
               /\ todo[1].req.gen = clients[s].gen /\ Len(todo) = 1
<1> DEFINE e == todo[1]
           c == clients[s]
           d == clients'[s]
<1>1. /\ c \in Sessions /\ d \in Sessions /\ (~Hears(e, s) => d = c)
      /\ Hears(e, s) => /\ c.active /\ d.gen = c.gen /\ d.subs = c.subs
                        /\ d.ready = (c.ready \/ e.opens)
  BY PublishOne
<1>2. CASE ~Hears(e, s)
  BY <1>1, <1>2
<1>3. CASE Hears(e, s) /\ c.ready
  BY <1>1, <1>3 DEF Sessions
<1>4. CASE Hears(e, s) /\ ~c.ready
  <2>1. e.to = "asker" /\ e.req.gen = c.gen
    BY <1>1, <1>4 DEF Hears, Live
  <2>2. 1 \in DOMAIN todo
    BY PublishTodo
  <2>3. Placed(e.req, generation, clients) /\ Len(todo) = 1
    BY <2>1, <2>2 DEF Pending, Types
  <2>4. Initial(e.req)
    BY <1>1, <1>4, <2>1, <2>3 DEF Placed, Initial
  <2>5. e.opens = TRUE
    BY <2>1, <2>2, <2>4 DEF Types, SectionOK, Initial, Sections
  <2>6. QED
    BY <1>1, <1>4, <2>1, <2>3, <2>4, <2>5
<1>5. QED
  BY <1>2, <1>3, <1>4

LEMMA PublishDistinct ==
  ASSUME Types, Distinct, Pending, Publish
  PROVE  Distinct'
<1>1. \A s \in Slots : clients'[s].active =>
        /\ clients[s].active /\ clients'[s].gen = clients[s].gen
        /\ clients'[s].subs = clients[s].subs
        /\ ~clients'[s].ready => ~clients[s].ready
  BY PublishOpens
<1>2. ASSUME NEW s \in Slots, clients'[s].active, clients[s].outstanding = 0
      PROVE  clients'[s].outstanding = 0
  BY <1>2, PublishOne DEF Credited
<1>3. generation' = generation
  BY PublishTodo
<1>4. QED
  BY <1>1, <1>2, <1>3 DEF Distinct

LEMMA PublishPending ==
  ASSUME Types, Distinct, Pending, Publish
  PROVE  Pending'
<1> DEFINE e == todo[1]
<1>1. /\ inbox' = inbox /\ generation' = generation /\ flight' = flight /\ 1 \in DOMAIN todo
      /\ \A i \in DOMAIN todo' : i + 1 \in DOMAIN todo /\ todo'[i] = todo[i + 1] /\ i \in Nat \ {0}
  BY PublishTodo
<1>2. ASSUME NEW r, r.gen \in Nat, Placed(r, generation, clients),
             e.to = "asker" /\ Initial(e.req) /\ Initial(r) => r.gen # e.req.gen
      PROVE  Placed(r, generation', clients')
  <2>1. ASSUME NEW s \in Slots, clients'[s].active, r.gen = clients'[s].gen
        PROVE  /\ clients[s].active /\ clients'[s].gen = clients[s].gen
               /\ clients'[s].ready = clients[s].ready
    <3>1. ~clients[s].ready /\ clients[s].active /\ clients[s].gen = r.gen => Initial(r)
      BY <1>2 DEF Placed, Initial
    <3>2. QED
      BY <1>2, <2>1, <3>1, PublishOpens
  <2>2. generation \in Int
    BY OnTheWay
  <2>3. QED
    BY <1>1, <1>2, <2>1, <2>2, PlacedStays
<1>3. \A i \in DOMAIN inbox' : Placed(inbox'[i], generation', clients')
  <2> SUFFICES ASSUME NEW i \in DOMAIN inbox
               PROVE  Placed(inbox[i], generation', clients')
    BY <1>1
  <2>1. inbox[i].gen \in Nat /\ Placed(inbox[i], generation, clients)
    BY OnTheWay DEF Pending
  <2>2. e.to = "asker" /\ Initial(e.req) /\ Initial(inbox[i]) => inbox[i].gen # e.req.gen
    BY <1>1 DEF Pending, Apart
  <2>3. QED
    BY <1>2, <2>1, <2>2
<1>4. flight' # Nobody =>
        Placed(flight', generation', clients') /\ flight'.op \in {"command", "archive"}
  <2>1. flight # Nobody => /\ flight.gen \in Nat /\ Placed(flight, generation, clients)
                           /\ flight.op \in {"command", "archive"}
    BY OnTheWay DEF Pending
  <2>2. flight # Nobody => ~Initial(flight)
    BY <2>1 DEF Initial
  <2>3. QED
    BY <1>1, <1>2, <2>1, <2>2
<1>5. ASSUME NEW i \in DOMAIN todo', todo'[i].to = "asker"
      PROVE  Placed(todo'[i].req, generation', clients')
  <2>1. /\ i + 1 \in DOMAIN todo /\ todo'[i] = todo[i + 1] /\ todo[i + 1].to = "asker" /\ i + 1 # 1
    BY <1>1, <1>5
  <2>2. todo[i + 1].req.gen \in Nat /\ Placed(todo[i + 1].req, generation, clients)
    BY <2>1, OnTheWay DEF Pending
  <2>3. e.to # "asker"
    BY <1>1, <2>1 DEF Types
  <2>4. QED
    BY <1>2, <2>1, <2>2, <2>3
<1>6. Once(inbox') /\ Apart(inbox', todo')
  BY <1>1 DEF Pending, Apart
<1>7. QED
  BY <1>3, <1>4, <1>5, <1>6 DEF Pending

LEMMA OwnerDistinct ==
  ASSUME Types, Distinct, Pending, Outcome, generation' = generation
  PROVE  Distinct'
<1>1. ASSUME NEW s \in Slots, Gains(s), clients[s].active
      PROVE  clients[s].ready = TRUE
  <2>1. /\ Handling /\ s = req.slot /\ req.op = "get"
    BY <1>1 DEF Gains, Concluded
  <2>2. inbox # <<>> /\ req = inbox[1] /\ clients[s].gen = req.gen
    BY <2>1, HandlingRequest
  <2>3. 1 \in DOMAIN inbox
    BY <2>2, TailOf DEF Types
  <2>4. Placed(req, generation, clients)
    BY <2>2, <2>3 DEF Pending
  <2>5. clients[s].ready <=> req.op # "initial"
    BY <1>1, <2>2, <2>4 DEF Placed
  <2>6. QED
    BY <2>1, <2>5 DEF Types, Sessions
<1>2. \A s \in Slots :
        /\ clients'[s].active = clients[s].active /\ clients'[s].gen = clients[s].gen
        /\ clients'[s].ready = clients[s].ready
        /\ clients'[s].outstanding = clients[s].outstanding
  BY OutcomeOne DEF Keeps
<1>3. \A s \in Slots : clients'[s].subs = clients[s].subs \/ Gains(s)
  BY OutcomeOne
<1>4. ASSUME NEW s \in Slots, clients'[s].active
      PROVE  /\ clients'[s].gen \in 1 .. generation'
             /\ \A r \in Slots : clients'[r].active /\ clients'[r].gen = clients'[s].gen => r = s
             /\ ~clients'[s].ready => clients'[s].subs = {} /\ clients'[s].outstanding = 0
  <2>1. clients[s].active
    BY <1>2, <1>4
  <2>2. ~clients'[s].ready => clients'[s].subs = clients[s].subs /\ ~clients[s].ready
    BY <1>1, <1>2, <1>3, <2>1
  <2>3. QED
    BY <1>2, <2>1, <2>2 DEF Distinct
<1>5. QED
  BY <1>4 DEF Distinct

LEMMA OwnerPending ==
  ASSUME Types, Pending, Outcome, generation' = generation
  PROVE  Pending'
<1>1. ASSUME NEW r, r.gen \in Nat, Placed(r, generation, clients)
      PROVE  Placed(r, generation', clients')
  <2>1. \A s \in Slots : /\ clients'[s].active = clients[s].active
                         /\ clients'[s].gen = clients[s].gen
                         /\ clients'[s].ready = clients[s].ready
    BY OutcomeOne DEF Keeps
  <2>2. generation \in Int
    BY OnTheWay
  <2>3. QED
    BY <1>1, <2>1, <2>2, PlacedStays
<1>2. inbox' = inbox \/ (inbox # <<>> /\ inbox' = Tail(inbox))
  BY HandlingRequest DEF Outcome, Quiet, Flown, Forgotten, Submitted, Concluded
<1>3. \A i \in DOMAIN inbox' : \E j \in DOMAIN inbox : inbox'[i] = inbox[j]
  <2>1. CASE inbox' = inbox
    BY <2>1
  <2>2. CASE inbox # <<>> /\ inbox' = Tail(inbox)
    BY <2>2, TailOf DEF Types
  <2>3. QED
    BY <1>2, <2>1, <2>2
<1>4. \A i \in DOMAIN inbox' : Placed(inbox'[i], generation', clients')
  BY <1>1, <1>3, OnTheWay DEF Pending
<1>5. Once(inbox')
  <2>1. CASE inbox' = inbox
    BY <2>1 DEF Pending
  <2>2. CASE inbox # <<>> /\ inbox' = Tail(inbox)
    <3>1. \A i \in DOMAIN inbox' : i \in Nat /\ i + 1 \in DOMAIN inbox /\ inbox'[i] = inbox[i + 1]
      BY <2>2, TailOf DEF Types
    <3>2. ASSUME NEW i \in DOMAIN inbox', NEW j \in DOMAIN inbox',
                 Initial(inbox'[i]), Initial(inbox'[j]), inbox'[i].gen = inbox'[j].gen
          PROVE  i = j
      <4>1. i + 1 = j + 1
        BY <3>1, <3>2 DEF Pending, Once
      <4>2. QED
        BY <3>1, <4>1
    <3>3. QED
      BY <3>2 DEF Once
  <2>3. QED
    BY <1>2, <2>1, <2>2
<1> DEFINE Answers1(r) == \A i \in DOMAIN todo' : todo'[i].to = "asker" => todo'[i].req = r
<1>6. CASE NoAnswer
  <2>1. flight' = flight \/ (Submitted /\ flight' = req)
    BY <1>6, HandlingRequest DEF Outcome, Quiet, Flown, Forgotten, Submitted, Concluded, NoAnswer,
      Answered
  <2>2. flight' # Nobody =>
          Placed(flight', generation', clients') /\ flight'.op \in {"command", "archive"}
    <3>1. CASE flight' = flight
      BY <1>1, <3>1, OnTheWay DEF Pending
    <3>2. CASE Submitted /\ flight' = req
      <4>1. inbox # <<>> /\ req = inbox[1] /\ req.op \in {"command", "archive"}
        BY <3>2, HandlingRequest DEF Submitted
      <4>2. 1 \in DOMAIN inbox
        BY <4>1, TailOf DEF Types
      <4>3. Placed(req, generation', clients')
        BY <1>1, <4>1, <4>2, OnTheWay DEF Pending
      <4>4. QED
        BY <3>2, <4>1, <4>3
    <3>3. QED
      BY <2>1, <3>1, <3>2
  <2>3. Apart(inbox', todo')
    BY <1>6 DEF NoAnswer, Apart
  <2>4. QED
    BY <1>4, <1>5, <1>6, <2>2, <2>3 DEF Pending, NoAnswer
<1>7. CASE Flown
  <2>1. /\ flight # Nobody /\ flight' = Nobody /\ Answers1(flight)
    BY <1>7 DEF Flown, Answered
  <2>2. Placed(flight, generation', clients') /\ ~Initial(flight)
    BY <1>1, <2>1, OnTheWay DEF Pending, Initial
  <2>3. Apart(inbox', todo')
    BY <2>1, <2>2 DEF Apart
  <2>4. QED
    BY <1>4, <1>5, <2>1, <2>2, <2>3 DEF Pending
<1>8. CASE Concluded
  <2>1. /\ inbox # <<>> /\ req = inbox[1] /\ inbox' = Tail(inbox) /\ Answers1(req)
        /\ flight = Nobody /\ flight' = Nobody
    BY <1>8, HandlingRequest DEF Concluded, Answered
  <2>2. /\ 1 \in DOMAIN inbox
        /\ \A i \in DOMAIN inbox' :
             i \in Nat \ {0} /\ i + 1 \in DOMAIN inbox /\ inbox'[i] = inbox[i + 1]
    BY <2>1, TailOf DEF Types
  <2>3. Placed(req, generation', clients')
    BY <1>1, <2>1, <2>2, OnTheWay DEF Pending
  <2>4. Apart(inbox', todo')
    <3>1. ASSUME NEW i \in DOMAIN inbox', Initial(inbox'[i]), Initial(req)
          PROVE  inbox'[i].gen # req.gen
      <4>1. i + 1 # 1
        BY <2>2
      <4>2. QED
        BY <2>1, <2>2, <3>1, <4>1 DEF Pending, Once
    <3>2. QED
      BY <2>1, <3>1 DEF Apart
  <2>5. QED
    BY <1>4, <1>5, <2>1, <2>3, <2>4 DEF Pending
<1>9. QED
  BY <1>6, <1>7, <1>8 DEF Outcome, Quiet, Forgotten, Submitted

----------------------------------------------------------------------------
(* Requests on their way, counted.                                          *)

One(g, r) == IF Asks(g, r) THEN 1 ELSE 0

Count(g, q) == Cardinality(Queued(g, q))

Due(g, sections) == Cardinality(Replies(g, sections))

LEMMA CountFinite ==
  ASSUME NEW S, NEW q \in Seq(S), NEW g
  PROVE  IsFiniteSet(Queued(g, q)) /\ Count(g, q) \in Nat
<1>1. Queued(g, q) \in SUBSET (1 .. Len(q)) /\ Len(q) \in Int
  BY DEF Queued
<1>2. IsFiniteSet(1 .. Len(q))
  BY <1>1, FS_Interval
<1>3. IsFiniteSet(Queued(g, q))
  BY <1>1, <1>2, FS_Subset
<1>4. QED
  BY <1>3, FS_CardinalityType DEF Count

LEMMA CountGrown ==
  ASSUME NEW S, NEW q \in Seq(S), NEW r, NEW x, Grown(r, q, x), NEW g
  PROVE  Count(g, r) = Count(g, q) + One(g, x)
<1> DEFINE A == Queued(g, q)
           B == Queued(g, r)
<1>1. IsFiniteSet(A) /\ Cardinality(A) \in Nat
  BY CountFinite DEF Count
<1>2. Len(r) \notin A
  BY DEF Grown, Queued
<1>3. CASE Asks(g, x)
  <2>1. B = A \cup {Len(r)}
    BY <1>3 DEF Grown, Queued
  <2>2. QED
    BY <1>1, <1>2, <1>3, <2>1, FS_AddElement DEF Count, One
<1>4. CASE ~Asks(g, x)
  <2>1. B = A
    BY <1>4 DEF Grown, Queued
  <2>2. QED
    BY <1>1, <1>4, <2>1 DEF Count, One
<1>5. QED
  BY <1>3, <1>4

LEMMA CountTail ==
  ASSUME NEW S, NEW q \in Seq(S), q # <<>>, NEW g
  PROVE  Count(g, q) = Count(g, Tail(q)) + One(g, q[1])
<1> DEFINE r == Tail(q)
           A == Queued(g, r)
           B == Queued(g, q)
           f == [i \in A |-> i + 1]
<1>1. /\ r \in Seq(S) /\ 1 \in DOMAIN q
      /\ \A i \in DOMAIN r : i \in Nat \ {0} /\ i + 1 \in DOMAIN q /\ r[i] = q[i + 1]
      /\ \A i \in DOMAIN q : i \in Nat \ {0}
      /\ \A i \in DOMAIN q : i # 1 => i - 1 \in DOMAIN r /\ r[i - 1] = q[i]
  BY TailOf
<1> HIDE DEF r
<1>2. IsFiniteSet(A) /\ IsFiniteSet(B) /\ Cardinality(A) \in Nat /\ Cardinality(B) \in Nat
  BY <1>1, CountFinite DEF Count
<1>3. f \in Bijection(A, B \ {1})
  <2>1. \A i \in A : f[i] \in B \ {1}
    BY <1>1 DEF Queued
  <2>2. \A i, j \in A : f[i] = f[j] => i = j
    BY <1>1 DEF Queued
  <2>3. ASSUME NEW i \in B \ {1}
        PROVE  \E j \in A : f[j] = i
    <3>1. i - 1 \in A /\ i \in Nat \ {0}
      BY <1>1, <2>3 DEF Queued
    <3>2. f[i - 1] = i
      BY <3>1
    <3>3. QED
      BY <3>1, <3>2
  <2>4. f \in [A -> B \ {1}]
    BY <2>1
  <2> HIDE DEF f
  <2>5. QED
    BY <2>2, <2>3, <2>4 DEF Bijection, Injection, Surjection, IsInjective
<1>4. Cardinality(A) = Cardinality(B \ {1})
  <2>1. ExistsBijection(A, B \ {1})
    BY <1>3 DEF ExistsBijection
  <2>2. QED
    BY <1>2, <2>1, FS_Bijection
<1>5. 1 \in B <=> Asks(g, q[1])
  BY <1>1 DEF Queued
<1> HIDE DEF A, B
<1>6. Cardinality(B \ {1}) = IF 1 \in B THEN Cardinality(B) - 1 ELSE Cardinality(B)
  BY <1>2, FS_RemoveElement
<1>7. Cardinality(B) = Cardinality(A) + One(g, q[1])
  BY <1>2, <1>4, <1>5, <1>6 DEF One
<1>8. QED
  BY <1>7 DEF Count, A, B, r

(* Nobody is due an answer, or one session is.                              *)
LEMMA DueNone ==
  ASSUME NEW ss, \A i \in DOMAIN ss : ss[i].to # "asker", NEW g
  PROVE  Due(g, ss) = 0
<1>1. Replies(g, ss) = {}
  BY DEF Replies
<1>2. QED
  BY <1>1, FS_EmptySet DEF Due

LEMMA DueOne ==
  ASSUME NEW ss, NEW n \in DOMAIN ss, ss[n].to = "asker",
         \A i \in DOMAIN ss : ss[i].to = "asker" => i = n, NEW g
  PROVE  Due(g, ss) = One(g, ss[n].req)
<1>1. CASE Asks(g, ss[n].req)
  <2>1. Replies(g, ss) = {n}
    BY <1>1 DEF Replies
  <2>2. QED
    BY <1>1, <2>1, FS_Singleton DEF Due, One
<1>2. CASE ~Asks(g, ss[n].req)
  <2>1. Replies(g, ss) = {}
    BY <1>2 DEF Replies
  <2>2. QED
    BY <1>2, <2>1, FS_EmptySet DEF Due, One
<1>3. QED
  BY <1>1, <1>2

LEMMA WaitingCounts ==
  ASSUME Types, NEW g
  PROVE  /\ Waiting(g) = Count(g, inbox) + One(g, flight) + Due(g, todo)
         /\ Count(g, inbox) \in Nat /\ One(g, flight) \in {0, 1} /\ Due(g, todo) \in {0, 1}
<1>1. Waiting(g) = Count(g, inbox) + One(g, flight) + Due(g, todo)
  BY DEF Waiting, Count, One, Due
<1>2. Count(g, inbox) \in Nat
  BY CountFinite DEF Types
<1>3. One(g, flight) \in {0, 1}
  BY DEF One
<1>4. Due(g, todo) \in {0, 1}
  <2>1. CASE \A i \in DOMAIN todo : todo[i].to # "asker"
    BY <2>1, DueNone
  <2>2. ASSUME NEW n \in DOMAIN todo, todo[n].to = "asker"
        PROVE  Due(g, todo) \in {0, 1}
    <3>1. \A i \in DOMAIN todo : todo[i].to = "asker" => i = n
      BY <2>2 DEF Types
    <3>2. Due(g, todo) = One(g, todo[n].req)
      BY <2>2, <3>1, DueOne
    <3>3. QED
      BY <3>2 DEF One
  <2>3. QED
    BY <2>1, <2>2
<1>5. QED
  BY <1>1, <1>2, <1>3, <1>4

Wanted(g, q, f, ss) == Count(g, q) + One(g, f) + Due(g, ss)

LEMMA AnsweredNow ==
  ASSUME EveryRequestAnswered, NEW s \in Slots, clients[s].active, NEW g, g = clients[s].gen
  PROVE  /\ clients[s].owed = Wanted(g, inbox, flight, todo)
         /\ clients[s].outstanding = Wanted(g, inbox, flight, todo)
  BY DEF EveryRequestAnswered, Waiting, Wanted, Count, One, Due

LEMMA AnsweredNext ==
  ASSUME \A s \in Slots : clients'[s].active =>
           /\ clients'[s].owed = Wanted(clients'[s].gen, inbox', flight', todo')
           /\ clients'[s].outstanding = Wanted(clients'[s].gen, inbox', flight', todo')
  PROVE  EveryRequestAnswered'
  BY DEF EveryRequestAnswered, Waiting, Wanted, Count, One, Due

LEMMA NobodyAsks ==
  ASSUME NEW g \in Nat \ {0}
  PROVE  One(g, Nobody) = 0
  BY DEF One, Asks, Nobody

(* A new generation has asked for nothing.                                  *)
LEMMA NothingAsked ==
  ASSUME Types, Pending, NEW g \in Nat, g > generation
  PROVE  Wanted(g, inbox, flight, todo) = 0
<1> USE OnTheWay
<1>1. Count(g, inbox) = 0
  <2>1. \A i \in DOMAIN inbox : inbox[i].gen # g
    BY DEF Pending, Placed
  <2>2. Queued(g, inbox) = {}
    BY <2>1 DEF Queued, Asks
  <2>3. QED
    BY <2>2, FS_EmptySet DEF Count
<1>2. One(g, flight) = 0
  BY NobodyAsks DEF Pending, Placed, One, Asks
<1>3. Due(g, todo) = 0
  <2>1. \A i \in DOMAIN todo : todo[i].to = "asker" => todo[i].req.gen # g
    BY DEF Pending, Placed
  <2>2. Replies(g, todo) = {}
    BY <2>1 DEF Replies, Asks
  <2>3. QED
    BY <2>2, FS_EmptySet DEF Due
<1>4. QED
  BY <1>1, <1>2, <1>3 DEF Wanted

LEMMA HttpAnswered ==
  ASSUME Types, Distinct, Pending, EveryRequestAnswered, Http
  PROVE  EveryRequestAnswered'
<1> DEFINE Right(s) ==
      /\ clients'[s].owed = Wanted(clients'[s].gen, inbox', flight', todo')
      /\ clients'[s].outstanding = Wanted(clients'[s].gen, inbox', flight', todo')
<1> SUFFICES ASSUME NEW s \in Slots, clients'[s].active
             PROVE  Right(s)
  BY AnsweredNext
<1>1. flight' = flight /\ todo' = todo
  BY HttpOutcome DEF owner
<1>2. inbox \in Seq(Asked)
  BY DEF Types
<1>3. CASE Touched
  <2>1. /\ inbox' = inbox /\ clients[s].active /\ clients'[s].gen = clients[s].gen
        /\ clients'[s].owed = clients[s].owed
        /\ clients'[s].outstanding = clients[s].outstanding
    BY <1>3 DEF Touched, Same
  <2>2. QED
    BY <1>1, <2>1, AnsweredNow
<1>4. ASSUME NEW t \in Slots, Opened(t)
      PROVE  Right(s)
  <2> DEFINE g == generation'
             x == Greeting(t, g)
  <2>1. /\ clients'[t] = Fresh(g) /\ g = generation + 1 /\ g \in 1 .. MaxGen
        /\ \A r \in Slots : r # t => clients'[r] = clients[r]
        /\ Grown(inbox', inbox, x) /\ generation \in Nat
    BY <1>4, OpenedOne
  <2> HIDE DEF g
  <2>2. /\ x.op = "initial" /\ Fresh(g).gen = g
        /\ Fresh(g).outstanding = 0 /\ Fresh(g).owed = 0
    BY <2>1, FreshType, Zenon
  <2> HIDE DEF x
  <2>3. \A h : Count(h, inbox') = Count(h, inbox)
    <3>1. \A h : One(h, x) = 0
      BY <2>2 DEF One, Asks
    <3>2. \A h : Count(h, inbox') = Count(h, inbox) + One(h, x) /\ Count(h, inbox) \in Nat
      BY <1>2, <2>1, CountGrown, CountFinite
    <3>3. QED
      BY <3>1, <3>2
  <2>4. \A h : Wanted(h, inbox', flight', todo') = Wanted(h, inbox, flight, todo)
    BY <1>1, <2>3 DEF Wanted
  <2>5. CASE s = t
    <3>1. Wanted(g, inbox, flight, todo) = 0
      BY <2>1, NothingAsked
    <3>2. QED
      BY <2>1, <2>2, <2>4, <2>5, <3>1
  <2>6. CASE s # t
    BY <2>1, <2>4, <2>6, AnsweredNow
  <2>7. QED
    BY <2>5, <2>6
<1>5. ASSUME NEW t \in Slots, NEW m \in Offered[t], Received(t, m)
      PROVE  Right(s)
  <2> DEFINE x == Question(t, m)
             h == clients[s].gen
  <2>1. /\ Same(clients'[t], clients[t]) /\ clients[t].active
        /\ clients[t].gen \in 1 .. generation
        /\ clients'[t].outstanding = clients[t].outstanding + 1
        /\ clients'[t].owed = clients[t].owed + 1
        /\ \A r \in Slots : r # t => clients'[r] = clients[r]
        /\ Grown(inbox', inbox, x)
    BY <1>5, ReceivedOne
  <2>2. x.gen = clients[t].gen /\ x.op # "initial"
    <3>1. clients[t].gen \in 1 .. MaxGen
      BY <2>1, Bounds DEF Types
    <3>2. QED
      BY <3>1, QuestionType
  <2>3. clients'[s].gen = h /\ clients[s].active
    BY <2>1 DEF Same
  <2> HIDE DEF x
  <2>4. Count(h, inbox') = Count(h, inbox) + One(h, x) /\ Count(h, inbox) \in Nat
    BY <1>2, <2>1, CountGrown, CountFinite
  <2>5. /\ Count(h, inbox) \in Nat /\ One(h, flight) \in {0, 1} /\ Due(h, todo) \in {0, 1}
    BY WaitingCounts
  <2>6. /\ clients[s].owed = Wanted(h, inbox, flight, todo)
        /\ clients[s].outstanding = Wanted(h, inbox, flight, todo)
    BY <2>3, AnsweredNow
  <2>7. CASE s = t
    <3>1. One(h, x) = 1
      BY <2>2, <2>7 DEF One, Asks
    <3>2. Wanted(h, inbox', flight', todo') = Wanted(h, inbox, flight, todo) + 1
      BY <1>1, <2>4, <2>5, <3>1 DEF Wanted
    <3>3. QED
      BY <2>1, <2>3, <2>6, <2>7, <3>2
  <2>8. CASE s # t
    <3>1. h # clients[t].gen
      BY <2>1, <2>3, <2>8 DEF Distinct
    <3>2. One(h, x) = 0
      BY <2>2, <3>1 DEF One, Asks
    <3>3. Wanted(h, inbox', flight', todo') = Wanted(h, inbox, flight, todo)
      BY <1>1, <2>4, <2>5, <3>2 DEF Wanted
    <3>4. QED
      BY <2>1, <2>6, <2>8, <3>3
  <2>9. QED
    BY <2>7, <2>8
<1>6. QED
  BY <1>3, <1>4, <1>5, HttpOutcome

LEMMA DuePublished ==
  ASSUME Types, Publish, NEW g
  PROVE  /\ Due(g, todo) = Due(g, todo') + IF todo[1].to = "asker" THEN One(g, todo[1].req) ELSE 0
         /\ Due(g, todo') \in {0, 1}
<1>1. /\ 1 \in DOMAIN todo
      /\ \A i \in DOMAIN todo' : i \in Nat \ {0} /\ i + 1 \in DOMAIN todo /\ todo'[i] = todo[i + 1]
      /\ \A i \in DOMAIN todo : i # 1 => i - 1 \in DOMAIN todo' /\ todo'[i - 1] = todo[i]
      /\ \A i \in DOMAIN todo : i \in Nat \ {0}
  BY PublishTodo
<1>2. \A i, j \in DOMAIN todo : todo[i].to = "asker" /\ todo[j].to = "asker" => i = j
  BY DEF Types
<1>3. CASE todo[1].to = "asker"
  <2>1. Due(g, todo) = One(g, todo[1].req)
    BY <1>1, <1>2, <1>3, DueOne
  <2>2. \A i \in DOMAIN todo' : todo'[i].to # "asker"
    <3>1. ASSUME NEW i \in DOMAIN todo'
          PROVE  todo'[i].to # "asker"
      <4>1. i + 1 \in DOMAIN todo /\ i + 1 # 1 /\ todo'[i] = todo[i + 1]
        BY <1>1
      <4>2. QED
        BY <1>1, <1>2, <1>3, <4>1
    <3>2. QED
      BY <3>1
  <2>3. Due(g, todo') = 0
    BY <2>2, DueNone
  <2>4. One(g, todo[1].req) \in {0, 1}
    BY DEF One
  <2>5. QED
    BY <1>3, <2>1, <2>3, <2>4
<1>4. CASE todo[1].to # "asker" /\ \E n \in DOMAIN todo : todo[n].to = "asker"
  <2>1. PICK n \in DOMAIN todo : todo[n].to = "asker"
    BY <1>4
  <2>2. Due(g, todo) = One(g, todo[n].req)
    BY <1>2, <2>1, DueOne
  <2>3. n - 1 \in DOMAIN todo' /\ todo'[n - 1] = todo[n]
    BY <1>1, <1>4, <2>1
  <2>4. ASSUME NEW i \in DOMAIN todo', todo'[i].to = "asker"
        PROVE  i = n - 1
    <3>1. i + 1 \in DOMAIN todo /\ todo[i + 1].to = "asker" /\ i \in Nat /\ n \in Nat
      BY <1>1, <2>4
    <3>2. i + 1 = n
      BY <1>2, <2>1, <3>1
    <3>3. QED
      BY <3>1, <3>2
  <2> DEFINE k == n - 1
  <2>5. k \in DOMAIN todo' /\ todo'[k] = todo[n] /\ todo'[k].to = "asker"
        /\ \A i \in DOMAIN todo' : todo'[i].to = "asker" => i = k
    BY <2>1, <2>3, <2>4
  <2> HIDE DEF k
  <2>6. Due(g, todo') = One(g, todo[n].req)
    BY <2>5, DueOne
  <2>7. One(g, todo[n].req) \in {0, 1}
    BY DEF One
  <2>8. QED
    BY <1>4, <2>2, <2>6, <2>7
<1>5. CASE \A n \in DOMAIN todo : todo[n].to # "asker"
  <2>1. \A i \in DOMAIN todo' : todo'[i].to # "asker"
    BY <1>1, <1>5
  <2>2. Due(g, todo) = 0 /\ Due(g, todo') = 0
    BY <1>5, <2>1, DueNone
  <2>3. QED
    BY <1>1, <1>5, <2>2
<1>6. QED
  BY <1>3, <1>4, <1>5

LEMMA PublishAnswered ==
  ASSUME Types, Distinct, Pending, EveryRequestAnswered, Publish
  PROVE  EveryRequestAnswered'
<1> DEFINE Right(s) ==
      /\ clients'[s].owed = Wanted(clients'[s].gen, inbox', flight', todo')
      /\ clients'[s].outstanding = Wanted(clients'[s].gen, inbox', flight', todo')
<1> SUFFICES ASSUME NEW s \in Slots, clients'[s].active
             PROVE  Right(s)
  BY AnsweredNext
<1> DEFINE c == clients[s]
           d == clients'[s]
           e == todo[1]
           g == clients[s].gen
<1>1. inbox' = inbox /\ flight' = flight /\ 1 \in DOMAIN todo
  BY PublishTodo
<1>2. c.active /\ d.gen = g
  BY PublishOpens
<1>3. /\ ~Hears(e, s) => d = c
      /\ Hears(e, s) =>
           /\ d.outstanding = Credited(c, e)
           /\ d.owed = IF e.to = "asker" /\ e.req.op # "initial" THEN c.owed - 1 ELSE c.owed
  BY PublishOne
<1>4. /\ Count(g, inbox) \in Nat /\ One(g, flight) \in {0, 1} /\ Due(g, todo) \in {0, 1}
  BY WaitingCounts
<1>5. /\ c.owed = Wanted(g, inbox, flight, todo)
      /\ c.outstanding = Wanted(g, inbox, flight, todo)
  BY <1>2, AnsweredNow
<1>6. /\ Due(g, todo) = Due(g, todo') + IF e.to = "asker" THEN One(g, e.req) ELSE 0
      /\ Due(g, todo') \in {0, 1}
  BY DuePublished
<1>7. CASE e.to = "asker" /\ Asks(g, e.req)
  <2>1. Placed(e.req, generation, clients) /\ e.req.op # "initial" /\ e.req.gen = g
    BY <1>1, <1>7 DEF Pending, Asks
  <2>2. Hears(e, s)
    BY <1>2, <1>7, <2>1 DEF Placed, Hears, Live
  <2>3. One(g, e.req) = 1
    BY <1>7 DEF One
  <2>4. Due(g, todo) = 1 /\ Due(g, todo') = 0
    BY <1>4, <1>6, <1>7, <2>3
  <2> DEFINE w == Wanted(g, inbox, flight, todo)
             v == Wanted(g, inbox', flight', todo')
  <2>5. w \in Nat \ {0} /\ v = w - 1
    BY <1>1, <1>4, <2>4 DEF Wanted
  <2>6. c.outstanding > 0 /\ Credited(c, e) = c.outstanding - 1
    BY <1>5, <1>7, <2>5 DEF Credited
  <2> HIDE DEF w, v
  <2>7. d.owed = v /\ d.outstanding = v
    BY <1>3, <1>5, <1>7, <2>1, <2>2, <2>5, <2>6 DEF w
  <2>8. QED
    BY <1>2, <2>7 DEF v
<1>8. CASE ~(e.to = "asker" /\ Asks(g, e.req))
  <2>1. Due(g, todo') = Due(g, todo)
    BY <1>6, <1>8 DEF One
  <2>2. Wanted(g, inbox', flight', todo') = Wanted(g, inbox, flight, todo)
    BY <1>1, <2>1 DEF Wanted
  <2>3. d.owed = c.owed /\ d.outstanding = c.outstanding
    <3>1. CASE ~Hears(e, s)
      BY <1>3, <3>1
    <3>2. CASE Hears(e, s) /\ e.to # "asker"
      BY <1>3, <3>2 DEF Credited
    <3>3. CASE Hears(e, s) /\ e.to = "asker"
      <4>1. e.req.gen = g
        BY <3>3 DEF Hears, Live
      <4>2. e.req.op = "initial"
        BY <1>8, <3>3, <4>1 DEF Asks
      <4>3. Placed(e.req, generation, clients)
        BY <1>1, <3>3 DEF Pending
      <4>4. ~c.ready
        BY <1>2, <4>1, <4>2, <4>3 DEF Placed
      <4>5. c.outstanding = 0
        BY <1>2, <4>4 DEF Distinct
      <4>6. QED
        BY <1>3, <3>3, <4>2, <4>5 DEF Credited
    <3>4. QED
      BY <3>1, <3>2, <3>3
  <2>4. QED
    BY <1>2, <1>5, <2>2, <2>3
<1>9. QED
  BY <1>7, <1>8

(* A turn of the owner task moves requests on, and answers none of them yet. *)
LEMMA OwnerWanted ==
  ASSUME Types, Pending, todo = <<>>, Outcome, NEW s \in Slots, clients[s].active,
         NEW g, g = clients[s].gen, g \in Nat \ {0}
  PROVE  Wanted(g, inbox', flight', todo') = Wanted(g, inbox, flight, todo)
<1>1. /\ Count(g, inbox) \in Nat /\ One(g, flight) \in {0, 1} /\ One(g, Nobody) = 0
  BY WaitingCounts, NobodyAsks
<1>2. Due(g, todo) = 0
  BY DueNone
<1>3. NoAnswer => Due(g, todo') = 0
  BY DueNone DEF NoAnswer
<1>4. \A r : Answered(r) => Due(g, todo') = One(g, r)
  <2> SUFFICES ASSUME NEW r, Answered(r)
               PROVE  Due(g, todo') = One(g, r)
    OBVIOUS
  <2> DEFINE n == Len(todo')
             ss == todo'
  <2>1. n \in DOMAIN ss /\ ss[n].to = "asker" /\ ss[n].req = r
        /\ \A i \in DOMAIN ss : ss[i].to = "asker" => i = n
    BY DEF Answered
  <2> HIDE DEF n, ss
  <2>2. Due(g, ss) = One(g, r)
    BY <2>1, DueOne
  <2>3. QED
    BY <2>2 DEF ss
<1>5. inbox # <<>> => /\ Count(g, inbox) = Count(g, Tail(inbox)) + One(g, inbox[1])
                      /\ Count(g, Tail(inbox)) \in Nat /\ 1 \in DOMAIN inbox
                      /\ Head(inbox) = inbox[1]
  BY TailOf, CountTail, CountFinite DEF Types
<1>6. \A r : One(g, r) \in {0, 1}
  BY DEF One
<1>7. CASE Quiet
  BY <1>2, <1>3, <1>7 DEF Quiet, Wanted
<1>8. CASE Flown
  BY <1>1, <1>2, <1>4, <1>8 DEF Flown, Wanted
<1>9. CASE Forgotten
  <2>1. Placed(inbox[1], generation, clients) /\ inbox[1] \in Asked
    BY <1>5, <1>9, OnTheWay DEF Forgotten, Pending
  <2>2. inbox[1].gen # g
    BY <1>5, <1>9, <2>1 DEF Forgotten, Placed, Live
  <2>3. One(g, inbox[1]) = 0
    BY <2>2 DEF One, Asks
  <2>4. inbox' = Tail(inbox) /\ flight' = flight /\ Due(g, todo') = 0 /\ inbox # <<>>
    BY <1>3, <1>9 DEF Forgotten
  <2>5. Count(g, inbox') = Count(g, inbox)
    BY <1>5, <2>3, <2>4
  <2>6. QED
    BY <1>2, <2>4, <2>5 DEF Wanted
<1>10. CASE Submitted
  <2>1. /\ inbox # <<>> /\ req = inbox[1] /\ flight = Nobody /\ inbox' = Tail(inbox)
        /\ flight' = req /\ Due(g, todo') = 0
    BY <1>3, <1>10, HandlingRequest DEF Submitted
  <2>2. Count(g, inbox) = Count(g, inbox') + One(g, req) /\ Count(g, inbox') \in Nat
    BY <1>5, <2>1
  <2>3. QED
    BY <1>1, <1>2, <1>6, <2>1, <2>2 DEF Wanted
<1>11. CASE Concluded
  <2>1. /\ inbox # <<>> /\ req = inbox[1] /\ inbox' = Tail(inbox)
        /\ flight' = flight /\ Due(g, todo') = One(g, req)
    BY <1>4, <1>11, HandlingRequest DEF Concluded
  <2>2. Count(g, inbox) = Count(g, inbox') + One(g, req) /\ Count(g, inbox') \in Nat
    BY <1>5, <2>1
  <2>3. QED
    BY <1>1, <1>2, <1>6, <2>1, <2>2 DEF Wanted
<1>12. QED
  BY <1>7, <1>8, <1>9, <1>10, <1>11 DEF Outcome

LEMMA OwnerAnswered ==
  ASSUME Types, Distinct, Pending, EveryRequestAnswered, todo = <<>>, Outcome
  PROVE  EveryRequestAnswered'
<1> SUFFICES ASSUME NEW s \in Slots, clients'[s].active
             PROVE  /\ clients'[s].owed = Wanted(clients'[s].gen, inbox', flight', todo')
                    /\ clients'[s].outstanding = Wanted(clients'[s].gen, inbox', flight', todo')
  BY AnsweredNext
<1>1. /\ clients[s].active /\ clients'[s].gen = clients[s].gen
      /\ clients'[s].owed = clients[s].owed /\ clients'[s].outstanding = clients[s].outstanding
  BY OutcomeOne DEF Keeps
<1>2. clients[s].gen \in Nat \ {0}
  BY <1>1, OnTheWay DEF Distinct
<1> DEFINE g == clients[s].gen
<1>3. Wanted(g, inbox', flight', todo') = Wanted(g, inbox, flight, todo)
  BY <1>1, <1>2, OwnerWanted
<1>4. QED
  BY <1>1, <1>3, AnsweredNow

----------------------------------------------------------------------------
(* Archive sessions.                                                        *)

LEMMA CommittingOwner ==
  ASSUME NEW ses \in Archives
  PROVE  [ses EXCEPT !.mode = "committing"].owner = ses.owner
  BY ArchiveTypes

LEMMA HandledFlight ==
  ASSUME Handling
  PROVE  flight = Nobody /\ Nobody.op = "none"
  BY DEF Handling, InFlight, Nobody

LEMMA ImportStays ==
  ASSUME Types, ImportOwned, Next
  PROVE  ImportOwned'
<1> USE DEF ImportOwned
<1>1. session \in Archives /\ Nobody.op = "none" /\ NoSession.mode = "none"
  BY DEF Types, Scalars, Nobody, NoSession
<1>2. ASSUME flight' = flight, session' \in {session, NoSession}
      PROVE  ImportOwned'
  BY <1>1, <1>2
<1>3. ASSUME Handling, flight' = flight
      PROVE  ImportOwned'
  BY <1>1, <1>3, HandledFlight
<1>4. CASE Http
  BY <1>2, <1>4, HttpOutcome DEF owner
<1>5. CASE EnterSender \/ TopicChanges
  BY <1>2, <1>5 DEF EnterSender, TopicChanges, owner
<1>6. CASE LocalCommand
  BY <1>2, <1>6 DEF LocalCommand
<1>7. CASE FlightCompletes
  BY <1>1, <1>7 DEF FlightCompletes
<1>8. CASE PollBegins
  BY <1>2, <1>8 DEF PollBegins
<1>9. CASE Publish
  BY <1>2, <1>9 DEF Publish
<1>10. CASE NothingToHandle \/ Stale
  BY <1>2, <1>10 DEF NothingToHandle, Stale
<1>11. CASE Snapshot \/ TopicRequest
  BY <1>3, <1>11 DEF Snapshot, TopicRequest
<1>12. CASE CommittedAnswersBusy \/ ArchiveBusy \/ ArchiveUnauthorized \/ ArchiveContinues
  BY <1>3, <1>12 DEF CommittedAnswersBusy, ArchiveBusy, ArchiveUnauthorized, ArchiveContinues,
                     Answers
<1>13. CASE ArchiveBegins
  BY <1>3, <1>13 DEF ArchiveBegins, Answers
<1>14. CASE Command
  <2>1. Handling /\ (flight' = flight \/ flight' = req) /\ req.op = "command"
    BY <1>14 DEF Command, Submits, Answers
  <2>2. QED
    BY <1>3, <2>1
<1>15. CASE ArchiveCommits
  <2>1. /\ Handling /\ session.owner = req.gen
        /\ \/ flight' = flight
           \/ flight' = req /\ session' = [session EXCEPT !.mode = "committing"]
    BY <1>15 DEF ArchiveCommits, Named, Submits, Answers
  <2>2. QED
    BY <1>1, <1>3, <2>1, CommittingOwner
<1>16. QED
  BY <1>4, <1>5, <1>6, <1>7, <1>8, <1>9, <1>10, <1>11, <1>12, <1>13, <1>14, <1>15
    DEF Next, Turn, Polls

LEMMA SessionStep ==
  ASSUME Types, ImportOwned, Next, session.mode # "none", session' # session
  PROVE  \/ pc # "poll" /\ pc' = "poll"
         \/ pc = "poll" /\ session.owner = req.gen
         \/ pc # "poll" /\ session.owner = flight.gen
<1>1. CASE Http
  BY <1>1, HttpOutcome DEF owner
<1>2. CASE EnterSender \/ TopicChanges
  BY <1>2 DEF EnterSender, TopicChanges, owner
<1>3. CASE LocalCommand
  BY <1>3 DEF LocalCommand
<1>4. CASE FlightCompletes
  BY <1>4 DEF FlightCompletes, AfterFlight, Away, ImportOwned
<1>5. CASE PollBegins
  BY <1>5 DEF PollBegins, Away
<1>6. CASE Publish
  BY <1>6 DEF Publish
<1>7. CASE NothingToHandle \/ Stale \/ Snapshot \/ TopicRequest
  BY <1>7 DEF NothingToHandle, Stale, Snapshot, TopicRequest
<1>8. CASE CommittedAnswersBusy \/ ArchiveBusy \/ ArchiveUnauthorized
  BY <1>8 DEF CommittedAnswersBusy, ArchiveBusy, ArchiveUnauthorized, Answers
<1>9. CASE Command
  BY <1>9 DEF Command, Submits, Answers
<1>10. CASE ArchiveBegins
  BY <1>10 DEF ArchiveBegins, NoSession
<1>11. CASE ArchiveContinues \/ ArchiveCommits
  BY <1>11 DEF ArchiveContinues, ArchiveCommits, Named, Handling, Polled
<1>12. QED
  BY <1>1, <1>2, <1>3, <1>4, <1>5, <1>6, <1>7, <1>8, <1>9, <1>10, <1>11
    DEF Next, Turn, Polls

----------------------------------------------------------------------------
(* What the browsers know.                                                  *)

LEMMA SceneNotTopics ==
  /\ SceneParts \cap Topics = {} /\ Topics \subseteq Parts /\ SceneParts \subseteq Parts
  /\ "scene" \in SceneParts /\ "asker" \notin Parts /\ "all" \notin Parts
  BY DEF SceneParts, Topics, Parts

LEMMA SameAnnounced ==
  ASSUME UNCHANGED <<sender, seen, presets, presetsReady, revision, stored>>
  PROVE  Announced' = Announced
  BY DEF Announced

(* A session that is ready after a step of the HTTP task was so before.     *)
LEMMA HttpReady ==
  ASSUME Types, Distinct, Http, NEW s \in Slots, clients'[s].active, clients'[s].ready
  PROVE  /\ clients[s].active /\ clients[s].ready
         /\ clients'[s].gen = clients[s].gen /\ clients'[s].subs = clients[s].subs
         /\ clients'[s].knows = clients[s].knows
<1>1. CASE Touched
  BY <1>1 DEF Touched, Same
<1>2. ASSUME NEW t \in Slots, Opened(t)
      PROVE  clients[s].ready /\ clients'[s] = clients[s]
  <2> DEFINE g == generation'
  <2>1. /\ clients'[t] = Fresh(g) /\ g \in 1 .. MaxGen
        /\ \A r \in Slots : r # t => clients'[r] = clients[r]
    BY <1>2, OpenedOne
  <2> HIDE DEF g
  <2>2. Fresh(g).ready = FALSE
    BY <2>1, FreshType, Zenon
  <2>3. QED
    BY <2>1, <2>2
<1>3. ASSUME NEW t \in Slots, NEW m \in Offered[t], Received(t, m)
      PROVE  clients[s].ready /\ (Same(clients'[s], clients[s]) \/ clients'[s] = clients[s])
  <2>1. /\ Same(clients'[t], clients[t])
        /\ \A r \in Slots : r # t => clients'[r] = clients[r]
    BY <1>3, ReceivedOne
  <2>2. QED
    BY <2>1 DEF Same
<1>4. QED
  BY <1>1, <1>2, <1>3, HttpOutcome DEF Same

LEMMA HttpTells ==
  ASSUME Types, Distinct, TellsTrue, Http
  PROVE  TellsTrue'
<1>1. todo' = todo /\ UNCHANGED <<sender, seen, presets, presetsReady, revision, stored>>
  BY HttpOutcome DEF owner, domain
<1>2. Announced' = Announced
  BY <1>1, SameAnnounced
<1>3. QED
  BY <1>1, <1>2, HttpReady DEF TellsTrue

LEMMA HttpInformed ==
  ASSUME Types, Distinct, Informed, Http
  PROVE  Informed'
<1>1. todo' = todo /\ UNCHANGED <<sender, seen, presets, presetsReady, revision, stored>>
  BY HttpOutcome DEF owner, domain
<1> DEFINE A == Announced
<1>2. Announced' = A
  BY <1>1, SameAnnounced
<1> HIDE DEF A
<1> SUFFICES ASSUME NEW s \in Slots, clients'[s].active, clients'[s].ready,
                    NEW p \in clients'[s].subs \cup SceneParts
             PROVE  \/ p \in DOMAIN clients'[s].knows /\ clients'[s].knows[p] = A[p]
                    \/ \E i \in DOMAIN todo : Hears(todo[i], s)' /\ Carries(todo[i], p)
  BY <1>1, <1>2 DEF Informed, Carries
<1>3. /\ clients[s].active /\ clients[s].ready
      /\ clients'[s].gen = clients[s].gen /\ clients'[s].subs = clients[s].subs
      /\ clients'[s].knows = clients[s].knows
  BY HttpReady
<1>4. \/ p \in DOMAIN clients[s].knows /\ clients[s].knows[p] = A[p]
      \/ \E i \in DOMAIN todo : Hears(todo[i], s) /\ Carries(todo[i], p)
  BY <1>3 DEF Informed, A
<1>5. ASSUME NEW i \in DOMAIN todo, Hears(todo[i], s)
      PROVE  Hears(todo[i], s)'
  BY <1>1, <1>3, <1>5 DEF Hears, Live
<1>6. QED
  BY <1>3, <1>4, <1>5

LEMMA OwnerTells ==
  ASSUME Types, Informed, todo = <<>>, Outcome, Moves(Announced, Announced')
  PROVE  TellsTrue'
<1> DEFINE A == Announced
           B == Announced'
<1>1. A["scene"] = revision /\ revision \in Nat
  BY AnnouncedValues DEF Types, Scalars
<1>2. Turned(todo', B) /\ DeltaFirst(todo')
  BY DEF Moves
<1> HIDE DEF A, B
<1>3. ASSUME NEW i \in DOMAIN todo', NEW j \in DOMAIN todo'[i].events
      PROVE  /\ \A p \in DOMAIN todo'[i].events[j].news : todo'[i].events[j].news[p] = B[p]
             /\ todo'[i].events[j].delta =>
                  /\ i = 1 /\ todo'[i].to = "all" /\ "scene" \in DOMAIN todo'[i].events[j].news
                  /\ revision' = revision + 1
  <2> DEFINE e == todo'[i]
  <2>1. SectionOK(e) /\ Agrees(e, B) /\ e \in Sections
    BY <1>2 DEF Turned
  <2>2. e.events[j].delta =>
          i = 1 /\ e.to = "all" /\ Carries(e, "scene") /\ revision' = revision + 1
    BY <1>2 DEF DeltaFirst, Plain
  <2> HIDE DEF e
  <2>3. j \in DOMAIN e.events
    BY <1>3 DEF e
  <2>4. ASSUME e.to = "all", Carries(e, "scene")
        PROVE  "scene" \in DOMAIN e.events[j].news
    <3>1. DOMAIN e.events = {1}
      BY <2>1, <2>4, SectionEvents
    <3>2. QED
      BY <2>3, <2>4, <3>1 DEF Carries
  <2>5. \A p \in DOMAIN e.events[j].news : e.events[j].news[p] = B[p]
    BY <2>1, <2>3 DEF Agrees
  <2>6. QED
    BY <2>2, <2>4, <2>5 DEF e
<1>4. ASSUME NEW s \in Slots, clients'[s].active, clients'[s].ready
      PROVE  "scene" \in DOMAIN clients'[s].knows /\ clients'[s].knows["scene"] = revision
  <2>1. /\ clients[s].active /\ clients[s].ready /\ clients'[s].knows = clients[s].knows
    BY <1>4, OutcomeOne DEF Keeps
  <2>2. "scene" \in DOMAIN clients[s].knows /\ clients[s].knows["scene"] = A["scene"]
    BY <2>1, SceneNotTopics DEF Informed, A
  <2>3. QED
    BY <1>1, <2>1, <2>2
<1>5. ASSUME revision' = revision + 1
      PROVE  revision = revision' - 1
  BY <1>1, <1>5
<1>6. QED
  BY <1>3, <1>4, <1>5 DEF TellsTrue, B

(* Hears, of the sessions cs.                                               *)
Hearing(e, s, cs) ==
  IF e.to = "asker"
  THEN cs[e.req.slot].active /\ cs[e.req.slot].gen = e.req.gen /\ s = e.req.slot
  ELSE cs[s].active /\ cs[s].ready /\ (e.to = "all" \/ e.to \in cs[s].subs)

LEMMA OwnerInformed ==
  ASSUME Types, Informed, todo = <<>>, Outcome, Moves(Announced, Announced')
  PROVE  Informed'
<1> DEFINE A == Announced
           B == Announced'
<1>1. Turned(todo', B) /\ \A p \in Parts : B[p] = A[p] \/ Reaches(todo', p)
  BY DEF Moves
<1> HIDE DEF A, B
<1> SUFFICES ASSUME NEW s \in Slots, clients'[s].active, clients'[s].ready,
                    NEW p \in clients'[s].subs \cup SceneParts
             PROVE  \/ p \in DOMAIN clients'[s].knows /\ clients'[s].knows[p] = B[p]
                    \/ \E i \in DOMAIN todo' : Hearing(todo'[i], s, clients') /\ Carries(todo'[i], p)
  BY DEF Informed, B, Carries, Hears, Live, Hearing
<1> DEFINE c == clients[s]
           d == clients'[s]
<1>2. /\ c.active /\ c.ready /\ d.gen = c.gen /\ d.knows = c.knows
      /\ d.subs = c.subs \/ (Gains(s) /\ d.subs = c.subs \cup {req.arg})
      /\ c.subs \in SUBSET Topics
  BY OutcomeOne DEF Keeps, Types, Sessions
<1>3. CASE p \notin c.subs \cup SceneParts
  <2>1. Gains(s) /\ p = req.arg
    BY <1>2, <1>3
  <2>2. /\ Handling /\ s = req.slot /\ Carries(todo'[Len(todo')], p)
        /\ Answered(req)
    BY <2>1 DEF Gains, Concluded
  <2>3. c.gen = req.gen
    BY <2>2, HandlingRequest
  <2> DEFINE i == Len(todo')
  <2>4. i \in DOMAIN todo' /\ todo'[i].to = "asker" /\ todo'[i].req = req
    BY <2>2 DEF Answered
  <2>5. Hearing(todo'[i], s, clients')
    BY <1>2, <2>2, <2>3, <2>4 DEF Hearing
  <2>6. QED
    BY <2>2, <2>4, <2>5
<1>4. CASE p \in c.subs \cup SceneParts
  <2>1. p \in DOMAIN c.knows /\ c.knows[p] = A[p]
    BY <1>2, <1>4 DEF Informed, A
  <2>2. p \in Parts
    BY <1>2, <1>4, SceneNotTopics
  <2>3. CASE B[p] = A[p]
    BY <1>2, <2>1, <2>3
  <2>4. CASE Reaches(todo', p)
    <3>1. PICK i \in DOMAIN todo' : (todo'[i].to = "all" \/ todo'[i].to = p) /\ Carries(todo'[i], p)
      BY <2>4 DEF Reaches
    <3>2. todo'[i].to \in Topics \cup {"all", "asker"}
      <4>1. todo'[i] \in Sections
        BY <1>1 DEF Turned
      <4>2. QED
        BY <4>1 DEF Sections
    <3>3. todo'[i].to # "asker" /\ (todo'[i].to # "all" => todo'[i].to \in d.subs)
      BY <1>2, <1>4, <2>2, <3>1, <3>2, SceneNotTopics
    <3>4. Hearing(todo'[i], s, clients')
      BY <1>2, <3>3 DEF Hearing
    <3>5. QED
      BY <3>1, <3>4
  <2>5. QED
    BY <1>1, <2>2, <2>3, <2>4
<1>5. QED
  BY <1>3, <1>4

LEMMA PublishTells ==
  ASSUME Types, Pending, TellsTrue, Publish
  PROVE  TellsTrue'
<1>1. /\ UNCHANGED <<sender, seen, presets, presetsReady, domain>>
      /\ \A i \in DOMAIN todo' : i \in Nat \ {0} /\ i + 1 \in DOMAIN todo /\ todo'[i] = todo[i + 1]
  BY PublishTodo
<1>2. Announced' = Announced
  BY <1>1, SameAnnounced DEF domain
<1>3. ASSUME NEW i \in DOMAIN todo', NEW j \in DOMAIN todo'[i].events
      PROVE  /\ \A p \in DOMAIN todo'[i].events[j].news :
                  todo'[i].events[j].news[p] = Announced[p]
             /\ ~todo'[i].events[j].delta
  <2>1. i + 1 # 1 /\ i + 1 \in DOMAIN todo /\ todo'[i] = todo[i + 1]
    BY <1>1
  <2>2. QED
    BY <1>3, <2>1 DEF TellsTrue
<1>4. QED
  BY <1>2, <1>3 DEF TellsTrue

(* A session hears the first section prepared for it.                       *)
LEMMA FirstPrepared ==
  ASSUME Types, TellsTrue, 1 \in DOMAIN todo, NEW s \in Slots, Hears(todo[1], s)
  PROVE  Agrees(todo[1], Announced) /\ Prepared(clients[s], todo[1])
<1> DEFINE e == todo[1]
           A == Announced
<1>1. A["scene"] = revision
  BY AnnouncedValues
<1>2. e \in Sections /\ SectionOK(e)
  BY DEF Types
<1>3. \A j \in DOMAIN e.events :
        /\ \A p \in DOMAIN e.events[j].news : e.events[j].news[p] = A[p]
        /\ e.events[j].delta =>
             /\ e.to = "all" /\ "scene" \in DOMAIN e.events[j].news
             /\ \A r \in Slots : clients[r].active /\ clients[r].ready =>
                  "scene" \in DOMAIN clients[r].knows /\ clients[r].knows["scene"] = revision - 1
  BY DEF TellsTrue
<1> HIDE DEF A
<1>4. Agrees(e, A)
  BY <1>3 DEF Agrees
<1>5. ASSUME NEW j \in DOMAIN e.events, e.events[j].delta
      PROVE  /\ Len(e.events) = 1 /\ "scene" \in DOMAIN clients[s].knows
             /\ clients[s].knows["scene"] = e.events[1].news["scene"] - 1
  <2>1. e.to = "all" /\ "scene" \in DOMAIN e.events[j].news
    BY <1>3, <1>5
  <2>2. Len(e.events) = 1 /\ DOMAIN e.events = {1}
    BY <1>2, <2>1, SectionEvents
  <2>3. j = 1
    BY <1>5, <2>2
  <2>4. e.events[1].news["scene"] = revision
    BY <1>1, <1>3, <1>5, <2>1, <2>3
  <2>5. clients[s].active /\ clients[s].ready
    BY <2>1 DEF Hears
  <2>6. "scene" \in DOMAIN clients[s].knows /\ clients[s].knows["scene"] = revision - 1
    BY <1>3, <1>5, <2>5
  <2>7. QED
    BY <2>2, <2>4, <2>6
<1>6. Prepared(clients[s], e)
  BY <1>5 DEF Prepared
<1>7. QED
  BY <1>4, <1>6 DEF A

LEMMA PublishInformed ==
  ASSUME Types, Distinct, Pending, TellsTrue, Informed, Publish
  PROVE  Informed'
<1> DEFINE A == Announced
           e == todo[1]
<1>1. /\ UNCHANGED <<sender, seen, presets, presetsReady, domain>> /\ 1 \in DOMAIN todo
      /\ e \in Sections /\ SectionOK(e)
      /\ \A i \in DOMAIN todo : i # 1 => i - 1 \in DOMAIN todo' /\ todo'[i - 1] = todo[i]
  BY PublishTodo
<1>2. Announced' = A
  BY <1>1, SameAnnounced DEF domain
<1> HIDE DEF A
<1> SUFFICES ASSUME NEW s \in Slots, clients'[s].active, clients'[s].ready,
                    NEW p \in clients'[s].subs \cup SceneParts
             PROVE  \/ p \in DOMAIN clients'[s].knows /\ clients'[s].knows[p] = A[p]
                    \/ \E i \in DOMAIN todo' : Hearing(todo'[i], s, clients') /\ Carries(todo'[i], p)
  BY <1>2 DEF Informed, Carries, Hears, Live, Hearing
<1> DEFINE c == clients[s]
           d == clients'[s]
<1>3. /\ c.active /\ d.gen = c.gen /\ d.subs = c.subs
      /\ \/ d.ready = c.ready
         \/ ~c.ready /\ Hears(e, s) /\ e.to = "asker" /\ e.opens
  BY PublishOpens
<1>4. p \in Parts /\ p \notin Topics \ c.subs /\ c.subs \in SUBSET Topics
  BY <1>3, SceneNotTopics DEF Types, Sessions
<1>5. Hears(e, s) => Learns(c, d, e, A)
  <2>1. Hears(e, s) => Agrees(e, A) /\ Prepared(c, e)
    BY <1>1, FirstPrepared DEF A
  <2>2. QED
    BY <2>1, PublishOne
<1>6. Hears(e, s) /\ Carries(e, p) => p \in DOMAIN d.knows /\ d.knows[p] = A[p]
  BY <1>4, <1>5 DEF Learns
<1>7. CASE ~c.ready
  <2>1. Hears(e, s) /\ e.to = "asker" /\ e.opens
    BY <1>3, <1>7
  <2>2. c.subs = {}
    BY <1>3, <1>7 DEF Distinct
  <2>3. p \in SceneParts
    BY <1>3, <2>2
  <2>4. SceneParts \subseteq DOMAIN e.events[Len(e.events)].news
    BY <1>1, <2>1 DEF SectionOK
  <2>5. Len(e.events) \in DOMAIN e.events
    BY <1>1, SectionEvents
  <2>6. Carries(e, p)
    BY <2>3, <2>4, <2>5 DEF Carries
  <2>7. QED
    BY <1>6, <2>1, <2>6
<1>8. CASE c.ready
  <2>1. \/ p \in DOMAIN c.knows /\ c.knows[p] = A[p]
        \/ \E i \in DOMAIN todo : Hears(todo[i], s) /\ Carries(todo[i], p)
    BY <1>3, <1>8 DEF Informed, A
  <2>2. CASE p \in DOMAIN c.knows /\ c.knows[p] = A[p]
    <3>1. CASE ~Hears(e, s)
      <4>1. d = c
        BY <3>1, PublishOne
      <4>2. QED
        BY <2>2, <4>1
    <3>2. CASE Hears(e, s) /\ ~Carries(e, p)
      BY <1>4, <1>5, <2>2, <3>2 DEF Learns
    <3>3. QED
      BY <1>6, <3>1, <3>2
  <2>3. ASSUME NEW i \in DOMAIN todo, Hears(todo[i], s), Carries(todo[i], p)
        PROVE  \/ p \in DOMAIN d.knows /\ d.knows[p] = A[p]
               \/ \E k \in DOMAIN todo' : Hearing(todo'[k], s, clients') /\ Carries(todo'[k], p)
    <3>1. CASE i = 1
      BY <1>6, <2>3, <3>1
    <3>2. CASE i # 1
      <4>1. i - 1 \in DOMAIN todo' /\ todo'[i - 1] = todo[i]
        BY <1>1, <3>2
      <4>2. Hearing(todo[i], s, clients')
        BY <1>3, <1>8, <2>3 DEF Hears, Live, Hearing
      <4>3. QED
        BY <2>3, <4>1, <4>2
    <3>3. QED
      BY <3>1, <3>2
  <2>4. QED
    BY <2>1, <2>2, <2>3
<1>9. QED
  BY <1>7, <1>8

----------------------------------------------------------------------------
(* The invariant, and what follows from it.                                 *)

LEMMA InitIInv ==
  ASSUME Init
  PROVE  IInv
<1>1. clients \in [Slots -> Sessions] /\ \A s \in Slots : ~clients[s].active
  BY ClosedType DEF Init
<1>2. /\ inbox = <<>> /\ generation = 0 /\ todo = <<>> /\ flight = Nobody
      /\ pc = "away" /\ presetsReady = FALSE /\ session = NoSession
  BY DEF Init
<1>3. Scalars
  <2>1. NoSession \in Archives /\ 0 \in 0 .. MaxToken
    BY Bounds DEF NoSession, Archives
  <2>2. /\ topic \in [Topics -> Nat] /\ seen \in [Topics -> Nat]
        /\ \A t \in Topics : seen[t] <= topic[t]
    BY DEF Init
  <2>3. /\ sender = FALSE /\ scene = FALSE /\ presets = "none" /\ stored = "old"
        /\ revision = 1 /\ counter = 0
    BY DEF Init
  <2>4. /\ pc \in {"away", "poll"} /\ sender \in BOOLEAN /\ scene \in BOOLEAN
        /\ presetsReady \in BOOLEAN /\ presets \in {"none", "old", "new", "error"}
        /\ stored \in {"old", "new"}
    BY <1>2, <2>3
  <2>5. revision \in Nat \ {0} /\ session \in Archives /\ counter \in 0 .. MaxToken
    BY <1>2, <2>1, <2>3
  <2>6. QED
    BY <2>2, <2>4, <2>5 DEF Scalars
<1>4. Types
  <2>1. <<>> \in Seq(Asked) /\ <<>> \in Seq(Sections) /\ Len(<<>>) = 0 /\ DOMAIN <<>> = {}
    OBVIOUS
  <2>2. QED
    BY <1>1, <1>2, <1>3, <2>1, Bounds DEF Types
<1>5. Distinct /\ EveryRequestAnswered /\ Informed
  BY <1>1 DEF Distinct, EveryRequestAnswered, Informed
<1>6. Pending /\ TellsTrue
  <2>1. DOMAIN inbox = {} /\ DOMAIN todo = {}
    BY <1>2
  <2>2. QED
    BY <1>2, <2>1 DEF Pending, Once, Apart, TellsTrue
<1>7. Caches /\ ImportOwned
  BY <1>2 DEF Caches, ImportOwned, NoSession
<1>8. QED
  BY <1>4, <1>5, <1>6, <1>7 DEF IInv

LEMMA StepIInv ==
  ASSUME IInv, [Next]_vars
  PROVE  IInv'
<1> USE DEF IInv
<1>1. CASE Http
  BY <1>1, HttpTypes, HttpDistinct, HttpPending, HttpAnswered, HttpTells, HttpInformed, ImportStays
    DEF Next
<1>2. CASE OwnerStep
  <2>1. /\ Moves(Announced, Announced') /\ Outcome /\ generation' = generation /\ todo = <<>>
    BY <1>2, OwnerOutcome
  <2>2. Next
    BY <1>2 DEF OwnerStep, Next, Turn
  <2>3. Types' /\ Caches'
    BY <1>2, OwnerTypes
  <2>4. Distinct' /\ Pending' /\ EveryRequestAnswered'
    BY <2>1, OwnerDistinct, OwnerPending, OwnerAnswered
  <2>5. TellsTrue' /\ Informed'
    BY <2>1, OwnerTells, OwnerInformed
  <2>6. QED
    BY <2>2, <2>3, <2>4, <2>5, ImportStays
<1>3. CASE Publish
  BY <1>3, PublishTypes, PublishDistinct, PublishPending, PublishAnswered, PublishTells,
     PublishInformed, ImportStays DEF Next, Turn
<1>4. CASE UNCHANGED vars
  <2>1. UNCHANGED <<clients, inbox, generation, pc, todo, flight, sender, seen, presets,
                    presetsReady, session, counter, scene, revision, stored, topic>>
    BY <1>4 DEF vars, http, owner, domain
  <2>2. Types' /\ Distinct' /\ Pending' /\ Caches' /\ ImportOwned'
    BY <2>1 DEF Types, Scalars, Distinct, Pending, Caches, ImportOwned
  <2>3. EveryRequestAnswered'
    BY <2>1 DEF EveryRequestAnswered, Waiting
  <2>4. TellsTrue' /\ Informed'
    <3>1. Announced' = Announced
      BY <2>1, SameAnnounced
    <3>2. QED
      BY <2>1, <3>1 DEF TellsTrue, Informed, Hears, Live
  <2>5. QED
    BY <2>2, <2>3, <2>4
<1>5. QED
  BY <1>1, <1>2, <1>3, <1>4 DEF Next, Turn, OwnerStep

(* The bridge keeps its invariant, whoever comes and goes, and whatever is  *)
(* asked of it, changes meanwhile or fails.                                 *)
THEOREM BridgeInductive == Spec => []IInv
<1>1. Init => IInv
  BY InitIInv
<1>2. IInv /\ [Next]_vars => IInv'
  BY StepIInv
<1>3. QED
  BY <1>1, <1>2, PTL DEF Spec

(* Every request that a session queues is answered once, its quota comes    *)
(* back with the answer, and the answer is read by no other session:        *)
(* requests name a session by its slot and generation, and what is on its   *)
(* way (inbox_, flight_ and the reply being pushed) names each one once.    *)
THEOREM EveryRequestIsAnswered == Spec => []EveryRequestAnswered
<1>1. IInv => EveryRequestAnswered
  BY DEF IInv
<1>2. QED
  BY <1>1, BridgeInductive, PTL

LEMMA IInvServes ==
  ASSUME IInv
  PROVE  BrowsersServed
<1> USE DEF IInv
<1>1. TypeOK
  <2>1. \A s \in Slots :
          /\ clients[s].active \in BOOLEAN /\ clients[s].ready \in BOOLEAN
          /\ clients[s].gen \in 0 .. MaxGen
          /\ clients[s].subs \subseteq Topics
          /\ clients[s].out \in 0 .. OutboxCapacity
          /\ clients[s].outstanding \in 0 .. MaxOutstanding
    BY DEF Types, Sessions
  <2>2. ASSUME NEW s \in Slots
        PROVE  DOMAIN clients[s].knows \subseteq Parts
    <3>1. clients[s].knows \in News
      BY DEF Types, Sessions
    <3>2. QED
      BY <3>1, NewsElim
  <2>3. Asked \subseteq Requests
    BY DEF Asked
  <2>4. inbox \in Seq(Requests) /\ Len(inbox) <= InboxCapacity
    <3>1. inbox \in Seq(Asked) /\ Len(inbox) <= InboxCapacity
      BY DEF Types
    <3>2. QED
      BY <2>3, <3>1
  <2>5. flight \in Requests \cup {Nobody} /\ generation \in 0 .. MaxGen
    BY <2>3 DEF Types
  <2>6. /\ pc \in {"away", "poll"}
        /\ sender \in BOOLEAN /\ scene \in BOOLEAN /\ presetsReady \in BOOLEAN
        /\ \A t \in Topics : seen[t] \in 0 .. topic[t]
        /\ session.mode \in {"none", "export", "import", "committing"}
    BY DEF Types, Scalars, Archives
  <2>7. QED
    BY <2>1, <2>2, <2>4, <2>5, <2>6 DEF TypeOK
<1>2. BrowsersInformed
  <2> SUFFICES ASSUME todo = <<>>, NEW s \in Slots, clients[s].active, clients[s].ready,
                      NEW p \in clients[s].subs \cup SceneParts
               PROVE  p \in DOMAIN clients[s].knows /\ clients[s].knows[p] = Announced[p]
    BY DEF BrowsersInformed
  <2>1. DOMAIN todo = {}
    OBVIOUS
  <2>2. QED
    BY <2>1 DEF Informed
<1>3. QED
  BY <1>1, <1>2 DEF BrowsersServed

(* A browser that has read its outbox shows what the owner task last        *)
(* announced, of the scene, of the presets and of every topic that it       *)
(* follows; and the inbox, the outboxes and the sessions' quotas keep to    *)
(* their limits.                                                            *)
THEOREM BrowsersAreServed == Spec => []BrowsersServed
<1>1. IInv => BrowsersServed
  BY IInvServes
<1>2. QED
  BY <1>1, BridgeInductive, PTL

(* An archive session ends, or moves on, with a request of its own browser  *)
(* (archiveRequest), with the completion of the import that this browser    *)
(* has asked for, or when the poll finds it over: in_flight_ keeps another  *)
(* from beginning its own until that completion has reset archive_.         *)
THEOREM SessionIsUndisturbed == Spec => SessionUndisturbed
<1> DEFINE A == session.mode # "none" /\ session' # session =>
                  \/ pc # "poll" /\ pc' = "poll"
                  \/ pc = "poll" /\ session.owner = req.gen
                  \/ pc # "poll" /\ session.owner = flight.gen
<1>1. IInv /\ [Next]_vars => [A]_vars
  BY SessionStep DEF IInv
<1>2. QED
  BY <1>1, BridgeInductive, PTL DEF Spec, SessionUndisturbed

=============================================================================
