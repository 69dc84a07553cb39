------------------------ MODULE NetworkServiceProofs ------------------------
(***************************************************************************)
(* The network, for any browsers, credentials and bounds: nothing is       *)
(* acquired over what a failed teardown has left, the panel's stations are *)
(* the radio's, a retirement serves the change that is being applied, and  *)
(* the browsers are shown the credentials that the access point was given. *)
(***************************************************************************)
EXTENDS NetworkService, FiniteSetTheorems, TLAPS

Maybe == Networks \cup {NoNetwork}

Jobs ==
  [busy : BOOLEAN, queued : BOOLEAN, epoch : 0 .. MaxEpoch, candidate : Maybe, notice : BOOLEAN,
   retiring : BOOLEAN, retired : BOOLEAN, probe : BOOLEAN, result : Results]

Confs ==
  [phase : ConfPhases, owner : 0 .. MaxSessions + 1, candidate : Maybe, shown : Maybe,
   told : BOOLEAN]

Changes == [result : Results, touched : BOOLEAN, undoing : BOOLEAN, sound : BOOLEAN]

Items == [kind : {"retire", "probe"}, epoch : 1 .. MaxEpoch, at : {"check", "recheck"}]

Events == {"join", "leave", "stop"}

(* The worker's steps: with everything acquired, with a change of the       *)
(* credentials under way, and in the teardown.                              *)
Changing ==
  {"stage", "notify", "retire", "restart", "probe", "probing", "promote", "undo", "conclude"}
Up == Changing \cup {"ready", "loop", "pump", "query", "settle"}
Down == {"stop server", "stop radio", "stop handler", "finish"}

(* The records, in full.                                                    *)
Typed ==
  /\ conf \in Confs /\ job \in Jobs /\ change \in Changes
  /\ sample \in [list : BOOLEAN, fresh : BOOLEAN]
  /\ work \in Seq(Items) /\ \A i \in 1 .. Len(work) : work[i].epoch <= job.epoch
  /\ sessions \subseteq 1 .. MaxSessions + 1
  /\ power \in {"none", "on", "off"} /\ phase \in Phases /\ creds \in Maybe
  /\ enabled \in BOOLEAN /\ fault \in BOOLEAN /\ asked \in BOOLEAN /\ clean \in BOOLEAN
  /\ associated \in BOOLEAN /\ stations \in BOOLEAN
  /\ pc \in Resources \cup Up \cup Down \cup {"idle", "start", "disabled", "failed"}
  /\ held \subseteq Resources
  /\ events \in Seq(Events)

Below(r) == {s \in Resources : Rank(s) < Rank(r)}

(* What the worker holds where it is, unless a teardown has failed; and a   *)
(* worker with a fault has come to rest.                                    *)
Layered ==
  /\ pc \in Resources => held = Below(pc)
  /\ pc \in Up => held = Resources
  /\ pc \in {"start", "disabled"} \/ (pc \in {"idle", "failed"} /\ ~fault) => held = {}
  /\ fault => pc \in {"idle", "failed"}
  /\ pc \in {"stop radio", "stop handler", "finish"} /\ clean => "server" \notin held
  /\ pc \in {"stop handler", "finish"} /\ clean => "radio" \notin held
  /\ pc = "finish" /\ clean => "handler" \notin held

(* What will be believed of the station once its events are delivered.      *)
Believed == IF events = <<>> THEN stations ELSE Last(events) = "join"

(* Nothing is heard without the callback, nobody is there without the       *)
(* radio, and a station list that may still be applied is not an old one.   *)
Heard ==
  /\ {"handler", "radio"} \subseteq held => Believed = associated
  /\ "radio" \notin held => ~associated
  /\ "handler" \notin held => events = <<>>
  /\ pc \in {"stop server", "stop radio"} /\ "radio" \in held => "handler" \in held
  /\ pc \notin Down /\ ~fault /\ "radio" \notin held => events = <<>> /\ ~stations
  /\ pc = "query" /\ sample.fresh /\ events = <<>> => sample.list = associated

(* A job is the change that the authority has approved, until its verdict.  *)
Transacted ==
  /\ job.busy => Applying /\ job.result = "pending" /\ job.epoch > 0
  /\ job.queued \/ pc \in Changing => job.busy
  /\ change.undoing \/ pc \in {"undo", "conclude"} => change.result # "pending"

IInv == Typed /\ Layered /\ Heard /\ Transacted /\ SnapshotTrue

----------------------------------------------------------------------------
(* The order of acquisition.                                                *)

LEMMA Ranks ==
  /\ Resources = {"netif", "driver", "handler", "radio", "server"}
  /\ Rank("netif") = 1 /\ Rank("driver") = 2 /\ Rank("handler") = 3 /\ Rank("radio") = 4
  /\ Rank("server") = 5 /\ Last(Order) = "server"
<1>1. DOMAIN Order = 1 .. 5
  BY DEF Order
<1>2. \A i \in 1 .. 5 : /\ Order[i] = "netif" <=> i = 1
                        /\ Order[i] = "driver" <=> i = 2
                        /\ Order[i] = "handler" <=> i = 3
                        /\ Order[i] = "radio" <=> i = 4
                        /\ Order[i] = "server" <=> i = 5
  BY DEF Order
<1>3. Resources = {"netif", "driver", "handler", "radio", "server"} /\ Last(Order) = "server"
  BY DEF Resources, ToSet, Order, Last
<1>4. QED
  BY <1>1, <1>2, <1>3 DEF Rank

LEMMA Layers ==
  /\ Below("netif") = {} /\ Below("driver") = {"netif"}
  /\ Below("handler") = {"netif", "driver"} /\ Below("radio") = {"netif", "driver", "handler"}
  /\ Below("server") = {"netif", "driver", "handler", "radio"}
  BY Ranks DEF Below

(* The step after the acquisition of r.                                     *)
LEMMA NextLayer ==
  ASSUME NEW r \in Resources, r # Last(Order)
  PROVE  Order[Rank(r) + 1] \in Resources /\ Below(Order[Rank(r) + 1]) = Below(r) \cup {r}
<1>1. /\ Order[2] = "driver" /\ Order[3] = "handler" /\ Order[4] = "radio" /\ Order[5] = "server"
  BY DEF Order
<1>2. r \in {"netif", "driver", "handler", "radio"}
  BY Ranks
<1>3. CASE r = "netif"
  BY <1>1, <1>3, Ranks, Layers
<1>4. CASE r = "driver"
  BY <1>1, <1>4, Ranks, Layers
<1>5. CASE r = "handler"
  BY <1>1, <1>5, Ranks, Layers
<1>6. CASE r = "radio"
  BY <1>1, <1>6, Ranks, Layers
<1>7. QED
  BY <1>2, <1>3, <1>4, <1>5, <1>6

LEMMA AllLayers == Below(Last(Order)) \cup {Last(Order)} = Resources
  BY Ranks, Layers

----------------------------------------------------------------------------
(* What the steps leave alone.                                              *)

LEMMA Elsewhere ==
  ASSUME Owner \/ WorkItems \/ Opens \/ Closes
  PROVE  UNCHANGED <<pc, held, clean, change, sample, fault, creds, associated, events, stations>>
<1>1. CASE Owner
  BY <1>1
  DEF Owner, BrowserProposes, BrowserCancels, PanelApproves, PanelDismisses, OwnerPoll,
      OwnerAnnounces, PowerRequested, PowerWritten, PanelCancels, shared, worker, radio
<1>2. CASE WorkItems \/ Opens \/ Closes
  BY <1>2 DEF WorkItems, Retires, Retired, Probes, Opens, Closes, shared, worker, radio
<1>3. QED
  BY <1>1, <1>2

LEMMA AtStation ==
  ASSUME StationMoves \/ StationEvent
  PROVE  /\ UNCHANGED <<pc, held, clean, change, fault, creds, conf, power, phase, enabled, asked,
                        job, work, sessions>>
  BY DEF StationMoves, StationEvent, owner, shared, worker, http

(* The worker between its last acquisition and the teardown.                *)
Turns ==
  \/ WorkerReady \/ LoopTurns \/ LoopPumps \/ LoopReconciles
  \/ ChangeStages \/ ChangeRetires \/ ChangeRetired \/ ChangeRestarts \/ ChangeProbes
  \/ ChangeProbed \/ ChangePromotes \/ ChangeUndoes \/ ChangeConcludes \/ ChangeSettles

LEMMA TurnsUp ==
  ASSUME Turns
  PROVE  pc \in Up /\ pc' \in Up \cup {"stop server"} /\ UNCHANGED <<held, fault, clean>>
<1>1. CASE WorkerReady \/ LoopTurns \/ LoopPumps \/ LoopReconciles
  BY <1>1 DEF WorkerReady, LoopTurns, LoopPumps, LoopReconciles, Goto, Up, Changing, shared
<1>2. CASE ChangeStages \/ ChangeRetires \/ ChangeRetired \/ ChangePromotes \/ ChangeUndoes
  BY <1>2
  DEF ChangeStages, ChangeRetires, ChangeRetired, ChangePromotes, ChangeUndoes, Fails, Goto, Up,
      Changing, shared
<1>3. CASE ChangeRestarts \/ ChangeProbes \/ ChangeProbed \/ ChangeConcludes \/ ChangeSettles
  BY <1>3
  DEF ChangeRestarts, ChangeProbes, ChangeProbed, ChangeConcludes, ChangeSettles, RestartFails,
      Fails, Undone, Goto, Up, Changing, shared
<1>4. QED
  BY <1>1, <1>2, <1>3 DEF Turns

----------------------------------------------------------------------------
(* The layers.                                                              *)

LEMMA LayeredStep == ASSUME IInv, [Next]_vars PROVE Layered'
<1>0. Layered /\ held \subseteq Resources /\ clean \in BOOLEAN /\ fault \in BOOLEAN
  BY DEF IInv, Typed
<1>1. CASE UNCHANGED <<pc, held, clean, fault>>
  BY <1>0, <1>1 DEF Layered
<1>2. CASE WorkerWakes \/ WorkerReports \/ WorkerStarts
  <2>1. CASE WorkerWakes
    BY <1>0, <2>1, Ranks DEF WorkerWakes, Goto, Layered, Up, Changing
  <2>2. CASE WorkerReports
    BY <1>0, <2>2, Ranks DEF WorkerReports, Goto, Layered, Up, Changing
  <2>3. CASE WorkerStarts
    <3>1. pc = "start" /\ pc' \in {"failed", "netif"} /\ UNCHANGED <<held, fault, clean>>
      BY <2>3 DEF WorkerStarts, Goto, Order
    <3>2. QED
      BY <1>0, <3>1, Ranks, Layers DEF Layered, Up, Changing
  <2>4. QED
    BY <1>2, <2>1, <2>2, <2>3
<1>3. ASSUME NEW r \in Resources, WorkerAcquires(r) PROVE Layered'
  <2>1. pc = r /\ held = Below(r) /\ ~fault /\ ~fault'
    BY <1>0, <1>3, Ranks DEF WorkerAcquires, Layered, shared
  <2>2. CASE pc' = "stop server"
    BY <2>1, <2>2, Ranks DEF Layered, Up, Changing
  <2>3. CASE r = Last(Order) /\ pc' = "ready" /\ held' = held \cup {r}
    BY <2>1, <2>3, Ranks, AllLayers DEF Layered, Up, Changing
  <2>4. CASE r # Last(Order) /\ pc' = Order[Rank(r) + 1] /\ held' = held \cup {r}
    <3>1. pc' \in Resources /\ held' = Below(pc')
      BY <2>1, <2>4, NextLayer
    <3>2. pc' \in {"netif", "driver", "handler", "radio", "server"}
      BY <3>1, Ranks
    <3>3. QED
      BY <2>1, <3>1, <3>2 DEF Layered, Up, Changing
  <2>5. QED
    BY <1>3, <2>2, <2>3, <2>4 DEF WorkerAcquires, Goto
<1>4. CASE Turns
  <2>1. /\ pc \in Up /\ pc' \in Up \cup {"stop server"} /\ held' = held /\ fault' = fault
    BY <1>4, TurnsUp
  <2>2. QED
    BY <1>0, <2>1, Ranks DEF Layered, Up, Changing
<1>5. CASE StopServer
  <2>1. /\ pc = "stop server" /\ pc' = "stop radio" /\ fault' = fault
        /\ clean' => "server" \notin held'
    BY <1>5 DEF StopServer, Goto, shared
  <2>2. QED
    BY <1>0, <2>1, Ranks DEF Layered, Up, Changing
<1>6. CASE StopRadio
  <2>1. /\ pc = "stop radio" /\ pc' = "stop handler" /\ fault' = fault
        /\ \/ "radio" \notin held /\ held' = held /\ clean' = clean
           \/ held' = held \ {"radio"} /\ clean' = clean
           \/ held' = held /\ clean' = FALSE
    BY <1>6 DEF StopRadio, Goto, shared
  <2>2. clean' => clean /\ "radio" \notin held'
    BY <1>0, <2>1
  <2>3. clean' => "server" \notin held'
    BY <1>0, <2>1, <2>2 DEF Layered
  <2>4. QED
    BY <1>0, <2>1, <2>2, <2>3, Ranks DEF Layered, Up, Changing
<1>7. CASE StopHandler
  <2>1. /\ pc = "stop handler" /\ pc' = "finish" /\ fault' = fault
        /\ \/ "handler" \notin held /\ held' = held /\ clean' = clean
           \/ held' = held \ {"handler"} /\ clean' = clean
           \/ held' = held /\ clean' = FALSE
    BY <1>7 DEF StopHandler, Goto, shared
  <2>2. clean' => clean /\ "handler" \notin held'
    BY <1>0, <2>1
  <2>3. clean' => "server" \notin held' /\ "radio" \notin held'
    BY <1>0, <2>1, <2>2 DEF Layered
  <2>4. QED
    BY <1>0, <2>1, <2>2, <2>3, Ranks DEF Layered, Up, Changing
<1>8. CASE Finish
  <2>1. PICK destroyed \in BOOLEAN :
          /\ destroyed => clean /\ held' = held \ {"netif", "driver"}
          /\ fault' = ~destroyed
          /\ pc' = IF destroyed /\ ~enabled THEN "disabled" ELSE "failed"
    BY <1>8 DEF Finish, Faulty, Goto
  <2>2. destroyed => held' = {}
    BY <1>0, <1>8, <2>1, Ranks DEF Finish, Layered
  <2>3. QED
    BY <2>1, <2>2, Ranks DEF Layered, Up, Changing
<1>9. QED
  BY <1>1, <1>2, <1>3, <1>4, <1>5, <1>6, <1>7, <1>8, Elsewhere, AtStation
  DEF Next, Worker, Turns, vars, shared, worker

----------------------------------------------------------------------------
(* The stations.                                                            *)

LEMMA EventAdded ==
  ASSUME events \in Seq(Events), NEW e \in Events
  PROVE  /\ Append(events, e) \in Seq(Events) /\ Append(events, e) # <<>>
         /\ Last(Append(events, e)) = e
<1>1. /\ Append(events, e) \in Seq(Events) /\ Len(events) \in Nat
      /\ Len(Append(events, e)) = Len(events) + 1 /\ Append(events, e)[Len(events) + 1] = e
  OBVIOUS
<1>2. QED
  BY <1>1 DEF Last

LEMMA EventTaken ==
  ASSUME events \in Seq(Events), events # <<>>
  PROVE  /\ Head(events) \in Events /\ Tail(events) \in Seq(Events)
         /\ Tail(events) = <<>> => Last(events) = Head(events)
         /\ Tail(events) # <<>> => Last(Tail(events)) = Last(events)
<1>1. /\ Len(events) \in Nat \ {0} /\ Tail(events) \in Seq(Events) /\ Head(events) = events[1]
      /\ Head(events) \in Events /\ Len(Tail(events)) = Len(events) - 1
  OBVIOUS
<1>2. ASSUME Tail(events) = <<>> PROVE Last(events) = Head(events)
  <2> DEFINE n == Len(events)
  <2>1. Len(<<>>) = 0
    OBVIOUS
  <2>2. Len(Tail(events)) = Len(<<>>)
    BY <1>2, Zenon
  <2>3. n - 1 = 0 /\ n \in Nat
    BY <1>1, <2>1, <2>2
  <2>4. n = 1
    BY <2>3
  <2>5. QED
    BY <1>1, <2>4 DEF Last
<1>3. Tail(events) # <<>> => Last(Tail(events)) = Last(events)
  BY <1>1 DEF Last
<1>4. QED
  BY <1>1, <1>2, <1>3

LEMMA HeardStep == ASSUME IInv, [Next]_vars PROVE Heard'
<1>0. /\ Heard /\ Layered /\ held \subseteq Resources /\ events \in Seq(Events)
      /\ stations \in BOOLEAN /\ associated \in BOOLEAN /\ fault \in BOOLEAN
  BY DEF IInv, Typed
<1>1. CASE UNCHANGED <<pc, held, fault, associated, events, stations, sample>>
  BY <1>0, <1>1 DEF Heard, Believed
<1>2. CASE StationMoves
  <2>1. PICK e \in Events :
          /\ events' = Append(events, e) /\ (e = "join" <=> ~associated)
          /\ associated' = ~associated
    BY <1>2 DEF StationMoves, Events
  <2>2. events' # <<>> /\ Last(events') = e
    BY <1>0, <2>1, EventAdded
  <2>3. "radio" \in held /\ "handler" \in held /\ UNCHANGED <<pc, held, fault, stations, sample>>
    BY <1>2 DEF StationMoves, shared, worker
  <2>4. Believed' = associated'
    BY <2>1, <2>2 DEF Believed
  <2>5. QED
    BY <1>0, <2>2, <2>3, <2>4 DEF Heard
<1>3. CASE StationEvent
  <2>1. /\ "handler" \in held /\ events # <<>> /\ events' = Tail(events)
        /\ stations' = (Head(events) = "join") /\ UNCHANGED <<pc, held, fault, associated>>
    BY <1>3 DEF StationEvent, shared
  <2>2. ~sample'.fresh
    BY <1>3 DEF StationEvent, IInv, Typed
  <2>3. Believed' = Believed
    BY <1>0, <2>1, EventTaken DEF Believed
  <2>4. pc \notin Down /\ ~fault => "radio" \in held
    BY <1>0, <2>1 DEF Heard
  <2>5. QED
    BY <1>0, <2>1, <2>2, <2>3, <2>4 DEF Heard
<1>4. CASE WorkerWakes \/ WorkerReports \/ WorkerStarts
  <2>1. /\ pc' \in {"start", "disabled", "idle", "failed", "netif"} /\ pc \notin Down
        /\ UNCHANGED <<held, fault, associated, events, stations>>
    BY <1>4
    DEF WorkerWakes, WorkerReports, WorkerStarts, Goto, Order, Down, radio
  <2>2. QED
    BY <1>0, <2>1 DEF Heard, Believed, Down
<1>5. ASSUME NEW r \in Resources, WorkerAcquires(r) PROVE Heard'
  <2>1. /\ pc = r /\ held = Below(r) /\ ~fault /\ held' \in {held, held \cup {r}}
        /\ UNCHANGED <<fault, associated, events, stations>> /\ pc \notin Down
    BY <1>0, <1>5, Ranks DEF WorkerAcquires, Layered, shared, radio, Down
  <2>2. pc' # "query"
    <3>1. pc' = "stop server" \/ pc' = "ready" \/ pc' \in Resources
      BY <1>5, NextLayer DEF WorkerAcquires, Goto
    <3>2. QED
      BY <3>1, Ranks
  <2>3. "radio" \notin held => events = <<>> /\ ~stations /\ ~associated
    BY <1>0, <2>1 DEF Heard
  <2>4. "radio" \in held' => "handler" \in held
    BY <2>1, Ranks, Layers
  <2>5. {"handler", "radio"} \subseteq held' => Believed' = associated'
    BY <1>0, <2>1, <2>3, <2>4 DEF Heard, Believed
  <2>6. QED
    BY <1>0, <2>1, <2>2, <2>3, <2>4, <2>5 DEF Heard
<1>6. CASE Turns
  <2>0. held = Resources /\ held' = held /\ "radio" \in held /\ "handler" \in held
    BY <1>0, <1>6, TurnsUp, Ranks DEF Layered
  <2>1. Believed = associated
    BY <1>0, <2>0 DEF Heard
  <2>2. CASE LoopReconciles
    <3>1. /\ UNCHANGED <<associated, events>> /\ pc = "query" /\ pc' # "query"
          /\ stations' = stations \/ (sample.fresh /\ stations' = sample.list)
      BY <2>2 DEF LoopReconciles, Applies, Goto
    <3>2. Believed' = associated'
      BY <1>0, <2>1, <3>1 DEF Heard, Believed
    <3>3. QED
      BY <2>0, <3>1, <3>2 DEF Heard
  <2>3. CASE LoopPumps
    <3>1. /\ UNCHANGED <<associated, events, stations>>
          /\ pc' = "query" => sample' = [list |-> associated, fresh |-> TRUE]
      BY <2>3 DEF LoopPumps, Goto, radio
    <3>2. pc' = "query" => sample'.list = associated'
      BY <3>1
    <3>3. Believed' = associated'
      BY <2>1, <3>1 DEF Believed
    <3>4. QED
      BY <2>0, <3>2, <3>3 DEF Heard
  <2>4. CASE ChangeRestarts
    <3>1. events' = Append(events, "stop") /\ associated' = FALSE /\ pc' # "query"
      BY <2>4 DEF ChangeRestarts, RestartFails, Undone, Fails, Goto
    <3>2. events' # <<>> /\ Last(events') = "stop"
      BY <1>0, <3>1, EventAdded DEF Events
    <3>3. QED
      BY <2>0, <3>1, <3>2 DEF Heard, Believed
  <2>5. CASE ~(LoopReconciles \/ LoopPumps \/ ChangeRestarts)
    <3>1. UNCHANGED <<associated, events, stations>>
      BY <1>6, <2>5
      DEF Turns, WorkerReady, LoopTurns, ChangeStages, ChangeRetires, ChangeRetired, ChangeProbes,
          ChangeProbed, ChangePromotes, ChangeUndoes, ChangeConcludes, ChangeSettles, radio
    <3>2. pc' # "query"
      BY <1>6, <2>5
      DEF Turns, WorkerReady, LoopTurns, ChangeStages, ChangeRetires, ChangeRetired, ChangeProbes,
          ChangeProbed, ChangePromotes, ChangeUndoes, ChangeConcludes, ChangeSettles, RestartFails,
          Undone, Fails, Goto
    <3>3. QED
      BY <2>0, <2>1, <3>1, <3>2 DEF Heard, Believed
  <2>6. QED
    BY <2>2, <2>3, <2>4, <2>5
<1>7. CASE StopServer
  <2>1. /\ pc = "stop server" /\ pc' = "stop radio" /\ held' \in {held, held \ {"server"}}
        /\ UNCHANGED <<fault, associated, events, stations>>
    BY <1>7 DEF StopServer, Goto, shared, radio
  <2>2. QED
    BY <1>0, <2>1 DEF Heard, Believed, Down
<1>8. CASE StopRadio
  <2>1. /\ pc = "stop radio" /\ pc' = "stop handler" /\ fault' = fault /\ stations' = stations
        /\ \/ UNCHANGED <<held, associated, events>>
           \/ /\ "radio" \in held /\ held' = held \ {"radio"} /\ associated' = FALSE
              /\ events' = Append(events, "stop")
    BY <1>8 DEF StopRadio, Goto, shared
  <2>2. "radio" \in held => "handler" \in held
    BY <1>0, <2>1 DEF Heard
  <2>3. CASE UNCHANGED <<held, associated, events>>
    BY <1>0, <2>1, <2>3 DEF Heard, Believed, Down
  <2>4. CASE "radio" \in held /\ held' = held \ {"radio"} /\ associated' = FALSE
    <3>1. "radio" \notin held' /\ "handler" \in held'
      BY <2>2, <2>4
    <3>2. QED
      BY <2>1, <2>4, <3>1 DEF Heard, Down
  <2>5. QED
    BY <2>1, <2>3, <2>4
<1>9. CASE StopHandler
  <2>1. /\ pc = "stop handler" /\ pc' = "finish" /\ UNCHANGED <<fault, stations, associated>>
        /\ \/ UNCHANGED <<held, events>>
           \/ held' = held \ {"handler"} /\ events' = <<>>
    BY <1>9 DEF StopHandler, Goto, shared
  <2>2. QED
    BY <1>0, <2>1 DEF Heard, Believed, Down
<1>10. CASE Finish
  <2>1. PICK destroyed \in BOOLEAN :
          /\ destroyed => clean
          /\ held' = IF destroyed THEN held \ {"netif", "driver"}
                     ELSE IF clean THEN held \ {"netif"} ELSE held
          /\ fault' = ~destroyed /\ stations' = (stations /\ ~destroyed)
          /\ pc' = IF destroyed /\ ~enabled THEN "disabled" ELSE "failed"
    BY <1>10 DEF Finish, Faulty, Goto
  <2>2. pc = "finish" /\ UNCHANGED <<associated, events>>
    BY <1>10 DEF Finish
  <2>3. "radio" \in held' => ~destroyed /\ "radio" \in held
    BY <1>0, <2>1, <2>2 DEF Layered
  <2>4. "handler" \notin held' => "handler" \notin held
    BY <2>1
  <2>5. destroyed => "handler" \notin held
    BY <1>0, <2>1, <2>2 DEF Layered
  <2>6. "handler" \in held' => "handler" \in held
    BY <2>1
  <2>7. QED
    BY <1>0, <2>1, <2>2, <2>3, <2>4, <2>5, <2>6 DEF Heard, Believed, Down
<1>11. QED
  BY <1>1, <1>2, <1>3, <1>4, <1>5, <1>6, <1>7, <1>8, <1>9, <1>10, Elsewhere
  DEF Next, Worker, Turns, vars, shared, worker, radio

----------------------------------------------------------------------------
(* The change of the credentials, and what is shown of it.                  *)

LEMMA Bounds == MaxSessions \in Nat \ {0} /\ MaxEpoch \in Nat \ {0} /\ Stored \in Networks
  BY NetworkAssumption

LEMMA DiscardedIs ==
  ASSUME conf \in Confs, NEW p \in ConfPhases
  PROVE  Discarded(p) \in Confs /\ Discarded(p).phase = p /\ Discarded(p).shown = conf.shown
<1>1. 0 \in 0 .. MaxSessions + 1 /\ NoNetwork \in Maybe
  BY Bounds DEF Maybe
<1>2. QED
  BY <1>1 DEF Discarded, Confs, NoOwner

(* A step that leaves the job what it is, and the verdict to come.          *)
LEMMA JobKept ==
  ASSUME IInv, UNCHANGED <<creds, conf>>,
         UNCHANGED <<job.busy, job.result, job.epoch>>, job'.queued => job.queued,
         pc' \in Changing => pc \in Changing \/ job.queued,
         pc' \notin {"undo", "conclude"} \/ change'.result # "pending",
         change'.undoing => change'.result # "pending"
  PROVE  Transacted' /\ SnapshotTrue'
  BY DEF IInv, Transacted, SnapshotTrue, Applying

(* No change is being applied, before the step nor after it.                *)
LEMMA AuthorityIdle ==
  ASSUME IInv, UNCHANGED <<pc, change, creds, job>>, ~Applying, ~Applying',
         conf'.shown = conf.shown
  PROVE  Transacted' /\ SnapshotTrue'
  BY DEF IInv, Transacted, SnapshotTrue

LEMMA OwnerStep == ASSUME IInv, Owner PROVE Transacted' /\ SnapshotTrue'
<1>0. /\ UNCHANGED <<pc, change, creds>> /\ conf \in Confs /\ job \in Jobs
      /\ Transacted /\ SnapshotTrue
  BY Elsewhere DEF IInv, Typed
<1>1. CASE BrowserProposes
  <2>1. PICK g \in sessions, n \in Networks : Propose(g, n, creds)
    BY <1>1 DEF BrowserProposes
  <2>2. /\ ~Applying /\ job' = job
        /\ conf' = [Discarded("approval") EXCEPT !.owner = g, !.candidate = n]
    BY <1>1, <2>1 DEF BrowserProposes, Propose, Active, Applying
  <2>3. conf'.phase = "approval" /\ conf'.shown = conf.shown
    BY <1>0, <2>2, DiscardedIs DEF Confs, ConfPhases
  <2>4. QED
    BY <1>0, <2>2, <2>3, AuthorityIdle DEF Applying
<1>2. CASE BrowserCancels \/ PanelDismisses \/ PanelCancels
  <2>1. job' = job /\ conf.phase # "applying" /\ conf' = Discarded("idle")
    BY <1>2
    DEF BrowserCancels, Cancel, PanelDismisses, Dismiss, PanelCancels, CancelPhysical
  <2>2. QED
    BY <1>0, <2>1, AuthorityIdle, DiscardedIs DEF Applying, ConfPhases
<1>3. CASE PanelApproves
  <2>1. PICK late \in BOOLEAN, free \in BOOLEAN :
          /\ Approve(late, Connected(conf.owner), Available(free))
          /\ IF conf'.phase = "applying" THEN Begin ELSE UNCHANGED job
    BY <1>3 DEF PanelApproves
  <2>2. conf.phase = "approval" /\ ~Applying /\ ~job.busy
    BY <1>0, <2>1 DEF Approve, Applying, Transacted
  <2>3. CASE conf' = [conf EXCEPT !.phase = "applying", !.candidate = NoNetwork]
    <3>1. conf'.phase = "applying" /\ job.epoch \in Nat
      BY <1>0, <2>3, NetworkAssumption DEF Confs, Jobs
    <3>2. job' = [NoJob EXCEPT !.busy = TRUE, !.queued = TRUE, !.epoch = job.epoch + 1,
                               !.candidate = conf.candidate]
      BY <2>1, <3>1 DEF Begin
    <3>3. job'.busy /\ job'.result = "pending" /\ job'.epoch > 0
      BY <3>1, <3>2 DEF NoJob
    <3>4. QED
      BY <1>0, <3>1, <3>3 DEF Transacted, SnapshotTrue, Applying
  <2>4. CASE conf' = Discarded("idle") \/ conf' = Discarded("failed")
    <3>1. conf'.phase # "applying" /\ conf'.shown = conf.shown
      BY <1>0, <2>4, DiscardedIs DEF ConfPhases
    <3>2. QED
      BY <1>0, <2>1, <2>2, <3>1, AuthorityIdle DEF Applying
  <2>5. QED
    BY <2>1, <2>3, <2>4 DEF Approve
<1>4. CASE OwnerPoll
  <2>1. PICK late \in BOOLEAN, free \in BOOLEAN :
          Poll(late, Connected(conf.owner), Available(free), job.result, creds)
    BY <1>4 DEF OwnerPoll
  <2>2. job' = job /\ conf' # conf
    BY <1>4 DEF OwnerPoll
  <2>3. CASE conf.phase = "approval"
    <3>1. conf' = Discarded("idle")
      BY <2>1, <2>2, <2>3 DEF Poll, Applying
    <3>2. QED
      BY <1>0, <2>2, <2>3, <3>1, AuthorityIdle, DiscardedIs DEF Applying, ConfPhases
  <2>4. CASE Applying
    <3>1. PICK p \in {"idle", "failed"} : conf' = [Discarded(p) EXCEPT !.shown = creds]
      BY <2>1, <2>2, <2>4 DEF Poll, Applying
    <3>2. conf'.phase = p /\ conf'.shown = creds
      BY <1>0, <3>1, DiscardedIs DEF Confs, ConfPhases
    <3>3. job.result # "pending"
      BY <2>1, <2>2, <2>4 DEF Poll, Applying
    <3>4. QED
      BY <1>0, <2>2, <3>2, <3>3 DEF Transacted, SnapshotTrue, Applying
  <2>5. CASE conf.phase # "approval" /\ ~Applying
    <3>1. conf' = [conf EXCEPT !.shown = creds]
      BY <2>1, <2>2, <2>5 DEF Poll, Applying
    <3>2. conf'.phase = conf.phase /\ conf'.shown = creds
      BY <1>0, <3>1 DEF Confs
    <3>3. QED
      BY <1>0, <2>2, <2>5, <3>2 DEF Transacted, SnapshotTrue, Applying
  <2>6. QED
    BY <2>3, <2>4, <2>5
<1>5. CASE OwnerAnnounces
  <2>1. conf'.phase = conf.phase /\ conf'.shown = conf.shown
    BY <1>0, <1>5 DEF OwnerAnnounces, Confs
  <2>2. UNCHANGED <<job.busy, job.queued, job.result, job.epoch>>
    BY <1>0, <1>5 DEF OwnerAnnounces, Jobs
  <2>3. QED
    BY <1>0, <2>1, <2>2 DEF Transacted, SnapshotTrue, Applying
<1>6. CASE PowerRequested \/ PowerWritten
  <2>1. UNCHANGED <<conf, job>>
    BY <1>6 DEF PowerRequested, PowerWritten
  <2>2. QED
    BY <1>0, <2>1 DEF Transacted, SnapshotTrue, Applying
<1>7. QED
  BY <1>1, <1>2, <1>3, <1>4, <1>5, <1>6 DEF Owner

LEMMA ServingStep ==
  ASSUME IInv, WorkItems \/ Opens \/ Closes
  PROVE  /\ Transacted' /\ SnapshotTrue'
         /\ job' \in Jobs /\ job'.epoch = job.epoch
<1>0. /\ UNCHANGED <<pc, change, creds, conf>> /\ job \in Jobs /\ IInv
      /\ Transacted
  BY Elsewhere DEF IInv, Typed, WorkItems, Retires, Retired, Probes, Opens, Closes, owner
<1>1. /\ job' \in Jobs /\ UNCHANGED <<job.busy, job.queued, job.result, job.epoch>>
  <2>1. \/ job' = job
        \/ \E b \in BOOLEAN : job' = [job EXCEPT !.retired = b] \/ job' = [job EXCEPT !.probe = b]
    <3>1. CASE Retired
      BY <1>0, <3>1 DEF Retired, Jobs
    <3>2. CASE Probes
      BY <1>0, <3>2 DEF Probes, Current, Jobs
    <3>3. CASE Retires \/ Opens \/ Closes
      BY <3>3 DEF Retires, Opens, Closes
    <3>4. QED
      BY <3>1, <3>2, <3>3 DEF WorkItems
  <2>2. QED
    BY <1>0, <2>1 DEF Jobs
<1>2. QED
  BY <1>0, <1>1, JobKept DEF Transacted

LEMMA TurnStep == ASSUME IInv, Turns PROVE Transacted' /\ SnapshotTrue'
<1>0. /\ conf' = conf /\ conf \in Confs /\ job \in Jobs /\ change \in Changes
      /\ Transacted /\ SnapshotTrue
  BY DEF IInv, Typed, Turns, WorkerReady, LoopTurns, LoopPumps, LoopReconciles, ChangeStages,
         ChangeRetires, ChangeRetired, ChangeRestarts, ChangeProbes, ChangeProbed, ChangePromotes,
         ChangeUndoes, ChangeConcludes, ChangeSettles, owner
<1>1. CASE WorkerReady \/ LoopPumps \/ LoopReconciles \/ ChangeSettles
  <2>1. UNCHANGED <<job, creds, change>> /\ pc' \notin Changing
    BY <1>1
    DEF WorkerReady, LoopPumps, LoopReconciles, ChangeSettles, Goto, Changing, shared
  <2>2. QED
    BY <1>0, <2>1, JobKept DEF Transacted, Changing
<1>2. CASE LoopTurns
  <2>1. UNCHANGED <<creds, change>>
    BY <1>2 DEF LoopTurns, shared
  <2>2. CASE job' = [job EXCEPT !.queued = FALSE] /\ job.queued /\ pc' = "stage"
    <3>1. UNCHANGED <<job.busy, job.result, job.epoch>> /\ ~job'.queued
      BY <1>0, <2>2 DEF Jobs
    <3>2. QED
      BY <1>0, <2>1, <2>2, <3>1, JobKept DEF Transacted
  <2>3. CASE job' = job /\ pc' \notin Changing
    BY <1>0, <2>1, <2>3, JobKept DEF Transacted, Changing
  <2>4. QED
    BY <1>2, <2>2, <2>3 DEF LoopTurns, Goto, Changing
<1>3. CASE ChangeStages
  <2>1. /\ UNCHANGED <<job, creds>> /\ pc = "stage"
        /\ \/ pc' = "notify" /\ change' = change
           \/ pc' = "conclude" /\ change'.result = "storage"
    BY <1>0, <1>3 DEF ChangeStages, Goto, shared, Changes
  <2>2. QED
    BY <1>0, <2>1, JobKept DEF Transacted, Changing
<1>4. CASE ChangeRetires
  <2>1. /\ creds' = creds /\ pc = "notify"
        /\ job' = job \/ job' = [job EXCEPT !.retiring = TRUE]
        /\ \/ pc' = "retire" /\ change' = change
           \/ pc' = "undo" /\ change'.result = "radio"
    BY <1>0, <1>4 DEF ChangeRetires, Fails, Goto, shared, Changes
  <2>2. UNCHANGED <<job.busy, job.queued, job.result, job.epoch>>
    BY <1>0, <2>1 DEF Jobs
  <2>3. QED
    BY <1>0, <2>1, <2>2, JobKept DEF Transacted, Changing
<1>5. CASE ChangeRetired
  <2>1. /\ UNCHANGED <<job, creds>> /\ pc = "retire"
        /\ \/ /\ pc' = "restart" /\ change'.undoing = change.undoing
              /\ change'.result = change.result
           \/ pc' = "undo" /\ change'.result = "radio"
    BY <1>0, <1>5 DEF ChangeRetired, Fails, Goto, shared, Changes
  <2>2. QED
    BY <1>0, <2>1, JobKept DEF Transacted, Changing
<1>6. CASE ChangeRestarts \/ ChangeProbed
  <2>1. /\ UNCHANGED <<job, creds>> /\ pc \in {"restart", "probing"}
        /\ \/ pc' \in {"probe", "promote"} /\ change' = change
           \/ pc' = "undo" /\ change'.result = "radio"
           \/ /\ pc' = "conclude" /\ change.undoing /\ change'.undoing
              /\ change'.result = change.result
    BY <1>0, <1>6
    DEF ChangeRestarts, ChangeProbed, RestartFails, Undone, Fails, Goto, shared, Changes
  <2>2. QED
    BY <1>0, <2>1, JobKept DEF Transacted, Changing
<1>7. CASE ChangeProbes
  <2>1. /\ creds' = creds /\ job' = [job EXCEPT !.probe = FALSE] /\ pc = "probe"
        /\ \/ pc' = "probing" /\ change' = change
           \/ pc' = "undo" /\ change'.result = "radio"
           \/ /\ pc' = "conclude" /\ change.undoing /\ change'.undoing
              /\ change'.result = change.result
    BY <1>0, <1>7 DEF ChangeProbes, RestartFails, Undone, Fails, Goto, shared, Changes
  <2>2. UNCHANGED <<job.busy, job.queued, job.result, job.epoch>>
    BY <1>0, <2>1 DEF Jobs
  <2>3. /\ pc' \notin {"undo", "conclude"} \/ change'.result # "pending"
        /\ change'.undoing => change'.result # "pending"
    BY <1>0, <2>1 DEF Transacted
  <2>4. QED
    BY <1>0, <2>1, <2>2, <2>3, JobKept DEF Changing
<1>8. CASE ChangePromotes
  <2>1. /\ job' = job /\ pc = "promote" /\ pc' \in {"conclude", "undo"}
        /\ change'.result \in {"done", "storage"}
    BY <1>0, <1>8 DEF ChangePromotes, Fails, Goto, Changes
  <2>2. QED
    BY <1>0, <2>1 DEF Transacted, SnapshotTrue, Applying, Changing
<1>9. CASE ChangeUndoes
  <2>1. /\ UNCHANGED <<job, creds>> /\ pc = "undo" /\ pc' \in {"restart", "conclude"}
        /\ change'.result = change.result
    BY <1>0, <1>9 DEF ChangeUndoes, Goto, shared, Changes
  <2>2. QED
    BY <1>0, <2>1, JobKept DEF Transacted, Changing
<1>10. CASE ChangeConcludes
  <2>1. /\ creds' = creds /\ pc = "conclude" /\ pc' \notin Changing
        /\ ~change'.undoing /\ ~job'.busy /\ ~job'.queued
    BY <1>10 DEF ChangeConcludes, Verdict, Over, Goto, shared, NoChange, NoJob, Changing
  <2>2. QED
    BY <1>0, <2>1 DEF Transacted, SnapshotTrue, Applying, Changing
<1>11. QED
  BY <1>1, <1>2, <1>3, <1>4, <1>5, <1>6, <1>7, <1>8, <1>9, <1>10 DEF Turns

LEMMA TransactedStep == ASSUME IInv, [Next]_vars PROVE Transacted' /\ SnapshotTrue'
<1>0. Transacted /\ SnapshotTrue
  BY DEF IInv
<1>1. ASSUME UNCHANGED <<conf, job, change, creds>>, pc' \notin Changing
      PROVE  Transacted' /\ SnapshotTrue'
  BY <1>0, <1>1, JobKept DEF Transacted, Changing
<1>2. CASE WorkerWakes \/ WorkerReports \/ WorkerStarts
  BY <1>1, <1>2
  DEF WorkerWakes, WorkerReports, WorkerStarts, Goto, Order, Changing, owner
<1>3. ASSUME NEW r \in Resources, WorkerAcquires(r) PROVE Transacted' /\ SnapshotTrue'
  <2>1. pc' = "stop server" \/ pc' = "ready" \/ pc' \in Resources
    BY <1>3, NextLayer DEF WorkerAcquires, Goto
  <2>2. pc' \notin Changing
    BY <2>1, Ranks DEF Changing
  <2>3. QED
    BY <1>1, <1>3, <2>2 DEF WorkerAcquires, owner, shared
<1>4. CASE StopServer \/ StopRadio \/ StopHandler \/ Finish
  BY <1>1, <1>4 DEF StopServer, StopRadio, StopHandler, Finish, Goto, Changing, owner, shared
<1>5. CASE StationMoves \/ StationEvent
  BY <1>0, <1>5, AtStation DEF Transacted, SnapshotTrue, Applying
<1>6. CASE UNCHANGED vars
  BY <1>0, <1>6 DEF Transacted, SnapshotTrue, Applying, vars, owner, shared, worker
<1>7. QED
  BY <1>2, <1>3, <1>4, <1>5, <1>6, OwnerStep, ServingStep, TurnStep DEF Next, Worker, Turns

----------------------------------------------------------------------------
(* The types.                                                               *)

LEMMA NewGenerationType ==
  ASSUME Typed, Cardinality(sessions) < MaxSessions
  PROVE  NewGeneration \in 1 .. MaxSessions + 1
<1> DEFINE all == 1 .. MaxSessions + 1  used == sessions \cup {conf.owner}
<1>0. MaxSessions \in Nat /\ sessions \subseteq all
  BY Bounds DEF Typed
<1>1. IsFiniteSet(all) /\ Cardinality(all) = MaxSessions + 1
  BY <1>0, FS_Interval
<1>2. IsFiniteSet(sessions) /\ Cardinality(sessions) \in Nat
  BY <1>0, <1>1, FS_Subset, FS_CardinalityType
<1>3. /\ IsFiniteSet(used) /\ Cardinality(used) \in Nat
      /\ Cardinality(used) <= Cardinality(sessions) + 1
  <2>1. /\ IsFiniteSet(used)
        /\ Cardinality(used) =
             IF conf.owner \in sessions THEN Cardinality(sessions) ELSE Cardinality(sessions) + 1
    BY <1>2, FS_AddElement
  <2>2. QED
    BY <1>2, <2>1
<1>4. ~(all \subseteq used)
  <2> SUFFICES ASSUME all \subseteq used PROVE FALSE
    OBVIOUS
  <2>1. Cardinality(all) <= Cardinality(used)
    BY <1>3, FS_Subset
  <2>2. QED
    BY <1>0, <1>1, <1>2, <1>3, <2>1
<1>5. \E g \in all : g \notin used
  BY <1>4
<1>6. QED
  BY <1>5 DEF NewGeneration

LEMMA ConfTyped == ASSUME IInv, [Next]_vars PROVE conf' \in Confs
<1>0. /\ conf \in Confs /\ creds \in Maybe /\ sessions \subseteq 0 .. MaxSessions + 1
      /\ Networks \subseteq Maybe /\ NoNetwork \in Maybe
  BY Bounds DEF IInv, Typed, Maybe
<1>1. CASE conf' = conf
  BY <1>0, <1>1
<1>2. CASE BrowserProposes
  <2>1. PICK g \in sessions, n \in Networks : Propose(g, n, creds)
    BY <1>2 DEF BrowserProposes
  <2>2. conf' = [Discarded("approval") EXCEPT !.owner = g, !.candidate = n]
    BY <2>1 DEF Propose
  <2>3. Discarded("approval") \in Confs /\ g \in 0 .. MaxSessions + 1 /\ n \in Maybe
    BY <1>0, DiscardedIs DEF ConfPhases
  <2>4. QED
    BY <2>2, <2>3 DEF Confs
<1>3. ASSUME NEW p \in ConfPhases, conf' = Discarded(p) PROVE conf' \in Confs
  BY <1>0, <1>3, DiscardedIs
<1>4. CASE BrowserCancels \/ PanelDismisses \/ PanelCancels
  BY <1>3, <1>4
  DEF BrowserCancels, Cancel, PanelDismisses, Dismiss, PanelCancels, CancelPhysical, ConfPhases
<1>5. CASE PanelApproves
  <2>1. \/ conf' = Discarded("idle") \/ conf' = Discarded("failed")
        \/ conf' = [conf EXCEPT !.phase = "applying", !.candidate = NoNetwork]
    BY <1>5 DEF PanelApproves, Approve
  <2>2. CASE conf' = [conf EXCEPT !.phase = "applying", !.candidate = NoNetwork]
    BY <1>0, <2>2 DEF Confs, ConfPhases
  <2>3. QED
    BY <1>3, <2>1, <2>2 DEF ConfPhases
<1>6. CASE OwnerPoll
  <2>1. \/ conf' = conf \/ conf' = Discarded("idle")
        \/ \E p \in {"idle", "failed"} : conf' = [Discarded(p) EXCEPT !.shown = creds]
        \/ conf' = [conf EXCEPT !.shown = creds]
    BY <1>6 DEF OwnerPoll, Poll
  <2>2. CASE conf' = [conf EXCEPT !.shown = creds]
    BY <1>0, <2>2 DEF Confs
  <2>3. ASSUME NEW p \in {"idle", "failed"}, conf' = [Discarded(p) EXCEPT !.shown = creds]
        PROVE  conf' \in Confs
    <3>1. Discarded(p) \in Confs
      BY <1>0, DiscardedIs DEF ConfPhases
    <3>2. QED
      BY <1>0, <2>3, <3>1 DEF Confs
  <2>4. QED
    BY <1>0, <1>3, <2>1, <2>2, <2>3 DEF ConfPhases
<1>7. CASE OwnerAnnounces
  BY <1>0, <1>7 DEF OwnerAnnounces, Confs
<1>8. CASE PowerRequested \/ PowerWritten
  BY <1>1, <1>8 DEF PowerRequested, PowerWritten
<1>9. CASE Worker
  <2>1. conf' = conf
    BY <1>9
    DEF Worker, WorkerWakes, WorkerReports, WorkerStarts, WorkerReady, WorkerAcquires, LoopTurns,
        LoopPumps, LoopReconciles, ChangeStages, ChangeRetires, ChangeRetired, ChangeRestarts,
        ChangeProbes, ChangeProbed, ChangePromotes, ChangeUndoes, ChangeConcludes, ChangeSettles,
        StopServer, StopRadio, StopHandler, Finish, owner
  <2>2. QED
    BY <1>1, <2>1
<1>10. CASE WorkItems \/ Opens \/ Closes \/ StationMoves \/ StationEvent \/ UNCHANGED vars
  BY <1>1, <1>10
  DEF WorkItems, Retires, Retired, Probes, Opens, Closes, StationMoves, StationEvent, vars, owner
<1>11. QED
  BY <1>2, <1>4, <1>5, <1>6, <1>7, <1>8, <1>9, <1>10 DEF Next, Owner

(* The epoch never falls, so what waits in the HTTP task stays bounded.     *)
LEMMA JobTyped ==
  ASSUME IInv, [Next]_vars
  PROVE  job' \in Jobs /\ job'.epoch >= job.epoch
<1>0. job \in Jobs /\ conf \in Confs /\ change \in Changes /\ job.epoch \in Nat
  BY DEF IInv, Typed, Jobs
<1>1. CASE job' = job
  BY <1>0, <1>1
<1>2. CASE PanelApproves
  <2>1. job' = job \/ (Begin /\ job.epoch < MaxEpoch)
    BY <1>2 DEF PanelApproves
  <2>2. CASE Begin /\ job.epoch < MaxEpoch
    <3>1. job.epoch + 1 \in 0 .. MaxEpoch /\ conf.candidate \in Maybe
      BY <1>0, <2>2, Bounds DEF Jobs, Confs
    <3>2. job' = [NoJob EXCEPT !.busy = TRUE, !.queued = TRUE, !.epoch = job.epoch + 1,
                               !.candidate = conf.candidate]
      BY <2>2 DEF Begin
    <3>3. job' = [busy |-> TRUE, queued |-> TRUE, epoch |-> job.epoch + 1,
                  candidate |-> conf.candidate, notice |-> FALSE, retiring |-> FALSE,
                  retired |-> FALSE, probe |-> FALSE, result |-> "pending"]
      BY <3>2 DEF NoJob
    <3>4. QED
      BY <1>0, <3>1, <3>3 DEF Jobs, Results
  <2>3. QED
    BY <1>1, <2>1, <2>2
<1>3. CASE OwnerAnnounces
  BY <1>0, <1>3 DEF OwnerAnnounces, Jobs
<1>4. CASE Owner /\ ~PanelApproves /\ ~OwnerAnnounces
  BY <1>1, <1>4
  DEF Owner, BrowserProposes, BrowserCancels, PanelDismisses, OwnerPoll, PowerRequested,
      PowerWritten, PanelCancels
<1>5. CASE LoopTurns
  <2>1. job' = job \/ job' = [job EXCEPT !.queued = FALSE]
    BY <1>5 DEF LoopTurns
  <2>2. job' \in Jobs /\ job'.epoch = job.epoch
    BY <1>0, <2>1 DEF Jobs
  <2>3. QED
    BY <1>0, <2>2
<1>6. CASE ChangeRetires
  <2>1. job' = job \/ job' = [job EXCEPT !.retiring = TRUE]
    BY <1>6 DEF ChangeRetires
  <2>2. job' \in Jobs /\ job'.epoch = job.epoch
    BY <1>0, <2>1 DEF Jobs
  <2>3. QED
    BY <1>0, <2>2
<1>7. CASE ChangeProbes
  <2>1. job' = [job EXCEPT !.probe = FALSE]
    BY <1>7 DEF ChangeProbes
  <2>2. job' \in Jobs /\ job'.epoch = job.epoch
    BY <1>0, <2>1 DEF Jobs
  <2>3. QED
    BY <1>0, <2>2
<1>8. CASE ChangeConcludes
  <2>1. PICK r \in Results : job' = [NoJob EXCEPT !.epoch = job.epoch, !.result = r]
    BY <1>0, <1>8 DEF ChangeConcludes, Verdict, Over, Changes, Results
  <2>2. NoNetwork \in Maybe
    BY DEF Maybe
  <2>3. job' = [busy |-> FALSE, queued |-> FALSE, epoch |-> job.epoch, candidate |-> NoNetwork,
                notice |-> FALSE, retiring |-> FALSE, retired |-> FALSE, probe |-> FALSE,
                result |-> r]
    BY <2>1 DEF NoJob
  <2>4. QED
    BY <1>0, <2>2, <2>3 DEF Jobs
<1>9. CASE Worker /\ ~LoopTurns /\ ~ChangeRetires /\ ~ChangeProbes /\ ~ChangeConcludes
  <2>1. job' = job
    BY <1>9
    DEF Worker, WorkerWakes, WorkerReports, WorkerStarts, WorkerReady, WorkerAcquires, LoopPumps,
        LoopReconciles, ChangeStages, ChangeRetired, ChangeRestarts, ChangeProbed, ChangePromotes,
        ChangeUndoes, ChangeSettles, StopServer, StopRadio, StopHandler, Finish
  <2>2. QED
    BY <1>1, <2>1
<1>10. CASE WorkItems \/ Opens \/ Closes
  BY <1>0, <1>10, ServingStep
<1>11. CASE StationMoves \/ StationEvent \/ UNCHANGED vars
  BY <1>1, <1>11 DEF StationMoves, StationEvent, vars
<1>12. QED
  BY <1>2, <1>3, <1>4, <1>5, <1>6, <1>7, <1>8, <1>9, <1>10, <1>11 DEF Next

LEMMA ChangeTyped == ASSUME IInv, [Next]_vars PROVE change' \in Changes
<1>0. change \in Changes
  BY DEF IInv, Typed
<1>1. CASE change' = change
  BY <1>0, <1>1
<1>2. CASE \/ ChangeStages \/ ChangeRetires \/ ChangeRetired \/ ChangeRestarts \/ ChangeProbes
           \/ ChangeProbed \/ ChangePromotes \/ ChangeUndoes \/ ChangeConcludes
  <2>1. \/ change' = change
        \/ \E r \in Results : change' = [change EXCEPT !.result = r]
        \/ \E b \in BOOLEAN : \/ change' = [change EXCEPT !.result = "storage", !.sound = b]
                              \/ change' = [change EXCEPT !.sound = @ /\ b]
                              \/ change' = [change EXCEPT !.sound = @ /\ b, !.undoing = TRUE]
        \/ change' = [change EXCEPT !.touched = TRUE]
        \/ change' = NoChange
    BY <1>2
    DEF ChangeStages, ChangeRetires, ChangeRetired, ChangeRestarts, ChangeProbes, ChangeProbed,
        ChangePromotes, ChangeUndoes, ChangeConcludes, RestartFails, Undone, Fails, Results
  <2>2. CASE \E r \in Results : change' = [change EXCEPT !.result = r]
    BY <1>0, <2>2 DEF Changes
  <2>3. CASE \E b \in BOOLEAN : change' = [change EXCEPT !.result = "storage", !.sound = b]
    BY <1>0, <2>3 DEF Changes, Results
  <2>4. ASSUME NEW b \in BOOLEAN, NEW undoing \in BOOLEAN,
               change' = [change EXCEPT !.sound = @ /\ b, !.undoing = undoing]
        PROVE  change' \in Changes
    <3>1. (change.sound /\ b) \in BOOLEAN
      OBVIOUS
    <3>2. QED
      BY <1>0, <2>4, <3>1 DEF Changes
  <2>5. ASSUME NEW b \in BOOLEAN, change' = [change EXCEPT !.sound = @ /\ b]
        PROVE  change' \in Changes
    <3>1. (change.sound /\ b) \in BOOLEAN
      OBVIOUS
    <3>2. QED
      BY <1>0, <2>5, <3>1 DEF Changes
  <2>6. CASE change' = [change EXCEPT !.touched = TRUE]
    BY <1>0, <2>6 DEF Changes
  <2>7. CASE change' = NoChange
    BY <2>7 DEF Changes, Results, NoChange
  <2>8. QED
    BY <1>0, <2>1, <2>2, <2>3, <2>4, <2>5, <2>6, <2>7
<1>3. CASE Worker /\ ~(\/ ChangeStages \/ ChangeRetires \/ ChangeRetired \/ ChangeRestarts
                       \/ ChangeProbes \/ ChangeProbed \/ ChangePromotes \/ ChangeUndoes
                       \/ ChangeConcludes)
  <2>1. change' = change
    BY <1>3
    DEF Worker, WorkerWakes, WorkerReports, WorkerStarts, WorkerReady, WorkerAcquires, LoopTurns,
        LoopPumps, LoopReconciles, ChangeSettles, StopServer, StopRadio, StopHandler, Finish
  <2>2. QED
    BY <1>1, <2>1
<1>4. CASE UNCHANGED vars
  BY <1>1, <1>4 DEF vars, worker
<1>5. QED
  BY <1>1, <1>2, <1>3, <1>4, Elsewhere, AtStation DEF Next

LEMMA WorkTyped ==
  ASSUME IInv, [Next]_vars
  PROVE  work' \in Seq(Items) /\ \A i \in 1 .. Len(work') : work'[i].epoch <= job'.epoch
<1>0. /\ work \in Seq(Items) /\ \A i \in 1 .. Len(work) : work[i].epoch <= job.epoch
      /\ job.epoch \in Nat /\ job'.epoch \in Nat /\ job'.epoch >= job.epoch
  BY JobTyped DEF IInv, Typed, Jobs
<1>1. \A i \in 1 .. Len(work) : work[i] \in Items /\ work[i].epoch \in Nat
  <2>1. \A i \in 1 .. Len(work) : work[i] \in Items
    BY <1>0
  <2>2. QED
    BY <2>1 DEF Items
<1>2. CASE work' = work
  BY <1>0, <1>1, <1>2
<1>3. CASE work' = Tail(work) /\ work # <<>>
  <2>1. work' \in Seq(Items) /\ Len(work') = Len(work) - 1 /\ Len(work) \in Nat
    BY <1>0, <1>3
  <2>2. \A i \in 1 .. Len(work') : i + 1 \in 1 .. Len(work) /\ work'[i] = work[i + 1]
    BY <1>0, <1>3, <2>1
  <2>3. QED
    BY <1>0, <1>1, <2>1, <2>2
<1>4. CASE Retires
  <2>1. CASE work' = [work EXCEPT ![1].at = "recheck"] /\ work # <<>>
    <3>1. Len(work) \in Nat \ {0} /\ work[1] \in Items
      BY <1>0, <2>1
    <3>2. [work[1] EXCEPT !.at = "recheck"] \in Items
      BY <3>1 DEF Items
    <3>3. /\ Len(work') = Len(work) /\ work' \in Seq(Items)
          /\ \A i \in 1 .. Len(work) : work'[i].epoch = work[i].epoch
      BY <1>0, <2>1, <3>1, <3>2 DEF Items
    <3>4. QED
      BY <1>0, <1>1, <3>3
  <2>2. work # <<>>
    BY <1>4 DEF Retires, item
  <2>3. QED
    BY <1>3, <1>4, <2>1, <2>2 DEF Retires
<1>5. CASE Retired \/ Probes
  <2>1. work # <<>> /\ work' = Tail(work)
    BY <1>5 DEF Retired, Probes, item
  <2>2. QED
    BY <1>3, <2>1
<1>6. CASE ChangeRetires \/ ChangeProbes
  <2>1. PICK kind \in {"retire", "probe"} : work' = work \/ Queue(kind)
    BY <1>6 DEF ChangeRetires, ChangeProbes
  <2>2. job.epoch \in 1 .. MaxEpoch
    <3>1. pc \in Changing
      BY <1>6 DEF ChangeRetires, ChangeProbes, Changing
    <3>2. QED
      BY <3>1 DEF IInv, Typed, Transacted, Jobs
  <2>3. CASE Queue(kind)
    <3> DEFINE e == [kind |-> kind, epoch |-> job.epoch, at |-> "check"]
    <3>1. e \in Items /\ e.epoch = job.epoch /\ work' = Append(work, e)
      BY <2>2, <2>3 DEF Items, Queue
    <3> HIDE DEF e
    <3>2. /\ work' \in Seq(Items) /\ Len(work') = Len(work) + 1 /\ Len(work) \in Nat
          /\ \A i \in 1 .. Len(work) : work'[i] = work[i]
          /\ work'[Len(work) + 1] = e
      BY <1>0, <3>1
    <3>3. QED
      BY <1>0, <1>1, <3>1, <3>2
  <2>4. QED
    BY <1>2, <2>1, <2>3
<1>7. CASE Worker /\ ~ChangeRetires /\ ~ChangeProbes
  <2>1. work' = work
    BY <1>7
    DEF Worker, WorkerWakes, WorkerReports, WorkerStarts, WorkerReady, WorkerAcquires, LoopTurns,
        LoopPumps, LoopReconciles, ChangeStages, ChangeRetired, ChangeRestarts, ChangeProbed,
        ChangePromotes, ChangeUndoes, ChangeConcludes, ChangeSettles, StopServer, StopRadio,
        StopHandler, Finish, http
  <2>2. QED
    BY <1>2, <2>1
<1>8. CASE Owner \/ Opens \/ Closes \/ UNCHANGED vars
  <2>1. work' = work
    BY <1>8
    DEF Owner, BrowserProposes, BrowserCancels, PanelApproves, PanelDismisses, OwnerPoll,
        OwnerAnnounces, PowerRequested, PowerWritten, PanelCancels, Opens, Closes, vars, http
  <2>2. QED
    BY <1>2, <2>1
<1>9. QED
  BY <1>2, <1>4, <1>5, <1>6, <1>7, <1>8, AtStation DEF Next, WorkItems

LEMMA StationTyped ==
  ASSUME IInv, [Next]_vars
  PROVE  /\ events' \in Seq(Events) /\ associated' \in BOOLEAN /\ stations' \in BOOLEAN
         /\ sample' \in [list : BOOLEAN, fresh : BOOLEAN]
<1> DEFINE Samples == [list : BOOLEAN, fresh : BOOLEAN]
           Sound == /\ events' \in Seq(Events) /\ associated' \in BOOLEAN /\ stations' \in BOOLEAN
                    /\ sample' \in Samples
<1>0. /\ events \in Seq(Events) /\ associated \in BOOLEAN /\ stations \in BOOLEAN
      /\ sample \in Samples
  BY DEF IInv, Typed
<1>1. CASE UNCHANGED <<associated, events, stations, sample>>
  BY <1>0, <1>1
<1>2. CASE StationMoves
  <2>1. PICK e \in Events : events' = Append(events, e) /\ associated' = ~associated
    BY <1>2 DEF StationMoves, Events
  <2>2. UNCHANGED <<stations, sample>>
    BY <1>2 DEF StationMoves, worker
  <2>3. QED
    BY <1>0, <2>1, <2>2, EventAdded
<1>3. CASE StationEvent
  <2>1. /\ events # <<>> /\ events' = Tail(events) /\ associated' = associated
        /\ stations' = (Head(events) = "join") /\ sample' = [sample EXCEPT !.fresh = FALSE]
    BY <1>3 DEF StationEvent
  <2>2. sample' \in Samples /\ stations' \in BOOLEAN
    BY <1>0, <2>1
  <2>3. QED
    BY <1>0, <2>1, <2>2, EventTaken
<1>4. CASE LoopPumps
  <2>1. /\ UNCHANGED <<associated, events, stations>>
        /\ sample' = sample \/ sample' = [list |-> associated, fresh |-> TRUE]
    BY <1>4 DEF LoopPumps, radio
  <2>2. [list |-> associated, fresh |-> TRUE] \in Samples
    BY <1>0
  <2>3. QED
    BY <1>0, <2>1, <2>2, Zenon
<1>5. CASE LoopReconciles
  <2>1. /\ UNCHANGED <<associated, events>> /\ stations' \in {stations, sample.list}
        /\ sample' = [list |-> FALSE, fresh |-> FALSE]
    BY <1>5 DEF LoopReconciles, NoSample
  <2>2. QED
    BY <1>0, <2>1
<1>6. CASE ChangeRestarts \/ StopRadio
  <2>1. /\ UNCHANGED <<stations, sample>>
        /\ associated' = associated \/ associated' = FALSE
        /\ events' = events \/ events' = Append(events, "stop")
    BY <1>6 DEF ChangeRestarts, StopRadio
  <2>2. "stop" \in Events
    BY DEF Events
  <2>3. Append(events, "stop") \in Seq(Events) /\ FALSE \in BOOLEAN
    BY <1>0, <2>2, EventAdded
  <2>4. QED
    BY <1>0, <2>1, <2>3, Zenon
<1>7. CASE StopHandler
  <2>1. UNCHANGED <<stations, associated, sample>> /\ (events' = events \/ events' = <<>>)
    BY <1>7 DEF StopHandler
  <2>2. <<>> \in Seq(Events)
    OBVIOUS
  <2>3. QED
    BY <1>0, <2>1, <2>2, Zenon
<1>8. CASE Finish
  BY <1>0, <1>8 DEF Finish
<1>9. CASE Worker /\ ~(\/ LoopPumps \/ LoopReconciles \/ ChangeRestarts \/ StopRadio \/ StopHandler
                       \/ Finish)
  <2>1. UNCHANGED <<associated, events, stations, sample>>
    BY <1>9
    DEF Worker, WorkerWakes, WorkerReports, WorkerStarts, WorkerReady, WorkerAcquires, LoopTurns,
        ChangeStages, ChangeRetires, ChangeRetired, ChangeProbes, ChangeProbed, ChangePromotes,
        ChangeUndoes, ChangeConcludes, ChangeSettles, StopServer, radio
  <2>2. QED
    BY <1>1, <2>1
<1>10. CASE UNCHANGED vars
  BY <1>1, <1>10 DEF vars, worker, radio
<1>11. QED
  BY <1>1, <1>2, <1>3, <1>4, <1>5, <1>6, <1>7, <1>8, <1>9, <1>10, Elsewhere DEF Next

LEMMA SessionsTyped == ASSUME IInv, [Next]_vars PROVE sessions' \subseteq 1 .. MaxSessions + 1
<1>0. Typed /\ sessions \subseteq 1 .. MaxSessions + 1
  BY DEF IInv, Typed
<1>1. CASE Opens
  <2>1. NewGeneration \in 1 .. MaxSessions + 1
    BY <1>0, <1>1, NewGenerationType DEF Opens
  <2>2. QED
    BY <1>0, <1>1, <2>1 DEF Opens
<1>2. CASE Closes
  BY <1>0, <1>2 DEF Closes
<1>3. CASE Retired \/ StopServer
  BY <1>0, <1>3 DEF Retired, StopServer
<1>4. CASE sessions' = sessions
  BY <1>0, <1>4
<1>5. CASE Owner \/ Retires \/ Probes \/ UNCHANGED vars
  BY <1>4, <1>5
  DEF Owner, BrowserProposes, BrowserCancels, PanelApproves, PanelDismisses, OwnerPoll,
      OwnerAnnounces, PowerRequested, PowerWritten, PanelCancels, Retires, Probes, vars, http
<1>6. CASE Worker /\ ~StopServer
  <2>1. sessions' = sessions
    BY <1>6
    DEF Worker, WorkerWakes, WorkerReports, WorkerStarts, WorkerReady, WorkerAcquires, LoopTurns,
        LoopPumps, LoopReconciles, ChangeStages, ChangeRetires, ChangeRetired, ChangeRestarts,
        ChangeProbes, ChangeProbed, ChangePromotes, ChangeUndoes, ChangeConcludes, ChangeSettles,
        StopRadio, StopHandler, Finish, http
  <2>2. QED
    BY <1>4, <2>1
<1>7. QED
  BY <1>1, <1>2, <1>3, <1>4, <1>5, <1>6, AtStation DEF Next, WorkItems

Steps == Resources \cup Up \cup Down \cup {"idle", "start", "disabled", "failed"}

(* Where the worker goes, and what it holds there.                          *)
LEMMA WorkerTyped ==
  ASSUME IInv, [Next]_vars
  PROVE  pc' \in Steps /\ held' \subseteq Resources /\ clean' \in BOOLEAN /\ fault' \in BOOLEAN
<1>0. pc \in Steps /\ held \subseteq Resources /\ clean \in BOOLEAN /\ fault \in BOOLEAN
  BY DEF IInv, Typed, Steps
<1>1. CASE UNCHANGED <<pc, held, clean, fault>>
  BY <1>0, <1>1
<1>2. CASE WorkerWakes \/ WorkerReports \/ WorkerStarts
  <2>1. /\ pc' \in {"idle", "start", "disabled", "failed", "netif"}
        /\ UNCHANGED <<held, clean, fault>>
    BY <1>2 DEF WorkerWakes, WorkerReports, WorkerStarts, Goto, Order
  <2>2. QED
    BY <1>0, <2>1, Ranks DEF Steps
<1>3. ASSUME NEW r \in Resources, WorkerAcquires(r)
      PROVE  /\ pc' \in Steps /\ held' \subseteq Resources
             /\ clean' \in BOOLEAN /\ fault' \in BOOLEAN
  <2>1. pc' = "stop server" \/ pc' = "ready" \/ pc' \in Resources
    BY <1>3, NextLayer DEF WorkerAcquires, Goto
  <2>2. pc' \in Steps
    BY <2>1 DEF Steps, Up, Down
  <2>3. QED
    BY <1>0, <1>3, <2>2 DEF WorkerAcquires, shared
<1>4. CASE Turns
  BY <1>0, <1>4, TurnsUp DEF Steps, Down
<1>5. CASE StopServer \/ StopRadio \/ StopHandler
  <2>1. /\ pc' \in Down /\ held' \subseteq held /\ fault' = fault
        /\ clean' \in {clean, TRUE, FALSE}
    BY <1>5 DEF StopServer, StopRadio, StopHandler, Goto, Down, shared
  <2>2. QED
    BY <1>0, <2>1 DEF Steps
<1>6. CASE Finish
  <2>1. /\ pc' \in {"disabled", "failed"} /\ held' \subseteq held /\ fault' \in BOOLEAN
        /\ clean' = TRUE
    BY <1>6 DEF Finish, Faulty, Goto
  <2>2. QED
    BY <1>0, <2>1 DEF Steps
<1>7. CASE UNCHANGED vars
  BY <1>1, <1>7 DEF vars, shared, worker
<1>8. QED
  BY <1>1, <1>2, <1>3, <1>4, <1>5, <1>6, <1>7, Elsewhere, AtStation DEF Next, Worker, Turns

LEMMA SharedTyped ==
  ASSUME IInv, [Next]_vars
  PROVE  /\ power' \in {"none", "on", "off"} /\ phase' \in Phases /\ creds' \in Maybe
         /\ enabled' \in BOOLEAN /\ asked' \in BOOLEAN
<1>0. /\ power \in {"none", "on", "off"} /\ phase \in Phases /\ creds \in Maybe
      /\ enabled \in BOOLEAN /\ asked \in BOOLEAN /\ job \in Jobs
  BY DEF IInv, Typed
<1>1. CASE Owner
  <2>1. /\ power' \in {power, "none", "on", "off"} /\ creds' = creds
        /\ phase' \in {phase, "starting", "stopping"}
        /\ enabled' \in {enabled, power = "on"} /\ asked' \in {asked, TRUE}
    BY <1>1
    DEF Owner, BrowserProposes, BrowserCancels, PanelApproves, PanelDismisses, OwnerPoll,
        OwnerAnnounces, PowerRequested, PowerWritten, PanelCancels, shared
  <2>2. QED
    BY <1>0, <2>1 DEF Phases
<1>2. CASE ChangePromotes
  <2>1. creds' \in {creds, job.candidate} /\ UNCHANGED <<power, phase, enabled, asked>>
    BY <1>2 DEF ChangePromotes, owner
  <2>2. QED
    BY <1>0, <2>1 DEF Jobs
<1>3. CASE \/ WorkerWakes \/ WorkerReports \/ WorkerStarts \/ WorkerReady \/ ChangeRestarts
           \/ ChangeSettles
  <2>1. /\ UNCHANGED <<power, creds, enabled>> /\ asked' \in {asked, FALSE}
        /\ phase' \in {phase, "disabled", "failed", "starting", "ready"}
    BY <1>3
    DEF WorkerWakes, WorkerReports, WorkerStarts, WorkerReady, ChangeRestarts, ChangeSettles, owner
  <2>2. QED
    BY <1>0, <2>1 DEF Phases
<1>4. CASE UNCHANGED <<power, phase, enabled, creds, asked>>
  BY <1>0, <1>4
<1>5. CASE Worker /\ ~(\/ WorkerWakes \/ WorkerReports \/ WorkerStarts \/ WorkerReady
                       \/ ChangeRestarts \/ ChangeSettles \/ ChangePromotes)
  <2>1. UNCHANGED <<power, phase, enabled, creds, asked>>
    BY <1>5
    DEF Worker, WorkerAcquires, LoopTurns, LoopPumps, LoopReconciles, ChangeStages, ChangeRetires,
        ChangeRetired, ChangeProbes, ChangeProbed, ChangeUndoes, ChangeConcludes, StopServer,
        StopRadio, StopHandler, Finish, owner, shared
  <2>2. QED
    BY <1>4, <2>1
<1>6. CASE WorkItems \/ Opens \/ Closes \/ UNCHANGED vars
  BY <1>4, <1>6
  DEF WorkItems, Retires, Retired, Probes, Opens, Closes, owner, shared, vars
<1>7. QED
  BY <1>1, <1>2, <1>3, <1>4, <1>5, <1>6, AtStation DEF Next

LEMMA TypedStep == ASSUME IInv, [Next]_vars PROVE Typed'
  BY ConfTyped, JobTyped, ChangeTyped, WorkTyped, StationTyped, SessionsTyped, WorkerTyped,
     SharedTyped
  DEF Typed, Steps

----------------------------------------------------------------------------
(* The theorems.                                                            *)

LEMMA InitIInv == Init => IInv
<1> SUFFICES ASSUME Init PROVE IInv
  OBVIOUS
<1>0. 0 \in 0 .. MaxSessions + 1 /\ NoNetwork \in Maybe /\ 0 \in 0 .. MaxEpoch /\ Stored \in Maybe
  BY Bounds DEF Maybe
<1>1. conf \in Confs
  BY <1>0 DEF Init, ConfInit, Confs, ConfPhases, NoOwner
<1>2. job \in Jobs /\ ~job.busy /\ ~job.queued
  BY <1>0 DEF Init, NoJob, Jobs, Results
<1>3. change \in Changes /\ ~change.undoing
  BY DEF Init, NoChange, Changes, Results
<1>4. /\ work \in Seq(Items) /\ Len(work) = 0 /\ events \in Seq(Events) /\ events = <<>>
      /\ \A i \in 1 .. Len(work) : work[i].epoch <= job.epoch
  BY DEF Init
<1>5. Typed
  BY <1>0, <1>1, <1>2, <1>3, <1>4 DEF Init, Typed, NoSample, Phases
<1>6. Layered
  BY Ranks DEF Init, Layered, Up, Changing
<1>7. Heard
  BY <1>4 DEF Init, Heard, Believed
<1>8. Transacted /\ SnapshotTrue
  BY <1>2, <1>3 DEF Init, Transacted, SnapshotTrue, Changing, ConfInit
<1>9. QED
  BY <1>5, <1>6, <1>7, <1>8 DEF IInv

LEMMA StepIInv == IInv /\ [Next]_vars => IInv'
  BY LayeredStep, HeardStep, TransactedStep, TypedStep DEF IInv

(* What the worker holds, what is known of the stations, and how far a      *)
(* change has gone, in every reachable state.                               *)
THEOREM NetworkInductive == Spec => []IInv
<1>1. Init => IInv
  BY InitIInv
<1>2. IInv /\ [Next]_vars => IInv'
  BY StepIInv
<1>3. QED
  BY <1>1, <1>2, PTL DEF Spec

(* NothingReused: a resource is acquired on top of those before it, never   *)
(* over one that a failed teardown has left.                                *)
THEOREM AcquiredInOrder == Spec => NothingReused
<1> DEFINE A == \A r \in held' \ held : \A s \in held : Rank(s) < Rank(r)
<1>1. IInv /\ [Next]_vars => [A]_vars
  <2> SUFFICES ASSUME IInv, Next PROVE A
    OBVIOUS
  <2>1. ASSUME NEW r \in Resources, WorkerAcquires(r) PROVE A
    <3>1. held = Below(r) /\ held' \ held \subseteq {r}
      BY <2>1 DEF WorkerAcquires, IInv, Layered
    <3>2. QED
      BY <3>1 DEF Below
  <2>2. CASE held' \subseteq held
    BY <2>2
  <2>3. CASE WorkerWakes \/ WorkerReports \/ WorkerStarts \/ Turns
    BY <2>2, <2>3, TurnsUp DEF WorkerWakes, WorkerReports, WorkerStarts
  <2>4. CASE StopServer \/ StopRadio \/ StopHandler \/ Finish
    BY <2>2, <2>4 DEF StopServer, StopRadio, StopHandler, Finish
  <2>5. QED
    BY <2>1, <2>2, <2>3, <2>4, Elsewhere, AtStation DEF Next, Worker, Turns
<1>2. [][A]_vars => NothingReused
  BY PTL DEF NothingReused
<1>3. QED
  BY <1>1, <1>2, NetworkInductive, PTL DEF Spec

(* RetirementIsCurrent: a work item that disconnects the browsers belongs   *)
(* to the change that is being applied.                                     *)
THEOREM RetiredForTheChange == Spec => RetirementIsCurrent
<1> DEFINE A == Retired /\ sessions' # sessions => Applying /\ item.epoch = job.epoch
<1>1. IInv /\ [Next]_vars => [A]_vars
  BY DEF IInv, Transacted, Retired, MayRetire, Current
<1>2. [][A]_vars => RetirementIsCurrent
  BY PTL DEF RetirementIsCurrent
<1>3. QED
  BY <1>1, <1>2, NetworkInductive, PTL DEF Spec

(* StationsTrue: with every event delivered, what the panel counts is what  *)
(* the radio has.                                                           *)
THEOREM StationsAreCounted == Spec => []StationsTrue
<1>1. IInv => StationsTrue
  BY Ranks DEF IInv, Heard, Believed, StationsTrue
<1>2. QED
  BY <1>1, NetworkInductive, PTL

(* SnapshotSound: the types, and what the browsers are shown of the         *)
(* credentials while no change is being applied.                            *)
THEOREM SnapshotsAreSound == Spec => []SnapshotSound
<1>1. IInv => SnapshotSound
  <2> SUFFICES ASSUME IInv PROVE SnapshotSound
    OBVIOUS
  <2>0. Typed /\ SnapshotTrue
    BY DEF IInv
  <2>1. /\ conf.phase \in ConfPhases /\ conf.owner \in 0 .. MaxSessions + 1
        /\ {conf.candidate, conf.shown, job.candidate, creds} \subseteq Networks \cup {NoNetwork}
        /\ job.epoch \in 0 .. MaxEpoch /\ {job.result, change.result} \subseteq Results
    BY <2>0 DEF Typed, Confs, Jobs, Changes, Maybe
  <2>2. sessions \subseteq 0 .. MaxSessions + 1
    BY <2>0, Bounds DEF Typed
  <2>3. ASSUME NEW i \in DOMAIN work
        PROVE  /\ work[i].kind \in {"retire", "probe"} /\ work[i].epoch \in 1 .. job.epoch
               /\ work[i].at \in {"check", "recheck"}
    <3>1. i \in 1 .. Len(work) /\ work[i] \in Items /\ work[i].epoch <= job.epoch
      BY <2>0 DEF Typed
    <3>2. QED
      BY <2>1, <3>1 DEF Items
  <2>4. ToSet(events) \subseteq {"join", "leave", "stop"}
    <3>1. \A i \in DOMAIN events : events[i] \in Events
      BY <2>0 DEF Typed
    <3>2. QED
      BY <3>1 DEF ToSet, Events
  <2>5. TypeOK
    BY <2>0, <2>1, <2>2, <2>3, <2>4 DEF TypeOK, Typed
  <2>6. QED
    BY <2>0, <2>5 DEF SnapshotSound
<1>2. QED
  BY <1>1, NetworkInductive, PTL

=============================================================================
