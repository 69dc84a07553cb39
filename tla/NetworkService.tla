--------------------------- MODULE NetworkService ---------------------------
(***************************************************************************)
(* The access point and its HTTP server (src/network_service.cpp): the     *)
(* worker that brings them up, changes the credentials and tears them      *)
(* down, the HTTP task that serves the browsers and runs the worker's work *)
(* items, the callback that hears of stations, and the owner task with the *)
(* authority over the credentials and the power switch. What is shared     *)
(* between two lock sections may change; what the journal of the           *)
(* credentials goes through is the module WifiCredentials.                 *)
(***************************************************************************)
EXTENDS WifiConfiguration, Integers, Sequences, FiniteSets, SequencesExt

CONSTANTS
  Stored,      (* the credentials in flash                                  *)
  MaxSessions, (* browsers at a time                                        *)
  MaxEpoch,    (* changes of the credentials, UINT32_MAX in the code        *)
  MaxEvents    (* bound: station events not yet delivered                   *)

ASSUME NetworkAssumption == Stored \in Networks /\ {MaxSessions, MaxEpoch, MaxEvents} \subseteq Nat \ {0}

VARIABLES
  power,       (* the power intent being written to flash, or "none"        *)
  phase, enabled, fault,   (* shared.phase, shared.enabled, lifecycle_fault *)
  asked,       (* power_request # seen                                      *)
  creds,       (* credentials                                               *)
  job,         (* wifi_job                                                  *)
  pc,          (* the worker's next step                                    *)
  held,        (* what the device has acquired and not released; radio_on   *)
               (* is "radio" \in held                                       *)
  clean,       (* clean, of the teardown                                    *)
  change,      (* of the change under way: result, touched, undoing, sound  *)
  sample,      (* the worker's station query: the list, and whether         *)
               (* station_generation is still what it was                   *)
  work,        (* the work items of the HTTP task, and how far the first is *)
  sessions,    (* the generations of the browsers that are connected        *)
  associated,  (* whether the station is with the access point              *)
  events,      (* its events not yet delivered                              *)
  stations     (* what the callback and the query believe                   *)

owner == <<conf, power>>
shared == <<phase, enabled, fault, asked, creds>>
worker == <<pc, held, clean, change, sample>>
http == <<work, sessions>>
radio == <<associated, events, stations>>
vars == <<owner, shared, job, worker, http, radio>>

Phases == {"prepared", "starting", "ready", "stopping", "disabled", "failed"}
Results == {"pending", "done", "storage", "radio", "rollback"}

(* In the order in which runNetwork acquires them.                          *)
Order == <<"netif", "driver", "handler", "radio", "server">>
Resources == ToSet(Order)
Rank(r) == CHOOSE i \in DOMAIN Order : Order[i] = r

NoJob == [busy |-> FALSE, queued |-> FALSE, epoch |-> 0, candidate |-> NoNetwork, notice |-> FALSE,
          retiring |-> FALSE, retired |-> FALSE, probe |-> FALSE, result |-> "pending"]
NoChange == [result |-> "pending", touched |-> FALSE, undoing |-> FALSE, sound |-> TRUE]
NoSample == [list |-> FALSE, fresh |-> FALSE]

(* The type invariant.                                                      *)
TypeOK ==
  /\ conf.phase \in ConfPhases
  /\ {conf.owner} \union sessions \subseteq 0 .. MaxSessions + 1
  /\ {conf.candidate, conf.shown, job.candidate, creds} \subseteq Networks \union {NoNetwork}
  /\ power \in {"none", "on", "off"} /\ phase \in Phases
  /\ {enabled, fault, asked, clean, associated, stations} \subseteq BOOLEAN
  /\ job.epoch \in 0 .. MaxEpoch /\ {job.result, change.result} \subseteq Results
  /\ held \subseteq Resources
  /\ \A i \in DOMAIN work :
       work[i].kind \in {"retire", "probe"} /\ work[i].epoch \in 1 .. job.epoch /\ work[i].at \in {"check", "recheck"}
  /\ ToSet(events) \subseteq {"join", "leave", "stop"}

(* prepare and launch: valid records, the worker's first look is to come.   *)
Init ==
  /\ ConfInit /\ power = "none"
  /\ phase = "prepared" /\ enabled \in BOOLEAN /\ fault = FALSE /\ asked = TRUE
  /\ creds = Stored
  /\ job = NoJob
  /\ pc = "idle" /\ held = {} /\ clean = TRUE /\ change = NoChange
  /\ sample = NoSample
  /\ work = <<>> /\ sessions = {}
  /\ associated = FALSE /\ events = <<>> /\ stations = FALSE

----------------------------------------------------------------------------
(* The owner task: the authority and what it asks of the network.           *)

OwnerFree == power = "none"

Connected(g) == g \in sessions

(* free: ~configuration_busy, the owner's other occupations, and no factory *)
(* reset waiting for a restart.                                             *)
Available(free) == phase = "ready" /\ enabled /\ ~job.busy /\ free

Begin_KeepsResult ==
  job' = [NoJob EXCEPT !.busy = TRUE, !.queued = TRUE, !.epoch = job.epoch + 1,
                       !.candidate = conf.candidate, !.result = job.result]

Begin ==
  job' = [NoJob EXCEPT !.busy = TRUE, !.queued = TRUE, !.epoch = job.epoch + 1,
                       !.candidate = conf.candidate]

BrowserProposes ==
  /\ OwnerFree
  /\ Available(TRUE)
  /\ \E g \in sessions, n \in Networks : Propose(g, n, creds)
  /\ UNCHANGED <<power, shared, job, worker, http, radio>>

BrowserCancels ==
  /\ OwnerFree
  /\ \E g \in sessions : Cancel(g)
  /\ UNCHANGED <<power, shared, job, worker, http, radio>>

PanelApproves ==
  /\ OwnerFree
  /\ job.epoch < MaxEpoch
  /\ \E late, free \in BOOLEAN :
       /\ Approve(late, Connected(conf.owner), Available(free))
       /\ IF conf'.phase = "applying" THEN Begin ELSE UNCHANGED job
  /\ UNCHANGED <<power, shared, worker, http, radio>>

PanelDismisses ==
  /\ OwnerFree
  /\ Dismiss
  /\ UNCHANGED <<power, shared, job, worker, http, radio>>

(* ownerPoll: the authority's poll, and the announcement of the phase.      *)
OwnerPoll ==
  /\ OwnerFree
  /\ \E late, free \in BOOLEAN :
       Poll(late, Connected(conf.owner), Available(free), job.result, creds)
  /\ conf' # conf
  /\ UNCHANGED <<power, shared, job, worker, http, radio>>

OwnerAnnounces ==
  /\ OwnerFree
  /\ Applying /\ ~conf.told
  /\ conf' = [conf EXCEPT !.told = TRUE]
  /\ job' = [job EXCEPT !.notice = @ \/ job.busy]
  /\ UNCHANGED <<power, shared, worker, http, radio>>

(* requestEnabled, after a hold of a second on the panel's switch, which    *)
(* asked for the opposite of radio_on when it began. In the second that a   *)
(* hold lasts the worker, idle, sees a request, and a teardown that has     *)
(* stopped the radio comes to its end.                                      *)
Target(on) == on => "radio" \notin held /\ pc = "idle" /\ (asked => fault)

PowerRequested ==
  /\ OwnerFree
  /\ phase \notin {"starting", "stopping", "prepared"}
  /\ ~Active
  /\ ~fault
  /\ \E on \in BOOLEAN : Target(on) /\ power' = IF on THEN "on" ELSE "off"
  /\ UNCHANGED <<conf, shared, job, worker, http, radio>>

(* The intent is in flash; the teardown may have failed in the meantime.    *)
Accepts_Unchecked(saved) == saved

Accepts(saved) == saved /\ ~fault

PowerWritten ==
  /\ power # "none"
  /\ \E saved \in BOOLEAN :
       IF Accepts(saved)
       THEN /\ enabled' = (power = "on") /\ asked' = TRUE
            /\ phase' = IF power = "on" THEN "starting" ELSE "stopping"
       ELSE UNCHANGED <<enabled, asked, phase>>
  /\ power' = "none"
  /\ UNCHANGED <<conf, fault, creds, job, worker, http, radio>>

(* A proposal is canceled from its page, or by requestFactoryReset.         *)
PanelCancels ==
  /\ OwnerFree
  /\ conf.phase = "approval"
  /\ CancelPhysical
  /\ UNCHANGED <<power, shared, job, worker, http, radio>>

----------------------------------------------------------------------------
(* The worker: switched on and off.                                         *)

Goto(step) == pc' = step

WorkerWakes ==
  /\ pc = "idle"
  /\ asked /\ ~fault
  /\ asked' = FALSE
  /\ Goto(IF enabled THEN "start" ELSE "disabled")
  /\ UNCHANGED <<owner, phase, enabled, fault, creds, job, held, clean, change, sample, http, radio>>

(* The last thing of a run, and what a request to switch off comes to.      *)
WorkerReports ==
  /\ pc \in {"disabled", "failed"}
  /\ phase' = pc
  /\ Goto("idle")
  /\ UNCHANGED <<owner, enabled, fault, asked, creds, job, held, clean, change, sample, http, radio>>

(* A run may be refused for want of memory before it acquires anything.     *)
WorkerStarts ==
  /\ pc = "start"
  /\ phase' = "starting"
  /\ Goto("failed") \/ Goto(Order[1])
  /\ UNCHANGED <<owner, enabled, fault, asked, creds, job, held, clean, change, sample, http, radio>>

(* What was acquired is held although a later part of the same step failed. *)
WorkerAcquires(r) ==
  /\ pc = r
  /\ \/ Goto("stop server") /\ held' \in {held, held \cup {r}}
     \/ /\ Goto(IF r = Last(Order) THEN "ready" ELSE Order[Rank(r) + 1])
        /\ held' = held \cup {r}
  /\ UNCHANGED <<owner, shared, job, clean, change, sample, http, radio>>

WorkerReady ==
  /\ pc = "ready"
  /\ phase' = "ready"
  /\ Goto("loop")
  /\ UNCHANGED <<owner, enabled, fault, asked, creds, job, held, clean, change, sample, http, radio>>

----------------------------------------------------------------------------
(* The worker's loop. The pump, a sweep of the HTTP task every 20 ms, moves *)
(* the bridge's events; here only the failure to queue it matters.          *)

LoopTurns ==
  /\ pc = "loop"
  /\ IF ~enabled THEN Goto("stop server") /\ UNCHANGED job
     ELSE IF job.queued
     THEN /\ job' = [job EXCEPT !.queued = FALSE]
          /\ Goto("stage")
     ELSE Goto("pump") /\ UNCHANGED job
  /\ UNCHANGED <<owner, shared, held, clean, change, sample, http, radio>>

LoopPumps ==
  /\ pc = "pump"
  /\ \/ (Goto("loop") \/ Goto("stop server")) /\ UNCHANGED sample
     \/ Goto("query") /\ sample' = [list |-> associated, fresh |-> TRUE]
  /\ UNCHANGED <<owner, shared, job, held, clean, change, http, radio>>

(* sampleStations: an event since the query makes its list stale. The query *)
(* may fail, and so may one of the guards after it.                         *)
Applies_Stale == TRUE

Applies == sample.fresh

LoopReconciles ==
  /\ pc = "query"
  /\ \/ stations' = IF Applies THEN sample.list ELSE stations
     \/ UNCHANGED stations
  /\ sample' = NoSample
  /\ Goto("loop") \/ Goto("stop server")
  /\ UNCHANGED <<owner, shared, job, held, clean, change, http, associated, events>>

----------------------------------------------------------------------------
(* wifiChange: the transaction of the credentials over the radio.           *)

Queue(kind) == work' = Append(work, [kind |-> kind, epoch |-> job.epoch, at |-> "check"])

(* The end of the transaction as it has gone: rolled back, if it must be.   *)
Fails(result) ==
  /\ change' = [change EXCEPT !.result = result]
  /\ Goto("undo")

ChangeStages ==
  /\ pc = "stage"
  /\ \/ Goto("notify") /\ UNCHANGED change
     \/ /\ \E sound \in BOOLEAN : change' = [change EXCEPT !.result = "storage", !.sound = sound]
        /\ Goto("conclude")
  /\ UNCHANGED <<owner, shared, job, held, clean, sample, http, radio>>

(* The phase is announced within a second, the sessions retire within four. *)
ChangeRetires ==
  /\ pc = "notify"
  /\ \/ /\ job.notice
        /\ job' = [job EXCEPT !.retiring = TRUE]
        /\ \/ Queue("retire") /\ Goto("retire") /\ UNCHANGED change
           \/ Fails("radio") /\ UNCHANGED work
     \/ Fails("radio") /\ UNCHANGED <<job, work>>
  /\ UNCHANGED <<owner, shared, held, clean, sample, sessions, radio>>

ChangeRetired ==
  /\ pc = "retire"
  /\ \/ /\ job.retired
        /\ change' = [change EXCEPT !.touched = TRUE]
        /\ Goto("restart")
     \/ Fails("radio")
  /\ UNCHANGED <<owner, shared, job, held, clean, sample, http, radio>>

Undone(ok) ==
  /\ change' = [change EXCEPT !.sound = @ /\ ok]
  /\ Goto("conclude")

RestartFails == IF change.undoing THEN Undone(FALSE) ELSE Fails("radio")

(* wifiApplyAP: the access point is stopped, configured and started again,  *)
(* with the candidate or, undoing, with the previous credentials.           *)
ChangeRestarts ==
  /\ pc = "restart"
  /\ phase' = "starting"
  /\ associated' = FALSE /\ events' = Append(events, "stop")
  /\ \/ Goto("probe") /\ UNCHANGED change
     \/ RestartFails
  /\ UNCHANGED <<owner, enabled, fault, asked, creds, job, held, clean, sample, http, stations>>

ChangeProbes ==
  /\ pc = "probe"
  /\ job' = [job EXCEPT !.probe = FALSE]
  /\ \/ Queue("probe") /\ Goto("probing") /\ UNCHANGED change
     \/ RestartFails /\ UNCHANGED work
  /\ UNCHANGED <<owner, shared, held, clean, sample, sessions, radio>>

ChangeProbed ==
  /\ pc = "probing"
  /\ \/ /\ job.probe
        /\ IF change.undoing THEN Undone(TRUE) ELSE Goto("promote") /\ UNCHANGED change
     \/ RestartFails
  /\ UNCHANGED <<owner, shared, job, held, clean, sample, http, radio>>

ChangePromotes ==
  /\ pc = "promote"
  /\ \/ /\ creds' = job.candidate
        /\ change' = [change EXCEPT !.result = "done"]
        /\ Goto("conclude")
     \/ Fails("storage") /\ UNCHANGED creds
  /\ UNCHANGED <<owner, phase, enabled, fault, asked, job, held, clean, sample, http, radio>>

(* rollback of the journal, and of the radio if it was touched.             *)
ChangeUndoes ==
  /\ pc = "undo"
  /\ \E saved \in BOOLEAN : change' = [change EXCEPT !.sound = @ /\ saved, !.undoing = TRUE]
  /\ Goto(IF change.touched THEN "restart" ELSE "conclude")
  /\ UNCHANGED <<owner, shared, job, held, clean, sample, http, radio>>

(* The verdict, and only then the phase, or the teardown.                   *)
(* The other flags of a job mean nothing once it is not busy any more.      *)
Over(result) == job' = [NoJob EXCEPT !.epoch = job.epoch, !.result = result]

Verdict_OnlySound ==
  IF change.sound THEN Over(change.result) ELSE UNCHANGED job

Verdict == Over(IF change.sound THEN change.result ELSE "rollback")

ChangeConcludes ==
  /\ pc = "conclude"
  /\ Verdict
  /\ change' = NoChange
  /\ Goto(IF change.sound THEN "settle" ELSE "stop server")
  /\ UNCHANGED <<owner, shared, held, clean, sample, http, radio>>

ChangeSettles ==
  /\ pc = "settle"
  /\ phase' = "ready"
  /\ Goto("pump")
  /\ UNCHANGED <<owner, enabled, fault, asked, creds, job, held, clean, change, sample, http, radio>>

----------------------------------------------------------------------------
(* The teardown. Each release may fail; nothing is destroyed under a server *)
(* or a callback that is still there.                                       *)

(* httpd_stop returns when the HTTP task has ended.                         *)
StopServer ==
  /\ pc = "stop server"
  /\ \/ "server" \notin held /\ clean' = TRUE /\ UNCHANGED <<held, sessions>>
     \/ /\ "server" \in held /\ work = <<>>
        /\ held' = held \ {"server"} /\ sessions' = {} /\ clean' = TRUE
     \/ "server" \in held /\ clean' = FALSE /\ UNCHANGED <<held, sessions>>
  /\ Goto("stop radio")
  /\ UNCHANGED <<owner, shared, job, change, sample, work, radio>>

StopRadio ==
  /\ pc = "stop radio"
  /\ \/ "radio" \notin held /\ UNCHANGED <<held, clean, associated, events>>
     \/ /\ "radio" \in held /\ held' = held \ {"radio"} /\ UNCHANGED clean
        /\ associated' = FALSE /\ events' = Append(events, "stop")
     \/ "radio" \in held /\ clean' = FALSE /\ UNCHANGED <<held, associated, events>>
  /\ Goto("stop handler")
  /\ UNCHANGED <<owner, shared, job, change, sample, http, stations>>

StopHandler ==
  /\ pc = "stop handler"
  /\ \/ "handler" \notin held /\ UNCHANGED <<held, clean, events>>
     \/ "handler" \in held /\ held' = held \ {"handler"} /\ events' = <<>> /\ UNCHANGED clean
     \/ "handler" \in held /\ clean' = FALSE /\ UNCHANGED <<held, events>>
  /\ Goto("finish")
  /\ UNCHANGED <<owner, shared, job, change, sample, http, associated, stations>>

Faulty_LastOnly(destroyed) == clean /\ ~destroyed

Faulty(destroyed) == ~destroyed

(* The rest is destroyed, which may fail at the driver, and the lock section *)
(* tells what came of it.                                                   *)
Finish ==
  /\ pc = "finish"
  /\ \E destroyed \in BOOLEAN :
       /\ destroyed => clean
       /\ ~destroyed /\ clean => "driver" \in held
       /\ held' = IF destroyed THEN held \ {"netif", "driver"} ELSE IF clean THEN held \ {"netif"} ELSE held
       /\ fault' = Faulty(destroyed)
       /\ stations' = (stations /\ ~destroyed)
       /\ Goto(IF destroyed /\ ~enabled THEN "disabled" ELSE "failed")
  /\ clean' = TRUE
  /\ UNCHANGED <<owner, phase, enabled, asked, creds, job, change, sample, http, associated, events>>

----------------------------------------------------------------------------
(* The HTTP task.                                                           *)

Serving == "server" \in held

(* A session opened while a change is under way may be retired by it.       *)
item == IF work = <<>> THEN [kind |-> "none", epoch |-> 0, at |-> "check"] ELSE Head(work)

(* A sweep of its own, which may close sessions, interrupts a retirement.   *)
Free == item.at = "check"

(* Generations grow with every session; here one is free again when nobody  *)
(* asks for it any more.                                                    *)
NewGeneration == CHOOSE g \in 1 .. MaxSessions + 1 : g \notin sessions \cup {conf.owner}

Opens ==
  /\ Serving /\ Free
  /\ Cardinality(sessions) < MaxSessions
  /\ sessions' = sessions \cup {NewGeneration}
  /\ UNCHANGED <<owner, shared, job, worker, work, radio>>

Closes ==
  /\ Serving
  /\ \E g \in sessions : sessions' = sessions \ {g}
  /\ UNCHANGED <<owner, shared, job, worker, work, radio>>

Current == job.busy /\ job.epoch = item.epoch

(* wifiRetire: the check; the sweep, which may block in a send; the check   *)
(* again, and the sessions close: at its priority the HTTP task is done     *)
(* with this before the worker's or the owner's next lock section.          *)
MayRetire_Once == item.at = "recheck" \/ (Current /\ job.retiring)

MayRetire == Current /\ job.retiring

Retires ==
  /\ Serving
  /\ item.kind = "retire" /\ item.at = "check"
  /\ work' = IF MayRetire THEN [work EXCEPT ![1].at = "recheck"] ELSE Tail(work)
  /\ UNCHANGED <<owner, shared, job, worker, sessions, radio>>

Retired ==
  /\ Serving
  /\ item.kind = "retire" /\ item.at = "recheck"
  /\ work' = Tail(work)
  /\ IF MayRetire
     THEN sessions' = {} /\ job' = [job EXCEPT !.retired = @ \/ job.epoch = item.epoch]
     ELSE UNCHANGED <<sessions, job>>
  /\ UNCHANGED <<owner, shared, worker, radio>>

Probes ==
  /\ Serving
  /\ item.kind = "probe"
  /\ work' = Tail(work)
  /\ job' = [job EXCEPT !.probe = @ \/ Current]
  /\ UNCHANGED <<owner, shared, worker, sessions, radio>>

----------------------------------------------------------------------------
(* The radio, and stationEvent in the event task.                           *)

(* The access point is up between its start and its stop.                   *)
StationMoves ==
  /\ "radio" \in held /\ "handler" \in held
  /\ Len(events) < MaxEvents
  /\ associated' = ~associated
  /\ events' = Append(events, IF associated THEN "leave" ELSE "join")
  /\ UNCHANGED <<owner, shared, job, worker, http, stations>>

StationEvent ==
  /\ "handler" \in held /\ events # <<>>
  /\ events' = Tail(events)
  /\ stations' = (Head(events) = "join")
  /\ sample' = [sample EXCEPT !.fresh = FALSE]
  /\ UNCHANGED <<owner, shared, job, pc, held, clean, change, http, associated>>

----------------------------------------------------------------------------
Owner ==
  \/ BrowserProposes \/ BrowserCancels \/ PanelApproves \/ PanelDismisses
  \/ OwnerPoll \/ OwnerAnnounces \/ PowerRequested \/ PowerWritten \/ PanelCancels

Worker ==
  \/ WorkerWakes \/ WorkerReports \/ WorkerStarts \/ WorkerReady
  \/ \E r \in Resources : WorkerAcquires(r)
  \/ LoopTurns \/ LoopPumps \/ LoopReconciles
  \/ ChangeStages \/ ChangeRetires \/ ChangeRetired \/ ChangeRestarts \/ ChangeProbes
  \/ ChangeProbed \/ ChangePromotes \/ ChangeUndoes \/ ChangeConcludes \/ ChangeSettles
  \/ StopServer \/ StopRadio \/ StopHandler \/ Finish

WorkItems == Retires \/ Retired \/ Probes

Next == Owner \/ Worker \/ WorkItems \/ Opens \/ Closes \/ StationMoves \/ StationEvent

(* The scheduler runs each task again and again, and a flash write ends.    *)
Spec ==
  /\ Init /\ [][Next]_vars
  /\ WF_vars(Worker) /\ WF_vars(WorkItems)
  /\ WF_vars(PowerWritten) /\ WF_vars(OwnerPoll)

----------------------------------------------------------------------------
(* Properties.                                                              *)

(* A resource is acquired on top of those before it in the order, and never *)
(* while one that a failed teardown has left is still there: a fault keeps  *)
(* the worker from starting again, whatever the panel asks for.             *)
NothingReused ==
  [][\A r \in held' \ held : \A s \in held : Rank(s) < Rank(r)]_vars

(* A work item that retires the browsers for a change of the credentials   *)
(* does so while that change is being applied: one that waited in the       *)
(* queue, or blocked in a send, past its deadline, does not disconnect the  *)
(* browser whose next proposal waits for its approval by then.              *)
RetirementIsCurrent ==
  [][Retired /\ sessions' # sessions => Applying /\ item.epoch = job.epoch]_vars

(* While the network is up and its events are delivered, the panel's count  *)
(* of stations is the radio's: a query that was under way when a station came or     *)
(* left does not put an older list in the place of the event.               *)
StationsTrue ==
  held = Resources /\ events = <<>> => stations = associated

(* Unless a change is being applied, the credentials that the authority     *)
(* shows to the browsers are those that the access point was given: it does *)
(* not take the verdict of an earlier change for that of the present one.   *)
SnapshotTrue ==
  ~Applying /\ conf.shown # NoNetwork => conf.shown = creds

(* The type invariant, and what the browsers are shown (currentSnapshot).   *)
SnapshotSound == TypeOK /\ SnapshotTrue

(* After a switch on or off, or a change of the credentials, the panel is   *)
(* told what came of it, also when the teardown fails during the request.   *)
PowerSettles ==
  (phase \in {"prepared", "starting", "stopping"}) ~> (phase \in {"ready", "disabled", "failed"})

(* A change that the worker no longer looks for: approved after it has left *)
(* its loop, or after its last look, while the phase is still "ready".      *)
Abandoned == job.queued /\ pc \notin {"loop", "pump", "query"}

(* An approved change comes to a verdict, whatever fails on the way, unless *)
(* it was abandoned.                                                        *)
ChangeConcluded == Applying ~> (~Applying \/ Abandoned)
=============================================================================
