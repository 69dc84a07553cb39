-------------------------- MODULE DeviceMaintenance --------------------------
(***************************************************************************)
(* DeviceMaintenance (include/device_maintenance.h) with its adapter       *)
(* MaintenanceTransport, on the transport: a restart is confirmed by a     *)
(* countdown, then three zero packets go out as barriers, one after the    *)
(* other, then the port is made to receive, and then the device restarts.  *)
(*                                                                         *)
(* The owner task's loop is the scheduler: each turn polls the transport,  *)
(* polls the maintenance, and goes on to the commands, the pages and       *)
(* serviceTx. The transport's calls to the driver, and the driver's own    *)
(* progress, come between any two steps.                                   *)
(***************************************************************************)
EXTENDS DmxTransport

CONSTANTS
  AppGens   (* bound: the application stages while requested < AppGens      *)

ASSUME MaintenanceAssumption == AppGens \in Nat /\ AppGens + 3 <= GenMax

VARIABLES
  scene,    (* scene_mode is mode_sender                                    *)
  enabled,  (* sender_active_ of the dispatcher, set once in every turn     *)
  phase,    (* state_.phase; "gone" once the device is off or restarting    *)
  action,   (* state_.action                                                *)
  zeros,    (* zeros_                                                       *)
  goal,     (* goal_ of MaintenanceTransport                                *)
  due,      (* the countdown, or after it the two seconds, are over         *)
  turn,     (* where the loop is: "poll", "maintain" or "app"               *)
  call,     (* where zeroFrame or quiesce is, or "none"                     *)
  dark      (* history: zero frames in a row that the line has carried      *)
            (* whole since the commitment, up to three                      *)

mvars == <<scene, enabled, phase, action, zeros, goal, due, turn, call, dark>>
loopvars == <<scene, enabled, action>>
allvars == <<vars, mvars>>

MaintenanceTypeOK ==
  /\ TypeOK
  /\ scene \in BOOLEAN /\ enabled \in BOOLEAN /\ due \in BOOLEAN
  /\ phase \in {"idle", "countdown", "zeroing", "quiescing", "executing", "failed", "gone"}
  /\ action \in {"none", "restart", "power_off"}
  /\ zeros \in 0 .. 3 /\ dark \in 0 .. 3 /\ goal \in Gens
  /\ turn \in {"poll", "maintain", "app"}
  /\ call \in {"none", "zero", "zeroing", "quiesce", "quiescing"}

(* The startup screen, before the sender's view is first set up.            *)
MaintenanceInit ==
  /\ Init
  /\ scene = FALSE /\ enabled = FALSE
  /\ phase = "idle" /\ action = "none" /\ zeros = 0 /\ goal = 0 /\ due = FALSE
  /\ turn = "poll" /\ call = "none" /\ dark = 0

Active == phase # "idle"
Committed == phase \notin {"idle", "countdown"}

----------------------------------------------------------------------------
(* The transport under the loop.                                            *)

LoopPoll ==
  /\ turn = "poll"
  /\ phase # "gone"
  /\ Poll(FALSE)
  /\ turn' = "maintain"
  /\ UNCHANGED <<loopvars, phase, zeros, goal, due, call, dark>>

TransportCalls ==
  /\ Calls
  /\ dark' = IF dattempt' # dattempt /\ frame' # Zero THEN 0 ELSE dark
  /\ UNCHANGED <<loopvars, phase, zeros, goal, due, turn, call>>

DriverRuns ==
  /\ phase # "gone"
  /\ DriverMoves
  /\ dark' = IF dresult' # "COMPLETE" \/ dresult = "COMPLETE" THEN dark
             ELSE IF frame # Zero THEN 0 ELSE IF dark < 3 THEN dark + 1 ELSE dark
  /\ UNCHANGED <<loopvars, phase, zeros, goal, due, turn, call>>

RetryComes ==
  /\ phase # "gone"
  /\ RetryDue
  /\ UNCHANGED mvars

(* uint32_t(now - started_) reaches the limit of the phase.                 *)
TimePasses ==
  /\ phase \in {"countdown", "zeroing", "quiescing"}
  /\ due' = TRUE
  /\ UNCHANGED <<vars, loopvars, phase, zeros, goal, turn, call, dark>>

----------------------------------------------------------------------------
(* DeviceMaintenance::poll: one of the following in every turn. Its now is  *)
(* read once, so due counts only where the poll begins (call is "none").    *)

Commit(act) ==
  /\ due' = FALSE /\ zeros' = 0 /\ dark' = 0
  /\ IF act = "power_off" THEN phase' = "executing" /\ UNCHANGED goal
     ELSE phase' = (IF scene THEN "zeroing" ELSE "quiescing") /\ goal' = 0

(* The poll is over; the loop goes on and tells the dispatcher.             *)
Return(next) ==
  /\ phase' = next
  /\ turn' = "app"
  /\ enabled' = (scene /\ next \in {"idle", "countdown"})
  /\ call' = "none"

Begins == turn = "maintain" /\ call = "none" /\ pc = "idle"

PollNothing ==
  /\ Begins
  /\ phase \in {"idle", "failed"} \/ (phase = "countdown" /\ ~due)
  /\ Return(phase)
  /\ UNCHANGED <<vars, scene, action, zeros, goal, due, dark>>

PollExpires ==
  /\ Begins
  /\ phase = "countdown" /\ due
  /\ Commit(action)
  /\ turn' = "app" /\ enabled' = FALSE /\ call' = "none"
  /\ UNCHANGED <<vars, scene, action>>

(* esp_restart does not return; the original power-off sequence may.        *)
PollExecutes ==
  /\ Begins
  /\ phase = "executing"
  /\ Return("gone") \/ (action = "power_off" /\ Return("failed"))
  /\ UNCHANGED <<vars, scene, action, zeros, goal, due, dark>>

Late_Never == FALSE

Late == due

PollDeadline ==
  /\ Begins
  /\ phase \in {"zeroing", "quiescing"} /\ Late
  /\ Return("failed")
  /\ UNCHANGED <<vars, scene, action, zeros, goal, due, dark>>

----------------------------------------------------------------------------
(* MaintenanceTransport::zeroFrame.                                         *)

Zeroing == Begins /\ phase = "zeroing" /\ ~Late

Carried_Accepted == goal # 0 /\ accepted = goal

Carried == goal # 0 /\ completed = goal

Enough == zeros' = 3

(* The last one goes on to quiesce in the same poll.                        *)
ZeroCarried ==
  /\ Zeroing
  /\ ~fault /\ Carried
  /\ goal' = 0
  /\ zeros' = zeros + 1
  /\ IF Enough
     THEN /\ phase' = "quiescing" /\ call' = "quiesce"
          /\ UNCHANGED <<turn, enabled>>
     ELSE Return("zeroing")
  /\ UNCHANGED <<vars, scene, action, due, dark>>

MayStageZero == goal = 0 /\ barriers = <<>>

ZeroStaged ==
  /\ Zeroing
  /\ ~fault /\ MayStageZero
  /\ Stage(Zero, TRUE)
  /\ goal' = requested'
  /\ call' = "zero"
  /\ UNCHANGED <<loopvars, phase, zeros, due, turn, dark>>

ZeroWaits ==
  /\ Zeroing
  /\ ~fault /\ ~Carried /\ ~MayStageZero
  /\ call' = "zero"
  /\ UNCHANGED <<vars, loopvars, phase, zeros, goal, due, turn, dark>>

ZeroService ==
  /\ call = "zero"
  /\ Poll(TRUE)
  /\ call' = "zeroing"
  /\ UNCHANGED <<loopvars, phase, zeros, goal, due, turn, dark>>

(* The transport has stopped, before serviceTx or in it, or does not take   *)
(* the packet.                                                              *)
ZeroFails ==
  /\ \/ Zeroing /\ (fault \/ (MayStageZero /\ ~CanStage(TRUE)))
     \/ call = "zeroing" /\ pc = "idle" /\ fault
  /\ Return("failed")
  /\ UNCHANGED <<vars, scene, action, zeros, goal, due, dark>>

ZeroPending ==
  /\ call = "zeroing" /\ pc = "idle" /\ ~fault
  /\ Return("zeroing")
  /\ UNCHANGED <<vars, scene, action, zeros, goal, due, dark>>

----------------------------------------------------------------------------
(* MaintenanceTransport::quiesce.                                           *)

QuiesceRequests ==
  /\ \/ Begins /\ phase = "quiescing" /\ ~Late
     \/ call = "quiesce" /\ want
  /\ call' = "quiesce"
  /\ IF want THEN RequestSender(FALSE) ELSE UNCHANGED vars
  /\ UNCHANGED <<loopvars, phase, zeros, goal, due, turn, dark>>

QuiescePolls ==
  /\ call = "quiesce" /\ ~want
  /\ Poll(FALSE)
  /\ call' = "quiescing"
  /\ UNCHANGED <<loopvars, phase, zeros, goal, due, turn, dark>>

QuiesceEnds ==
  IF fault THEN "failed" ELSE IF ReceiverReady THEN "executing" ELSE "quiescing"

QuiesceReturns ==
  /\ call = "quiescing" /\ pc = "idle"
  /\ Return(QuiesceEnds)
  /\ UNCHANGED <<vars, scene, action, zeros, goal, due, dark>>

MaintenancePoll ==
  \/ PollNothing \/ PollExpires \/ PollExecutes \/ PollDeadline
  \/ ZeroCarried \/ ZeroStaged \/ ZeroWaits \/ ZeroService \/ ZeroFails \/ ZeroPending
  \/ QuiesceRequests \/ QuiescePolls \/ QuiesceReturns

----------------------------------------------------------------------------
(* The rest of the turn: requests, commands, pages, serviceTx.              *)

App == turn = "app" /\ pc = "idle"

(* request, from a browser, which the bridge passes on in sender mode only. *)
Request(act) ==
  /\ App /\ scene /\ ~Active
  /\ action' = act /\ phase' = "countdown" /\ due' = FALSE
  /\ UNCHANGED <<vars, scene, enabled, zeros, goal, turn, call, dark>>

(* cancel and cancelPhysical.                                               *)
CancelCountdown ==
  /\ App /\ phase = "countdown" /\ ~due
  /\ action' = "none" /\ phase' = "idle"
  /\ UNCHANGED <<vars, scene, enabled, zeros, goal, due, turn, call, dark>>

(* local: RESTART on the settings page. The dispatcher learns of it in the  *)
(* next turn only.                                                          *)
Local ==
  /\ App /\ scene /\ ~Active
  /\ action' = "restart"
  /\ Commit("restart")
  /\ UNCHANGED <<vars, scene, enabled, turn, call>>

(* A command of the dispatcher.                                             *)
AppStages(p, barrier) ==
  /\ App /\ enabled
  /\ requested < AppGens
  /\ Stage(p, barrier)
  /\ UNCHANGED mvars

AppServices ==
  /\ App /\ scene /\ ~Committed
  /\ Poll(TRUE)
  /\ UNCHANGED mvars

(* Once: the sender's view never returns.                                   *)
EnterSender ==
  /\ App /\ ~scene /\ ~Active
  /\ RequestSender(TRUE)
  /\ scene' = TRUE /\ enabled' = TRUE
  /\ UNCHANGED <<phase, action, zeros, goal, due, turn, call, dark>>

EndTurn ==
  /\ App
  /\ turn' = "poll"
  /\ UNCHANGED <<vars, loopvars, phase, zeros, goal, due, call, dark>>

MaintenanceNext ==
  \/ LoopPoll
  \/ TransportCalls
  \/ MaintenancePoll
  \/ \E act \in {"restart", "power_off"} : Request(act)
  \/ CancelCountdown
  \/ Local
  \/ \E p \in Packets, barrier \in BOOLEAN : AppStages(p, barrier)
  \/ AppServices
  \/ EnterSender
  \/ EndTurn
  \/ DriverRuns
  \/ RetryComes
  \/ TimePasses

MaintenanceSpec == MaintenanceInit /\ [][MaintenanceNext]_allvars

(* The loop goes round, and time passes. Nothing is assumed of the driver.  *)
LoopFairness ==
  /\ WF_allvars(LoopPoll)
  /\ WF_allvars(TransportCalls)
  /\ WF_allvars(MaintenancePoll)
  /\ SF_allvars(EndTurn)
  /\ WF_allvars(TimePasses)

FairMaintenanceSpec == MaintenanceSpec /\ LoopFairness

----------------------------------------------------------------------------
(* Properties.                                                              *)

(* A restart is not executed before the line has carried three zero frames  *)
(* whole since it was committed to, the last frames on the line: fixtures   *)
(* are dark, whatever was queued, retried or staged before.                 *)
RestartDark == phase = "executing" /\ action = "restart" => dark = 3

(* The transmitter is idle and the port receives when the device restarts:  *)
(* the line is not driven while nobody feeds it.                            *)
RestartQuiet ==
  phase = "executing" /\ action = "restart" /\ pc = "idle" =>
    dmode = "read" /\ dphase = "ready"

(* A restart leaves the fixtures dark and the line to others, and on the    *)
(* way there no count of frames and no phase leaves its range.              *)
RestartSafe == MaintenanceTypeOK /\ RestartDark /\ RestartQuiet

(* A commitment ends within the deadline, whatever the driver does.         *)
CommitmentEnds == Committed ~> phase \in {"failed", "gone"}
=============================================================================
