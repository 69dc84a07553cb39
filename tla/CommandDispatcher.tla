------------------------- MODULE CommandDispatcher -------------------------
(***************************************************************************)
(* CommandDispatcher (src/command_dispatcher.cpp) between the operators    *)
(* (the bridge, which queues commands, and the panel, which executes them  *)
(* on the spot), the controller and the transport, as the sender's view    *)
(* wires them (src/view_sender.h: admitDmx, publishDmx, setup).            *)
(*                                                                         *)
(* All of it runs in the owner task. A call of the dispatcher executes     *)
(* several commands in a row; each of them is a step here, and nothing     *)
(* else of the task comes between them (pc is not "idle" then).            *)
(***************************************************************************)
EXTENDS Naturals, Sequences

CONSTANTS
  Packets, Zero,    (* the packets, and the one of all zeros                *)
  QueueCapacity,    (* capacity, 32 in the code                             *)
  Budget,           (* default_budget, 4 in the code                        *)
  InFlight,         (* remote commands queued at a time: 1, in_flight_ of   *)
                    (* the bridge                                           *)
  BarrierCapacity   (* barrier_capacity of the transport, 4 in the code     *)

ASSUME DispatcherAssumption ==
  /\ Zero \in Packets
  /\ QueueCapacity \in Nat \ {0} /\ Budget \in 1 .. QueueCapacity
  /\ InFlight \in Nat \ {0} /\ InFlight <= QueueCapacity
  /\ BarrierCapacity \in Nat

VARIABLES
  working, restore, blackout, ok, changed,   (* see LiveScene               *)
  want, latest, pending, halted,   (* the transport, see TransportStaging   *)
  active,      (* sender_active_                                            *)
  committed,   (* DeviceMaintenance has committed to a restart              *)
  queue,       (* queue_[head_ ..] of length count_                         *)
  pc,          (* "idle", or the call the owner task is in                  *)
  left,        (* what is left of the budget of process                     *)
  local,       (* the command of executeLocal                               *)
  torn         (* a command was applied and its packet refused: the Result  *)
               (* with transport_error                                      *)

scene == <<working, restore, blackout, ok, changed>>
port == <<want, latest, pending, halted>>
dispatch == <<active, committed, queue, pc, left, local, torn>>
vars == <<scene, port, dispatch>>

Controller == INSTANCE LiveScene
Transport == INSTANCE TransportStaging WITH Capacity <- BarrierCapacity

ResetCommand == [type |-> "reset"]

(* set: one channel or several, absolute or relative. presets: save, copy,  *)
(* clear, and replace_presets, whose archive may prove invalid.             *)
Commands ==
  [type : {"set"}, packet : Packets] \cup [type : {"blackout"}, on : BOOLEAN] \cup
  [type : {"load", "presets"}]

DispatcherTypeOK ==
  /\ working \in Packets /\ restore \in Packets
  /\ blackout \in BOOLEAN /\ ok \in BOOLEAN /\ changed \in BOOLEAN
  /\ want \in BOOLEAN /\ halted \in BOOLEAN /\ latest \in Packets
  /\ pending \in 0 .. BarrierCapacity
  /\ active \in BOOLEAN /\ committed \in BOOLEAN
  /\ queue \in Seq(Commands) /\ Len(queue) <= InFlight
  /\ pc \in {"idle", "process", "drain", "setup"}
  /\ left \in 0 .. QueueCapacity
  /\ local \in Commands \cup {ResetCommand}
  /\ torn \in BOOLEAN

Init ==
  /\ Controller!SceneInit
  /\ Transport!StagingInit
  /\ active = FALSE /\ committed = FALSE
  /\ queue = <<>> /\ pc = "idle" /\ left = 0 /\ local = ResetCommand /\ torn = FALSE

----------------------------------------------------------------------------
(* validate, and the callbacks of the sender's view.                        *)

(* admitDmx: whether the packet this command may produce can be staged now. *)
Edge(c) == c.type = "blackout" /\ c.on # blackout

Admitted_NoEdge(c) ==
  c.type \in {"set", "blackout", "load"} => Transport!CanStage(FALSE)

Admitted(c) ==
  c.type \in {"set", "blackout", "load"} => Transport!CanStage(Edge(c))

(* A load is published even if it changed nothing.                          *)
Publishes(c) ==
  /\ ok'
  /\ c.type = "load" \/ (changed' /\ c.type \in {"set", "blackout"})

Performs(c) ==
  \/ c.type = "set" /\ Controller!Edit(c.packet)
  \/ c.type = "blackout" /\ Controller!SetBlackout(c.on)
  \/ c.type = "load" /\ (Controller!Refuse \/ \E p \in Packets : Controller!Load(p))
  \/ c.type = "presets" /\ Controller!Presets
  \/ c.type = "reset" /\ Controller!Reset

----------------------------------------------------------------------------
(* apply.                                                                   *)

(* validate again: the mode may have changed since the command was queued.  *)
StillActive_Always(c) == TRUE

StillActive(c) == active

Apply(c) ==
  IF ~StillActive(c) THEN UNCHANGED <<scene, port, torn>>
  ELSE /\ Performs(c)
       /\ IF ~Publishes(c) THEN UNCHANGED <<port, torn>>
          ELSE IF Transport!CanStage(c.type = "blackout")
               THEN Transport!Stage(Controller!Output', c.type = "blackout") /\ UNCHANGED torn
               ELSE torn' = TRUE /\ UNCHANGED port

----------------------------------------------------------------------------
(* submit, process and executeLocal.                                        *)

NoneInFlight == Len(queue) < InFlight

(* ownerPoll of the bridge: a command it cannot submit is answered at once. *)
Submit(c) ==
  /\ pc = "idle"
  /\ NoneInFlight
  /\ active /\ Len(queue) < QueueCapacity
  /\ queue' = Append(queue, c)
  /\ UNCHANGED <<scene, port, active, committed, pc, left, local, torn>>

Process ==
  /\ pc = "idle"
  /\ queue # <<>>
  /\ pc' = "process" /\ left' = Budget
  /\ UNCHANGED <<scene, port, active, committed, queue, local, torn>>

(* The head of the queue waits until the transport has room for its packet. *)
Deferred_AnyMode == queue # <<>> /\ ~Admitted(Head(queue))

Deferred == queue # <<>> /\ active /\ ~Admitted(Head(queue))

ProcessOne ==
  /\ pc \in {"process", "drain"}
  /\ queue # <<>> /\ left > 0 /\ ~Deferred
  /\ Apply(Head(queue))
  /\ queue' = Tail(queue)
  /\ left' = left - 1
  /\ UNCHANGED <<active, committed, pc, local>>

Drained == queue = <<>> \/ left = 0 \/ Deferred

ProcessEnds ==
  /\ pc = "process"
  /\ Drained
  /\ pc' = "idle" /\ left' = 0
  /\ UNCHANGED <<scene, port, active, committed, queue, local, torn>>

(* The older commands first.                                                *)
ExecuteLocal(c) ==
  /\ pc = "idle"
  /\ active
  /\ local' = c
  /\ pc' = "drain" /\ left' = QueueCapacity
  /\ UNCHANGED <<scene, port, active, committed, queue, torn>>

(* setup goes on after its reset.                                           *)
LocalReturns ==
  /\ pc' = IF local = ResetCommand THEN "setup" ELSE "idle"
  /\ left' = 0 /\ local' = ResetCommand

LocalApplies ==
  /\ pc = "drain"
  /\ queue = <<>> /\ Admitted(local)
  /\ Apply(local)
  /\ LocalReturns
  /\ UNCHANGED <<active, committed, queue>>

LocalBusy ==
  /\ pc = "drain"
  /\ Drained
  /\ queue # <<>> \/ ~Admitted(local)
  /\ LocalReturns
  /\ UNCHANGED <<scene, port, active, committed, queue, torn>>

----------------------------------------------------------------------------
(* The mode. The sender's view is set up once: its loop never returns, and  *)
(* only a restart ends it.                                                  *)

EnterSender ==
  /\ pc = "idle"
  /\ ~active /\ ~committed
  /\ active' = TRUE
  /\ Transport!RequestSender(TRUE)
  /\ local' = ResetCommand
  /\ pc' = "drain" /\ left' = QueueCapacity
  /\ UNCHANGED <<scene, committed, queue, torn>>

StagesScene ==
  IF Transport!CanStage(FALSE) THEN Transport!Stage(Controller!Output, FALSE)
  ELSE UNCHANGED port

SetupEnds ==
  /\ pc = "setup"
  /\ StagesScene
  /\ pc' = "idle"
  /\ UNCHANGED <<scene, active, committed, queue, left, local, torn>>

(* Only power comes after it: DeviceMaintenance stages its zero frames.     *)
MaintenanceCommits ==
  /\ pc = "idle"
  /\ active
  /\ active' = FALSE /\ committed' = TRUE
  /\ UNCHANGED <<scene, port, queue, pc, left, local, torn>>

MaintenanceStages ==
  /\ pc = "idle"
  /\ committed
  /\ Transport!Stage(Zero, TRUE) \/ Transport!RequestSender(FALSE)
  /\ UNCHANGED <<scene, dispatch>>

(* poll and serviceTx.                                                      *)
TransportCarries ==
  /\ pc = "idle"
  /\ Transport!Carry
  /\ UNCHANGED <<scene, dispatch>>

TransportHalts ==
  /\ pc = "idle"
  /\ Transport!Halt
  /\ UNCHANGED <<scene, dispatch>>

----------------------------------------------------------------------------
Executes == ProcessOne \/ ProcessEnds \/ LocalApplies \/ LocalBusy \/ SetupEnds

Next ==
  \/ \E c \in Commands : Submit(c) \/ ExecuteLocal(c)
  \/ Process \/ Executes
  \/ EnterSender
  \/ MaintenanceCommits \/ MaintenanceStages
  \/ TransportCarries \/ TransportHalts

Spec == Init /\ [][Next]_vars

(* loop() processes the queue in every turn, a call runs to its end, and    *)
(* the transport carries its barriers until it halts (BarrierResolved).     *)
Fairness ==
  /\ SF_vars(Process)
  /\ WF_vars(Executes)
  /\ SF_vars(TransportCarries /\ ~halted)

FairSpec == Spec /\ Fairness

----------------------------------------------------------------------------
(* Properties.                                                              *)

(* Between two calls, what the transport keeps sending is the scene the     *)
(* controller shows: every change was published, in order, and nothing else *)
(* was.                                                                     *)
SceneIsStaged == pc = "idle" /\ active => latest = Controller!Output

(* Admission comes before the change: no command is applied to the scene    *)
(* and then refused by the transport.                                       *)
NeverTornApart == ~torn

(* Scene and output are one: no change is lost, reordered or torn apart.    *)
OutputIsScene == SceneIsStaged /\ NeverTornApart

(* Once a restart is committed, whatever is still queued, a blackout edge   *)
(* that waited for the ring and all behind it, changes nothing: the scene   *)
(* stays, and nothing but zeros is handed to the transport, which is not    *)
(* asked to send again. DeviceMaintenance relies on it (RestartDark).       *)
CommitmentIsDark ==
  [][committed =>
       /\ UNCHANGED <<working, restore, blackout>>
       /\ latest' # latest \/ pending' > pending => latest' = Zero
       /\ want' => want]_vars

(* The queue never stalls for good while the transport runs: a deferred     *)
(* blackout edge gets its turn, and so does everything behind it.           *)
QueueMoves ==
  []<>(queue = <<>> \/ halted) \/ []<><<Len(queue') < Len(queue)>>_vars
=============================================================================
