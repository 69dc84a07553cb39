---------------------- MODULE CommandDispatcherProofs ----------------------
(***************************************************************************)
(* The dispatcher between controller and transport, for any capacities:    *)
(* what is staged is the scene, no applied command is refused by the       *)
(* transport, and nothing queued lights anything once a restart is         *)
(* committed.                                                              *)
(***************************************************************************)
EXTENDS CommandDispatcher, TLAPS

Scene == Controller!Output

(* How the flags of the dispatcher, the transport and the loop go together. *)
Modes ==
  /\ active => want
  /\ committed => ~active
  /\ ~want => pending = 0
  /\ pc \in {"drain", "setup"} => active
  /\ ~torn

(* Only while the view is being set up may the transport be behind.         *)
SettingUp == pc = "setup" \/ (pc = "drain" /\ local = ResetCommand)

Synced == active /\ ~SettingUp => latest = Scene

(* Nothing is queued before the sender is set up, so its reset is never     *)
(* refused.                                                                 *)
NothingBefore ==
  (~active /\ ~committed) \/ (pc = "drain" /\ local = ResetCommand) => queue = <<>>

SetupDark == pc = "setup" => Scene = Zero

IInv == DispatcherTypeOK /\ Modes /\ Synced /\ NothingBefore /\ SetupDark

----------------------------------------------------------------------------
(* Commands and the queue.                                                  *)

LEMMA CommandFields ==
  ASSUME NEW c \in Commands \cup {ResetCommand}
  PROVE  /\ c.type \in {"set", "blackout", "load", "presets", "reset"}
         /\ c.type = "set" => c.packet \in Packets
         /\ c.type = "blackout" => c.on \in BOOLEAN
         /\ c.type = "reset" <=> c = ResetCommand
<1>1. CASE c \in [type : {"set"}, packet : Packets]
  <2>1. c.type = "set" /\ c.packet \in Packets
    BY <1>1
  <2>2. c # ResetCommand
    BY <2>1 DEF ResetCommand
  <2>3. QED
    BY <2>1, <2>2
<1>2. CASE c \in [type : {"blackout"}, on : BOOLEAN]
  <2>1. c.type = "blackout" /\ c.on \in BOOLEAN
    BY <1>2
  <2>2. c # ResetCommand
    BY <2>1 DEF ResetCommand
  <2>3. QED
    BY <2>1, <2>2
<1>3. CASE c \in [type : {"load", "presets"}]
  <2>1. c.type \in {"load", "presets"}
    BY <1>3
  <2>2. c # ResetCommand
    BY <2>1 DEF ResetCommand
  <2>3. QED
    BY <2>1, <2>2
<1>4. CASE c = ResetCommand
  BY <1>4 DEF ResetCommand
<1>5. QED
  BY <1>1, <1>2, <1>3, <1>4 DEF Commands

LEMMA QueueHead ==
  ASSUME NEW q \in Seq(Commands), q # <<>>
  PROVE  /\ Head(q) \in Commands
         /\ Tail(q) \in Seq(Commands)
         /\ Len(q) \in Nat \ {0} /\ Len(Tail(q)) = Len(q) - 1
  OBVIOUS

(* The controller's operations keep to their types.                         *)
LEMMA PerformsTypes ==
  ASSUME working \in Packets, restore \in Packets, blackout \in BOOLEAN,
         NEW c \in Commands \cup {ResetCommand}, Performs(c)
  PROVE  /\ working' \in Packets /\ restore' \in Packets /\ blackout' \in BOOLEAN
         /\ ok' \in BOOLEAN /\ changed' \in BOOLEAN
<1>1. CASE c.type = "set"
  <2>1. Controller!Edit(c.packet)
    BY <1>1 DEF Performs
  <2>2. QED
    BY <1>1, <2>1, CommandFields DEF Controller!Edit
<1>2. CASE c.type = "blackout"
  <2>1. Controller!SetBlackout(c.on) /\ c.on \in BOOLEAN
    BY <1>2, CommandFields DEF Performs
  <2>2. QED
    BY <2>1 DEF Controller!SetBlackout
<1>3. CASE c.type = "load"
  <2>1. Controller!Refuse \/ \E p \in Packets : Controller!Load(p)
    BY <1>3 DEF Performs
  <2>2. QED
    BY <2>1 DEF Controller!Refuse, Controller!Load
<1>4. CASE c.type = "presets"
  <2>1. Controller!Presets
    BY <1>4 DEF Performs
  <2>2. QED
    BY <2>1 DEF Controller!Presets
<1>5. CASE c.type = "reset"
  <2>1. Controller!Reset
    BY <1>5 DEF Performs
  <2>2. QED
    BY <2>1, DispatcherAssumption DEF Controller!Reset
<1>6. QED
  BY <1>1, <1>2, <1>3, <1>4, <1>5, CommandFields

(* A command that is not published leaves the output as it was; one that is *)
(* published with a barrier is the edge its admission allowed for.          *)
LEMMA PerformsOutput ==
  ASSUME blackout \in BOOLEAN,
         NEW c \in Commands \cup {ResetCommand}, Performs(c)
  PROVE  /\ c # ResetCommand /\ ~Publishes(c) => Scene' = Scene
         /\ c = ResetCommand => Scene' = Zero /\ ~Publishes(c)
         /\ c.type = "blackout" /\ Publishes(c) => Edge(c)
         /\ Publishes(c) => c.type \in {"set", "blackout", "load"}
<1>1. CASE c.type = "set"
  <2>1. Controller!Edit(c.packet)
    BY <1>1 DEF Performs
  <2>2. ~Publishes(c) => UNCHANGED <<working, blackout>>
    BY <1>1, <2>1 DEF Controller!Edit, Publishes
  <2>3. QED
    BY <1>1, <2>2, CommandFields DEF Scene, Controller!Output
<1>2. CASE c.type = "blackout"
  <2>1. Controller!SetBlackout(c.on) /\ c.on \in BOOLEAN
    BY <1>2, CommandFields DEF Performs
  <2>2. /\ ~Publishes(c) => UNCHANGED <<working, blackout>>
        /\ Publishes(c) => c.on # blackout
    BY <1>2, <2>1 DEF Controller!SetBlackout, Publishes
  <2>3. QED
    BY <1>2, <2>2, CommandFields DEF Scene, Controller!Output, Edge
<1>3. CASE c.type = "load"
  <2>1. Controller!Refuse \/ \E p \in Packets : Controller!Load(p)
    BY <1>3 DEF Performs
  <2>2. ~Publishes(c) => UNCHANGED <<working, blackout>>
    BY <1>3, <2>1 DEF Controller!Refuse, Controller!Load, Publishes
  <2>3. QED
    BY <1>3, <2>2, CommandFields DEF Scene, Controller!Output
<1>4. CASE c.type = "presets"
  <2>1. Controller!Presets
    BY <1>4 DEF Performs
  <2>2. ~Publishes(c) /\ UNCHANGED <<working, blackout>>
    BY <1>4, <2>1 DEF Controller!Presets, Publishes
  <2>3. QED
    BY <1>4, <2>2, CommandFields DEF Scene, Controller!Output
<1>5. CASE c.type = "reset"
  <2>1. Controller!Reset
    BY <1>5 DEF Performs
  <2>2. ~Publishes(c) /\ working' = Zero
    BY <1>5, <2>1 DEF Controller!Reset, Publishes
  <2>3. QED
    BY <1>5, <2>2, CommandFields DEF Scene, Controller!Output
<1>6. QED
  BY <1>1, <1>2, <1>3, <1>4, <1>5, CommandFields

(* What one command of the queue, or of the panel, leaves behind.           *)
LEMMA ApplyKeeps ==
  ASSUME DispatcherTypeOK, Modes,
         NEW c \in Commands \cup {ResetCommand},
         active => Admitted(c), Apply(c)
  PROVE  /\ working' \in Packets /\ restore' \in Packets /\ blackout' \in BOOLEAN
         /\ ok' \in BOOLEAN /\ changed' \in BOOLEAN
         /\ latest' \in Packets
         /\ UNCHANGED <<want, halted, torn>>
         /\ pending' \in 0 .. BarrierCapacity /\ pending' \in {pending, pending + 1}
         /\ ~want => pending' = 0
         /\ active /\ c # ResetCommand /\ latest = Scene => latest' = Scene'
         /\ active /\ c # ResetCommand /\ Publishes(c) => latest' = Scene'
         /\ active /\ c = ResetCommand => Scene' = Zero
         /\ ~active => UNCHANGED scene
<1>1. CASE ~active
  BY <1>1 DEF Apply, StillActive, scene, port, DispatcherTypeOK, Modes
<1>2. CASE active
  <2>1. Performs(c) /\ want
    BY <1>2 DEF Apply, StillActive, Modes
  <2>2. /\ working' \in Packets /\ restore' \in Packets /\ blackout' \in BOOLEAN
        /\ ok' \in BOOLEAN /\ changed' \in BOOLEAN
    BY <2>1, PerformsTypes DEF DispatcherTypeOK
  <2>3. /\ c # ResetCommand /\ ~Publishes(c) => Scene' = Scene
        /\ c = ResetCommand => Scene' = Zero /\ ~Publishes(c)
        /\ c.type = "blackout" /\ Publishes(c) => Edge(c)
        /\ Publishes(c) => c.type \in {"set", "blackout", "load"}
    BY <2>1, PerformsOutput DEF DispatcherTypeOK
  <2>4. CASE ~Publishes(c)
    <3>1. UNCHANGED <<port, torn>>
      BY <1>2, <2>4 DEF Apply, StillActive
    <3>2. QED
      BY <1>2, <2>1, <2>2, <2>3, <2>4, <3>1 DEF port, DispatcherTypeOK, Modes
  <2>5. CASE Publishes(c)
    <3>1. Transport!CanStage(c.type = "blackout")
      BY <1>2, <2>3, <2>5, <2>1 DEF Admitted, Edge, Transport!CanStage
    <3>2. Transport!Stage(Controller!Output', c.type = "blackout") /\ UNCHANGED torn
      BY <1>2, <2>5, <3>1 DEF Apply, StillActive
    <3>3. latest' = Scene' /\ UNCHANGED <<want, halted, torn>>
      BY <3>2 DEF Transport!Stage, Scene
    <3>4. Scene' \in Packets
      BY <2>2, DispatcherAssumption DEF Scene, Controller!Output
    <3>5. pending' \in 0 .. BarrierCapacity /\ pending' \in {pending, pending + 1}
      BY <3>1, <3>2, DispatcherAssumption
         DEF Transport!Stage, Transport!CanStage, DispatcherTypeOK
    <3>6. QED
      BY <1>2, <2>1, <2>2, <2>3, <2>5, <3>3, <3>4, <3>5
  <2>6. QED
    BY <2>4, <2>5
<1>3. QED
  BY <1>1, <1>2 DEF DispatcherTypeOK

----------------------------------------------------------------------------
(* The invariant.                                                           *)

LEMMA InitIInv == Init => IInv
<1> SUFFICES ASSUME Init PROVE IInv
  OBVIOUS
<1>1. queue \in Seq(Commands) /\ Len(queue) = 0
  BY DEF Init
<1>2. DispatcherTypeOK
  <2>1. 0 \in 0 .. BarrierCapacity /\ 0 \in 0 .. QueueCapacity /\ Len(queue) <= InFlight
    BY <1>1, DispatcherAssumption
  <2>2. /\ working = Zero /\ restore = Zero /\ blackout = FALSE /\ ok = TRUE /\ changed = FALSE
        /\ want = FALSE /\ latest = Zero /\ pending = 0 /\ halted = FALSE
        /\ active = FALSE /\ committed = FALSE /\ torn = FALSE
        /\ pc = "idle" /\ left = 0 /\ local = ResetCommand
    BY DEF Init, Controller!SceneInit, Transport!StagingInit
  <2>3. QED
    BY <1>1, <2>1, <2>2, DispatcherAssumption DEF DispatcherTypeOK
<1>3. QED
  BY <1>1, <1>2
     DEF Init, IInv, Modes, Synced, NothingBefore, SetupDark, Transport!StagingInit

(* Deferred is the exact opposite of admission while the sender is active.  *)
LEMMA HeadAdmitted ==
  ASSUME queue # <<>>, ~Deferred
  PROVE  active => Admitted(Head(queue))
  BY DEF Deferred

LEMMA SubmitKeeps == ASSUME IInv, NEW c \in Commands, Submit(c) PROVE IInv'
<1>1. /\ queue' \in Seq(Commands) /\ Len(queue') = Len(queue) + 1
      /\ Len(queue) \in Nat /\ Len(queue) < InFlight
  BY DEF IInv, DispatcherTypeOK, Submit, NoneInFlight
<1>2. DispatcherTypeOK'
  BY <1>1, DispatcherAssumption DEF IInv, DispatcherTypeOK, Submit, scene, port
<1>3. /\ UNCHANGED <<scene, port, active, committed, pc, left, local, torn>>
      /\ pc = "idle" /\ active
  BY DEF Submit
<1>4. Scene' = Scene
  BY <1>3 DEF scene, Scene, Controller!Output
<1>5. QED
  BY <1>2, <1>3, <1>4
     DEF IInv, Modes, Synced, SettingUp, NothingBefore, SetupDark, scene, port

LEMMA ProcessOneKeeps == ASSUME IInv, ProcessOne PROVE IInv'
<1>1. /\ Head(queue) \in Commands /\ Tail(queue) \in Seq(Commands)
      /\ Len(queue) \in Nat \ {0} /\ Len(Tail(queue)) = Len(queue) - 1
  BY QueueHead DEF IInv, DispatcherTypeOK, ProcessOne
<1>2. Head(queue) \in Commands \cup {ResetCommand} /\ Head(queue) # ResetCommand
  <2>1. ResetCommand \notin Commands
    BY DEF Commands, ResetCommand
  <2>2. QED
    BY <1>1, <2>1
<1>3. active => Admitted(Head(queue))
  BY HeadAdmitted DEF ProcessOne
<1>4. /\ working' \in Packets /\ restore' \in Packets /\ blackout' \in BOOLEAN
      /\ ok' \in BOOLEAN /\ changed' \in BOOLEAN
      /\ latest' \in Packets
      /\ UNCHANGED <<want, halted, torn>>
      /\ pending' \in 0 .. BarrierCapacity /\ pending' \in {pending, pending + 1}
      /\ ~want => pending' = 0
      /\ active /\ latest = Scene => latest' = Scene'
  BY <1>2, <1>3, ApplyKeeps DEF IInv, ProcessOne
<1>5. /\ queue' = Tail(queue) /\ left' = left - 1 /\ left > 0
      /\ UNCHANGED <<active, committed, pc, local>> /\ pc \in {"process", "drain"}
  BY DEF ProcessOne
<1>6. DispatcherTypeOK'
  BY <1>1, <1>4, <1>5, DispatcherAssumption DEF IInv, DispatcherTypeOK
<1>7. Modes' /\ Synced' /\ SetupDark'
  BY <1>4, <1>5 DEF IInv, Modes, Synced, SettingUp, SetupDark
<1>8. NothingBefore'
  <2>1. queue # <<>>
    BY DEF ProcessOne
  <2>2. QED
    BY <1>5, <2>1 DEF IInv, NothingBefore
<1>9. QED
  BY <1>6, <1>7, <1>8 DEF IInv

LEMMA LocalAppliesKeeps == ASSUME IInv, LocalApplies PROVE IInv'
<1>1. /\ local \in Commands \cup {ResetCommand} /\ active /\ Admitted(local)
      /\ Apply(local) /\ LocalReturns /\ UNCHANGED <<active, committed, queue>>
  BY DEF LocalApplies, IInv, DispatcherTypeOK, Modes
<1>2. /\ working' \in Packets /\ restore' \in Packets /\ blackout' \in BOOLEAN
      /\ ok' \in BOOLEAN /\ changed' \in BOOLEAN
      /\ latest' \in Packets
      /\ UNCHANGED <<want, halted, torn>>
      /\ pending' \in 0 .. BarrierCapacity
      /\ ~want => pending' = 0
      /\ local # ResetCommand /\ latest = Scene => latest' = Scene'
      /\ local = ResetCommand => Scene' = Zero
  BY <1>1, ApplyKeeps DEF IInv
<1>3. /\ pc' = (IF local = ResetCommand THEN "setup" ELSE "idle")
      /\ left' = 0 /\ local' = ResetCommand
  BY <1>1 DEF LocalReturns
<1>4. DispatcherTypeOK'
  BY <1>1, <1>2, <1>3, DispatcherAssumption DEF IInv, DispatcherTypeOK
<1>5. QED
  BY <1>1, <1>2, <1>3, <1>4
     DEF LocalApplies, IInv, Modes, Synced, SettingUp, NothingBefore, SetupDark

(* The panel's command can be refused, the reset of setup cannot.           *)
LEMMA LocalBusyKeeps == ASSUME IInv, LocalBusy PROVE IInv'
<1>1. local # ResetCommand
  <2> SUFFICES ASSUME local = ResetCommand PROVE FALSE
    OBVIOUS
  <2>1. active /\ want /\ pc = "drain"
    BY DEF LocalBusy, IInv, Modes
  <2>2. Admitted(local)
    BY DEF Admitted, ResetCommand
  <2>3. queue = <<>>
    BY <2>1 DEF IInv, NothingBefore
  <2>4. QED
    BY <2>2, <2>3 DEF LocalBusy
<1>2. /\ pc' = "idle" /\ left' = 0 /\ local' = ResetCommand /\ pc = "drain"
      /\ UNCHANGED <<scene, port, active, committed, queue, torn>>
  BY <1>1 DEF LocalBusy, LocalReturns
<1>3. DispatcherTypeOK'
  BY <1>2, DispatcherAssumption DEF IInv, DispatcherTypeOK, scene, port
<1>4. Scene' = Scene
  BY <1>2 DEF scene, Scene, Controller!Output
<1>5. QED
  BY <1>1, <1>2, <1>3, <1>4
     DEF IInv, Modes, Synced, SettingUp, NothingBefore, SetupDark, port

LEMMA EnterSenderKeeps == ASSUME IInv, EnterSender PROVE IInv'
<1>1. /\ pc = "idle" /\ ~active /\ ~committed /\ active' = TRUE /\ want = FALSE /\ want' = TRUE
      /\ pending' = pending /\ UNCHANGED <<latest, halted, scene, committed, queue, torn>>
      /\ local' = ResetCommand /\ pc' = "drain" /\ left' = QueueCapacity
  BY DEF EnterSender, Transport!RequestSender, IInv, DispatcherTypeOK
<1>2. DispatcherTypeOK'
  BY <1>1, DispatcherAssumption DEF IInv, DispatcherTypeOK, scene
<1>3. NothingBefore'
  BY <1>1 DEF IInv, NothingBefore
<1>4. QED
  BY <1>1, <1>2, <1>3 DEF IInv, Modes, Synced, SettingUp, SetupDark

(* The transport accepts the packet setup stages.                           *)
LEMMA SetupStages == ASSUME IInv, SetupEnds PROVE latest' = Scene /\ Scene = Zero
<1>1. want /\ Scene = Zero
  BY DEF SetupEnds, IInv, Modes, SetupDark
<1>2. Transport!CanStage(FALSE)
  BY <1>1 DEF Transport!CanStage
<1>3. QED
  BY <1>1, <1>2 DEF SetupEnds, StagesScene, Transport!Stage, Scene

LEMMA SetupEndsKeeps == ASSUME IInv, SetupEnds PROVE IInv'
<1>1. latest' = Scene /\ Scene = Zero
  BY SetupStages
<1>2. UNCHANGED <<want, pending, halted>>
  BY DEF SetupEnds, StagesScene, Transport!Stage, port
<1>3. /\ pc = "setup" /\ pc' = "idle"
      /\ UNCHANGED <<scene, active, committed, queue, left, local, torn>>
  BY DEF SetupEnds
<1>4. DispatcherTypeOK'
  BY <1>1, <1>2, <1>3, DispatcherAssumption DEF IInv, DispatcherTypeOK, scene
<1>5. Scene' = Scene
  BY <1>3 DEF scene, Scene, Controller!Output
<1>6. QED
  BY <1>1, <1>2, <1>3, <1>4, <1>5
     DEF IInv, Modes, Synced, SettingUp, NothingBefore, SetupDark

LEMMA MaintenanceStagesKeeps == ASSUME IInv, MaintenanceStages PROVE IInv'
<1>1. pc = "idle" /\ committed /\ ~active /\ UNCHANGED <<scene, dispatch>>
  BY DEF MaintenanceStages, IInv, Modes
<1>2. /\ latest' \in Packets /\ want' \in BOOLEAN /\ halted' = halted
      /\ pending' \in 0 .. BarrierCapacity
      /\ ~want' => pending' = 0
  <2>1. CASE Transport!Stage(Zero, TRUE)
    BY <2>1, DispatcherAssumption
       DEF Transport!Stage, Transport!CanStage, IInv, DispatcherTypeOK
  <2>2. CASE Transport!RequestSender(FALSE)
    <3>1. want' = FALSE /\ pending' = 0 /\ UNCHANGED <<latest, halted>>
      BY <2>2 DEF Transport!RequestSender
    <3>2. 0 \in 0 .. BarrierCapacity /\ halted \in BOOLEAN /\ latest \in Packets
      BY DispatcherAssumption DEF IInv, DispatcherTypeOK
    <3>3. QED
      BY <3>1, <3>2, Zenon
  <2>3. QED
    BY <2>1, <2>2 DEF MaintenanceStages
<1>3. DispatcherTypeOK'
  BY <1>1, <1>2 DEF IInv, DispatcherTypeOK, scene, dispatch
<1>4. QED
  BY <1>1, <1>2, <1>3
     DEF IInv, Modes, Synced, SettingUp, NothingBefore, SetupDark, dispatch

LEMMA StepIInv == IInv /\ [Next]_vars => IInv'
<1> SUFFICES ASSUME IInv, [Next]_vars PROVE IInv'
  OBVIOUS
<1>1. ASSUME NEW c \in Commands, Submit(c) PROVE IInv'
  BY <1>1, SubmitKeeps
<1>2. ASSUME NEW c \in Commands, ExecuteLocal(c) PROVE IInv'
  <2>1. /\ pc = "idle" /\ pc' = "drain" /\ left' = QueueCapacity /\ local' = c /\ active
        /\ UNCHANGED <<scene, port, active, committed, queue, torn>>
    BY <1>2 DEF ExecuteLocal
  <2>2. c # ResetCommand
    BY DEF Commands, ResetCommand
  <2>3. DispatcherTypeOK'
    BY <2>1, DispatcherAssumption DEF IInv, DispatcherTypeOK, scene, port
  <2>4. Scene' = Scene
    BY <2>1 DEF scene, Scene, Controller!Output
  <2>5. QED
    BY <2>1, <2>2, <2>3, <2>4
       DEF IInv, Modes, Synced, SettingUp, NothingBefore, SetupDark, port
<1>3. CASE Process
  <2>1. /\ pc = "idle" /\ pc' = "process" /\ left' = Budget
        /\ UNCHANGED <<scene, port, active, committed, queue, local, torn>>
    BY <1>3 DEF Process
  <2>2. DispatcherTypeOK'
    BY <2>1, DispatcherAssumption DEF IInv, DispatcherTypeOK, scene, port
  <2>3. Scene' = Scene
    BY <2>1 DEF scene, Scene, Controller!Output
  <2>4. QED
    BY <2>1, <2>2, <2>3 DEF IInv, Modes, Synced, SettingUp, NothingBefore, SetupDark, port
<1>4. CASE ProcessOne
  BY <1>4, ProcessOneKeeps
<1>5. CASE ProcessEnds
  <2>1. /\ pc = "process" /\ pc' = "idle" /\ left' = 0
        /\ UNCHANGED <<scene, port, active, committed, queue, local, torn>>
    BY <1>5 DEF ProcessEnds
  <2>2. DispatcherTypeOK'
    BY <2>1, DispatcherAssumption DEF IInv, DispatcherTypeOK, scene, port
  <2>3. Scene' = Scene
    BY <2>1 DEF scene, Scene, Controller!Output
  <2>4. QED
    BY <2>1, <2>2, <2>3 DEF IInv, Modes, Synced, SettingUp, NothingBefore, SetupDark, port
<1>6. CASE LocalApplies
  BY <1>6, LocalAppliesKeeps
<1>7. CASE LocalBusy
  BY <1>7, LocalBusyKeeps
<1>8. CASE EnterSender
  BY <1>8, EnterSenderKeeps
<1>9. CASE SetupEnds
  BY <1>9, SetupEndsKeeps
<1>10. CASE MaintenanceCommits
  <2>1. /\ pc = "idle" /\ active' = FALSE /\ committed' = TRUE
        /\ UNCHANGED <<scene, port, queue, pc, left, local, torn>>
    BY <1>10 DEF MaintenanceCommits
  <2>2. DispatcherTypeOK'
    BY <2>1 DEF IInv, DispatcherTypeOK, scene, port
  <2>3. QED
    BY <2>1, <2>2 DEF IInv, Modes, Synced, SettingUp, NothingBefore, SetupDark, port
<1>11. CASE MaintenanceStages
  BY <1>11, MaintenanceStagesKeeps
<1>12. CASE TransportCarries
  <2>1. /\ pc = "idle" /\ pending > 0 /\ pending' = pending - 1
        /\ UNCHANGED <<want, latest, halted, scene, dispatch>>
    BY <1>12 DEF TransportCarries, Transport!Carry
  <2>2. DispatcherTypeOK'
    BY <2>1, DispatcherAssumption DEF IInv, DispatcherTypeOK, scene, dispatch
  <2>3. Scene' = Scene
    BY <2>1 DEF scene, Scene, Controller!Output
  <2>4. QED
    BY <2>1, <2>2, <2>3
       DEF IInv, Modes, Synced, SettingUp, NothingBefore, SetupDark, dispatch
<1>13. CASE TransportHalts
  <2>1. halted' = TRUE /\ UNCHANGED <<want, latest, pending, scene, dispatch>>
    BY <1>13 DEF TransportHalts, Transport!Halt
  <2>2. DispatcherTypeOK'
    BY <2>1 DEF IInv, DispatcherTypeOK, scene, dispatch
  <2>3. Scene' = Scene
    BY <2>1 DEF scene, Scene, Controller!Output
  <2>4. QED
    BY <2>1, <2>2, <2>3
       DEF IInv, Modes, Synced, SettingUp, NothingBefore, SetupDark, dispatch
<1>14. CASE UNCHANGED vars
  <2>1. UNCHANGED <<scene, port, dispatch>>
    BY <1>14 DEF vars
  <2>2. DispatcherTypeOK'
    BY <2>1 DEF IInv, DispatcherTypeOK, scene, port, dispatch
  <2>3. Scene' = Scene
    BY <2>1 DEF scene, Scene, Controller!Output
  <2>4. QED
    BY <2>1, <2>2, <2>3
       DEF IInv, Modes, Synced, SettingUp, NothingBefore, SetupDark, port, dispatch
<1>15. QED
  BY <1>1, <1>2, <1>3, <1>4, <1>5, <1>6, <1>7, <1>8, <1>9, <1>10, <1>11, <1>12, <1>13,
     <1>14 DEF Next, Executes

(* The strengthened invariant: flags of dispatcher, transport and loop go   *)
(* together, the transport is in step but during setup, and setup finds     *)
(* nothing queued.                                                          *)
THEOREM DispatcherInductive == Spec => []IInv
  BY InitIInv, StepIInv, PTL DEF Spec

----------------------------------------------------------------------------
(* The properties.                                                          *)

(* DispatcherTypeOK: ring, queue and budget stay within their capacities.   *)
THEOREM DispatcherTypeCorrect == Spec => []DispatcherTypeOK
<1>1. IInv => DispatcherTypeOK
  BY DEF IInv
<1>2. QED
  BY <1>1, DispatcherInductive, PTL

(* SceneIsStaged: between two calls the transport sends what the controller *)
(* shows.                                                                   *)
THEOREM StagedIsScene == Spec => []SceneIsStaged
<1>1. IInv => SceneIsStaged
  BY DEF IInv, Synced, SettingUp, SceneIsStaged, Scene
<1>2. QED
  BY <1>1, DispatcherInductive, PTL

(* NeverTornApart: what admission let through, the transport accepts.       *)
THEOREM AdmissionSuffices == Spec => []NeverTornApart
<1>1. IInv => NeverTornApart
  BY DEF IInv, Modes, NeverTornApart
<1>2. QED
  BY <1>1, DispatcherInductive, PTL

(* OutputIsScene: what the operators see is what the line carries.          *)
THEOREM ChangesReachTheLine == Spec => []OutputIsScene
<1>1. SceneIsStaged /\ NeverTornApart => OutputIsScene
  BY DEF OutputIsScene
<1>2. QED
  BY <1>1, StagedIsScene, AdmissionSuffices, PTL

(* CommitmentIsDark: what is left in the queue when a restart is committed  *)
(* is refused, and all that is staged from then on is zeros.                *)
THEOREM QueuedCommandsStayDark == Spec => CommitmentIsDark
<1>1. IInv /\ [Next]_vars =>
        [committed =>
           /\ UNCHANGED <<working, restore, blackout>>
           /\ latest' # latest \/ pending' > pending => latest' = Zero
           /\ want' => want]_vars
  <2> DEFINE Dark == /\ UNCHANGED <<working, restore, blackout>>
                     /\ latest' # latest \/ pending' > pending => latest' = Zero
                     /\ want' => want
  <2> SUFFICES ASSUME IInv, Next, committed PROVE Dark
    BY DEF vars
  <2>1. ~active /\ pending \in Nat /\ pc \notin {"drain", "setup"}
    BY DispatcherAssumption DEF IInv, Modes, DispatcherTypeOK
  <2>2. CASE ProcessOne
    <3>1. UNCHANGED <<scene, port>>
      BY <2>1, <2>2 DEF ProcessOne, Apply, StillActive
    <3>2. QED
      BY <2>1, <3>1 DEF scene, port
  <2>3. CASE MaintenanceStages
    <3>1. UNCHANGED scene
      BY <2>3 DEF MaintenanceStages
    <3>2. CASE Transport!Stage(Zero, TRUE)
      BY <3>1, <3>2 DEF Transport!Stage, scene
    <3>3. CASE Transport!RequestSender(FALSE)
      BY <2>1, <3>1, <3>3 DEF Transport!RequestSender, scene
    <3>4. QED
      BY <2>3, <3>2, <3>3 DEF MaintenanceStages
  <2>4. CASE TransportCarries \/ TransportHalts
    BY <2>1, <2>4
    DEF TransportCarries, TransportHalts, Transport!Carry, Transport!Halt, scene
  <2>5. CASE UNCHANGED <<scene, port>>
    BY <2>1, <2>5 DEF scene, port
  <2>6. QED
    BY <2>1, <2>2, <2>3, <2>4, <2>5
    DEF Next, Executes, Submit, ExecuteLocal, Process, ProcessEnds, LocalApplies, LocalBusy,
        SetupEnds, EnterSender, MaintenanceCommits
<1>2. QED
  BY <1>1, DispatcherInductive, PTL DEF CommitmentIsDark, Spec
=============================================================================
