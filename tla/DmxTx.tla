------------------------------ MODULE DmxTx ------------------------------
(***************************************************************************)
(* The transmitter the repository patches into esp_dmx v2.0.2              *)
(* (patches/esp_dmx_v202): the phase machine of tx_core.h, the fill, poll  *)
(* and mask routines the interrupt handler and the owner task share        *)
(* (tx_service.h), the owner's calls (tx_api.inc, tx_mode.inc), and the    *)
(* ESP32-S3 UART they drive, which keeps shifting slots out while the port *)
(* lock is held. Each read of a UART register is a step of its own, so     *)
(* the hardware may move between any two of them.                          *)
(***************************************************************************)
EXTENDS Naturals

CONSTANTS
  Packets, Zero, NoPacket, AttemptMod,  (* see DmxDriver                    *)
  Slots,       (* slots of a frame (513 in the code)                        *)
  FifoDepth,   (* slots the UART's transmit FIFO holds (128)                *)
  FrameTicks   (* clock ticks of a nominal frame (frame_us)                 *)

ASSUME TxAssumption ==
  /\ Zero \in Packets
  /\ NoPacket \notin Packets
  /\ AttemptMod \in Nat \ {0, 1}
  /\ Slots \in Nat \ {0}
  /\ FifoDepth \in Nat \ {0}
  /\ FrameTicks \in Nat \ {0}

VARIABLES
  mode,        (* o->mode: "read" or "write"                                *)
  tx,          (* o->tx, see TxState; age is now - started_us, or           *)
               (* now - retired_us in RETIRING, up to MaxAge                *)
  buffer0,     (* the packet the owner writes                               *)
  buffer1,     (* the snapshot the interrupt handler feeds from             *)
  uart,        (* the transmitter's registers, see Uart                     *)
  lock,        (* who holds the port lock, and in which routine             *)
  pc,          (* the next step of that routine                             *)
  written,     (* slots the FIFO accepted in the fill under way             *)
  frame,       (* history: the packet accepted for the current attempt      *)
  line,        (* history: what the attempt has put on the line, see Line   *)
  delivered    (* history: the last packet that went out whole              *)

vars == <<mode, tx, buffer0, buffer1, uart, lock, pc, written, frame, line, delivered>>

MaxAge == 4 * FrameTicks
Active == {"FEEDING", "DRAINING"}
Errors == {"UNDERRUN", "TIMEOUT", "CANCELLED", "START_FAILED"}

TxState ==
  [phase : {"READY", "PREPARING", "FEEDING", "DRAINING", "RETIRING", "FAULT_STOPPED"},
   result : {"PENDING", "COMPLETE"} \cup Errors,
   attempt : 0 .. AttemptMod - 1,
   queued : 0 .. Slots,
   done_seen : BOOLEAN,
   force_break : BOOLEAN,
   age : 0 .. MaxAge]

(* fifo: slots not yet off the line; busy: the transmitter's state machine  *)
(* has not returned to idle (it appends break and mark after the last       *)
(* slot); done: the raw TX_DONE latch; the two interrupt enables.           *)
Uart ==
  [fifo : 0 .. Slots, busy : BOOLEAN, done : BOOLEAN,
   empty_en : BOOLEAN, done_en : BOOLEAN]

(* out: slots gone out; gap: the FIFO ran dry in mid-frame; mixed: a slot   *)
(* came from another packet than the one accepted; framed: the attempt      *)
(* follows a break; moved: the mode changed since the last attempt.         *)
Line ==
  [out : 0 .. Slots, gap : BOOLEAN, mixed : BOOLEAN, framed : BOOLEAN, moved : BOOLEAN]

TypeOK ==
  /\ mode \in {"read", "write"}
  /\ tx \in TxState
  /\ buffer0 \in Packets
  /\ buffer1 \in Packets
  /\ uart \in Uart
  /\ lock \in {"free", "isr", "poll", "start", "commit"}
  /\ pc \in {"none", "check", "write", "after", "done", "advance", "decide"}
  /\ written \in 0 .. Slots
  /\ frame \in Packets \cup {NoPacket}
  /\ line \in Line
  /\ delivered \in Packets \cup {NoPacket}

Init ==
  /\ mode = "read"
  /\ tx = [phase |-> "READY", result |-> "PENDING", attempt |-> 0, queued |-> 0,
           done_seen |-> FALSE, force_break |-> FALSE, age |-> 0]
  /\ buffer0 = Zero
  /\ buffer1 = Zero
  /\ uart = [fifo |-> 0, busy |-> FALSE, done |-> FALSE, empty_en |-> FALSE, done_en |-> FALSE]
  /\ lock = "free"
  /\ pc = "none"
  /\ written = 0
  /\ frame = NoPacket
  /\ line = [out |-> 0, gap |-> FALSE, mixed |-> FALSE, framed |-> FALSE, moved |-> FALSE]
  /\ delivered = NoPacket

----------------------------------------------------------------------------
(* tx_core.h: pure transitions of the transmitter's state.                  *)

Fail_KeepsFraming(s, error) ==
  IF s.phase \in {"RETIRING", "FAULT_STOPPED"} THEN s
  ELSE [s EXCEPT !.phase = "RETIRING", !.result = error, !.age = 0]

Fail(s, error) ==
  IF s.phase \in {"RETIRING", "FAULT_STOPPED"} THEN s
  ELSE [s EXCEPT !.phase = "RETIRING", !.result = error, !.age = 0, !.force_break = TRUE]

AfterFill_IgnoresDone(s, n, done) ==
  IF n = 0 THEN Fail(s, "START_FAILED")
  ELSE IF s.queued + n = Slots
       THEN [s EXCEPT !.queued = Slots, !.phase = "DRAINING"]
       ELSE [s EXCEPT !.queued = @ + n]

AfterFill(s, n, done) ==
  IF s.phase # "FEEDING" THEN s
  ELSE IF n = 0 \/ n > Slots - s.queued THEN Fail(s, "START_FAILED")
  ELSE LET fed == [s EXCEPT !.queued = @ + n] IN
       IF done THEN Fail(fed, "UNDERRUN")
       ELSE IF fed.queued = Slots THEN [fed EXCEPT !.phase = "DRAINING"] ELSE fed

ObserveDone(s) ==
  CASE s.phase = "FEEDING"  -> Fail(s, "UNDERRUN")
    [] s.phase = "DRAINING" -> [s EXCEPT !.done_seen = TRUE]
    [] OTHER -> s

Retire(s, idle) ==
  IF s.phase # "RETIRING" THEN s
  ELSE IF idle THEN [s EXCEPT !.phase = "READY"]
  ELSE IF s.age >= 2 * FrameTicks THEN [s EXCEPT !.phase = "FAULT_STOPPED"] ELSE s

Completes(s, idle) ==
  /\ s.phase = "DRAINING" /\ s.done_seen /\ idle
  /\ s.queued = Slots /\ s.result = "PENDING"

Advance_NoTimeout(s, idle) ==
  IF Completes(s, idle) THEN [s EXCEPT !.result = "COMPLETE", !.phase = "READY"]
  ELSE Retire(s, idle)

Advance(s, idle) ==
  IF Completes(s, idle) THEN [s EXCEPT !.result = "COMPLETE", !.phase = "READY"]
  ELSE IF s.phase \in Active /\ s.age >= MaxAge THEN Retire(Fail(s, "TIMEOUT"), idle)
  ELSE Retire(s, idle)

(* tx_service.h: the interrupts that stay enabled in a phase.               *)
Masked_NoDone(u, s) ==
  [u EXCEPT !.empty_en = (s.phase = "FEEDING"), !.done_en = FALSE]

Masked(u, s) ==
  [u EXCEPT !.empty_en = (s.phase = "FEEDING"),
            !.done_en = (s.phase = "DRAINING" /\ ~s.done_seen)]

----------------------------------------------------------------------------
(* The UART and the clock (external): they move whoever holds the lock.     *)

(* A slot leaves the line; with the last one TX_DONE latches.               *)
UartShift ==
  /\ uart.fifo > 0
  /\ uart' = [uart EXCEPT !.fifo = @ - 1, !.done = @ \/ uart.fifo = 1]
  /\ line' = [line EXCEPT !.out = @ + 1]
  /\ UNCHANGED <<mode, tx, buffer0, buffer1, lock, pc, written, frame, delivered>>

UartIdle ==
  /\ uart.fifo = 0 /\ uart.busy
  /\ uart' = [uart EXCEPT !.busy = FALSE]
  /\ UNCHANGED <<mode, tx, buffer0, buffer1, lock, pc, written, frame, line, delivered>>

Tick ==
  /\ tx.phase \in Active \cup {"RETIRING"}
  /\ tx.age < MaxAge
  /\ tx' = [tx EXCEPT !.age = @ + 1]
  /\ UNCHANGED <<mode, buffer0, buffer1, uart, lock, pc, written, frame, line, delivered>>

idle == uart.fifo = 0 /\ ~uart.busy

----------------------------------------------------------------------------
(* dmx_tx_fill_locked, in the interrupt handler or at the end of a start.   *)

(* Where the holder of the lock goes when its fill is done: the interrupt   *)
(* handler polls, dmx_tx_start returns.                                     *)
EndFill ==
  /\ lock' = IF lock = "isr" THEN "isr" ELSE "free"
  /\ pc' = IF lock = "isr" THEN "done" ELSE "none"

FillCheck ==
  /\ pc = "check"
  /\ IF tx.phase = "FEEDING" /\ ~uart.done
     THEN /\ pc' = "write"
          /\ UNCHANGED <<tx, uart, lock>>
     ELSE /\ tx' = IF tx.phase = "FEEDING" THEN Fail(tx, "UNDERRUN") ELSE tx
          /\ uart' = Masked(uart, tx')
          /\ EndFill
  /\ UNCHANGED <<mode, buffer0, buffer1, written, frame, line, delivered>>

Fit(remaining, room) == IF remaining <= room THEN remaining ELSE room

FillWrite ==
  /\ pc = "write"
  /\ written' = Fit(Slots - tx.queued, FifoDepth - uart.fifo)
  /\ uart' = [uart EXCEPT !.fifo = @ + written', !.busy = @ \/ written' > 0]
  /\ line' = [line EXCEPT !.gap = @ \/ (tx.queued > 0 /\ uart.fifo = 0),
                          !.mixed = @ \/ buffer1 # frame]
  /\ pc' = "after"
  /\ UNCHANGED <<mode, tx, buffer0, buffer1, lock, frame, delivered>>

FillAfter ==
  /\ pc = "after"
  /\ tx' = AfterFill(tx, written, uart.done)
  /\ uart' = Masked(uart, tx')
  /\ EndFill
  /\ UNCHANGED <<mode, buffer0, buffer1, written, frame, line, delivered>>

----------------------------------------------------------------------------
(* dmx_tx_poll_locked, in the interrupt handler, dmx_tx_poll and            *)
(* dmx_tx_start.                                                            *)

PollDone ==
  /\ pc = "done"
  /\ tx' = IF uart.done THEN ObserveDone(tx) ELSE tx
  /\ uart' = [uart EXCEPT !.done = @ /\ tx'.phase # "DRAINING"]
  /\ pc' = "advance"
  /\ UNCHANGED <<mode, buffer0, buffer1, lock, written, frame, line, delivered>>

(* What the line really carried decides what was delivered.                 *)
LineWhole == line.out = Slots /\ ~line.gap /\ ~line.mixed

PollAdvance ==
  /\ pc = "advance"
  /\ tx' = Advance(tx, idle)
  /\ uart' = [Masked(uart, tx') EXCEPT !.done = @ /\ tx'.phase # "READY"]
  /\ delivered' = IF Completes(tx, idle) THEN IF LineWhole THEN frame ELSE NoPacket
                                         ELSE delivered
  /\ lock' = IF lock = "start" THEN "start" ELSE "free"
  /\ pc' = IF lock = "start" THEN "decide" ELSE "none"
  /\ UNCHANGED <<mode, buffer0, buffer1, written, frame, line>>

----------------------------------------------------------------------------
(* The interrupt handler (scripts/esp_dmx_tx_patch.py) reads its status     *)
(* under the lock, fills when the FIFO has room and then polls.             *)
IsrEnter ==
  /\ lock = "free"
  /\ mode = "write"
  /\ \/ uart.empty_en /\ uart.fifo < FifoDepth /\ pc' = "check"
     \/ uart.done_en /\ uart.done /\ pc' = "done"
  /\ lock' = "isr"
  /\ UNCHANGED <<mode, tx, buffer0, buffer1, uart, written, frame, line, delivered>>

(* dmx_tx_poll.                                                             *)
PollEnter ==
  /\ lock = "free" /\ tx.phase # "PREPARING"
  /\ mode = "write"
  /\ lock' = "poll"
  /\ pc' = "done"
  /\ UNCHANGED <<mode, tx, buffer0, buffer1, uart, written, frame, line, delivered>>

(* dmx_tx_start: poll, decide under the same lock, copy the packet with     *)
(* the lock released, and feed the first slots under the lock again.        *)
StartEnter ==
  /\ lock = "free" /\ tx.phase # "PREPARING"
  /\ lock' = "start"
  /\ pc' = "done"
  /\ UNCHANGED <<mode, tx, buffer0, buffer1, uart, written, frame, line, delivered>>

StartDecide ==
  /\ pc = "decide"
  /\ IF mode = "write" /\ tx.phase = "READY" /\ idle
     THEN /\ tx' = [tx EXCEPT !.phase = "PREPARING"]
          /\ uart' = [uart EXCEPT !.empty_en = FALSE, !.done_en = FALSE, !.done = FALSE]
     ELSE UNCHANGED <<tx, uart>>
  /\ lock' = "free"
  /\ pc' = "none"
  /\ UNCHANGED <<mode, buffer0, buffer1, written, frame, line, delivered>>

NextAttempt(a) ==
  IF (a + 1) % AttemptMod = 0 THEN 1 ELSE (a + 1) % AttemptMod

(* A break is sent when one is forced or when the last one is too old; else *)
(* the UART appended one to the last frame, if that frame was complete.     *)
StartCommit ==
  /\ lock = "free" /\ tx.phase = "PREPARING"
  /\ \E too_old \in BOOLEAN :
       line' = [out |-> 0, gap |-> FALSE, mixed |-> FALSE, moved |-> FALSE,
                framed |-> tx.force_break \/ too_old
                           \/ (tx.result = "COMPLETE" /\ ~line.moved)]
  /\ buffer1' = buffer0
  /\ frame' = buffer0
  /\ tx' = [tx EXCEPT !.attempt = NextAttempt(@), !.phase = "FEEDING", !.result = "PENDING",
                      !.queued = 0, !.done_seen = FALSE, !.force_break = FALSE, !.age = 0]
  /\ lock' = "commit"
  /\ pc' = "check"
  /\ UNCHANGED <<mode, buffer0, uart, written, delivered>>

(* dmx_tx_cancel.                                                           *)
Cancel ==
  /\ lock = "free"
  /\ mode = "write" /\ tx.phase \in Active \cup {"RETIRING"}
  /\ tx' = Fail(tx, "CANCELLED")
  /\ uart' = Masked(uart, tx')
  /\ UNCHANGED <<mode, buffer0, buffer1, lock, pc, written, frame, line, delivered>>

(* dmx_write_packet takes no lock: it runs beside the interrupt handler.    *)
WritePacket(p) ==
  /\ lock \in {"free", "isr"}
  /\ mode = "write" /\ tx.phase # "PREPARING"
  /\ buffer0' = p
  /\ UNCHANGED <<mode, tx, buffer1, uart, lock, pc, written, frame, line, delivered>>

(* dmx_set_mode is refused while the transmitter owns the port.             *)
MayLeave_AnyPhase == idle

MayLeave == tx.phase = "READY" /\ idle

SetMode(m) ==
  /\ lock = "free" /\ tx.phase # "PREPARING"
  /\ m # mode
  /\ MayLeave
  /\ mode' = m
  /\ tx' = [tx EXCEPT !.force_break = TRUE]
  /\ buffer0' = IF m = "write" THEN Zero ELSE buffer0
  /\ uart' = [uart EXCEPT !.empty_en = FALSE, !.done_en = FALSE, !.done = FALSE]
  /\ line' = [line EXCEPT !.moved = TRUE]
  /\ UNCHANGED <<buffer1, lock, pc, written, frame, delivered>>

----------------------------------------------------------------------------
Locked == FillCheck \/ FillWrite \/ FillAfter \/ PollDone \/ PollAdvance \/ StartDecide

Next ==
  \/ UartShift \/ UartIdle \/ Tick
  \/ FillCheck \/ FillWrite \/ FillAfter
  \/ PollDone \/ PollAdvance
  \/ IsrEnter \/ PollEnter
  \/ StartEnter \/ StartDecide \/ StartCommit
  \/ Cancel
  \/ \E p \in Packets : WritePacket(p)
  \/ \E m \in {"read", "write"} : SetMode(m)

Spec == Init /\ [][Next]_vars

(* A routine that holds the lock runs on; dmx_tx_start does not stop half   *)
(* way; loop() polls the transport, and so the driver, in every iteration;  *)
(* time passes. The UART itself may stall for ever.                         *)
Fairness == WF_vars(Locked) /\ WF_vars(StartCommit) /\ WF_vars(PollEnter) /\ WF_vars(Tick)

FairSpec == Spec /\ Fairness

----------------------------------------------------------------------------
(* Properties.                                                              *)

(* A result of COMPLETE (dmx_tx_advance) means that every slot of exactly   *)
(* the packet that was accepted left the line, without an interruption.     *)
CompleteMeansWhole == tx.result = "COMPLETE" => LineWhole /\ delivered = frame

(* No frame follows an aborted attempt or a change of mode without a break  *)
(* (force_break): a fixture would take its slots for the aborted frame's.   *)
FrameFollowsBreak == tx.phase \in Active => line.framed

(* When nobody holds the lock, the interrupt that will move the attempt on  *)
(* is enabled and no other is (dmx_tx_masks): no wake-up is lost, and none  *)
(* reaches a port that is not transmitting.                                 *)
InterruptArmed ==
  lock = "free" =>
    /\ uart.empty_en <=> tx.phase = "FEEDING"
    /\ uart.done_en <=> (tx.phase = "DRAINING" /\ ~tx.done_seen)

(* Every attempt ends, even on a UART that never finishes: the port becomes *)
(* ready again or stops for good (the two deadlines of dmx_tx_advance).     *)
AttemptEnds ==
  tx.phase \in Active \cup {"RETIRING"} ~> tx.phase \in {"READY", "FAULT_STOPPED"}

(* The phase machine and the interrupt handler implement DmxDriver.         *)
DriverPhase ==
  CASE tx.phase \in {"READY", "PREPARING"} -> "ready"
    [] tx.phase \in Active -> "active"
    [] tx.phase = "RETIRING" -> "retiring"
    [] OTHER -> "stopped"

DriverResult == IF tx.result \in Errors THEN "FAILED" ELSE tx.result

Driver == INSTANCE DmxDriver WITH
  dmode <- mode, dphase <- DriverPhase, dresult <- DriverResult, dattempt <- tx.attempt,
  staged <- buffer0

ImplementsDriver == Driver!DriverSpec
=============================================================================
