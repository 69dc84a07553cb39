--------------------------- MODULE DmxTxProofs ---------------------------
(***************************************************************************)
(* For every frame length, FIFO depth, frame time and set of packets: the  *)
(* state stays well typed, a complete attempt put exactly the accepted     *)
(* packet on the line, frames follow breaks, the interrupts are armed, and *)
(* DmxTx implements DmxDriver.                                             *)
(***************************************************************************)
EXTENDS DmxTx, TLAPS

(* Who may be where: the fill runs only while FEEDING, the gap between the  *)
(* two halves of dmx_tx_start is the PREPARING phase, and only a port in    *)
(* write mode transmits.                                                    *)
Control ==
  /\ lock = "free" <=> pc = "none"
  /\ pc \in {"check", "write", "after"} => lock \in {"isr", "commit"} /\ tx.phase = "FEEDING"
  /\ pc \in {"done", "advance"} => lock \in {"isr", "poll", "start"}
  /\ pc = "decide" => lock = "start"
  /\ tx.phase = "PREPARING" => lock = "free" /\ ~uart.done
  /\ tx.phase # "READY" => mode = "write"
  /\ pc \in {"none", "decide"} =>
       /\ uart.empty_en <=> tx.phase = "FEEDING"
       /\ uart.done_en <=> (tx.phase = "DRAINING" /\ ~tx.done_seen)

(* What is on its way: slots queued are in the FIFO or off the line, a      *)
(* FIFO that ran dry in mid-frame has latched TX_DONE, and the latch is     *)
(* not cleared before the attempt ends or its last slot is queued.          *)
Accounting ==
  /\ line.out + uart.fifo <= Slots
  /\ uart.fifo <= FifoDepth
  /\ uart.fifo > 0 => uart.busy
  /\ tx.phase \in {"READY", "PREPARING"} => uart.fifo = 0 /\ ~uart.busy
  /\ tx.phase \in Active =>
       /\ tx.result = "PENDING"
       /\ ~line.mixed /\ buffer1 = frame
       /\ IF pc = "after" THEN /\ written <= Slots - tx.queued
                               /\ line.out + uart.fifo = tx.queued + written
                          ELSE line.out + uart.fifo = tx.queued
  /\ tx.phase = "FEEDING" =>
       /\ tx.queued > 0 /\ uart.fifo = 0 => uart.done
       /\ pc = "after" /\ written > 0 /\ uart.fifo = 0 => uart.done
       /\ line.gap => uart.done
  /\ tx.phase = "DRAINING" => ~line.gap /\ tx.queued = Slots

(* A port that is ready to send either sent a frame that was complete, and  *)
(* stayed in its mode, or owes the line a break.                            *)
Framing ==
  /\ tx.phase \in Active => line.framed /\ ~line.moved
  /\ tx.phase = "RETIRING" => tx.force_break
  /\ mode = "write" /\ tx.phase \in {"READY", "PREPARING"} =>
       tx.force_break \/ (tx.result = "COMPLETE" /\ ~line.moved)

Outcome ==
  tx.result = "COMPLETE" =>
    tx.phase \in {"READY", "PREPARING"} /\ LineWhole /\ delivered = frame

IInv == TypeOK /\ Control /\ Accounting /\ Framing /\ Outcome

----------------------------------------------------------------------------
(* The transitions of tx_core.h and the masks keep the types.               *)

LEMMA MaxAgeType == MaxAge \in Nat /\ 0 \in 0 .. MaxAge
  BY TxAssumption DEF MaxAge

LEMMA FailType ==
  ASSUME NEW s \in TxState, NEW error \in Errors
  PROVE  Fail(s, error) \in TxState
  BY MaxAgeType DEF Fail, TxState

LEMMA ObserveDoneType ==
  ASSUME NEW s \in TxState
  PROVE  ObserveDone(s) \in TxState
<1>1. "UNDERRUN" \in Errors
  BY DEF Errors
<1>2. QED
  BY <1>1, FailType DEF ObserveDone, TxState

LEMMA AfterFillType ==
  ASSUME NEW s \in TxState, NEW n \in 0 .. Slots, NEW done \in BOOLEAN
  PROVE  AfterFill(s, n, done) \in TxState
<1>1. {"UNDERRUN", "START_FAILED"} \subseteq Errors
  BY DEF Errors
<1>2. CASE s.phase # "FEEDING" \/ n = 0 \/ n > Slots - s.queued
  BY <1>1, <1>2, FailType DEF AfterFill
<1>3. CASE s.phase = "FEEDING" /\ n # 0 /\ ~(n > Slots - s.queued)
  <2> DEFINE fed == [s EXCEPT !.queued = @ + n]
  <2>1. s.queued + n \in 0 .. Slots
    BY <1>3, TxAssumption DEF TxState
  <2>2. fed \in TxState
    BY <2>1 DEF TxState
  <2>3. [fed EXCEPT !.phase = "DRAINING"] \in TxState
    BY <2>2 DEF TxState
  <2>4. Fail(fed, "UNDERRUN") \in TxState
    BY <2>2, <1>1, FailType
  <2>5. QED
    BY <1>3, <2>2, <2>3, <2>4 DEF AfterFill
<1>4. QED
  BY <1>2, <1>3

LEMMA RetireType ==
  ASSUME NEW s \in TxState, NEW quiet \in BOOLEAN
  PROVE  Retire(s, quiet) \in TxState
  BY DEF Retire, TxState

LEMMA AdvanceType ==
  ASSUME NEW s \in TxState, NEW quiet \in BOOLEAN
  PROVE  Advance(s, quiet) \in TxState
<1>1. Fail(s, "TIMEOUT") \in TxState
  BY FailType DEF Errors
<1>2. Retire(s, quiet) \in TxState /\ Retire(Fail(s, "TIMEOUT"), quiet) \in TxState
  BY <1>1, RetireType
<1>3. [s EXCEPT !.result = "COMPLETE", !.phase = "READY"] \in TxState
  BY DEF TxState
<1>4. QED
  BY <1>2, <1>3 DEF Advance

LEMMA MaskedType ==
  ASSUME NEW u \in Uart, NEW s \in TxState
  PROVE  /\ Masked(u, s) \in Uart
         /\ Masked(u, s).fifo = u.fifo /\ Masked(u, s).busy = u.busy
         /\ Masked(u, s).done = u.done
         /\ Masked(u, s).empty_en <=> s.phase = "FEEDING"
         /\ Masked(u, s).done_en <=> (s.phase = "DRAINING" /\ ~s.done_seen)
  BY DEF Masked, Uart, TxState

(* What the transitions do to the fields the invariant speaks of.           *)

LEMMA FailEffect ==
  ASSUME NEW s \in TxState, NEW error \in Errors, s.phase \in Active
  PROVE  /\ Fail(s, error).phase = "RETIRING" /\ Fail(s, error).result = error
         /\ Fail(s, error).force_break /\ Fail(s, error).queued = s.queued
         /\ Fail(s, error).done_seen = s.done_seen
  BY DEF Fail, TxState, Active
----------------------------------------------------------------------------
LEMMA InitIInv == Init => IInv
<1> SUFFICES ASSUME Init PROVE IInv
  OBVIOUS
<1>1. TypeOK
  BY TxAssumption, MaxAgeType DEF Init, TypeOK, TxState, Uart, Line
<1>2. Control /\ Accounting /\ Framing /\ Outcome
  BY TxAssumption DEF Init, Active, Control, Accounting, Framing, Outcome
<1>3. QED
  BY <1>1, <1>2 DEF IInv

(* A fill that ends the attempt leaves it RETIRING, with nothing armed.     *)
LEMMA FailedFill ==
  ASSUME IInv, tx.phase = "FEEDING", NEW s \in TxState, NEW error \in Errors,
         s.phase = "FEEDING",
         tx' = Fail(s, error), uart' = Masked(uart, tx'), EndFill,
         pc \in {"check", "after"},
         UNCHANGED <<mode, buffer0, buffer1, written, frame, line, delivered>>
  PROVE  IInv'
<1>1. tx' \in TxState /\ uart' \in Uart
  BY FailType, MaskedType DEF IInv, TypeOK
<1>2. TypeOK'
  BY <1>1 DEF EndFill, IInv, TypeOK
<1>3. tx'.phase = "RETIRING" /\ tx'.result = error /\ tx'.force_break
  BY FailEffect DEF Active
<1>4. /\ uart'.fifo = uart.fifo /\ uart'.busy = uart.busy
      /\ ~uart'.empty_en /\ ~uart'.done_en
  BY <1>1, <1>3, MaskedType DEF IInv, TypeOK
<1>5. Control'
  BY <1>3, <1>4 DEF EndFill, IInv, TypeOK, Control
<1>6. QED
  BY <1>2, <1>3, <1>4, <1>5 DEF IInv, Errors, Active, Accounting, Framing, Outcome

LEMMA StepIInv == IInv /\ [Next]_vars => IInv'
<1> SUFFICES ASSUME IInv, [Next]_vars PROVE IInv'
  OBVIOUS
<1> USE DEF Active
<1>1. CASE UartShift
  <2>1. uart.fifo - 1 \in 0 .. Slots /\ line.out + 1 \in 0 .. Slots
    BY <1>1, TxAssumption DEF UartShift, IInv, TypeOK, Uart, Line, Accounting
  <2>2. (uart.done \/ uart.fifo = 1) \in BOOLEAN
    OBVIOUS
  <2>3. uart' \in Uart /\ line' \in Line
    BY <1>1, <2>1, <2>2 DEF UartShift, IInv, TypeOK, Uart, Line
  <2>4. TypeOK'
    BY <1>1, <2>3 DEF UartShift, IInv, TypeOK
  <2>5. Control' /\ Accounting' /\ Framing' /\ Outcome'
    BY <1>1, TxAssumption
    DEF UartShift, IInv, TypeOK, TxState, Uart, Line, Control, Accounting, Framing, Outcome
  <2>6. QED
    BY <2>4, <2>5 DEF IInv
<1>2. CASE UartIdle
  <2>1. uart' \in Uart
    BY <1>2 DEF UartIdle, IInv, TypeOK, Uart
  <2>2. TypeOK'
    BY <1>2, <2>1 DEF UartIdle, IInv, TypeOK
  <2>3. Control' /\ Accounting' /\ Framing' /\ Outcome'
    BY <1>2
    DEF UartIdle, IInv, TypeOK, Uart, Control, Accounting, Framing, Outcome, LineWhole
  <2>4. QED
    BY <2>2, <2>3 DEF IInv
<1>3. CASE Tick
  <2>1. tx.age + 1 \in 0 .. MaxAge
    BY <1>3, MaxAgeType DEF Tick, IInv, TypeOK, TxState
  <2>2. tx' \in TxState
    BY <1>3, <2>1 DEF Tick, IInv, TypeOK, TxState
  <2>3. TypeOK'
    BY <1>3, <2>2 DEF Tick, IInv, TypeOK
  <2>4. Control' /\ Accounting' /\ Framing' /\ Outcome'
    BY <1>3
    DEF Tick, IInv, TypeOK, TxState, Control, Accounting, Framing, Outcome, LineWhole
  <2>5. QED
    BY <2>3, <2>4 DEF IInv
<1>4. CASE FillCheck
  <2>1. tx.phase = "FEEDING"
    BY <1>4 DEF FillCheck, IInv, Control
  <2>2. CASE ~uart.done
    BY <1>4, <2>1, <2>2
    DEF FillCheck, IInv, TypeOK, Control, Accounting, Framing, Outcome, LineWhole
  <2>3. CASE uart.done
    <3>1. /\ tx' = Fail(tx, "UNDERRUN") /\ uart' = Masked(uart, tx') /\ EndFill
          /\ pc = "check"
          /\ UNCHANGED <<mode, buffer0, buffer1, written, frame, line, delivered>>
      BY <1>4, <2>1, <2>3 DEF FillCheck
    <3>2. "UNDERRUN" \in Errors /\ tx \in TxState
      BY DEF Errors, IInv, TypeOK
    <3>3. QED
      BY <2>1, <3>1, <3>2, FailedFill
  <2>4. QED
    BY <2>2, <2>3
<1>5. CASE FillWrite
  <2> DEFINE n == Fit(Slots - tx.queued, FifoDepth - uart.fifo)
  <2>1. tx.phase = "FEEDING" /\ line.out + uart.fifo = tx.queued /\ uart.fifo <= FifoDepth
    BY <1>5 DEF FillWrite, IInv, Control, Accounting
  <2>2. /\ uart.fifo \in 0 .. Slots /\ tx.queued \in 0 .. Slots /\ line.out \in 0 .. Slots
        /\ Slots \in Nat /\ FifoDepth \in Nat
    BY TxAssumption DEF IInv, TypeOK, TxState, Uart, Line
  <2>3. /\ n \in 0 .. Slots /\ n <= Slots - tx.queued
        /\ uart.fifo + n \in 0 .. Slots /\ uart.fifo + n <= FifoDepth
    BY <2>1, <2>2 DEF Fit
  <2>4. written' = n /\ uart' = [uart EXCEPT !.fifo = @ + n, !.busy = @ \/ n > 0]
    BY <1>5 DEF FillWrite
  <2>5. (uart.busy \/ n > 0) \in BOOLEAN
    OBVIOUS
  <2>6. uart' \in Uart
    BY <2>3, <2>4, <2>5 DEF IInv, TypeOK, Uart
  <2>7. line' \in Line
    <3>1. /\ (line.gap \/ (tx.queued > 0 /\ uart.fifo = 0)) \in BOOLEAN
          /\ (line.mixed \/ buffer1 # frame) \in BOOLEAN
      OBVIOUS
    <3>2. QED
      BY <1>5, <3>1 DEF FillWrite, IInv, TypeOK, Line
  <2>8. TypeOK'
    BY <1>5, <2>3, <2>4, <2>6, <2>7 DEF FillWrite, IInv, TypeOK
  <2>9. Control' /\ Framing' /\ Outcome'
    BY <1>5, <2>1, <2>4
    DEF FillWrite, IInv, TypeOK, Uart, Line, Control, Framing, Outcome, Accounting
  <2>10. uart'.fifo = uart.fifo + n /\ uart'.done = uart.done /\ (uart'.busy <=> uart.busy \/ n > 0)
    BY <2>4 DEF IInv, TypeOK, Uart
  <2>11. /\ line'.out = line.out
         /\ line'.gap <=> line.gap \/ (tx.queued > 0 /\ uart.fifo = 0)
         /\ line'.mixed <=> line.mixed \/ buffer1 # frame
    BY <1>5 DEF FillWrite, IInv, TypeOK, Line
  <2>12. UNCHANGED <<tx, buffer1, frame>> /\ pc = "write" /\ pc' = "after"
    BY <1>5 DEF FillWrite
  <2>13. Accounting'
    BY <2>1, <2>2, <2>3, <2>4, <2>10, <2>11, <2>12 DEF IInv, Accounting
  <2>14. QED
    BY <2>8, <2>9, <2>13 DEF IInv
<1>6. CASE FillAfter
  <2> DEFINE fed == [tx EXCEPT !.queued = @ + written]
  <2>1. tx.phase = "FEEDING" /\ pc = "after" /\ written <= Slots - tx.queued
    BY <1>6 DEF FillAfter, IInv, Control, Accounting
  <2>2. tx \in TxState /\ written \in 0 .. Slots /\ tx.queued \in 0 .. Slots /\ Slots \in Nat
    BY TxAssumption DEF IInv, TypeOK, TxState
  <2>3. tx.queued + written \in 0 .. Slots
    BY <2>1, <2>2
  <2>4. fed \in TxState /\ fed.phase = "FEEDING" /\ fed.queued = tx.queued + written
    BY <2>1, <2>2, <2>3 DEF TxState
  <2>5. /\ uart' = Masked(uart, tx') /\ EndFill
        /\ UNCHANGED <<mode, buffer0, buffer1, written, frame, line, delivered>>
    BY <1>6 DEF FillAfter
  <2>6. tx' = AfterFill(tx, written, uart.done)
    BY <1>6 DEF FillAfter
  <2>7. {"UNDERRUN", "START_FAILED"} \subseteq Errors
    BY DEF Errors
  <2>8. CASE written = 0
    BY <2>1, <2>2, <2>5, <2>6, <2>7, <2>8, FailedFill DEF AfterFill
  <2>9. CASE written # 0 /\ uart.done
    <3>1. tx' = Fail(fed, "UNDERRUN")
      BY <2>1, <2>2, <2>6, <2>9 DEF AfterFill
    <3>2. QED
      BY <2>1, <2>4, <2>5, <2>7, <3>1, FailedFill
  <2>10. CASE written # 0 /\ ~uart.done
    <3>1. tx' = IF fed.queued = Slots THEN [fed EXCEPT !.phase = "DRAINING"] ELSE fed
      BY <2>1, <2>2, <2>6, <2>10 DEF AfterFill
    <3>2. /\ tx' \in TxState
          /\ tx'.queued = tx.queued + written /\ tx'.result = tx.result
          /\ tx'.phase = IF tx'.queued = Slots THEN "DRAINING" ELSE "FEEDING"
      BY <2>2, <2>3, <2>4, <3>1 DEF TxState
    <3>3. /\ uart' \in Uart
          /\ uart'.fifo = uart.fifo /\ uart'.busy = uart.busy /\ uart'.done = uart.done
          /\ uart'.empty_en <=> tx'.phase = "FEEDING"
          /\ uart'.done_en <=> (tx'.phase = "DRAINING" /\ ~tx'.done_seen)
      BY <2>5, <3>2, MaskedType DEF IInv, TypeOK
    <3>4. TypeOK'
      BY <2>5, <3>2, <3>3 DEF EndFill, IInv, TypeOK
    <3>5. Control'
      BY <2>1, <2>5, <3>2, <3>3 DEF EndFill, IInv, Control
    <3>6. Accounting'
      BY <2>1, <2>2, <2>5, <2>10, <3>2, <3>3 DEF EndFill, IInv, Accounting
    <3>7. Framing' /\ Outcome'
      BY <2>1, <2>5, <3>2 DEF IInv, Accounting, Framing, Outcome, LineWhole
    <3>8. QED
      BY <3>4, <3>5, <3>6, <3>7 DEF IInv
  <2>11. QED
    BY <2>8, <2>9, <2>10
<1>7. CASE PollDone
  <2>1. tx \in TxState /\ uart \in Uart /\ pc = "done" /\ pc' = "advance"
    BY <1>7 DEF PollDone, IInv, TypeOK
  <2>2. tx' \in TxState
    BY <1>7, <2>1, ObserveDoneType DEF PollDone
  <2>3. /\ uart' \in Uart /\ uart'.fifo = uart.fifo /\ uart'.busy = uart.busy
        /\ uart'.done <=> uart.done /\ tx'.phase # "DRAINING"
    <3>1. (uart.done /\ tx'.phase # "DRAINING") \in BOOLEAN
      OBVIOUS
    <3>2. QED
      BY <1>7, <2>1, <3>1 DEF PollDone, Uart
  <2>4. TypeOK'
    BY <1>7, <2>1, <2>2, <2>3 DEF PollDone, IInv, TypeOK
  <2>5. CASE ~uart.done \/ tx.phase \notin Active
    <3>1. tx' = tx
      BY <1>7, <2>5 DEF PollDone, ObserveDone
    <3>2. QED
      BY <1>7, <2>1, <2>3, <2>4, <2>5, <3>1
      DEF PollDone, IInv, Control, Accounting, Framing, Outcome, LineWhole
  <2>6. CASE uart.done /\ tx.phase = "FEEDING"
    <3>1. tx'.phase = "RETIRING" /\ tx'.result = "UNDERRUN" /\ tx'.force_break
      BY <1>7, <2>1, <2>6, FailEffect DEF PollDone, ObserveDone, Errors
    <3>2. QED
      BY <1>7, <2>1, <2>3, <2>4, <2>6, <3>1
      DEF PollDone, IInv, Control, Accounting, Framing, Outcome, LineWhole
  <2>7. CASE uart.done /\ tx.phase = "DRAINING"
    <3>1. /\ tx'.phase = "DRAINING" /\ tx'.result = tx.result /\ tx'.queued = tx.queued
          /\ tx'.force_break = tx.force_break
      BY <1>7, <2>1, <2>7 DEF PollDone, ObserveDone, TxState
    <3>2. QED
      BY <1>7, <2>1, <2>3, <2>4, <2>7, <3>1
      DEF PollDone, IInv, Control, Accounting, Framing, Outcome, LineWhole
  <2>8. QED
    BY <2>5, <2>6, <2>7
<1>8. CASE PollAdvance
  <2>1. tx \in TxState /\ uart \in Uart /\ idle \in BOOLEAN /\ pc = "advance"
    BY <1>8 DEF PollAdvance, IInv, TypeOK, idle
  <2>2. tx' \in TxState
    BY <1>8, <2>1, AdvanceType DEF PollAdvance
  <2>3. /\ uart' \in Uart /\ uart'.fifo = uart.fifo /\ uart'.busy = uart.busy
        /\ uart'.done <=> uart.done /\ tx'.phase # "READY"
        /\ uart'.empty_en <=> tx'.phase = "FEEDING"
        /\ uart'.done_en <=> (tx'.phase = "DRAINING" /\ ~tx'.done_seen)
    <3>1. (uart.done /\ tx'.phase # "READY") \in BOOLEAN
      OBVIOUS
    <3>2. Masked(uart, tx') \in Uart /\ Masked(uart, tx').done = uart.done
      BY <2>1, <2>2, MaskedType
    <3>3. uart' = [Masked(uart, tx') EXCEPT !.done = @ /\ tx'.phase # "READY"]
      BY <1>8 DEF PollAdvance
    <3>4. QED
      BY <2>1, <2>2, <3>1, <3>2, <3>3, MaskedType DEF Uart
  <2>4. CASE Completes(tx, idle)
    <3>1. /\ tx.phase = "DRAINING" /\ tx.queued = Slots /\ uart.fifo = 0 /\ ~uart.busy
      BY <2>4 DEF Completes, idle
    <3>2. tx'.phase = "READY" /\ tx'.result = "COMPLETE"
      BY <1>8, <2>1, <2>4 DEF PollAdvance, Advance, TxState
    <3>3. line.out = Slots /\ ~line.gap /\ ~line.mixed
      BY <2>1, <3>1, TxAssumption DEF IInv, TypeOK, Line, Uart, Accounting
    <3>4. LineWhole /\ LineWhole' /\ delivered' = frame /\ ~line.moved
      BY <1>8, <2>4, <3>1, <3>3 DEF PollAdvance, LineWhole, IInv, Framing
    <3>5. TypeOK'
      BY <1>8, <2>2, <2>3, <3>4 DEF PollAdvance, IInv, TypeOK
    <3>6. QED
      BY <1>8, <2>1, <2>3, <3>1, <3>2, <3>4, <3>5
      DEF PollAdvance, IInv, Control, Accounting, Framing, Outcome
  <2>5. CASE ~Completes(tx, idle)
    <3>1. delivered' = delivered
      BY <1>8, <2>5 DEF PollAdvance
    <3>2. TypeOK'
      BY <1>8, <2>2, <2>3, <3>1 DEF PollAdvance, IInv, TypeOK
    <3>3. \/ tx' = tx
          \/ /\ tx.phase \in Active \cup {"RETIRING"}
             /\ tx'.force_break /\ tx'.result # "COMPLETE"
             /\ \/ tx'.phase = "READY" /\ idle
                \/ tx'.phase \in {"RETIRING", "FAULT_STOPPED"}
      <4>1. tx.phase \in Active => /\ Fail(tx, "TIMEOUT") \in TxState
                                   /\ Fail(tx, "TIMEOUT").phase = "RETIRING"
                                   /\ Fail(tx, "TIMEOUT").result = "TIMEOUT"
                                   /\ Fail(tx, "TIMEOUT").force_break
        BY <2>1, FailType, FailEffect DEF Errors
      <4>2. ASSUME NEW s \in TxState, s.phase = "RETIRING", s.force_break, s.result # "COMPLETE"
            PROVE  LET r == Retire(s, idle) IN
                   /\ r.force_break /\ r.result # "COMPLETE"
                   /\ (r.phase = "READY" /\ idle) \/ r.phase \in {"RETIRING", "FAULT_STOPPED"}
        BY <4>2, <2>1 DEF Retire, TxState
      <4>3. CASE tx.phase \in Active /\ tx.age >= MaxAge
        BY <1>8, <2>5, <4>1, <4>2, <4>3 DEF PollAdvance, Advance
      <4>4. CASE tx.phase = "RETIRING"
        BY <1>8, <2>1, <2>5, <4>2, <4>4
        DEF PollAdvance, Advance, IInv, Framing, Outcome
      <4>5. CASE ~(tx.phase \in Active /\ tx.age >= MaxAge) /\ tx.phase # "RETIRING"
        BY <1>8, <2>5, <4>5 DEF PollAdvance, Advance, Retire
      <4>6. QED
        BY <4>3, <4>4, <4>5
    <3>4. CASE tx' = tx
      BY <1>8, <2>1, <2>3, <3>1, <3>2, <3>4
      DEF PollAdvance, IInv, Control, Accounting, Framing, Outcome, LineWhole
    <3>5. CASE tx' # tx
      BY <1>8, <2>1, <2>3, <3>1, <3>2, <3>3, <3>5
      DEF PollAdvance, idle, IInv, Control, Accounting, Framing, Outcome
    <3>6. QED
      BY <3>4, <3>5
  <2>6. QED
    BY <2>4, <2>5
<1>9. CASE IsrEnter
  BY <1>9 DEF IsrEnter, IInv, TypeOK, Control, Accounting, Framing, Outcome, LineWhole
<1>10. CASE PollEnter
  BY <1>10 DEF PollEnter, IInv, TypeOK, Control, Accounting, Framing, Outcome, LineWhole
<1>11. CASE StartEnter
  BY <1>11 DEF StartEnter, IInv, TypeOK, Control, Accounting, Framing, Outcome, LineWhole
<1>12. CASE StartDecide
  <2>1. CASE mode = "write" /\ tx.phase = "READY" /\ idle
    <3>1. tx' \in TxState /\ uart' \in Uart
      <4>1. tx \in TxState /\ uart \in Uart
        BY DEF IInv, TypeOK
      <4>2. tx' \in TxState
        BY <1>12, <2>1, <4>1 DEF StartDecide, TxState
      <4>3. uart' \in Uart
        BY <1>12, <2>1, <4>1 DEF StartDecide, Uart
      <4>4. QED
        BY <4>2, <4>3
    <3>2. TypeOK'
      BY <1>12, <3>1 DEF StartDecide, IInv, TypeOK
    <3>3. Control' /\ Accounting' /\ Framing' /\ Outcome'
      BY <1>12, <2>1
      DEF StartDecide, idle, IInv, TypeOK, TxState, Uart, Control, Accounting, Framing,
          Outcome, LineWhole
    <3>4. QED
      BY <3>2, <3>3 DEF IInv
  <2>2. CASE ~(mode = "write" /\ tx.phase = "READY" /\ idle)
    BY <1>12, <2>2
    DEF StartDecide, IInv, TypeOK, Control, Accounting, Framing, Outcome, LineWhole
  <2>3. QED
    BY <2>1, <2>2
<1>13. CASE StartCommit
  <2>1. NextAttempt(tx.attempt) \in 0 .. AttemptMod - 1
    BY TxAssumption DEF NextAttempt, IInv, TypeOK, TxState
  <2>2. /\ tx' \in TxState /\ tx'.phase = "FEEDING" /\ tx'.result = "PENDING" /\ tx'.queued = 0
        /\ UNCHANGED <<mode, buffer0, uart, written, delivered>>
        /\ buffer1' = buffer0 /\ frame' = buffer0 /\ lock' = "commit" /\ pc' = "check"
        /\ tx.phase = "PREPARING" /\ lock = "free"
    <3>1. tx' = [tx EXCEPT !.attempt = NextAttempt(@), !.phase = "FEEDING",
                           !.result = "PENDING", !.queued = 0, !.done_seen = FALSE,
                           !.force_break = FALSE, !.age = 0]
      BY <1>13 DEF StartCommit
    <3>2. 0 \in 0 .. Slots /\ tx \in TxState
      BY TxAssumption DEF IInv, TypeOK
    <3>3. tx' \in TxState /\ tx'.phase = "FEEDING" /\ tx'.result = "PENDING" /\ tx'.queued = 0
      BY <2>1, <3>1, <3>2, MaxAgeType DEF TxState
    <3>4. QED
      BY <1>13, <3>3 DEF StartCommit
  <2>3. PICK too_old \in BOOLEAN :
          line' = [out |-> 0, gap |-> FALSE, mixed |-> FALSE, moved |-> FALSE,
                   framed |-> tx.force_break \/ too_old
                              \/ (tx.result = "COMPLETE" /\ ~line.moved)]
    BY <1>13 DEF StartCommit
  <2>4. /\ line' \in Line /\ line'.out = 0 /\ ~line'.gap /\ ~line'.mixed /\ ~line'.moved
        /\ line'.framed <=> tx.force_break \/ too_old \/ (tx.result = "COMPLETE" /\ ~line.moved)
    <3>1. (tx.force_break \/ too_old \/ (tx.result = "COMPLETE" /\ ~line.moved)) \in BOOLEAN
      OBVIOUS
    <3>2. 0 \in 0 .. Slots
      BY TxAssumption
    <3>3. QED
      BY <2>3, <3>1, <3>2 DEF Line
  <2>5. TypeOK'
    BY <2>2, <2>4 DEF IInv, TypeOK
  <2>6. line'.framed
    BY <2>2, <2>4 DEF IInv, Control, Framing
  <2>7. Control' /\ Framing' /\ Outcome'
    BY <2>2, <2>4, <2>6 DEF IInv, Control, Framing, Outcome
  <2>8. Accounting'
    BY <2>2, <2>4, TxAssumption DEF IInv, TypeOK, Uart, Control, Accounting
  <2>9. QED
    BY <2>5, <2>7, <2>8 DEF IInv
<1>14. CASE Cancel
  <2>1. tx' \in TxState /\ uart' \in Uart
    BY <1>14, FailType, MaskedType DEF Cancel, IInv, TypeOK, Errors
  <2>2. /\ uart'.fifo = uart.fifo /\ uart'.busy = uart.busy /\ uart'.done = uart.done
        /\ uart'.empty_en <=> tx'.phase = "FEEDING"
        /\ uart'.done_en <=> (tx'.phase = "DRAINING" /\ ~tx'.done_seen)
    BY <1>14, <2>1, MaskedType DEF Cancel, IInv, TypeOK
  <2>3. tx'.phase = "RETIRING" /\ tx'.force_break /\ tx'.result # "COMPLETE"
    <3>1. CASE tx.phase = "RETIRING"
      BY <1>14, <3>1 DEF Cancel, Fail, IInv, Framing, Outcome
    <3>2. CASE tx.phase \in Active
      BY <1>14, <3>2, FailEffect DEF Cancel, IInv, TypeOK, Errors
    <3>3. QED
      BY <1>14, <3>1, <3>2 DEF Cancel
  <2>4. TypeOK'
    BY <1>14, <2>1 DEF Cancel, IInv, TypeOK
  <2>5. QED
    BY <1>14, <2>2, <2>3, <2>4 DEF Cancel, IInv, Control, Accounting, Framing, Outcome
<1>15. ASSUME NEW p \in Packets, WritePacket(p) PROVE IInv'
  BY <1>15 DEF WritePacket, IInv, TypeOK, Control, Accounting, Framing, Outcome, LineWhole
<1>16. ASSUME NEW m \in {"read", "write"}, SetMode(m) PROVE IInv'
  <2>1. tx' \in TxState /\ uart' \in Uart /\ line' \in Line
    BY <1>16 DEF SetMode, IInv, TypeOK, TxState, Uart, Line
  <2>2. TypeOK'
    BY <1>16, <2>1, TxAssumption DEF SetMode, IInv, TypeOK
  <2>3. Control' /\ Accounting' /\ Framing' /\ Outcome'
    BY <1>16
    DEF SetMode, MayLeave, idle, IInv, TypeOK, TxState, Uart, Line, Control, Accounting,
        Framing, Outcome, LineWhole
  <2>4. QED
    BY <2>2, <2>3 DEF IInv
<1>17. CASE UNCHANGED vars
  BY <1>17 DEF vars, IInv, TypeOK, Control, Accounting, Framing, Outcome, LineWhole
<1>18. QED
  BY <1>1, <1>2, <1>3, <1>4, <1>5, <1>6, <1>7, <1>8, <1>9, <1>10, <1>11, <1>12, <1>13, <1>14,
     <1>15, <1>16, <1>17 DEF Next

(* The strengthening holds in every reachable state.                        *)
THEOREM Inductive == Spec => []IInv
<1>1. Init => IInv
  BY InitIInv
<1>2. IInv /\ [Next]_vars => IInv'
  BY StepIInv
<1>3. QED
  BY <1>1, <1>2, PTL DEF Spec

(* TypeOK: for all parameters, no field of the transmitter leaves its range *)
(* (dmx_tx_after_fill never queues more slots than were requested).         *)
THEOREM TypeCorrect == Spec => []TypeOK
BY Inductive, PTL DEF IInv

(* CompleteMeansWhole: COMPLETE is only reported for a packet that left the *)
(* line whole, whatever the interleaving of interrupts, polls and shifting. *)
THEOREM CompletionIsSound == Spec => []CompleteMeansWhole
<1>1. IInv => CompleteMeansWhole
  BY DEF IInv, Outcome, CompleteMeansWhole
<1>2. QED
  BY <1>1, Inductive, PTL

(* FrameFollowsBreak: force_break covers every way an attempt can end badly *)
(* and every change of mode.                                                *)
THEOREM FramingIsSound == Spec => []FrameFollowsBreak
<1>1. IInv => FrameFollowsBreak
  BY DEF IInv, Framing, FrameFollowsBreak
<1>2. QED
  BY <1>1, Inductive, PTL

(* InterruptArmed: no routine releases the lock with the wrong interrupts.  *)
THEOREM ArmingIsSound == Spec => []InterruptArmed
<1>1. IInv => InterruptArmed
  BY DEF IInv, Control, InterruptArmed
<1>2. QED
  BY <1>1, Inductive, PTL

----------------------------------------------------------------------------
(* Every step of the transmitter is a step of DmxDriver or changes nothing  *)
(* the owner can see.                                                       *)

LEMMA InitRefines == Init => Driver!DriverInit
  BY DEF Init, Driver!DriverInit, DriverPhase, DriverResult, Active, Errors

LEMMA FailRefines ==
  ASSUME tx.phase \in Active, tx \in TxState, NEW error \in Errors, NEW quiet \in BOOLEAN,
         tx' = Retire(Fail(tx, error), quiet) \/ tx' = Fail(tx, error),
         UNCHANGED <<mode, buffer0, frame, delivered>>
  PROVE  Driver!DriverAbort
<1>1. /\ Fail(tx, error).phase = "RETIRING" /\ Fail(tx, error).result = error
      /\ Fail(tx, error).attempt = tx.attempt /\ Fail(tx, error).age = 0
      /\ Fail(tx, error) \in TxState
  BY FailType, MaxAgeType DEF Fail, TxState, Active
<1>2. tx'.phase \in {"RETIRING", "READY"} /\ tx'.result = error /\ tx'.attempt = tx.attempt
  BY <1>1, TxAssumption DEF Retire, TxState
<1>3. QED
  BY <1>2 DEF Driver!DriverAbort, Errors, DriverPhase, DriverResult, Active, Errors

LEMMA StepRefines == IInv /\ [Next]_vars => [Driver!DriverNext]_(Driver!dvars)
<1> SUFFICES ASSUME IInv, [Next]_vars PROVE [Driver!DriverNext]_(Driver!dvars)
  OBVIOUS
<1> USE DEF Driver!dvars
<1>0. tx \in TxState
  BY DEF IInv, TypeOK
<1>1. CASE UartShift \/ UartIdle \/ IsrEnter \/ PollEnter \/ StartEnter
  BY <1>1 DEF UartShift, UartIdle, IsrEnter, PollEnter, StartEnter, DriverPhase, DriverResult
<1>2. CASE Tick
  <2>1. tx'.phase = tx.phase /\ tx'.result = tx.result /\ tx'.attempt = tx.attempt
    BY <1>0, <1>2 DEF Tick, TxState
  <2>2. QED
    BY <1>2, <2>1 DEF Tick, DriverPhase, DriverResult
<1>3. CASE FillCheck
  <2>1. CASE tx' = tx
    BY <1>3, <2>1 DEF FillCheck, DriverPhase, DriverResult
  <2>2. CASE tx.phase = "FEEDING" /\ tx' = Fail(tx, "UNDERRUN")
    <3>1. Driver!DriverAbort
      BY <1>0, <1>3, <2>2, FailRefines DEF FillCheck, Errors, Active
    <3>2. QED
      BY <3>1 DEF Driver!DriverNext, Driver!DriverProgress
  <2>3. QED
    BY <1>3, <2>1, <2>2 DEF FillCheck
<1>4. CASE FillWrite
  BY <1>4 DEF FillWrite, DriverPhase, DriverResult
<1>5. CASE FillAfter
  <2>1. /\ tx' = AfterFill(tx, written, uart.done) /\ tx.phase = "FEEDING"
        /\ UNCHANGED <<mode, buffer0, frame, delivered>>
        /\ written \in 0 .. Slots /\ written <= Slots - tx.queued /\ uart.done \in BOOLEAN
    BY <1>5 DEF FillAfter, IInv, TypeOK, Uart, Control, Accounting, Active
  <2>2. ASSUME NEW error \in {"UNDERRUN", "START_FAILED"},
               NEW s \in TxState, s = tx \/ s = [tx EXCEPT !.queued = @ + written],
               tx' = Fail(s, error)
        PROVE  Driver!DriverNext
    <3>1. s.phase = "FEEDING" /\ s.attempt = tx.attempt
      BY <1>0, <2>1, <2>2 DEF TxState
    <3>2. tx'.phase = "RETIRING" /\ tx'.result = error /\ tx'.attempt = tx.attempt
      BY <2>2, <3>1 DEF Fail, TxState
    <3>3. Driver!DriverAbort
      BY <2>1, <3>2 DEF Driver!DriverAbort, DriverPhase, DriverResult, Active, Errors
    <3>4. QED
      BY <3>3 DEF Driver!DriverNext, Driver!DriverProgress
  <2>3. CASE written = 0
    BY <1>0, <2>1, <2>2, <2>3 DEF AfterFill
  <2>4. CASE written # 0
    <3> DEFINE fed == [tx EXCEPT !.queued = @ + written]
    <3>1. tx.queued + written \in 0 .. Slots
      BY <1>0, <2>1, TxAssumption DEF TxState
    <3>2. /\ fed \in TxState /\ fed.phase = "FEEDING"
          /\ fed.result = tx.result /\ fed.attempt = tx.attempt
      BY <1>0, <2>1, <3>1 DEF TxState
    <3>3. tx' = IF uart.done THEN Fail(fed, "UNDERRUN")
                ELSE IF fed.queued = Slots THEN [fed EXCEPT !.phase = "DRAINING"] ELSE fed
      BY <1>0, <2>1, <2>4, TxAssumption DEF AfterFill, TxState
    <3>4. CASE uart.done
      BY <2>2, <3>2, <3>3, <3>4
    <3>5. CASE ~uart.done
      <4>1. tx'.phase \in Active /\ tx'.result = tx.result /\ tx'.attempt = tx.attempt
        BY <3>2, <3>3, <3>5 DEF TxState, Active
      <4>2. QED
        BY <2>1, <4>1 DEF DriverPhase, DriverResult, Active, Errors
    <3>6. QED
      BY <3>4, <3>5
  <2>5. QED
    BY <2>3, <2>4
<1>6. CASE PollDone
  <2>1. CASE uart.done /\ tx.phase = "FEEDING"
    <3>1. Driver!DriverAbort
      BY <1>0, <1>6, <2>1, FailRefines DEF PollDone, ObserveDone, Errors, Active
    <3>2. QED
      BY <3>1 DEF Driver!DriverNext, Driver!DriverProgress
  <2>2. CASE ~(uart.done /\ tx.phase = "FEEDING")
    <3>1. tx'.phase = tx.phase /\ tx'.result = tx.result /\ tx'.attempt = tx.attempt
      BY <1>0, <1>6, <2>2 DEF PollDone, ObserveDone, TxState
    <3>2. QED
      BY <1>6, <3>1 DEF PollDone, DriverPhase, DriverResult
  <2>3. QED
    BY <2>1, <2>2
<1>7. CASE PollAdvance
  <2>1. tx' = Advance(tx, idle) /\ UNCHANGED <<mode, buffer0, frame>> /\ idle \in BOOLEAN
    BY <1>7 DEF PollAdvance, idle
  <2>2. CASE Completes(tx, idle)
    <3>1. tx'.phase = "READY" /\ tx'.result = "COMPLETE" /\ tx'.attempt = tx.attempt
      BY <1>0, <2>1, <2>2 DEF Advance, TxState
    <3>2. tx.phase = "DRAINING" /\ delivered' = frame
      <4>1. IInv'
        BY StepIInv
      <4>2. QED
        BY <2>1, <2>2, <3>1, <4>1 DEF IInv, Outcome, Completes
    <3>3. Driver!DriverComplete
      BY <2>1, <3>1, <3>2 DEF Driver!DriverComplete, DriverPhase, DriverResult, Active, Errors
    <3>4. QED
      BY <3>3 DEF Driver!DriverNext, Driver!DriverProgress
  <2>3. CASE ~Completes(tx, idle) /\ tx.phase \in Active /\ tx.age >= MaxAge
    <3>1. Driver!DriverAbort
      <4>1. tx' = Retire(Fail(tx, "TIMEOUT"), idle)
        BY <2>1, <2>3 DEF Advance
      <4>2. UNCHANGED <<mode, buffer0, frame, delivered>> /\ "TIMEOUT" \in Errors
        BY <1>7, <2>3 DEF PollAdvance, Errors
      <4>3. QED
        BY <1>0, <2>1, <2>3, <4>1, <4>2, FailRefines
    <3>2. QED
      BY <3>1 DEF Driver!DriverNext, Driver!DriverProgress
  <2>4. CASE ~Completes(tx, idle) /\ ~(tx.phase \in Active /\ tx.age >= MaxAge)
    <3>1. tx' = Retire(tx, idle) /\ delivered' = delivered
      BY <1>7, <2>1, <2>4 DEF Advance, PollAdvance
    <3>2. \/ tx' = tx
          \/ /\ tx.phase = "RETIRING" /\ tx'.phase \in {"READY", "FAULT_STOPPED"}
             /\ tx'.result = tx.result /\ tx'.attempt = tx.attempt
      BY <1>0, <3>1 DEF Retire, TxState
    <3>3. CASE tx' = tx
      BY <2>1, <3>1, <3>3 DEF DriverPhase, DriverResult
    <3>4. CASE tx.phase = "RETIRING" /\ tx'.phase = "READY" /\ tx' # tx
      BY <2>1, <3>1, <3>2, <3>4
      DEF Driver!DriverNext, Driver!DriverProgress, Driver!DriverRetired, DriverPhase, DriverResult, Active, Errors
    <3>5. CASE tx.phase = "RETIRING" /\ tx'.phase = "FAULT_STOPPED" /\ tx' # tx
      BY <2>1, <3>1, <3>2, <3>5
      DEF Driver!DriverNext, Driver!DriverProgress, Driver!DriverStop, DriverPhase, DriverResult, Active, Errors
    <3>6. QED
      BY <3>2, <3>3, <3>4, <3>5
  <2>5. QED
    BY <2>2, <2>3, <2>4
<1>8. CASE StartDecide
  <2>1. \/ tx' = tx
        \/ /\ tx.phase = "READY" /\ tx'.phase = "PREPARING"
           /\ tx'.result = tx.result /\ tx'.attempt = tx.attempt
    BY <1>0, <1>8 DEF StartDecide, TxState
  <2>2. QED
    BY <1>8, <2>1 DEF StartDecide, DriverPhase, DriverResult, Active, Errors
<1>9. CASE StartCommit
  <2>1. /\ tx.phase = "PREPARING" /\ tx'.phase = "FEEDING" /\ tx'.result = "PENDING"
        /\ tx'.attempt = NextAttempt(tx.attempt) /\ mode = "write"
        /\ frame' = buffer0 /\ UNCHANGED <<mode, buffer0, delivered>>
    BY <1>0, <1>9 DEF StartCommit, TxState, IInv, Control
  <2>2. Driver!DriverStart
    BY <2>1 DEF Driver!DriverStart, Driver!NextAttempt, NextAttempt, DriverPhase, DriverResult, Active, Errors
  <2>3. QED
    BY <2>2 DEF Driver!DriverNext
<1>10. CASE Cancel
  <2>1. CASE tx.phase = "RETIRING"
    BY <1>10, <2>1 DEF Cancel, Fail, DriverPhase, DriverResult
  <2>2. CASE tx.phase \in Active
    <3>1. /\ tx' = Fail(tx, "CANCELLED") /\ "CANCELLED" \in Errors
          /\ UNCHANGED <<mode, buffer0, frame, delivered>>
      BY <1>10 DEF Cancel, Errors
    <3>2. Driver!DriverAbort
      BY <1>0, <2>2, <3>1, FailRefines
    <3>3. QED
      BY <3>2 DEF Driver!DriverNext, Driver!DriverProgress
  <2>3. QED
    BY <1>10, <2>1, <2>2 DEF Cancel
<1>11. ASSUME NEW p \in Packets, WritePacket(p) PROVE Driver!DriverNext
  BY <1>11 DEF WritePacket, Driver!DriverNext, Driver!DriverWrite, DriverPhase, DriverResult
<1>12. ASSUME NEW m \in {"read", "write"}, SetMode(m) PROVE Driver!DriverNext
  <2>1. tx'.phase = "READY" /\ tx'.result = tx.result /\ tx'.attempt = tx.attempt
    BY <1>0, <1>12 DEF SetMode, MayLeave, TxState
  <2>2. Driver!DriverSetMode(m)
    BY <1>12, <2>1 DEF SetMode, MayLeave, Driver!DriverSetMode, DriverPhase, DriverResult, Active, Errors
  <2>3. QED
    BY <2>2 DEF Driver!DriverNext
<1>13. CASE UNCHANGED vars
  BY <1>13 DEF vars, DriverPhase, DriverResult
<1>14. QED
  BY <1>1, <1>2, <1>3, <1>4, <1>5, <1>6, <1>7, <1>8, <1>9, <1>10, <1>11, <1>12, <1>13 DEF Next

(* ImplementsDriver: what DmxTransport relies on is what the phase machine, *)
(* the interrupt handler and the owner's calls together do.                 *)
THEOREM TxImplementsDriver == Spec => ImplementsDriver
<1>1. Init => Driver!DriverInit
  BY InitRefines
<1>2. IInv /\ [Next]_vars => [Driver!DriverNext]_(Driver!dvars)
  BY StepRefines
<1>3. QED
  BY <1>1, <1>2, Inductive, PTL DEF Spec, ImplementsDriver, Driver!DriverSpec
=============================================================================
