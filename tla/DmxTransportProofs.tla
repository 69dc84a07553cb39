------------------------ MODULE DmxTransportProofs ------------------------
(***************************************************************************)
(* The transport, for any packets, ring and counters: its books agree with *)
(* the line, the ring holds what the line is owed, its driver calls are in *)
(* order however the driver has moved since the poll, and it implements    *)
(* TransportStaging. Then the restart, whose maintenance drives it.        *)
(***************************************************************************)
EXTENDS DeviceMaintenance, TLAPS

(* A port that is not ready works on the attempt the transport follows; it  *)
(* has not left the transport behind, nor has the transport forgotten it.   *)
Following ==
  /\ dphase # "ready" => inflight
  /\ dphase = "active" => dresult = "PENDING"
  /\ dphase \in {"retiring", "stopped"} => dresult = "FAILED"
  /\ inflight => /\ dattempt = active.attempt /\ active.gen = accepted
                 /\ dresult = "PENDING" => dphase = "active"

(* What a poll saw of the driver still holds where a call rests on it.      *)
Calling ==
  /\ pc \in {"cancel", "receive"} => ~want
  /\ pc \in {"receive", "send", "start"} => ~inflight
  /\ pc = "send" => want /\ ~can_start
  /\ pc = "service" /\ want /\ ~fault /\ can_start => dmode = "write"
  /\ pc = "start" => /\ want /\ ~fault /\ dmode = "write"
                     /\ published = Offered.gen /\ staged = Offered.packet
  /\ polled /\ ~want /\ ~fault /\ ~write_mode => dmode = "read"

Counted == completed <= started /\ started <= accepted /\ accepted <= published

(* The generations in the ring ascend, up to the one requested last.        *)
Ascending(q, top) ==
  \A i \in 1 .. Len(q) : q[i].gen <= top /\ \A j \in 1 .. i - 1 : q[j].gen < q[i].gen

(* A port that is to receive owes the line nothing.                         *)
LeftEmpty == ~want => barriers = <<>> /\ owed = <<>>

(* A packet sent under no barrier is older than any barrier in the ring.    *)
PlainOlder ==
  inflight /\ ~active.barrier => \A i \in 1 .. Len(barriers) : active.gen < barriers[i].gen

Ring ==
  /\ Ascending(barriers, requested)
  /\ published <= Offered.gen
  /\ LeftEmpty
  /\ PlainOlder

(* The line has carried the oldest barrier, and no poll has seen it yet.    *)
Paid == inflight /\ dresult = "COMPLETE" /\ PaysHead /\ Tail(barriers) = owed

(* An attempt for the oldest barrier in the ring pays for it, has paid for  *)
(* it, or has failed.                                                       *)
Paying ==
  /\ barriers = owed \/ Paid
  /\ paying => barriers = owed /\ dphase = "active" /\ PaysHead
  /\ inflight /\ PaysHead => paying \/ dresult = "FAILED" \/ Paid

(* A lost attempt that the transport has yet to see.                        *)
Unseen == IF inflight /\ dresult = "FAILED" THEN 1 ELSE 0

(* While the transport sends, it has counted every attempt that was lost;   *)
(* when it stops, the attempt under way is the last that may be.            *)
Budget ==
  /\ ~want \/ dresult = "COMPLETE" => streak = 0
  /\ ~fault => failures < MaxFailed /\ streak <= failures + Unseen
  /\ streak + (IF dphase = "active" THEN 1 ELSE 0) <= MaxFailed

IInv ==
  /\ TypeOK /\ Following /\ Calling /\ Counted /\ Ring /\ Paying /\ CompletedMeansCarried
  /\ Budget

----------------------------------------------------------------------------
(* The ring.                                                                *)

LEMMA GensNat == Gens \subseteq Nat
  BY TransportAssumption DEF Gens

LEMMA RingElement ==
  ASSUME NEW q \in Seq(Barrier), NEW i \in 1 .. Len(q)
  PROVE  q[i] \in Barrier /\ q[i].gen \in Nat
<1>1. q[i] \in Barrier
  OBVIOUS
<1>2. QED
  BY <1>1, GensNat DEF Barrier

LEMMA RingTail ==
  ASSUME NEW q \in Seq(Barrier), q # <<>>
  PROVE  /\ Head(q) \in Barrier /\ Head(q) = q[1]
         /\ Tail(q) \in Seq(Barrier) /\ Len(q) \in Nat \ {0} /\ Len(Tail(q)) = Len(q) - 1
         /\ \A i \in 1 .. Len(q) - 1 : Tail(q)[i] = q[i + 1]
         /\ Tail(q) # q
  OBVIOUS

LEMMA RingAppend ==
  ASSUME NEW q \in Seq(Barrier), NEW b \in Barrier
  PROVE  /\ q \o <<b>> \in Seq(Barrier) /\ Len(q \o <<b>>) = Len(q) + 1
         /\ \A i \in 1 .. Len(q) : (q \o <<b>>)[i] = q[i]
         /\ (q \o <<b>>)[Len(q) + 1] = b
         /\ q \o <<b>> # <<>>
  OBVIOUS

LEMMA RingAppendTail ==
  ASSUME NEW q \in Seq(Barrier), NEW b \in Barrier, q # <<>>
  PROVE  /\ Head(q \o <<b>>) = Head(q)
         /\ Tail(q \o <<b>>) = Tail(q) \o <<b>>
  OBVIOUS

LEMMA RingEmpty ==
  /\ <<>> \in Seq(Barrier) /\ Len(<<>>) = 0
  /\ \A b \in Barrier : <<>> \o <<b>> = <<b>>
  OBVIOUS

LEMMA RingNotEmpty ==
  ASSUME NEW q \in Seq(Barrier)
  PROVE  q \o <<>> = q /\ Len(q) \in Nat /\ (q = <<>> <=> Len(q) = 0)
  OBVIOUS

LEMMA AscendingTail ==
  ASSUME NEW q \in Seq(Barrier), NEW top \in Gens, q # <<>>, Ascending(q, top)
  PROVE  /\ Ascending(Tail(q), top)
         /\ \A i \in 1 .. Len(q) - 1 : Head(q).gen < Tail(q)[i].gen
  BY RingTail DEF Ascending

LEMMA AscendingAppend ==
  ASSUME NEW q \in Seq(Barrier), NEW top \in Gens, NEW b \in Barrier, top < b.gen,
         Ascending(q, top)
  PROVE  Ascending(q \o <<b>>, b.gen)
<1> DEFINE r == q \o <<b>>
<1>0. top \in Nat /\ b.gen \in Nat /\ \A i \in 1 .. Len(q) : q[i].gen \in Nat
  BY RingElement, GensNat DEF Barrier
<1>1. ASSUME NEW i \in 1 .. Len(r)
      PROVE  r[i].gen <= b.gen /\ \A j \in 1 .. i - 1 : r[j].gen < r[i].gen
  <2>1. CASE i \in 1 .. Len(q)
    <3>1. r[i] = q[i] /\ \A j \in 1 .. i - 1 : j \in 1 .. Len(q) /\ r[j] = q[j]
      BY <2>1, RingAppend
    <3>2. QED
      BY <1>0, <2>1, <3>1 DEF Ascending
  <2>2. CASE i = Len(q) + 1
    <3>1. r[i] = b /\ \A j \in 1 .. i - 1 : j \in 1 .. Len(q) /\ r[j] = q[j]
      BY <2>2, RingAppend
    <3>2. \A j \in 1 .. Len(q) : q[j].gen <= top
      BY DEF Ascending
    <3>3. QED
      BY <1>0, <3>1, <3>2
  <2>3. QED
    BY <2>1, <2>2, RingAppend
<1>2. QED
  BY <1>1 DEF Ascending

LEMMA AscendingMore ==
  ASSUME NEW q \in Seq(Barrier), NEW top \in Gens, NEW more \in Gens, top <= more,
         Ascending(q, top)
  PROVE  Ascending(q, more)
<1>1. top \in Nat /\ more \in Nat /\ \A i \in 1 .. Len(q) : q[i].gen \in Nat
  BY RingElement, GensNat
<1>2. QED
  BY <1>1 DEF Ascending

----------------------------------------------------------------------------
(* Types. TypeOK in parts, so that a step need only be shown to keep the   *)
(* part it disturbs: the ring and what is owed, ...                         *)
RingTyped ==
  barriers \in Seq(Barrier) /\ Len(barriers) <= BarrierCapacity /\ owed \in Seq(Barrier)

(* ... the generations, the failures and the attempt under way, ...          *)
CountersTyped ==
  /\ requested \in Gens /\ published \in Gens /\ accepted \in Gens
  /\ started \in Gens /\ completed \in Gens
  /\ failures \in 0 .. MaxFailed /\ streak \in Nat /\ active \in Flight

(* ... and the flags and the place in the poll.                              *)
FlagsTyped ==
  /\ want \in BOOLEAN /\ have \in BOOLEAN /\ latest \in Packets
  /\ fault \in BOOLEAN /\ retry \in BOOLEAN /\ inflight \in BOOLEAN
  /\ write_mode \in BOOLEAN /\ can_start \in BOOLEAN
  /\ pc \in Steps /\ serving \in BOOLEAN /\ paying \in BOOLEAN /\ polled \in BOOLEAN

LEMMA TypeParts == TypeOK <=> DriverTypeOK /\ RingTyped /\ CountersTyped /\ FlagsTyped
  BY DEF TypeOK, RingTyped, CountersTyped, FlagsTyped

LEMMA NextAttemptType ==
  ASSUME DriverTypeOK
  PROVE  NextAttempt(dattempt) \in 0 .. AttemptMod - 1
  BY DriverAssumption DEF DriverTypeOK, NextAttempt

LEMMA OfferedType ==
  ASSUME TypeOK
  PROVE  /\ Offered.gen \in Gens /\ Offered.packet \in Packets
         /\ Ascending(barriers, requested) => Offered.gen <= requested
<1>1. CASE barriers = <<>>
  BY <1>1 DEF TypeOK, Offered, Gens
<1>2. CASE barriers # <<>>
  <2>1. barriers[1] \in Barrier /\ 1 \in 1 .. Len(barriers) /\ Offered = barriers[1]
    BY <1>2, RingTail DEF TypeOK, Offered
  <2>2. QED
    BY <2>1 DEF Barrier, Ascending
<1>3. QED
  BY <1>1, <1>2

(* The barrier that a packet is staged as.                                  *)
NewBarrier(p) == [packet |-> p, gen |-> requested']

(* A packet is staged under a generation that is in use nowhere: when the   *)
(* count wraps, nothing is in flight and nothing is in the ring.            *)
StagedFresh(p, barrier) ==
  /\ NewBarrier(p) \in Barrier /\ NewBarrier(p).gen = requested'
  /\ requested' \in Nat /\ requested' \in Gens /\ requested' - 1 \in Gens
  /\ IF barrier
     THEN barriers' = barriers \o <<NewBarrier(p)>> /\ owed' = owed \o <<NewBarrier(p)>>
     ELSE barriers' = barriers /\ owed' = owed
  /\ Ascending(barriers, requested' - 1)
  /\ published' \in Nat /\ published' < requested'
  /\ completed' \in Nat /\ completed' < requested'
  /\ inflight => active.gen \in Nat /\ active.gen < requested'
  /\ barriers # <<>> \/ inflight => published' = published /\ completed' = completed
  /\ barriers = <<>> /\ ~inflight => owed = <<>>

LEMMA Numbers ==
  ASSUME IInv
  PROVE  /\ barriers \in Seq(Barrier) /\ owed \in Seq(Barrier)
         /\ requested \in Nat /\ published \in Nat /\ accepted \in Nat /\ started \in Nat
         /\ completed \in Nat /\ active.gen \in Nat /\ Offered.gen \in Nat
         /\ requested \in Gens
         /\ completed <= started /\ started <= accepted /\ accepted <= published
         /\ published <= requested /\ published <= Offered.gen /\ Offered.gen <= requested
<1>1. /\ barriers \in Seq(Barrier) /\ owed \in Seq(Barrier)
      /\ active.gen \in Gens /\ Offered.gen \in Gens
      /\ requested \in Gens /\ published \in Gens /\ accepted \in Gens /\ started \in Gens
      /\ completed \in Gens
  BY OfferedType DEF IInv, TypeOK, Flight
<1>2. /\ requested \in Nat /\ published \in Nat /\ accepted \in Nat /\ started \in Nat
      /\ completed \in Nat /\ active.gen \in Nat /\ Offered.gen \in Nat
  BY <1>1, GensNat
<1>3. Offered.gen <= requested /\ published <= Offered.gen
  BY OfferedType DEF IInv, Ring
<1>4. published <= requested
  BY <1>2, <1>3
<1>5. QED
  BY <1>1, <1>2, <1>3, <1>4 DEF IInv, Counted

LEMMA StageFresh ==
  ASSUME IInv, NEW p \in Packets, NEW barrier \in BOOLEAN, Stage(p, barrier)
  PROVE  StagedFresh(p, barrier)
<1> DEFINE top == requested' - 1
<1>1. /\ requested' \in Nat /\ requested' \in Gens /\ top \in Gens
      /\ requested # GenMax =>
           top = requested /\ published' = published /\ completed' = completed
      /\ requested = GenMax =>
           top = 0 /\ published' = 0 /\ completed' = 0 /\ barriers = <<>> /\ ~inflight
  <2>1. requested' = NextGen /\ GenMax \in Nat \ {0} /\ requested \in 0 .. GenMax
    BY Numbers, TransportAssumption DEF Stage, Gens
  <2>2. CASE requested = GenMax
    <3>1. requested' = 1 /\ published' = 0 /\ completed' = 0 /\ barriers = <<>> /\ ~inflight
      BY <2>1, <2>2 DEF Stage, CanStage, NextGen, Wrapped
    <3>2. QED
      BY <2>1, <2>2, <3>1 DEF Gens
  <2>3. CASE requested # GenMax
    <3>1. requested' = requested + 1 /\ published' = published /\ completed' = completed
      BY <2>1, <2>3 DEF Stage, NextGen, Wrapped
    <3>2. QED
      BY <2>1, <2>3, <3>1 DEF Gens
  <2>4. QED
    BY <2>2, <2>3
<1>2. NewBarrier(p) \in Barrier /\ NewBarrier(p).gen = requested'
  BY <1>1 DEF Barrier, NewBarrier
<1>3. IF barrier
      THEN barriers' = barriers \o <<NewBarrier(p)>> /\ owed' = owed \o <<NewBarrier(p)>>
      ELSE barriers' = barriers /\ owed' = owed
  BY Numbers, RingNotEmpty DEF Stage, NewBarrier
<1>4. Ascending(barriers, top)
  <2>1. CASE requested # GenMax
    BY <1>1, <2>1 DEF IInv, Ring
  <2>2. CASE requested = GenMax
    BY <1>1, <2>2, RingEmpty DEF Ascending
  <2>3. QED
    BY <2>1, <2>2
<1>5. /\ published' \in Nat /\ published' < requested'
      /\ completed' \in Nat /\ completed' < requested'
  <2>1. CASE requested # GenMax
    BY <1>1, <2>1, Numbers
  <2>2. CASE requested = GenMax
    BY <1>1, <2>2
  <2>3. QED
    BY <2>1, <2>2
<1>6. inflight => active.gen \in Nat /\ active.gen < requested'
  BY <1>1, Numbers DEF IInv, Following
<1>7. /\ barriers # <<>> \/ inflight => published' = published /\ completed' = completed
      /\ barriers = <<>> /\ ~inflight => owed = <<>>
  BY <1>1 DEF IInv, Paying, Paid
<1>8. QED
  BY <1>1, <1>2, <1>3, <1>4, <1>5, <1>6, <1>7 DEF StagedFresh

----------------------------------------------------------------------------
(* The invariant, action by action.                                         *)

LEMMA InitIInv == Init => IInv
<1> SUFFICES ASSUME Init PROVE IInv
  OBVIOUS
<1>1. TypeOK
  <2>1. DriverTypeOK
    BY DriverAssumption DEF Init, DriverInit, DriverTypeOK, Results
  <2>2. RingTyped
    BY RingEmpty, TransportAssumption DEF Init, RingTyped
  <2>3. CountersTyped
    BY DriverAssumption, TransportAssumption DEF Init, CountersTyped, Gens, Flight
  <2>4. FlagsTyped
    BY DriverAssumption DEF Init, FlagsTyped, Steps
  <2>5. QED
    BY <2>1, <2>2, <2>3, <2>4, TypeParts
<1>2. Following /\ Calling /\ Counted /\ Ring
  BY DEF Init, DriverInit, Following, Calling, Counted, Ring, LeftEmpty, PlainOlder,
         Ascending, Offered
<1>3. Paying /\ CompletedMeansCarried /\ Budget
  BY TransportAssumption
  DEF Init, DriverInit, Paying, CompletedMeansCarried, Budget, Unseen
<1>4. QED
  BY <1>1, <1>2, <1>3 DEF IInv

(* What a driver's own step may do.                                         *)
LEMMA DriverSteps ==
  ASSUME DriverTypeOK, DriverProgress
  PROVE  /\ DriverTypeOK' /\ UNCHANGED <<dmode, dattempt, staged, frame>>
         /\ dphase \in {"active", "retiring"}
         /\ \/ dphase = "active" /\ dphase' = "ready" /\ dresult' = "COMPLETE"
               /\ DriverComplete
            \/ dphase = "active" /\ dphase' \in {"retiring", "ready"} /\ dresult' = "FAILED"
               /\ ~DriverComplete
            \/ dphase = "retiring" /\ dphase' \in {"ready", "stopped"} /\ dresult' = dresult
               /\ ~DriverComplete
  BY DEF DriverTypeOK, Results, DriverProgress, DriverComplete, DriverAbort,
         DriverRetired, DriverStop

(* The transport and the port stay on the same attempt.                     *)
LEMMA FollowingStep ==
  ASSUME IInv, [Next]_vars
  PROVE  Following'
<1>1. ASSUME NEW p \in Packets, NEW barrier \in BOOLEAN, Stage(p, barrier)
      PROVE  Following'
  BY <1>1 DEF IInv, Following, Stage, CanStage, Wrapped, dvars, flight
<1>2. ASSUME NEW sender \in BOOLEAN, RequestSender(sender) PROVE Following'
  BY <1>2 DEF IInv, Following, RequestSender, dvars, health, flight
<1>3. ASSUME NEW service \in BOOLEAN, PollRefused(service) PROVE Following'
  BY <1>3 DEF IInv, Following, PollRefused, dvars, flight
<1>4. ASSUME NEW service \in BOOLEAN, PollFaults(service) PROVE Following'
  BY <1>4 DEF IInv, Following, PollFaults, dvars, flight
<1>5. ASSUME NEW service \in BOOLEAN, PollObserves(service) PROVE Following'
  BY <1>5 DEF IInv, Following, PollObserves, Ended, dvars
<1>6. CASE Cancel
  BY <1>6 DEF IInv, Following, Cancel, DriverAbort, dvars, health, flight
<1>7. ASSUME CancelRefused \/ SetReceiverRefused \/ SetSenderRefused PROVE Following'
  BY <1>7
  DEF IInv, Following, CancelRefused, SetReceiverRefused, SetSenderRefused, CallRefused,
      dvars, flight
<1>8. CASE SetReceiver
  BY <1>8 DEF IInv, Following, SetReceiver, DriverSetMode, health, flight
<1>9. CASE SetSender
  BY <1>9 DEF IInv, Following, SetSender, DriverSetMode, health, flight
<1>10. CASE NothingToSend
  BY <1>10 DEF IInv, Following, NothingToSend, dvars, health, flight
<1>11. CASE Write
  BY <1>11 DEF IInv, Following, Write, DriverWrite, flight
<1>12. CASE Start
  BY <1>12 DEF Following, Start, DriverStart
<1>13. CASE SendRefused
  BY <1>13 DEF IInv, Following, SendRefused, dvars, flight
<1>14. CASE DriverMoves
  BY <1>14, DriverSteps DEF IInv, Following, TypeOK, DriverMoves, health, flight
<1>15. CASE RetryDue
  BY <1>15 DEF IInv, Following, RetryDue, dvars, flight
<1>16. CASE UNCHANGED vars
  BY <1>16 DEF IInv, Following, vars, dvars, health, flight
<1>17. QED
  BY <1>1, <1>2, <1>3, <1>4, <1>5, <1>6, <1>7, <1>8, <1>9, <1>10, <1>11, <1>12, <1>13,
     <1>14, <1>15, <1>16
  DEF Next, Poll, Calls

(* The counters of Health stay ordered.                                     *)
LEMMA CountedStep ==
  ASSUME IInv, [Next]_vars
  PROVE  Counted'
<1>1. ASSUME NEW p \in Packets, NEW barrier \in BOOLEAN, Stage(p, barrier) PROVE Counted'
  BY <1>1 DEF IInv, Counted, Stage, Wrapped
<1>2. ASSUME NEW sender \in BOOLEAN, RequestSender(sender) PROVE Counted'
  BY <1>2 DEF IInv, Counted, RequestSender, health
<1>3. ASSUME NEW service \in BOOLEAN, PollRefused(service) PROVE Counted'
  BY <1>3 DEF IInv, Counted, PollRefused
<1>4. ASSUME NEW service \in BOOLEAN, PollFaults(service) PROVE Counted'
  BY <1>4 DEF IInv, Counted, Following, TypeOK, Gens, PollFaults, Fed
<1>5. ASSUME NEW service \in BOOLEAN, PollObserves(service) PROVE Counted'
  BY <1>5, OfferedType
  DEF IInv, Counted, Following, TypeOK, Gens, PollObserves, Fed, Ended, Succeeded
<1>6. CASE Cancel
  BY <1>6 DEF IInv, Counted, Cancel, health
<1>7. ASSUME CancelRefused \/ SetReceiverRefused \/ SetSenderRefused PROVE Counted'
  BY <1>7
  DEF IInv, Counted, CancelRefused, SetReceiverRefused, SetSenderRefused, CallRefused
<1>8. CASE SetReceiver
  BY <1>8 DEF IInv, Counted, SetReceiver, health
<1>9. CASE SetSender
  BY <1>9 DEF IInv, Counted, SetSender, health
<1>10. CASE NothingToSend
  BY <1>10 DEF IInv, Counted, NothingToSend, health
<1>11. CASE Write
  BY <1>11, OfferedType DEF IInv, Counted, Ring, TypeOK, Gens, Write
<1>12. CASE Start
  BY <1>12 DEF IInv, Counted, Calling, TypeOK, Gens, Start
<1>13. CASE SendRefused
  BY <1>13 DEF IInv, Counted, SendRefused
<1>14. CASE DriverMoves
  BY <1>14 DEF IInv, Counted, DriverMoves, health
<1>15. CASE RetryDue
  BY <1>15 DEF IInv, Counted, RetryDue
<1>16. CASE UNCHANGED vars
  BY <1>16 DEF IInv, Counted, vars, health
<1>17. QED
  BY <1>1, <1>2, <1>3, <1>4, <1>5, <1>6, <1>7, <1>8, <1>9, <1>10, <1>11, <1>12, <1>13,
     <1>14, <1>15, <1>16
  DEF Next, Poll, Calls

(* No more attempts are lost in a row than maximumFailures.                 *)
LEMMA BudgetStep ==
  ASSUME IInv, [Next]_vars
  PROVE  Budget'
<1>1. ASSUME NEW p \in Packets, NEW barrier \in BOOLEAN, Stage(p, barrier) PROVE Budget'
  BY <1>1 DEF IInv, Budget, Unseen, Stage, dvars, flight
<1>2. ASSUME NEW sender \in BOOLEAN, RequestSender(sender) PROVE Budget'
  BY <1>2, TransportAssumption DEF IInv, Budget, Unseen, TypeOK, RequestSender, health
<1>3. ASSUME NEW service \in BOOLEAN, PollRefused(service) PROVE Budget'
  BY <1>3 DEF IInv, Budget, PollRefused, FailForGood, dvars
<1>4. ASSUME NEW service \in BOOLEAN, PollFaults(service) PROVE Budget'
  BY <1>4 DEF IInv, Budget, PollFaults, FailForGood, dvars
<1>5. ASSUME NEW service \in BOOLEAN, PollObserves(service) PROVE Budget'
  BY <1>5, TransportAssumption
  DEF IInv, Budget, Unseen, TypeOK, PollObserves, Succeeded, CountFailure, MoreFailures,
      Exhausted, dvars
<1>6. CASE Cancel
  BY <1>6, TransportAssumption
  DEF IInv, Budget, Unseen, Calling, TypeOK, Cancel, health, history
<1>7. ASSUME CancelRefused \/ SetReceiverRefused \/ SetSenderRefused PROVE Budget'
  BY <1>7
  DEF IInv, Budget, CancelRefused, SetReceiverRefused, SetSenderRefused, CallRefused,
      dvars, history
<1>8. CASE SetReceiver
  BY <1>8, TransportAssumption
  DEF IInv, Budget, Unseen, Calling, TypeOK, SetReceiver, health, history
<1>9. CASE SetSender
  BY <1>9
  DEF IInv, Budget, Unseen, Calling, TypeOK, SetSender, DriverSetMode, health, history
<1>10. CASE NothingToSend
  BY <1>10 DEF IInv, Budget, Unseen, NothingToSend, dvars, health, flight, history
<1>11. CASE Write
  BY <1>11 DEF IInv, Budget, Unseen, TypeOK, Write, MaySend, DriverWrite, history
<1>12. CASE Start
  BY <1>12, TransportAssumption
  DEF IInv, Budget, Unseen, Calling, TypeOK, Start, DriverStart
<1>13. CASE SendRefused
  BY <1>13, TransportAssumption
  DEF IInv, Budget, Unseen, Calling, TypeOK, SendRefused, MaySend, CountFailure,
      MoreFailures, Exhausted, dvars, history
<1>14. CASE DriverMoves
  BY <1>14, DriverSteps, TransportAssumption
  DEF IInv, Budget, Unseen, Following, TypeOK, DriverMoves, health, flight
<1>15. CASE RetryDue
  BY <1>15 DEF IInv, Budget, Unseen, RetryDue, dvars, flight, history
<1>16. CASE UNCHANGED vars
  BY <1>16 DEF IInv, Budget, Unseen, vars, dvars, health, flight, history
<1>17. QED
  BY <1>1, <1>2, <1>3, <1>4, <1>5, <1>6, <1>7, <1>8, <1>9, <1>10, <1>11, <1>12, <1>13,
     <1>14, <1>15, <1>16
  DEF Next, Poll, Calls

(* No step leaves a call resting on what is no longer so.                   *)
LEMMA CallingStep ==
  ASSUME IInv, [Next]_vars
  PROVE  Calling'
<1>1. ASSUME NEW p \in Packets, NEW barrier \in BOOLEAN, Stage(p, barrier) PROVE Calling'
  BY <1>1 DEF Calling, Stage, CanStage
<1>2. ASSUME NEW sender \in BOOLEAN, RequestSender(sender) PROVE Calling'
  BY <1>2 DEF Calling, RequestSender
<1>3. ASSUME NEW service \in BOOLEAN, PollRefused(service) PROVE Calling'
  BY <1>3 DEF Calling, PollRefused, FailForGood, GoOn
<1>4. ASSUME NEW service \in BOOLEAN, PollFaults(service) PROVE Calling'
  BY <1>4 DEF Calling, PollFaults, FailForGood, GoOn
<1>5. ASSUME NEW service \in BOOLEAN, PollObserves(service) PROVE Calling'
  BY <1>5 DEF IInv, Calling, TypeOK, DriverTypeOK, PollObserves, Ended, GoOn, dvars
<1>6. CASE Cancel
  BY <1>6 DEF IInv, Calling, Cancel, GoOn, DriverAbort, dvars, health, status, history
<1>7. ASSUME CancelRefused \/ SetReceiverRefused \/ SetSenderRefused PROVE Calling'
  BY <1>7
  DEF Calling, CancelRefused, SetReceiverRefused, SetSenderRefused, CallRefused, GoOn
<1>8. CASE SetReceiver
  BY <1>8 DEF IInv, Calling, SetReceiver, DriverSetMode, GoOn
<1>9. CASE SetSender
  BY <1>9 DEF IInv, Calling, SetSender, DriverSetMode, GoOn
<1>10. CASE NothingToSend
  BY <1>10 DEF IInv, Calling, NothingToSend, dvars, health, status, history
<1>11. CASE Write
  BY <1>11 DEF Calling, Offered, Write, MaySend, DriverWrite, queue, flight
<1>12. CASE Start
  BY <1>12 DEF IInv, Calling, Start
<1>13. CASE SendRefused
  BY <1>13 DEF IInv, Calling, SendRefused, MaySend
<1>14. CASE DriverMoves
  BY <1>14, DriverSteps DEF IInv, Calling, Following, TypeOK, DriverMoves, health, status
<1>15. CASE RetryDue
  BY <1>15 DEF IInv, Calling, RetryDue, dvars, status, history
<1>16. CASE UNCHANGED vars
  BY <1>16 DEF IInv, Calling, Offered, vars, dvars, queue, health, flight, status, history
<1>17. QED
  BY <1>1, <1>2, <1>3, <1>4, <1>5, <1>6, <1>7, <1>8, <1>9, <1>10, <1>11, <1>12, <1>13,
     <1>14, <1>15, <1>16
  DEF Next, Poll, Calls

(* The driver keeps its types.                                              *)
LEMMA DriverTypeStep ==
  ASSUME IInv, [Next]_vars
  PROVE  DriverTypeOK'
<1>1. ASSUME NEW p \in Packets, NEW barrier \in BOOLEAN, Stage(p, barrier)
      PROVE  DriverTypeOK'
  BY <1>1 DEF IInv, TypeOK, DriverTypeOK, Stage, dvars
<1>2. ASSUME NEW sender \in BOOLEAN, RequestSender(sender) PROVE DriverTypeOK'
  BY <1>2 DEF IInv, TypeOK, DriverTypeOK, RequestSender, dvars
<1>3. ASSUME NEW service \in BOOLEAN, PollRefused(service) PROVE DriverTypeOK'
  BY <1>3 DEF IInv, TypeOK, DriverTypeOK, PollRefused, dvars
<1>4. ASSUME NEW service \in BOOLEAN, PollFaults(service) PROVE DriverTypeOK'
  BY <1>4 DEF IInv, TypeOK, DriverTypeOK, PollFaults, dvars
<1>5. ASSUME NEW service \in BOOLEAN, PollObserves(service) PROVE DriverTypeOK'
  BY <1>5 DEF IInv, TypeOK, DriverTypeOK, PollObserves, dvars
<1>6. CASE Cancel
  BY <1>6 DEF IInv, TypeOK, DriverTypeOK, Results, Cancel, DriverAbort, dvars
<1>7. ASSUME CancelRefused \/ SetReceiverRefused \/ SetSenderRefused PROVE DriverTypeOK'
  BY <1>7
  DEF IInv, TypeOK, DriverTypeOK, CancelRefused, SetReceiverRefused, SetSenderRefused,
      CallRefused, dvars
<1>8. CASE SetReceiver
  BY <1>8 DEF IInv, TypeOK, DriverTypeOK, SetReceiver, DriverSetMode
<1>9. CASE SetSender
  BY <1>9, DriverAssumption DEF IInv, TypeOK, DriverTypeOK, SetSender, DriverSetMode
<1>10. CASE NothingToSend
  BY <1>10 DEF IInv, TypeOK, DriverTypeOK, NothingToSend, dvars
<1>11. CASE Write
  BY <1>11, OfferedType DEF IInv, TypeOK, DriverTypeOK, Write, DriverWrite
<1>12. CASE Start
  BY <1>12, NextAttemptType DEF IInv, TypeOK, DriverTypeOK, Results, Start, DriverStart
<1>13. CASE SendRefused
  BY <1>13 DEF IInv, TypeOK, DriverTypeOK, SendRefused, dvars
<1>14. CASE DriverMoves
  BY <1>14, DriverSteps DEF IInv, TypeOK, DriverMoves
<1>15. CASE RetryDue
  BY <1>15 DEF IInv, TypeOK, DriverTypeOK, RetryDue, dvars
<1>16. CASE UNCHANGED vars
  BY <1>16 DEF IInv, TypeOK, DriverTypeOK, vars, dvars
<1>17. QED
  BY <1>1, <1>2, <1>3, <1>4, <1>5, <1>6, <1>7, <1>8, <1>9, <1>10, <1>11, <1>12, <1>13,
     <1>14, <1>15, <1>16
  DEF Next, Poll, Calls

(* The ring keeps its capacity.                                             *)
LEMMA RingTypedStep ==
  ASSUME IInv, [Next]_vars
  PROVE  RingTyped'
<1>0. RingTyped
  BY TypeParts DEF IInv
<1>1. ASSUME NEW p \in Packets, NEW barrier \in BOOLEAN, Stage(p, barrier)
      PROVE  RingTyped'
  <2>0. StagedFresh(p, barrier)
    BY <1>1, StageFresh
  <2>1. barrier => Len(barriers) < BarrierCapacity
    BY <1>1 DEF Stage, CanStage
  <2>2. CASE barrier
    <3>1. /\ barriers' \in Seq(Barrier) /\ owed' \in Seq(Barrier)
          /\ Len(barriers') = Len(barriers) + 1 /\ Len(barriers) \in Nat
      BY <1>0, <2>0, <2>2, RingAppend, RingNotEmpty DEF RingTyped, StagedFresh
    <3>2. QED
      BY <2>1, <2>2, <3>1, TransportAssumption DEF RingTyped
  <2>3. CASE ~barrier
    BY <1>0, <2>0, <2>3 DEF RingTyped, StagedFresh
  <2>4. QED
    BY <2>2, <2>3
<1>2. ASSUME NEW sender \in BOOLEAN, RequestSender(sender) PROVE RingTyped'
  <2>1. barriers' = barriers \/ barriers' = <<>>
    BY <1>2 DEF RequestSender
  <2>2. owed' = owed \/ owed' = <<>>
    BY <1>2 DEF RequestSender
  <2>3. barriers' \in Seq(Barrier) /\ Len(barriers') <= BarrierCapacity
    <3>1. CASE barriers' = barriers
      BY <1>0, <3>1 DEF RingTyped
    <3>2. CASE barriers' = <<>>
      BY <3>2, RingEmpty, TransportAssumption
    <3>3. QED
      BY <2>1, <3>1, <3>2
  <2>4. owed' \in Seq(Barrier)
    <3>1. CASE owed' = owed
      BY <1>0, <3>1 DEF RingTyped
    <3>2. CASE owed' = <<>>
      BY <3>2, RingEmpty
    <3>3. QED
      BY <2>2, <3>1, <3>2
  <2>5. QED
    BY <2>3, <2>4 DEF RingTyped
<1>3. ASSUME NEW service \in BOOLEAN, PollRefused(service) PROVE RingTyped'
  BY <1>0, <1>3 DEF RingTyped, PollRefused, queue
<1>4. ASSUME NEW service \in BOOLEAN, PollFaults(service) PROVE RingTyped'
  BY <1>0, <1>4 DEF RingTyped, PollFaults, queue
<1>5. ASSUME NEW service \in BOOLEAN, PollObserves(service) PROVE RingTyped'
  <2>1. /\ barriers' = barriers \/ (barriers # <<>> /\ barriers' = Tail(barriers))
        /\ owed' = owed
    BY <1>5 DEF PollObserves, PaysHead
  <2>2. CASE barriers' = barriers
    BY <1>0, <2>1, <2>2 DEF RingTyped
  <2>3. CASE barriers # <<>> /\ barriers' = Tail(barriers)
    <3>1. /\ barriers' \in Seq(Barrier) /\ Len(barriers') = Len(barriers) - 1
          /\ Len(barriers) \in Nat \ {0}
      BY <1>0, <2>3, RingTail DEF RingTyped
    <3>2. QED
      BY <1>0, <2>1, <3>1, TransportAssumption DEF RingTyped
  <2>4. QED
    BY <2>1, <2>2, <2>3
<1>6. CASE Cancel
  BY <1>0, <1>6 DEF RingTyped, Cancel, queue, history
<1>7. ASSUME CancelRefused \/ SetReceiverRefused \/ SetSenderRefused PROVE RingTyped'
  BY <1>0, <1>7
  DEF RingTyped, CancelRefused, SetReceiverRefused, SetSenderRefused, CallRefused, queue,
      history
<1>8. CASE SetReceiver
  BY <1>0, <1>8 DEF RingTyped, SetReceiver, queue, history
<1>9. CASE SetSender
  BY <1>0, <1>9 DEF RingTyped, SetSender, queue, history
<1>10. CASE NothingToSend
  BY <1>0, <1>10 DEF RingTyped, NothingToSend, queue, history
<1>11. CASE Write
  BY <1>0, <1>11 DEF RingTyped, Write, queue, history
<1>12. CASE Start
  BY <1>0, <1>12 DEF RingTyped, Start, queue
<1>13. CASE SendRefused
  BY <1>0, <1>13 DEF RingTyped, SendRefused, queue, history
<1>14. CASE DriverMoves
  <2>1. barriers' = barriers /\ (owed' = owed \/ (owed # <<>> /\ owed' = Tail(owed)))
    BY <1>14 DEF DriverMoves, queue, IInv, Paying, PaysHead
  <2>2. QED
    BY <1>0, <2>1, RingTail DEF RingTyped
<1>15. CASE RetryDue
  BY <1>0, <1>15 DEF RingTyped, RetryDue, queue, history
<1>16. CASE UNCHANGED vars
  BY <1>0, <1>16 DEF RingTyped, vars, queue, history
<1>17. QED
  BY <1>1, <1>2, <1>3, <1>4, <1>5, <1>6, <1>7, <1>8, <1>9, <1>10, <1>11, <1>12, <1>13,
     <1>14, <1>15, <1>16
  DEF Next, Poll, Calls

(* The generations wrap inside Gens, the failures stop at MaxFailed.        *)
LEMMA CountersTypedStep ==
  ASSUME IInv, [Next]_vars
  PROVE  CountersTyped'
<1>0. DriverTypeOK /\ CountersTyped /\ TypeOK
  BY TypeParts DEF IInv
<1>1. ASSUME NEW p \in Packets, NEW barrier \in BOOLEAN, Stage(p, barrier)
      PROVE  CountersTyped'
  BY <1>0, <1>1, TransportAssumption
  DEF CountersTyped, Gens, Stage, NextGen, Wrapped, flight
<1>2. ASSUME NEW sender \in BOOLEAN, RequestSender(sender) PROVE CountersTyped'
  BY <1>0, <1>2 DEF CountersTyped, RequestSender, health, flight
<1>3. ASSUME NEW service \in BOOLEAN, PollRefused(service) PROVE CountersTyped'
  BY <1>0, <1>3, TransportAssumption
  DEF CountersTyped, PollRefused, FailForGood, MoreFailures, queue, flight
<1>4. ASSUME NEW service \in BOOLEAN, PollFaults(service) PROVE CountersTyped'
  BY <1>0, <1>4, TransportAssumption
  DEF CountersTyped, Flight, PollFaults, FailForGood, MoreFailures, queue, flight
<1>5. ASSUME NEW service \in BOOLEAN, PollObserves(service) PROVE CountersTyped'
  BY <1>0, <1>5, TransportAssumption
  DEF IInv, CountersTyped, Flight, PollObserves, CountFailure, MoreFailures
<1>6. CASE Cancel
  BY <1>0, <1>6 DEF CountersTyped, Cancel, health, flight, history
<1>7. ASSUME CancelRefused \/ SetReceiverRefused \/ SetSenderRefused PROVE CountersTyped'
  <2>1. /\ failures' = MoreFailures
        /\ UNCHANGED <<requested, published, accepted, started, completed, streak, active>>
    BY <1>7
    DEF CancelRefused, SetReceiverRefused, SetSenderRefused, CallRefused, queue, flight,
        history
  <2>2. QED
    BY <1>0, <2>1, TransportAssumption DEF CountersTyped, MoreFailures
<1>8. CASE SetReceiver
  BY <1>0, <1>8 DEF CountersTyped, SetReceiver, health, flight, history
<1>9. CASE SetSender
  BY <1>0, <1>9 DEF CountersTyped, SetSender, health, flight, history
<1>10. CASE NothingToSend
  BY <1>0, <1>10 DEF CountersTyped, NothingToSend, health, flight, history
<1>11. CASE Write
  BY <1>0, <1>11, OfferedType DEF CountersTyped, Write, queue, flight, history
<1>12. CASE Start
  BY <1>0, <1>12, OfferedType, NextAttemptType
  DEF CountersTyped, Flight, Start, DriverStart, queue
<1>13. CASE SendRefused
  BY <1>0, <1>13, TransportAssumption
  DEF CountersTyped, SendRefused, CountFailure, MoreFailures, queue, flight, history
<1>14. CASE DriverMoves
  BY <1>0, <1>14 DEF CountersTyped, DriverMoves, health, flight
<1>15. CASE RetryDue
  BY <1>0, <1>15 DEF CountersTyped, RetryDue, queue, flight, history
<1>16. CASE UNCHANGED vars
  BY <1>0, <1>16 DEF CountersTyped, vars, health, flight, history
<1>17. QED
  BY <1>1, <1>2, <1>3, <1>4, <1>5, <1>6, <1>7, <1>8, <1>9, <1>10, <1>11, <1>12, <1>13,
     <1>14, <1>15, <1>16
  DEF Next, Poll, Calls

(* The flags and the place in the poll keep their types.                    *)
LEMMA FlagsTypedStep ==
  ASSUME IInv, [Next]_vars
  PROVE  FlagsTyped'
<1>0. FlagsTyped
  BY TypeParts DEF IInv
<1>1. ASSUME NEW p \in Packets, NEW barrier \in BOOLEAN, Stage(p, barrier)
      PROVE  FlagsTyped'
  BY <1>0, <1>1 DEF FlagsTyped, Stage, flight, status
<1>2. ASSUME NEW sender \in BOOLEAN, RequestSender(sender) PROVE FlagsTyped'
  BY <1>0, <1>2 DEF FlagsTyped, RequestSender, health, flight, status
<1>3. ASSUME NEW service \in BOOLEAN, PollRefused(service) PROVE FlagsTyped'
  BY <1>0, <1>3
  DEF FlagsTyped, Steps, PollRefused, FailForGood, GoOn, queue, flight, status
<1>4. ASSUME NEW service \in BOOLEAN, PollFaults(service) PROVE FlagsTyped'
  BY <1>0, <1>4 DEF FlagsTyped, Steps, PollFaults, FailForGood, GoOn, queue, flight
<1>5. ASSUME NEW service \in BOOLEAN, PollObserves(service) PROVE FlagsTyped'
  BY <1>0, <1>5 DEF FlagsTyped, Steps, PollObserves, CountFailure, GoOn
<1>6. CASE Cancel
  BY <1>0, <1>6
  DEF FlagsTyped, Steps, Cancel, GoOn, queue, health, flight, status, history
<1>7. ASSUME CancelRefused \/ SetReceiverRefused \/ SetSenderRefused PROVE FlagsTyped'
  BY <1>0, <1>7
  DEF FlagsTyped, Steps, CancelRefused, SetReceiverRefused, SetSenderRefused, CallRefused,
      GoOn, queue, health, flight, status, history
<1>8. CASE SetReceiver
  BY <1>0, <1>8 DEF FlagsTyped, Steps, SetReceiver, GoOn, queue, health, flight, history
<1>9. CASE SetSender
  BY <1>0, <1>9
  DEF FlagsTyped, Steps, SetSender, GoOn, queue, health, flight, status, history
<1>10. CASE NothingToSend
  BY <1>0, <1>10
  DEF FlagsTyped, Steps, NothingToSend, queue, health, flight, status, history
<1>11. CASE Write
  BY <1>0, <1>11 DEF FlagsTyped, Steps, Write, queue, flight, status, history
<1>12. CASE Start
  BY <1>0, <1>12 DEF FlagsTyped, Steps, Start, queue, status
<1>13. CASE SendRefused
  BY <1>0, <1>13
  DEF FlagsTyped, Steps, SendRefused, CountFailure, queue, flight, status, history
<1>14. CASE DriverMoves
  BY <1>0, <1>14 DEF FlagsTyped, DriverMoves, queue, health, flight, status
<1>15. CASE RetryDue
  BY <1>0, <1>15 DEF FlagsTyped, RetryDue, queue, flight, status, history
<1>16. CASE UNCHANGED vars
  BY <1>0, <1>16 DEF FlagsTyped, vars, queue, health, flight, status, history
<1>17. QED
  BY <1>1, <1>2, <1>3, <1>4, <1>5, <1>6, <1>7, <1>8, <1>9, <1>10, <1>11, <1>12, <1>13,
     <1>14, <1>15, <1>16
  DEF Next, Poll, Calls

(* The generations in the ring ascend, over a wrap as well.                 *)
LEMMA AscendingStep ==
  ASSUME IInv, [Next]_vars
  PROVE  Ascending(barriers, requested)'
<1>0. /\ barriers \in Seq(Barrier) /\ owed \in Seq(Barrier)
      /\ requested \in Nat /\ requested \in Gens /\ published \in Nat /\ completed \in Nat
      /\ active.gen \in Nat
  BY Numbers
<1>1. ASSUME NEW p \in Packets, NEW barrier \in BOOLEAN, Stage(p, barrier)
      PROVE  Ascending(barriers, requested)'
  <2>0. StagedFresh(p, barrier)
    BY <1>1, StageFresh
  <2>1. CASE barrier
    <3>1. Ascending(barriers \o <<NewBarrier(p)>>, requested')
      BY <1>0, <1>1, <2>0, AscendingAppend DEF StagedFresh
    <3>2. QED
      BY <1>1, <2>1, <3>1, <2>0 DEF StagedFresh
  <2>2. CASE ~barrier
    BY <1>0, <1>1, <2>2, <2>0, AscendingMore DEF StagedFresh
  <2>3. QED
    BY <2>1, <2>2
<1>2. ASSUME NEW sender \in BOOLEAN, RequestSender(sender)
      PROVE  Ascending(barriers, requested)'
  <2>1. Ascending(<<>>, requested)
    BY RingEmpty DEF Ascending
  <2>2. QED
    BY <1>2, <2>1 DEF RequestSender, health, IInv, Ring
<1>3. ASSUME NEW service \in BOOLEAN, PollRefused(service)
      PROVE  Ascending(barriers, requested)'
  BY <1>3 DEF IInv, Ring, PollRefused, queue
<1>4. ASSUME NEW service \in BOOLEAN, PollFaults(service)
      PROVE  Ascending(barriers, requested)'
  BY <1>4 DEF IInv, Ring, PollFaults, queue
<1>5. ASSUME NEW service \in BOOLEAN, PollObserves(service)
      PROVE  Ascending(barriers, requested)'
  <2>1. /\ barriers' = barriers \/ (barriers # <<>> /\ barriers' = Tail(barriers))
        /\ requested' = requested
    BY <1>5 DEF PollObserves, PaysHead
  <2>2. QED
    BY <1>0, <2>1, AscendingTail DEF IInv, Ring
<1>6. CASE Cancel
  BY <1>6 DEF IInv, Ring, Cancel, queue
<1>7. ASSUME CancelRefused \/ SetReceiverRefused \/ SetSenderRefused
      PROVE  Ascending(barriers, requested)'
  BY <1>7
  DEF IInv, Ring, CancelRefused, SetReceiverRefused, SetSenderRefused, CallRefused, queue
<1>8. CASE SetReceiver
  BY <1>8 DEF IInv, Ring, SetReceiver, queue
<1>9. CASE SetSender
  BY <1>9 DEF IInv, Ring, SetSender, queue
<1>10. CASE NothingToSend
  BY <1>10 DEF IInv, Ring, NothingToSend, queue
<1>11. CASE Write
  BY <1>11 DEF IInv, Ring, Write, queue
<1>12. CASE Start
  BY <1>12 DEF IInv, Ring, Start, queue
<1>13. CASE SendRefused
  BY <1>13 DEF IInv, Ring, SendRefused, queue
<1>14. CASE DriverMoves
  BY <1>14 DEF IInv, Ring, DriverMoves, queue
<1>15. CASE RetryDue
  BY <1>15 DEF IInv, Ring, RetryDue, queue
<1>16. CASE UNCHANGED vars
  BY <1>16 DEF IInv, Ring, vars, queue
<1>17. QED
  BY <1>1, <1>2, <1>3, <1>4, <1>5, <1>6, <1>7, <1>8, <1>9, <1>10, <1>11, <1>12, <1>13,
     <1>14, <1>15, <1>16
  DEF Next, Poll, Calls

(* What is published is never newer than what is offered.                   *)
LEMMA OldestStep ==
  ASSUME IInv, [Next]_vars
  PROVE  (published <= Offered.gen)'
<1>0. /\ barriers \in Seq(Barrier) /\ owed \in Seq(Barrier)
      /\ requested \in Nat /\ requested \in Gens /\ published \in Nat /\ completed \in Nat
      /\ active.gen \in Nat
  BY Numbers
<1>1. ASSUME NEW p \in Packets, NEW barrier \in BOOLEAN, Stage(p, barrier)
      PROVE  (published <= Offered.gen)'
  <2>0. StagedFresh(p, barrier)
    BY <1>1, StageFresh
  <2>1. CASE barriers = <<>>
    <3>1. Offered'.gen = requested'
      BY <1>0, <1>1, <2>1, <2>0, RingEmpty DEF StagedFresh, Offered
    <3>2. QED
      BY <1>0, <1>1, <3>1, <2>0 DEF StagedFresh
  <2>2. CASE barriers # <<>>
    <3>1. barriers' # <<>> /\ Head(barriers') = Head(barriers)
      BY <1>0, <1>1, <2>2, <2>0, RingAppend, RingAppendTail DEF StagedFresh
    <3>2. QED
      BY <1>0, <1>1, <2>2, <3>1, <2>0 DEF StagedFresh, Offered, IInv, Ring
  <2>3. QED
    BY <2>1, <2>2
<1>2. ASSUME NEW sender \in BOOLEAN, RequestSender(sender)
      PROVE  (published <= Offered.gen)'
  <2>1. published <= requested
    BY Numbers
  <2>2. Offered'.gen \in {Offered.gen, requested} /\ published' = published
    BY <1>2 DEF RequestSender, health, Offered
  <2>3. QED
    BY <2>1, <2>2 DEF IInv, Ring
<1>3. ASSUME NEW service \in BOOLEAN, PollRefused(service)
      PROVE  (published <= Offered.gen)'
  BY <1>3 DEF IInv, Ring, Offered, PollRefused, queue
<1>4. ASSUME NEW service \in BOOLEAN, PollFaults(service)
      PROVE  (published <= Offered.gen)'
  BY <1>4 DEF IInv, Ring, Offered, PollFaults, queue
<1>5. ASSUME NEW service \in BOOLEAN, PollObserves(service)
      PROVE  (published <= Offered.gen)'
  <2>1. /\ barriers' = barriers \/ (barriers # <<>> /\ barriers' = Tail(barriers))
        /\ UNCHANGED <<requested, published, latest>>
    BY <1>5 DEF PollObserves, PaysHead
  <2>2. CASE barriers' = barriers
    BY <2>1, <2>2 DEF Offered, IInv, Ring
  <2>3. CASE barriers # <<>> /\ barriers' = Tail(barriers)
    <3>1. published <= Offered.gen /\ Offered.gen = Head(barriers).gen /\ Offered.gen \in Nat
          /\ Offered.gen <= requested
      BY <2>3, Numbers DEF Offered
    <3>2. CASE Tail(barriers) = <<>>
      BY <1>0, <2>1, <2>3, <3>1, <3>2 DEF Offered
    <3>3. CASE Tail(barriers) # <<>>
      <4>1. Tail(barriers) \in Seq(Barrier) /\ Head(Tail(barriers)) = Tail(barriers)[1]
            /\ 1 \in 1 .. Len(barriers) - 1
        BY <1>0, <2>3, <3>3, RingTail
      <4>2. Head(barriers).gen < Tail(barriers)[1].gen
        BY <1>0, <2>3, <4>1, AscendingTail DEF IInv, Ring
      <4>3. 1 \in 1 .. Len(Tail(barriers))
        BY <1>0, <2>3, <4>1, RingTail
      <4>4. Tail(barriers)[1].gen \in Nat
        BY <4>1, <4>3, RingElement
      <4>5. QED
        BY <1>0, <2>1, <2>3, <3>1, <3>3, <4>1, <4>2, <4>4 DEF Offered
    <3>4. QED
      BY <3>2, <3>3
  <2>4. QED
    BY <2>1, <2>2, <2>3
<1>6. CASE Cancel
  BY <1>6 DEF IInv, Ring, Offered, Cancel, queue, health
<1>7. ASSUME CancelRefused \/ SetReceiverRefused \/ SetSenderRefused
      PROVE  (published <= Offered.gen)'
  BY <1>7
  DEF IInv, Ring, Offered, CancelRefused, SetReceiverRefused, SetSenderRefused,
      CallRefused, queue
<1>8. CASE SetReceiver
  BY <1>8 DEF IInv, Ring, Offered, SetReceiver, queue, health
<1>9. CASE SetSender
  BY <1>9 DEF IInv, Ring, Offered, SetSender, queue, health
<1>10. CASE NothingToSend
  BY <1>10 DEF IInv, Ring, Offered, NothingToSend, queue, health
<1>11. CASE Write
  <2>1. Offered' = Offered /\ published' = Offered.gen
    BY <1>11 DEF Write, queue, Offered
  <2>2. QED
    BY <2>1, Numbers
<1>12. CASE Start
  BY <1>12 DEF IInv, Ring, Offered, Start, queue
<1>13. CASE SendRefused
  BY <1>13 DEF IInv, Ring, Offered, SendRefused, queue
<1>14. CASE DriverMoves
  BY <1>14 DEF IInv, Ring, Offered, DriverMoves, queue, health
<1>15. CASE RetryDue
  BY <1>15 DEF IInv, Ring, Offered, RetryDue, queue
<1>16. CASE UNCHANGED vars
  BY <1>16 DEF IInv, Ring, Offered, vars, queue, health
<1>17. QED
  BY <1>1, <1>2, <1>3, <1>4, <1>5, <1>6, <1>7, <1>8, <1>9, <1>10, <1>11, <1>12, <1>13,
     <1>14, <1>15, <1>16
  DEF Next, Poll, Calls

(* Leaving sender mode empties the ring.                                    *)
LEMMA LeftStep ==
  ASSUME IInv, [Next]_vars
  PROVE  LeftEmpty'
<1>1. ASSUME NEW p \in Packets, NEW barrier \in BOOLEAN, Stage(p, barrier)
      PROVE  LeftEmpty'
  BY <1>1 DEF Stage, CanStage, LeftEmpty
<1>2. ASSUME NEW sender \in BOOLEAN, RequestSender(sender) PROVE LeftEmpty'
  BY <1>2 DEF RequestSender, LeftEmpty
<1>3. ASSUME NEW service \in BOOLEAN, PollRefused(service) PROVE LeftEmpty'
  BY <1>3 DEF IInv, Ring, LeftEmpty, PollRefused, queue
<1>4. ASSUME NEW service \in BOOLEAN, PollFaults(service) PROVE LeftEmpty'
  BY <1>4 DEF IInv, Ring, LeftEmpty, PollFaults, queue
<1>5. ASSUME NEW service \in BOOLEAN, PollObserves(service) PROVE LeftEmpty'
  BY <1>5 DEF IInv, Ring, LeftEmpty, PollObserves
<1>6. CASE Cancel
  BY <1>6 DEF IInv, Ring, LeftEmpty, Cancel, queue, history
<1>7. ASSUME CancelRefused \/ SetReceiverRefused \/ SetSenderRefused PROVE LeftEmpty'
  BY <1>7
  DEF IInv, Ring, LeftEmpty, CancelRefused, SetReceiverRefused, SetSenderRefused,
      CallRefused, queue, history
<1>8. CASE SetReceiver
  BY <1>8 DEF IInv, Ring, LeftEmpty, SetReceiver, queue, history
<1>9. CASE SetSender
  BY <1>9 DEF IInv, Ring, LeftEmpty, SetSender, queue, history
<1>10. CASE NothingToSend
  BY <1>10 DEF IInv, Ring, LeftEmpty, NothingToSend, queue, history
<1>11. CASE Write
  BY <1>11 DEF Write, MaySend, LeftEmpty
<1>12. CASE Start
  BY <1>12 DEF IInv, Ring, LeftEmpty, Start, queue
<1>13. CASE SendRefused
  BY <1>13 DEF IInv, Ring, LeftEmpty, SendRefused, queue, history
<1>14. CASE DriverMoves
  BY <1>14 DEF IInv, Ring, LeftEmpty, DriverMoves, queue
<1>15. CASE RetryDue
  BY <1>15 DEF IInv, Ring, LeftEmpty, RetryDue, queue, history
<1>16. CASE UNCHANGED vars
  BY <1>16 DEF IInv, Ring, LeftEmpty, vars, queue, history
<1>17. QED
  BY <1>1, <1>2, <1>3, <1>4, <1>5, <1>6, <1>7, <1>8, <1>9, <1>10, <1>11, <1>12, <1>13,
     <1>14, <1>15, <1>16
  DEF Next, Poll, Calls

(* A latest-wins packet in flight is older than the barriers staged since.  *)
LEMMA PlainStep ==
  ASSUME IInv, [Next]_vars
  PROVE  PlainOlder'
<1>0. /\ barriers \in Seq(Barrier) /\ owed \in Seq(Barrier)
      /\ requested \in Nat /\ requested \in Gens /\ published \in Nat /\ completed \in Nat
      /\ active.gen \in Nat
  BY Numbers
<1>1. ASSUME NEW p \in Packets, NEW barrier \in BOOLEAN, Stage(p, barrier)
      PROVE  PlainOlder'
  <2>0. StagedFresh(p, barrier)
    BY <1>1, StageFresh
  <2> SUFFICES ASSUME inflight, ~active.barrier, NEW i \in 1 .. Len(barriers')
               PROVE  active.gen < barriers'[i].gen
    BY <1>1 DEF PlainOlder, Stage, flight
  <2>1. CASE i \in 1 .. Len(barriers)
    <3>1. barriers'[i] = barriers[i]
      BY <1>0, <1>1, <2>1, <2>0, RingAppend DEF StagedFresh
    <3>2. QED
      BY <2>1, <3>1 DEF IInv, Ring, PlainOlder
  <2>2. CASE i \notin 1 .. Len(barriers)
    <3>1. barriers'[i].gen = requested'
      BY <1>0, <1>1, <2>2, <2>0, RingAppend DEF StagedFresh
    <3>2. QED
      BY <1>0, <1>1, <3>1, <2>0 DEF StagedFresh
  <2>3. QED
    BY <2>1, <2>2
<1>2. ASSUME NEW sender \in BOOLEAN, RequestSender(sender) PROVE PlainOlder'
  BY <1>2 DEF IInv, Ring, PlainOlder, RequestSender, flight
<1>3. ASSUME NEW service \in BOOLEAN, PollRefused(service) PROVE PlainOlder'
  BY <1>3 DEF IInv, Ring, PlainOlder, PollRefused, queue, flight
<1>4. ASSUME NEW service \in BOOLEAN, PollFaults(service) PROVE PlainOlder'
  BY <1>4 DEF IInv, Ring, PlainOlder, PollFaults, queue, flight
<1>5. ASSUME NEW service \in BOOLEAN, PollObserves(service) PROVE PlainOlder'
  BY <1>5 DEF IInv, Ring, PlainOlder, PollObserves, Succeeded
<1>6. CASE Cancel
  BY <1>6 DEF IInv, Ring, PlainOlder, Cancel, queue, flight
<1>7. ASSUME CancelRefused \/ SetReceiverRefused \/ SetSenderRefused PROVE PlainOlder'
  BY <1>7
  DEF IInv, Ring, PlainOlder, CancelRefused, SetReceiverRefused, SetSenderRefused,
      CallRefused, queue, flight
<1>8. CASE SetReceiver
  BY <1>8 DEF IInv, Ring, PlainOlder, SetReceiver, queue, flight
<1>9. CASE SetSender
  BY <1>9 DEF IInv, Ring, PlainOlder, SetSender, queue, flight
<1>10. CASE NothingToSend
  BY <1>10 DEF IInv, Ring, PlainOlder, NothingToSend, queue, flight
<1>11. CASE Write
  BY <1>11 DEF Write, MaySend, flight, PlainOlder
<1>12. CASE Start
  <2>1. active'.barrier = (barriers # <<>>) /\ barriers' = barriers
    BY <1>12 DEF Start, queue
  <2>2. CASE barriers = <<>>
    <3>1. Len(barriers') = 0
      BY <2>1, <2>2, RingEmpty
    <3>2. QED
      BY <3>1 DEF PlainOlder
  <2>3. CASE barriers # <<>>
    BY <2>1, <2>3 DEF PlainOlder
  <2>4. QED
    BY <2>2, <2>3
<1>13. CASE SendRefused
  BY <1>13 DEF IInv, Ring, PlainOlder, SendRefused, queue, flight
<1>14. CASE DriverMoves
  BY <1>14 DEF IInv, Ring, PlainOlder, DriverMoves, queue, flight
<1>15. CASE RetryDue
  BY <1>15 DEF IInv, Ring, PlainOlder, RetryDue, queue, flight
<1>16. CASE UNCHANGED vars
  BY <1>16 DEF IInv, Ring, PlainOlder, vars, queue, flight
<1>17. QED
  BY <1>1, <1>2, <1>3, <1>4, <1>5, <1>6, <1>7, <1>8, <1>9, <1>10, <1>11, <1>12, <1>13,
     <1>14, <1>15, <1>16
  DEF Next, Poll, Calls

(* An attempt for the head of the ring is the one that pays for it.         *)
LEMMA PayingStep ==
  ASSUME IInv, [Next]_vars
  PROVE  Paying'
<1>0. /\ barriers \in Seq(Barrier) /\ owed \in Seq(Barrier)
      /\ requested \in Nat /\ requested \in Gens /\ published \in Nat /\ completed \in Nat
      /\ active.gen \in Nat
  BY Numbers
<1>1. ASSUME NEW p \in Packets, NEW barrier \in BOOLEAN, Stage(p, barrier) PROVE Paying'
  <2>0. StagedFresh(p, barrier)
    BY <1>1, StageFresh
  <2>1. UNCHANGED <<dphase, dresult, inflight, active, paying>>
    BY <1>1 DEF Stage, dvars, flight
  <2>2. CASE ~barrier
    BY <1>1, <2>1, <2>2, <2>0 DEF StagedFresh, IInv, Paying, Paid, PaysHead
  <2>3. CASE barrier /\ barriers = <<>>
    <3>1. barriers' = <<NewBarrier(p)>> /\ Head(barriers').gen = requested'
      BY <1>0, <1>1, <2>3, <2>0, RingEmpty DEF StagedFresh
    <3>2. inflight => ~PaysHead'
      BY <1>0, <1>1, <2>1, <3>1, <2>0 DEF StagedFresh, PaysHead
    <3>3. barriers = owed /\ ~paying
      BY <2>3 DEF IInv, Paying, Paid, PaysHead
    <3>4. barriers' = owed'
      BY <1>1, <2>3, <3>3, <2>0 DEF StagedFresh
    <3>5. QED
      BY <2>1, <3>2, <3>3, <3>4 DEF Paying
  <2>4. CASE barrier /\ barriers # <<>>
    <3>1. /\ Head(barriers') = Head(barriers) /\ barriers' # <<>>
          /\ Tail(barriers') = Tail(barriers) \o <<NewBarrier(p)>>
          /\ owed' = owed \o <<NewBarrier(p)>>
          /\ barriers' = barriers \o <<NewBarrier(p)>>
      BY <1>0, <1>1, <2>4, <2>0, RingAppend, RingAppendTail DEF StagedFresh
    <3>2. PaysHead' = PaysHead /\ (Paid => Paid')
      BY <2>1, <2>4, <3>1 DEF PaysHead, Paid
    <3>3. QED
      BY <2>1, <3>1, <3>2 DEF IInv, Paying
  <2>5. QED
    BY <2>2, <2>3, <2>4
<1>2. ASSUME NEW sender \in BOOLEAN, RequestSender(sender) PROVE Paying'
  BY <1>2 DEF IInv, Ring, LeftEmpty, Paying, PaysHead, RequestSender
<1>3. ASSUME NEW service \in BOOLEAN, PollRefused(service) PROVE Paying'
  BY <1>3 DEF IInv, Paying, Paid, PaysHead, PollRefused, dvars, queue, flight
<1>4. ASSUME NEW service \in BOOLEAN, PollFaults(service) PROVE Paying'
  BY <1>4 DEF IInv, Paying, Paid, Following, PollFaults, Mismatch, dvars, queue
<1>5. ASSUME NEW service \in BOOLEAN, PollObserves(service) PROVE Paying'
  BY <1>5 DEF IInv, Paying, Paid, PaysHead, PollObserves, Ended, Succeeded, dvars
<1>6. CASE Cancel
  BY <1>6 DEF IInv, Ring, LeftEmpty, Paying, PaysHead, Calling, Cancel, queue, history
<1>7. ASSUME CancelRefused \/ SetReceiverRefused \/ SetSenderRefused PROVE Paying'
  BY <1>7
  DEF IInv, Ring, LeftEmpty, Paying, Paid, PaysHead, Following, Calling, CancelRefused,
      SetReceiverRefused, SetSenderRefused, CallRefused, queue, flight, history
<1>8. CASE SetReceiver
  BY <1>8
  DEF IInv, Ring, LeftEmpty, Paying, PaysHead, Calling, SetReceiver, queue, history
<1>9. CASE SetSender
  BY <1>9 DEF IInv, Paying, Paid, Following, Calling, SetSender, queue, flight, history
<1>10. CASE NothingToSend
  BY <1>10 DEF IInv, Paying, Paid, PaysHead, NothingToSend, dvars, queue, flight, history
<1>11. CASE Write
  BY <1>11 DEF IInv, Paying, Paid, Following, Write, MaySend, queue, flight, history
<1>12. CASE Start
  <2>1. /\ active' = [gen |-> Offered.gen, attempt |-> dattempt', barrier |-> barriers # <<>>]
        /\ paying' = (owed # <<>>) /\ dphase' = "active" /\ UNCHANGED <<barriers, owed>>
    BY <1>12 DEF Start, DriverStart, queue
  <2>2. barriers = owed
    BY <1>12 DEF Start, IInv, Calling, Paying, Paid
  <2>3. PaysHead' <=> barriers # <<>>
    BY <2>1 DEF PaysHead, Offered
  <2>4. QED
    BY <2>1, <2>2, <2>3 DEF Paying
<1>13. CASE SendRefused
  BY <1>13
  DEF IInv, Paying, Paid, Following, Calling, SendRefused, MaySend, queue, flight, history
<1>14. CASE DriverMoves
  <2>1. /\ UNCHANGED <<barriers, inflight, active>> /\ PaysHead' = PaysHead
        /\ owed' = IF DriverComplete /\ paying THEN Tail(owed) ELSE owed
        /\ paying' = (paying /\ dphase' = "active")
    BY <1>14 DEF DriverMoves, queue, flight, PaysHead
  <2>2. DriverTypeOK /\ DriverProgress
    BY <1>14 DEF DriverMoves, IInv, TypeOK
  <2>3. CASE dphase = "active" /\ dphase' = "ready" /\ dresult' = "COMPLETE" /\ DriverComplete
    <3>1. inflight /\ ~Paid /\ barriers = owed /\ dresult = "PENDING"
      BY <2>3 DEF IInv, Following, Paying, Paid
    <3>2. CASE paying
      BY <2>1, <2>3, <3>1, <3>2 DEF IInv, Paying, Paid
    <3>3. CASE ~paying
      BY <2>1, <2>3, <3>1, <3>3 DEF IInv, Paying, Paid
    <3>4. QED
      BY <3>2, <3>3
  <2>4. CASE dphase = "active" /\ dresult' = "FAILED" /\ ~DriverComplete
    BY <2>1, <2>4 DEF IInv, Following, Paying, Paid
  <2>5. CASE dphase = "retiring" /\ dresult' = dresult /\ ~DriverComplete
    BY <2>1, <2>5 DEF IInv, Following, Paying, Paid
  <2>6. QED
    BY <2>2, <2>3, <2>4, <2>5, DriverSteps
<1>15. CASE RetryDue
  BY <1>15 DEF IInv, Paying, Paid, PaysHead, RetryDue, dvars, queue, flight, history
<1>16. CASE UNCHANGED vars
  BY <1>16 DEF IInv, Paying, Paid, PaysHead, vars, dvars, queue, flight, history
<1>17. QED
  BY <1>1, <1>2, <1>3, <1>4, <1>5, <1>6, <1>7, <1>8, <1>9, <1>10, <1>11, <1>12, <1>13,
     <1>14, <1>15, <1>16
  DEF Next, Poll, Calls

(* completed stays below every generation the line still owes.              *)
LEMMA CarriedStep ==
  ASSUME IInv, [Next]_vars
  PROVE  CompletedMeansCarried'
<1>0. /\ barriers \in Seq(Barrier) /\ owed \in Seq(Barrier)
      /\ requested \in Nat /\ requested \in Gens /\ published \in Nat /\ completed \in Nat
      /\ active.gen \in Nat
  BY Numbers
<1>1. ASSUME NEW p \in Packets, NEW barrier \in BOOLEAN, Stage(p, barrier)
      PROVE  CompletedMeansCarried'
  <2>0. StagedFresh(p, barrier)
    BY <1>1, StageFresh
  <2> SUFFICES ASSUME NEW i \in 1 .. Len(owed')
               PROVE  completed' < owed'[i].gen
    BY DEF CompletedMeansCarried
  <2>1. CASE i \in 1 .. Len(owed)
    <3>1. owed'[i] = owed[i] /\ owed # <<>>
      BY <1>0, <1>1, <2>1, <2>0, RingAppend, RingEmpty DEF StagedFresh
    <3>2. completed' = completed
      BY <1>1, <3>1, <2>0 DEF StagedFresh
    <3>3. QED
      BY <2>1, <3>1, <3>2 DEF IInv, CompletedMeansCarried
  <2>2. CASE i \notin 1 .. Len(owed)
    <3>1. owed'[i].gen = requested'
      BY <1>0, <1>1, <2>2, <2>0, RingAppend DEF StagedFresh
    <3>2. QED
      BY <1>0, <1>1, <3>1, <2>0 DEF StagedFresh
  <2>3. QED
    BY <2>1, <2>2
<1>2. ASSUME NEW sender \in BOOLEAN, RequestSender(sender) PROVE CompletedMeansCarried'
  <2>1. completed' = completed /\ (owed' = owed \/ owed' = <<>>)
    BY <1>2 DEF RequestSender, health
  <2>2. QED
    BY <2>1, RingEmpty DEF IInv, CompletedMeansCarried
<1>3. ASSUME NEW service \in BOOLEAN, PollRefused(service) PROVE CompletedMeansCarried'
  BY <1>3 DEF IInv, CompletedMeansCarried, PollRefused
<1>4. ASSUME NEW service \in BOOLEAN, PollFaults(service) PROVE CompletedMeansCarried'
  BY <1>4 DEF IInv, CompletedMeansCarried, PollFaults
<1>5. ASSUME NEW service \in BOOLEAN, PollObserves(service) PROVE CompletedMeansCarried'
  <2>1. owed' = owed /\ (completed' # completed => Succeeded /\ completed' = active.gen)
    BY <1>5 DEF PollObserves
  <2>2. SUFFICES ASSUME Succeeded, NEW i \in 1 .. Len(owed)
                 PROVE  active.gen < owed[i].gen
    BY <2>1 DEF IInv, CompletedMeansCarried
  <2>3. inflight /\ dphase = "ready" /\ dresult = "COMPLETE"
    BY <2>2 DEF Succeeded, Ended
  <2>4. CASE PaysHead
    <3>1. Paid
      BY <2>3, <2>4 DEF IInv, Paying
    <3>2. i \in 1 .. Len(barriers) - 1 /\ barriers # <<>> /\ Tail(barriers) = owed
      BY <1>0, <3>1, RingTail DEF Paid, PaysHead
    <3>3. QED
      BY <1>0, <2>4, <3>2, AscendingTail DEF IInv, Ring, PaysHead
  <2>5. CASE ~PaysHead
    <3>1. /\ barriers = owed /\ barriers # <<>> /\ 1 \in 1 .. Len(barriers)
          /\ Head(barriers) = barriers[1]
      BY <1>0, <2>5, RingTail, RingEmpty DEF IInv, Paying, Paid
    <3>2. CASE ~active.barrier
      BY <2>3, <3>1, <3>2 DEF IInv, Ring, PlainOlder
    <3>3. CASE active.barrier
      <4>1. active.gen # Head(barriers).gen
        BY <2>5, <3>1, <3>3 DEF PaysHead
      <4>2. Offered = Head(barriers) /\ active.gen = accepted
        BY <2>3, <3>1 DEF IInv, Following, Offered
      <4>3. active.gen <= Head(barriers).gen
        BY <4>2, Numbers
      <4>4. barriers[1].gen \in Nat /\ barriers[i].gen \in Nat
        BY <1>0, <3>1, RingElement
      <4>5. i = 1 \/ barriers[1].gen < barriers[i].gen
        BY <3>1 DEF IInv, Ring, Ascending
      <4>6. QED
        BY <1>0, <3>1, <4>1, <4>3, <4>4, <4>5
    <3>4. QED
      BY <3>2, <3>3
  <2>6. QED
    BY <2>4, <2>5
<1>6. CASE Cancel
  BY <1>6 DEF IInv, CompletedMeansCarried, Cancel, health, history
<1>7. ASSUME CancelRefused \/ SetReceiverRefused \/ SetSenderRefused
      PROVE  CompletedMeansCarried'
  BY <1>7
  DEF IInv, CompletedMeansCarried, CancelRefused, SetReceiverRefused, SetSenderRefused,
      CallRefused, history
<1>8. CASE SetReceiver
  BY <1>8 DEF IInv, CompletedMeansCarried, SetReceiver, health, history
<1>9. CASE SetSender
  BY <1>9 DEF IInv, CompletedMeansCarried, SetSender, health, history
<1>10. CASE NothingToSend
  BY <1>10 DEF IInv, CompletedMeansCarried, NothingToSend, health, history
<1>11. CASE Write
  BY <1>11 DEF IInv, CompletedMeansCarried, Write, history
<1>12. CASE Start
  BY <1>12 DEF IInv, CompletedMeansCarried, Start
<1>13. CASE SendRefused
  BY <1>13 DEF IInv, CompletedMeansCarried, SendRefused, history
<1>14. CASE DriverMoves
  <2>1. completed' = completed /\ (owed' = owed \/ (owed # <<>> /\ owed' = Tail(owed)))
    BY <1>14 DEF DriverMoves, health, IInv, Paying, PaysHead
  <2>2. CASE owed' = owed
    BY <2>1, <2>2 DEF IInv, CompletedMeansCarried
  <2>3. CASE owed # <<>> /\ owed' = Tail(owed)
    BY <1>0, <2>1, <2>3, RingTail DEF IInv, CompletedMeansCarried
  <2>4. QED
    BY <2>1, <2>2, <2>3
<1>15. CASE RetryDue
  BY <1>15 DEF IInv, CompletedMeansCarried, RetryDue, history
<1>16. CASE UNCHANGED vars
  BY <1>16 DEF IInv, CompletedMeansCarried, vars, health, history
<1>17. QED
  BY <1>1, <1>2, <1>3, <1>4, <1>5, <1>6, <1>7, <1>8, <1>9, <1>10, <1>11, <1>12, <1>13,
     <1>14, <1>15, <1>16
  DEF Next, Poll, Calls

LEMMA StepIInv == IInv /\ [Next]_vars => IInv'
<1> SUFFICES ASSUME IInv, [Next]_vars PROVE IInv'
  OBVIOUS
<1>1. TypeOK'
  BY DriverTypeStep, RingTypedStep, CountersTypedStep, FlagsTypedStep
  DEF TypeOK, RingTyped, CountersTyped, FlagsTyped
<1>2. Ring'
  BY AscendingStep, OldestStep, LeftStep, PlainStep DEF Ring
<1>3. QED
  BY <1>1, <1>2, FollowingStep, CallingStep, CountedStep, PayingStep, CarriedStep,
     BudgetStep
  DEF IInv

----------------------------------------------------------------------------
(* What follows for the transport.                                          *)

THEOREM TransportInductive == Spec => []IInv
<1>1. QED
  BY InitIInv, StepIInv, PTL DEF Spec

(* Bookkeeping: the counters of Health stay in their types and ordered, and *)
(* the budget of attempts is kept, whatever is staged, retried or dropped   *)
(* and however often the generations wrap (stage, poll, serviceTx, failed). *)
THEOREM BooksAreKept == Spec => []Bookkeeping
<1>1. IInv => TypeOK /\ HealthOrdered
  BY Numbers DEF IInv, HealthOrdered
<1>2. IInv => RetryBudget
  <2> SUFFICES ASSUME IInv PROVE streak <= MaxFailed
    BY DEF RetryBudget
  <2>1. streak \in Nat /\ streak + (IF dphase = "active" THEN 1 ELSE 0) <= MaxFailed
    BY DEF IInv, TypeOK, Budget
  <2>2. QED
    BY <2>1, TransportAssumption
<1>3. IInv => Bookkeeping
  BY <1>1, <1>2 DEF Bookkeeping
<1>4. QED
  BY <1>3, TransportInductive, PTL

(* RingIsOwed: barriers_ holds exactly the packets the line still owes, but *)
(* for the one a completion has paid that poll has not seen: no failure and *)
(* no retry loses a barrier or sends one twice.                             *)
THEOREM NoBarrierIsLost == Spec => []RingIsOwed
<1>1. IInv => RingIsOwed
  BY DEF IInv, Paying, Paid, PaysHead, RingIsOwed
<1>2. QED
  BY <1>1, TransportInductive, PTL

(* CompletedMeansCarried: completed_generation never reaches a barrier that *)
(* the line has not carried whole, which is what MaintenanceTransport waits *)
(* for before it restarts the device.                                       *)
THEOREM CompletionIsTrue == Spec => []CompletedMeansCarried
<1>1. IInv => CompletedMeansCarried
  BY DEF IInv
<1>2. QED
  BY <1>1, TransportInductive, PTL

(* DriverBelieved: receiverReady is true of the port, and no call reaches   *)
(* the driver out of order, though the driver moves on between the poll and *)
(* the call that rests on it.                                               *)
THEOREM PollsAreNotStale == Spec => []DriverBelieved
<1>1. IInv => ReceiverReadyTrue
  BY DEF IInv, Following, Calling, ReceiverReadyTrue, ReceiverReady, TypeOK, DriverTypeOK
<1>2. IInv => CallsInOrder
  BY DEF IInv, Following, Calling, CallsInOrder, MaySend, TypeOK, DriverTypeOK
<1>3. QED
  BY <1>1, <1>2, TransportInductive, PTL DEF DriverBelieved

(* A step that changes the attempt number is a start of what is offered.    *)
LEMMA OnlyStartStarts ==
  ASSUME IInv, [Next]_vars, dattempt' # dattempt
  PROVE  Start
<1>1. TypeOK /\ (DriverMoves => dattempt' = dattempt)
  BY DriverSteps DEF IInv, TypeOK, DriverMoves
<1>2. QED
  BY <1>1 DEF Next, vars, dvars, Stage, RequestSender, Poll, PollRefused, PollFaults,
    PollObserves, Calls, Cancel, DriverAbort, CancelRefused, SetReceiverRefused,
    SetSenderRefused, CallRefused, SetReceiver, SetSender, DriverSetMode, NothingToSend,
    Write, DriverWrite, SendRefused, RetryDue

(* BarriersFirst: serviceTx starts nothing but the oldest packet owed, or   *)
(* the latest one when none is, even after a refused start, a failed        *)
(* attempt, or a mode change between dmx_write_packet and the start.        *)
THEOREM OldestOwedGoesFirst == Spec => BarriersFirst
<1>1. IInv /\ [Next]_vars =>
        (dattempt' # dattempt =>
           frame' = IF owed # <<>> THEN Head(owed).packet ELSE latest)
  <2> SUFFICES ASSUME IInv, [Next]_vars, dattempt' # dattempt
               PROVE  frame' = IF owed # <<>> THEN Head(owed).packet ELSE latest
    OBVIOUS
  <2>1. Start
    BY OnlyStartStarts
  <2>2. frame' = Offered.packet /\ ~inflight
    BY <2>1 DEF Start, DriverStart, IInv, Calling
  <2>3. barriers = owed
    BY <2>2 DEF IInv, Paying, Paid
  <2>4. QED
    BY <2>2, <2>3 DEF Offered
<1>2. QED
  BY <1>1, TransportInductive, PTL DEF Spec, BarriersFirst

----------------------------------------------------------------------------
(* The transport implements TransportStaging.                               *)

LEMMA StagingSteps == IInv /\ [Next]_vars => [Staging!StagingNext]_(Staging!svars)
<1> SUFFICES ASSUME IInv, [Next]_vars PROVE [Staging!StagingNext]_(Staging!svars)
  OBVIOUS
<1> USE DEF Staging!svars
<1>0. barriers \in Seq(Barrier) /\ fault \in BOOLEAN
  BY DEF IInv, TypeOK
<1>1. ASSUME NEW p \in Packets, NEW barrier \in BOOLEAN, Stage(p, barrier)
      PROVE  Staging!StagingNext
  <2>1. StagedFresh(p, barrier)
    BY <1>1, StageFresh
  <2>2. Len(barriers') = IF barrier THEN Len(barriers) + 1 ELSE Len(barriers)
    BY <1>0, <2>1, RingAppend DEF StagedFresh
  <2>3. Staging!Stage(p, barrier)
    BY <1>1, <2>2 DEF Stage, CanStage, Staging!Stage, Staging!CanStage
  <2>4. QED
    BY <2>3 DEF Staging!StagingNext
<1>2. ASSUME NEW sender \in BOOLEAN, RequestSender(sender) PROVE Staging!StagingNext
  <2>1. Staging!RequestSender(sender)
    BY <1>2, RingEmpty DEF RequestSender, Staging!RequestSender, health, queue
  <2>2. QED
    BY <2>1 DEF Staging!StagingNext
<1>3. CASE UNCHANGED <<want, latest, barriers, fault>>
  BY <1>3
<1>4. CASE UNCHANGED <<want, latest, barriers>> /\ fault' = TRUE
  BY <1>0, <1>4 DEF Staging!StagingNext, Staging!Halt
<1>5. ASSUME NEW service \in BOOLEAN, PollObserves(service)
      PROVE  [Staging!StagingNext]_(Staging!svars)
  <2>1. CASE UNCHANGED <<want, latest, fault>> /\ barriers # <<>> /\ barriers' = Tail(barriers)
    <3>1. Len(barriers) > 0 /\ Len(barriers') = Len(barriers) - 1
      BY <1>0, <2>1, RingTail
    <3>2. QED
      BY <2>1, <3>1 DEF Staging!StagingNext, Staging!Carry
  <2>2. QED
    BY <1>0, <1>3, <1>4, <1>5, <2>1
    DEF PollObserves, PaysHead, CountFailure
<1>6. ASSUME NEW service \in BOOLEAN, PollRefused(service) \/ PollFaults(service)
      PROVE  [Staging!StagingNext]_(Staging!svars)
  BY <1>4, <1>6 DEF PollRefused, PollFaults, FailForGood, queue
<1>7. CASE Calls
  <2>1. CASE CancelRefused \/ SetReceiverRefused \/ SetSenderRefused
    BY <1>4, <2>1
    DEF CancelRefused, SetReceiverRefused, SetSenderRefused, CallRefused, queue
  <2>2. CASE Cancel \/ SetReceiver \/ SetSender \/ NothingToSend \/ Write \/ Start
    BY <2>2 DEF Cancel, SetReceiver, SetSender, NothingToSend, Write, Start, queue, health
  <2>3. CASE SendRefused
    BY <1>0, <1>3, <1>4, <2>3 DEF SendRefused, CountFailure, queue
  <2>4. QED
    BY <1>7, <2>1, <2>2, <2>3 DEF Calls
<1>8. CASE DriverMoves \/ RetryDue \/ UNCHANGED vars
  BY <1>3, <1>8 DEF DriverMoves, RetryDue, vars, queue, health
<1>9. QED
  BY <1>1, <1>2, <1>5, <1>6, <1>7, <1>8 DEF Next, Poll

(* ImplementsStaging: whoever stages packets may rely on canStage, on the   *)
(* packet staged last and on the ring (stage, requestSender, poll).         *)
THEOREM StagingIsImplemented == Spec => ImplementsStaging
<1>1. Init => Staging!StagingInit
  BY RingEmpty DEF Init, Staging!StagingInit
<1>2. QED
  BY <1>1, StagingSteps, TransportInductive, PTL
  DEF Spec, ImplementsStaging, Staging!StagingSpec

-----------------------------------------------------------------------------
(***************************************************************************)
(* The restart, for any packets, ring and counters: the line has carried   *)
(* three zero frames whole, nothing else after them, and the port receives *)
(* when the device restarts. The steps of the maintenance are steps of the *)
(* transport, so what is shown above of the transport is used as it stands.*)
(***************************************************************************)

(* Which part of the turn zeroFrame and quiesce are in. A restart begins in *)
(* sender mode, and has its three zero frames behind it when it quiesces.   *)
Placed ==
  /\ Active => scene
  /\ phase \in {"idle", "countdown"} => goal = 0 /\ zeros = 0
  /\ phase = "zeroing" \/ goal # 0 => zeros < 3
  /\ phase \in {"quiescing", "executing"} /\ action = "restart" => zeros = 3
  /\ call # "none" => turn = "maintain"
  /\ call \in {"zero", "zeroing"} => phase = "zeroing"
  /\ call \in {"quiesce", "quiescing"} => phase = "quiescing"
  /\ call = "quiescing" => polled /\ ~want

(* The first zero frame has been staged.                                    *)
Dim == goal # 0 \/ zeros > 0

OnlyZero == latest = Zero /\ \A i \in 1 .. Len(barriers) : barriers[i].packet = Zero

(* The line has carried the zero frame that zeroFrame waits for.            *)
GoalCarried ==
  goal # 0 /\ (completed = goal \/ (inflight /\ active.gen = goal /\ dresult = "COMPLETE"))

(* From the first zero frame on the transport is offered nothing else, and  *)
(* from its start the line carries nothing else: dark is not set back.      *)
Dimmed ==
  /\ Dim => OnlyZero
  /\ Dim /\ turn # "maintain" => ~enabled
  /\ zeros > 0 \/ (goal # 0 /\ accepted >= goal) => frame = Zero
  /\ dark >= zeros
  /\ GoalCarried => dark > zeros

(* The port receives and stays so until the restart.                        *)
Quiet ==
  phase = "executing" /\ action = "restart" =>
    ~want /\ ~inflight /\ dmode = "read" /\ dphase = "ready" /\ pc = "idle"

MInv == IInv /\ MaintenanceTypeOK /\ Placed /\ Dimmed /\ Quiet

----------------------------------------------------------------------------
(* The maintenance does nothing to the transport that its specification     *)
(* does not allow.                                                          *)

LEMMA TransportSteps == [MaintenanceNext]_allvars => [Next]_vars
<1> SUFFICES ASSUME MaintenanceNext PROVE [Next]_vars
  BY DEF allvars
<1>1. CASE LoopPoll \/ AppServices \/ ZeroService \/ QuiescePolls
  BY <1>1 DEF LoopPoll, AppServices, ZeroService, QuiescePolls, Next
<1>2. CASE QuiesceRequests \/ EnterSender
  BY <1>2 DEF QuiesceRequests, EnterSender, Next
<1>3. CASE ZeroStaged \/ \E p \in Packets, barrier \in BOOLEAN : AppStages(p, barrier)
  BY <1>3, DriverAssumption DEF ZeroStaged, AppStages, Next
<1>4. CASE TransportCalls \/ DriverRuns \/ RetryComes
  BY <1>4 DEF TransportCalls, DriverRuns, RetryComes, Next
<1>5. CASE PollNothing \/ PollExpires \/ PollExecutes \/ PollDeadline \/ ZeroCarried \/ ZeroWaits
           \/ ZeroFails \/ ZeroPending \/ QuiesceReturns
  BY <1>5
  DEF PollNothing, PollExpires, PollExecutes, PollDeadline, ZeroCarried, ZeroWaits,
      ZeroFails, ZeroPending, QuiesceReturns
<1>6. CASE \/ \E act \in {"restart", "power_off"} : Request(act)
           \/ CancelCountdown \/ Local \/ EndTurn \/ TimePasses
  BY <1>6 DEF Request, CancelCountdown, Local, EndTurn, TimePasses
<1>7. QED
  BY <1>1, <1>2, <1>3, <1>4, <1>5, <1>6 DEF MaintenanceNext, MaintenancePoll

----------------------------------------------------------------------------
(* What the transport's steps do to the zero frames.                        *)

LEMMA Counts ==
  ASSUME MInv
  PROVE  /\ zeros \in Nat /\ zeros <= 3 /\ dark \in Nat /\ dark <= 3 /\ goal \in Nat
         /\ accepted \in Nat /\ completed \in Nat /\ completed <= accepted
         /\ inflight => active.gen = accepted
         /\ barriers \in Seq(Barrier)
         /\ goal # 0 => zeros < 3
         /\ enabled \in BOOLEAN /\ scene \in BOOLEAN
<1>1. IInv /\ goal \in Gens /\ zeros \in 0 .. 3 /\ dark \in 0 .. 3
  BY DEF MInv, MaintenanceTypeOK
<1>2. goal \in Nat
  BY <1>1, GensNat
<1>3. accepted \in Nat /\ completed \in Nat /\ completed <= accepted /\ barriers \in Seq(Barrier)
  BY <1>1, Numbers
<1>4. QED
  BY <1>1, <1>2, <1>3 DEF MInv, MaintenanceTypeOK, Placed, IInv, Following

LEMMA NoGoal == 0 \in Gens
  BY TransportAssumption DEF Gens

LEMMA OfferedIsZero == ASSUME MInv, Dim PROVE Offered.packet = Zero
<1>1. CASE barriers = <<>>
  BY <1>1 DEF MInv, Dimmed, OnlyZero, Offered
<1>2. CASE barriers # <<>>
  <2>1. Head(barriers) = barriers[1] /\ 1 \in 1 .. Len(barriers)
    BY <1>2, Counts, RingTail
  <2>2. QED
    BY <1>2, <2>1 DEF MInv, Dimmed, OnlyZero, Offered
<1>3. QED
  BY <1>1, <1>2

(* Less in the ring, nothing new on the line.                               *)
LEMMA DimKept ==
  ASSUME MInv, UNCHANGED <<goal, zeros, dark, latest, accepted, frame, active>>,
         \/ barriers' \in {barriers, <<>>}
         \/ barriers # <<>> /\ barriers' = Tail(barriers),
         turn' = "maintain" \/ ~enabled' \/ (turn' = turn /\ enabled' = enabled),
         completed' = completed \/ (completed' = active.gen /\ inflight /\ dresult = "COMPLETE"),
         inflight' /\ dresult' = "COMPLETE" => inflight /\ dresult = "COMPLETE"
  PROVE  Dimmed'
<1>1. OnlyZero => OnlyZero'
  <2>1. CASE barriers' = barriers
    BY <2>1 DEF OnlyZero
  <2>2. CASE barriers # <<>> /\ barriers' = Tail(barriers)
    BY <2>2, Counts, RingTail DEF OnlyZero
  <2>3. CASE barriers' = <<>>
    BY <2>3, RingEmpty DEF OnlyZero
  <2>4. QED
    BY <2>1, <2>2, <2>3
<1>2. GoalCarried' => GoalCarried
  BY DEF GoalCarried
<1>3. QED
  BY <1>1, <1>2, Counts DEF MInv, Dimmed, Dim

LEMMA PollLeaves ==
  ASSUME NEW service \in BOOLEAN, Poll(service)
  PROVE  /\ UNCHANGED <<dvars, want, latest, accepted, active>> /\ polled'
         /\ barriers' = barriers \/ (barriers # <<>> /\ barriers' = Tail(barriers))
         /\ completed' = completed \/ (completed' = active.gen /\ inflight /\ dresult = "COMPLETE")
         /\ inflight' => inflight
<1>1. CASE PollRefused(service)
  BY <1>1 DEF PollRefused, queue, flight
<1>2. CASE PollFaults(service)
  BY <1>2 DEF PollFaults, queue, flight
<1>3. CASE PollObserves(service)
  BY <1>3 DEF PollObserves, PaysHead, Succeeded, Ended
<1>4. QED
  BY <1>1, <1>2, <1>3 DEF Poll

LEMMA CallsDim == ASSUME MInv, TransportCalls PROVE Dimmed'
<1>0. /\ UNCHANGED <<scene, enabled, action, phase, zeros, goal, due, turn, call>>
      /\ UNCHANGED <<latest, barriers, completed>>
  BY DEF TransportCalls, loopvars, Calls, Cancel, CancelRefused, SetReceiver,
         SetReceiverRefused, SetSender, SetSenderRefused, CallRefused, NothingToSend,
         Write, Start, SendRefused, queue, health
<1>1. CASE Start
  <2>1. /\ frame' = Offered.packet /\ dresult' = "PENDING"
        /\ dark' = IF dattempt' # dattempt /\ frame' # Zero THEN 0 ELSE dark
    BY <1>1 DEF Start, DriverStart, TransportCalls, MInv, IInv, Calling
  <2>2. CASE Dim
    <3>1. frame' = Zero /\ dark' = dark
      BY <2>1, <2>2, OfferedIsZero
    <3>2. GoalCarried' => GoalCarried
      BY <1>0, <2>1 DEF GoalCarried
    <3>3. QED
      BY <1>0, <2>2, <3>1, <3>2 DEF MInv, Dimmed, Dim, OnlyZero
  <2>3. CASE ~Dim
    <3>1. ~Dim' /\ zeros' = 0 /\ goal' = 0 /\ dark' >= 0
      BY <1>0, <2>1, <2>3, Counts DEF Dim
    <3>2. QED
      BY <3>1 DEF Dimmed, Dim, GoalCarried
  <2>4. QED
    BY <2>2, <2>3
<1>2. CASE ~Start
  <2>1. dattempt' = dattempt
    BY <1>2, OnlyStartStarts DEF MInv, TransportCalls, Next
  <2>2. /\ UNCHANGED <<accepted, frame, active, inflight>>
        /\ dresult' = "COMPLETE" => dresult = "COMPLETE"
    BY <1>2
    DEF TransportCalls, Calls, Cancel, DriverAbort, CancelRefused, SetReceiver,
        SetReceiverRefused, SetSender, SetSenderRefused, CallRefused, DriverSetMode,
        NothingToSend, Write, DriverWrite, SendRefused, dvars, health, flight
  <2>3. dark' = dark
    BY <2>1 DEF TransportCalls
  <2>4. QED
    BY <1>0, <2>2, <2>3, DimKept
<1>3. QED
  BY <1>1, <1>2

LEMMA RunsDim == ASSUME MInv, DriverRuns PROVE Dimmed'
<1>0. /\ UNCHANGED <<scene, enabled, action, phase, zeros, goal, due, turn, call>>
      /\ UNCHANGED <<latest, barriers, completed, accepted, active, inflight>>
      /\ DriverProgress /\ DriverTypeOK
  BY DEF DriverRuns, DriverMoves, loopvars, queue, health, flight, MInv, IInv, TypeOK
<1>1. frame' = frame
  BY <1>0, DriverSteps
<1>2. CASE dresult' = "COMPLETE" /\ dresult # "COMPLETE"
  <2>1. dark' = IF frame # Zero THEN 0 ELSE IF dark < 3 THEN dark + 1 ELSE dark
    BY <1>2 DEF DriverRuns
  <2>2. zeros > 0 \/ GoalCarried' => frame = Zero
    <3>1. completed = goal \/ (inflight /\ active.gen = goal) => accepted >= goal
      BY Counts
    <3>2. QED
      BY <1>0, <3>1 DEF GoalCarried, MInv, Dimmed
  <2>3. dark' >= zeros /\ (GoalCarried' => dark' > zeros)
    <3>1. CASE frame = Zero
      <4>1. dark' >= dark /\ (dark' > dark \/ dark' = 3)
        BY <2>1, <3>1, Counts
      <4>2. GoalCarried' => zeros < 3
        BY <1>0, Counts DEF GoalCarried
      <4>3. dark >= zeros /\ dark' \in Nat
        BY <2>1, <3>1, Counts DEF MInv, Dimmed
      <4>4. QED
        BY <4>1, <4>2, <4>3, Counts
    <3>2. CASE frame # Zero
      BY <2>1, <2>2, <3>2, Counts
    <3>3. QED
      BY <3>1, <3>2
  <2>4. QED
    BY <1>0, <1>1, <2>3 DEF MInv, Dimmed, Dim, OnlyZero
<1>3. CASE ~(dresult' = "COMPLETE" /\ dresult # "COMPLETE")
  BY <1>0, <1>1, <1>3, DimKept DEF DriverRuns
<1>4. QED
  BY <1>2, <1>3

LEMMA ZeroStagedDim == ASSUME MInv, ZeroStaged PROVE Dimmed' /\ goal' # 0 /\ goal' \in Gens
<1>0. /\ IInv /\ Stage(Zero, TRUE) /\ barriers = <<>> /\ goal = 0 /\ goal' = requested'
      /\ UNCHANGED <<enabled, zeros, turn, dark, frame, inflight, active, dresult>>
      /\ turn = "maintain" /\ latest' = Zero
  BY DEF ZeroStaged, Zeroing, Begins, MayStageZero, Stage, dvars, flight, MInv, loopvars
<1>1. StagedFresh(Zero, TRUE)
  BY <1>0, StageFresh, DriverAssumption
<1>2. barriers' = <<NewBarrier(Zero)>> /\ NewBarrier(Zero).packet = Zero
  BY <1>0, <1>1, RingEmpty DEF StagedFresh, NewBarrier
<1>3. OnlyZero'
  BY <1>0, <1>2 DEF OnlyZero
<1>4. goal' \in Nat /\ goal' # 0 /\ goal' \in Gens
  BY <1>0, <1>1 DEF StagedFresh
<1>5. accepted' < goal' /\ completed' # goal' /\ (inflight => active.gen # goal')
  <2>1. accepted' \in Nat /\ accepted' <= published'
    BY <1>0, Numbers DEF Stage, Wrapped
  <2>2. QED
    BY <1>0, <1>1, <2>1 DEF StagedFresh
<1>6. ~GoalCarried' /\ ~(accepted' >= goal')
  <2>1. accepted' \in Nat
    BY <1>0, Numbers DEF Stage, Wrapped
  <2>2. QED
    BY <1>0, <1>4, <1>5, <2>1 DEF GoalCarried
<1>7. QED
  BY <1>0, <1>3, <1>4, <1>6 DEF MInv, Dimmed, Dim

----------------------------------------------------------------------------
(* The turn. Each step keeps the invariant, given that of the transport.    *)

LEMMA PollSteps ==
  ASSUME MInv, IInv', LoopPoll \/ AppServices \/ ZeroService \/ QuiescePolls
  PROVE  MInv'
<1>0. /\ UNCHANGED <<scene, enabled, action, phase, zeros, goal, due, dark>>
      /\ turn' = "maintain" \/ turn' = turn
      /\ \E service \in BOOLEAN : Poll(service)
  BY DEF LoopPoll, AppServices, ZeroService, QuiescePolls, loopvars, mvars
<1>1. /\ UNCHANGED <<dvars, want, latest, accepted, active>> /\ polled'
      /\ barriers' = barriers \/ (barriers # <<>> /\ barriers' = Tail(barriers))
      /\ completed' = completed \/ (completed' = active.gen /\ inflight /\ dresult = "COMPLETE")
      /\ inflight' => inflight
  BY <1>0, PollLeaves
<1>2. UNCHANGED <<dmode, dphase, dresult, frame>>
  BY <1>1 DEF dvars
<1>3. Dimmed'
  BY <1>0, <1>1, <1>2, DimKept
<1>4. MaintenanceTypeOK'
  <2>1. TypeOK'
    BY DEF IInv
  <2>2. /\ turn' \in {"poll", "maintain", "app"}
        /\ call' \in {"none", "zero", "zeroing", "quiesce", "quiescing"}
    BY DEF MInv, MaintenanceTypeOK, LoopPoll, AppServices, ZeroService, QuiescePolls, mvars
  <2>3. QED
    BY <1>0, <2>1, <2>2 DEF MInv, MaintenanceTypeOK
<1>5. Placed'
  BY <1>0, <1>1
  DEF MInv, Placed, Active, LoopPoll, AppServices, ZeroService, QuiescePolls, App, mvars
<1>6. Quiet'
  <2> SUFFICES ASSUME phase = "executing", action = "restart"
               PROVE  ~want' /\ ~inflight' /\ dmode' = "read" /\ dphase' = "ready" /\ pc' = "idle"
    BY <1>0 DEF Quiet
  <2>1. ~want /\ ~inflight /\ dmode = "read" /\ dphase = "ready"
    BY DEF MInv, Quiet
  <2>2. Poll(FALSE)
    BY <1>0 DEF MInv, Placed, LoopPoll, AppServices, Committed, ZeroService, QuiescePolls
  <2>3. pc' = "idle"
    <3>1. CASE PollRefused(FALSE)
      BY <3>1 DEF PollRefused, GoOn
    <3>2. CASE PollFaults(FALSE)
      BY <3>2 DEF PollFaults, GoOn
    <3>3. CASE PollObserves(FALSE)
      BY <2>1, <3>3 DEF PollObserves, GoOn
    <3>4. QED
      BY <2>2, <3>1, <3>2, <3>3 DEF Poll
  <2>4. QED
    BY <1>1, <1>2, <2>1, <2>3
<1>7. QED
  BY <1>3, <1>4, <1>5, <1>6 DEF MInv

LEMMA TransportCallsStep == ASSUME MInv, IInv', TransportCalls PROVE MInv'
<1>0. /\ UNCHANGED <<scene, enabled, action, phase, zeros, goal, due, turn, call, want, polled>>
      /\ pc # "idle" /\ dark' \in {0, dark}
  BY DEF TransportCalls, loopvars, Calls, Cancel, CancelRefused, SetReceiver,
         SetReceiverRefused, SetSender, SetSenderRefused, CallRefused, NothingToSend,
         Write, Start, SendRefused, history
<1>1. MaintenanceTypeOK'
  BY <1>0 DEF MInv, MaintenanceTypeOK, IInv
<1>2. Placed' /\ Quiet'
  BY <1>0 DEF MInv, Placed, Active, Quiet
<1>3. QED
  BY <1>1, <1>2, CallsDim DEF MInv

LEMMA DriverRunsStep == ASSUME MInv, IInv', DriverRuns PROVE MInv'
<1>0. /\ UNCHANGED <<scene, enabled, action, phase, zeros, goal, due, turn, call, want, polled>>
      /\ dark' \in {0, dark, dark + 1} /\ dark' \in 0 .. 3
      /\ DriverProgress /\ DriverTypeOK
  BY Counts DEF DriverRuns, DriverMoves, loopvars, MInv, IInv, TypeOK
<1>1. dphase # "ready"
  BY <1>0, DriverSteps
<1>2. MaintenanceTypeOK'
  BY <1>0 DEF MInv, MaintenanceTypeOK, IInv
<1>3. Placed' /\ Quiet'
  BY <1>0, <1>1 DEF MInv, Placed, Active, Quiet
<1>4. QED
  BY <1>2, <1>3, RunsDim DEF MInv

LEMMA RetryComesStep == ASSUME MInv, IInv', RetryComes PROVE MInv'
<1>0. /\ UNCHANGED mvars
      /\ UNCHANGED <<latest, accepted, frame, active, barriers, completed>>
      /\ UNCHANGED <<inflight, dresult, polled, want, dmode, dphase, pc>>
  BY DEF RetryComes, RetryDue, queue, dvars, flight, history
<1>1. Dimmed'
  BY <1>0, DimKept DEF mvars
<1>2. QED
  BY <1>0, <1>1 DEF MInv, MaintenanceTypeOK, IInv, Placed, Active, Quiet, mvars

(* The steps of the maintenance and of the application that leave the       *)
(* transport alone.                                                         *)
LEMMA IdleDim ==
  ASSUME MInv, UNCHANGED vars, UNCHANGED <<goal, zeros, dark>>,
         turn' = "maintain" \/ ~enabled' \/ (turn' = turn /\ enabled' = enabled)
  PROVE  Dimmed'
<1>1. UNCHANGED <<latest, accepted, frame, active, barriers, completed, inflight, dresult>>
  BY DEF vars, dvars, queue, health, flight
<1>2. QED
  BY <1>1, DimKept

LEMMA NotDim == ASSUME zeros' = 0, goal' = 0, dark' \in Nat PROVE Dimmed'
  BY DEF Dimmed, Dim, GoalCarried

LEMMA ReturnSteps ==
  ASSUME MInv, IInv',
         PollNothing \/ PollExecutes \/ PollDeadline \/ ZeroFails \/ ZeroPending \/ QuiesceReturns
  PROVE  MInv'
<1>0. /\ UNCHANGED <<vars, scene, action, zeros, goal, due, dark>> /\ turn = "maintain"
      /\ turn' = "app" /\ call' = "none"
      /\ enabled' = (scene /\ phase' \in {"idle", "countdown"})
  BY DEF PollNothing, PollExecutes, PollDeadline, ZeroFails, ZeroPending, QuiesceReturns,
         Return, Begins, Zeroing, MInv, Placed
<1>1. \/ phase' = phase /\ phase \in {"idle", "failed", "countdown", "zeroing"}
      \/ phase' \in {"failed", "gone"} /\ phase \notin {"idle", "countdown"}
      \/ QuiesceReturns /\ phase = "quiescing" /\ phase' \in {"quiescing", "executing"}
  BY DEF PollNothing, PollExecutes, PollDeadline, ZeroFails, ZeroPending, QuiesceReturns,
         Return, Begins, Zeroing, QuiesceEnds, MInv, Placed
<1>2. UNCHANGED <<want, inflight, dmode, dphase, pc, polled>>
  BY <1>0 DEF vars, dvars, flight, history
<1>3. MaintenanceTypeOK'
  BY <1>0, <1>1 DEF MInv, MaintenanceTypeOK, IInv
<1>4. Placed'
  BY <1>0, <1>1, <1>2 DEF MInv, Placed, Active
<1>5. Quiet'
  <2>1. CASE phase' = "executing"
    <3>1. QuiesceReturns /\ ReceiverReady /\ pc = "idle" /\ polled
      BY <1>1, <2>1 DEF QuiesceReturns, Return, QuiesceEnds, MInv, Placed
    <3>2. dmode = "read" /\ dphase = "ready" /\ ~want /\ ~inflight
      BY <3>1 DEF ReceiverReady, MInv, IInv, Calling, Following
    <3>3. QED
      BY <1>2, <3>1, <3>2 DEF Quiet
  <2>2. QED
    BY <2>1 DEF Quiet
<1>6. Dimmed'
  <2>1. CASE Dim
    <3>1. phase' \notin {"idle", "countdown"}
      BY <1>1, <2>1 DEF MInv, Placed, Dim
    <3>2. QED
      BY <1>0, <3>1, IdleDim
  <2>2. CASE ~Dim
    BY <1>0, <2>2, Counts, NotDim DEF Dim
  <2>3. QED
    BY <2>1, <2>2
<1>7. QED
  BY <1>3, <1>4, <1>5, <1>6 DEF MInv

LEMMA CommitSteps ==
  ASSUME MInv, IInv', PollExpires \/ Local
  PROVE  MInv'
<1>0. /\ UNCHANGED vars /\ scene' = scene /\ scene /\ zeros' = 0 /\ dark' = 0 /\ goal' = 0
      /\ due' = FALSE /\ enabled' \in BOOLEAN
      /\ turn' \in {"poll", "maintain", "app"} /\ call' = "none"
      /\ action' \in {"none", "restart", "power_off"}
      /\ phase' = "zeroing" \/ (phase' = "executing" /\ action' = "power_off")
  <2>1. CASE PollExpires
    BY <2>1 DEF PollExpires, Commit, Begins, MInv, MaintenanceTypeOK, Placed, Active
  <2>2. CASE Local
    BY <2>2 DEF Local, Commit, App, MInv, MaintenanceTypeOK, Placed, Active
  <2>3. QED
    BY <2>1, <2>2
<1>1. Dimmed'
  BY <1>0, NotDim
<1>2. MaintenanceTypeOK'
  <2>1. TypeOK'
    BY DEF IInv
  <2>2. goal' \in Gens
    BY <1>0, NoGoal
  <2>3. zeros' \in 0 .. 3 /\ dark' \in 0 .. 3
    BY <1>0
  <2>4. QED
    BY <1>0, <2>1, <2>2, <2>3 DEF MaintenanceTypeOK
<1>3. Placed' /\ Quiet'
  BY <1>0 DEF Placed, Active, Quiet
<1>4. QED
  BY <1>1, <1>2, <1>3 DEF MInv

LEMMA ZeroSteps ==
  ASSUME MInv, IInv', ZeroCarried \/ ZeroStaged \/ ZeroWaits
  PROVE  MInv'
<1>0. turn = "maintain" /\ call = "none" /\ pc = "idle" /\ phase = "zeroing" /\ zeros < 3 /\ scene
  BY DEF ZeroCarried, ZeroStaged, ZeroWaits, Zeroing, Begins, MInv, Placed, Active
<1>1. CASE ZeroWaits
  <2>1. Dimmed'
    BY <1>1, IdleDim DEF ZeroWaits, loopvars
  <2>2. QED
    BY <1>0, <1>1, <2>1
    DEF ZeroWaits, loopvars, MInv, MaintenanceTypeOK, IInv, Placed, Active, Quiet
<1>2. CASE ZeroStaged
  <2>1. /\ UNCHANGED <<scene, enabled, action, phase, zeros, due, turn, dark>>
        /\ call' = "zero"
    BY <1>2 DEF ZeroStaged, loopvars
  <2>2. QED
    BY <1>0, <1>2, <2>1, ZeroStagedDim
    DEF MInv, MaintenanceTypeOK, IInv, Placed, Active, Quiet
<1>3. CASE ZeroCarried
  <2>0. /\ UNCHANGED <<scene, action, due, dark>> /\ UNCHANGED vars /\ GoalCarried
        /\ goal' = 0 /\ zeros' = zeros + 1
        /\ \/ zeros' = 3 /\ phase' = "quiescing" /\ call' = "quiesce" /\ turn' = "maintain"
              /\ enabled' = enabled
           \/ zeros' # 3 /\ phase' = "zeroing" /\ turn' = "app" /\ call' = "none" /\ enabled' = FALSE
    BY <1>0, <1>3 DEF ZeroCarried, Carried, GoalCarried, Enough, Return
  <2>1. OnlyZero /\ dark > zeros /\ frame = Zero /\ zeros \in Nat /\ dark \in Nat
    BY <2>0, Counts DEF MInv, Dimmed, Dim, GoalCarried, IInv, Following
  <2>2. OnlyZero' /\ frame' = Zero
    BY <2>0, <2>1 DEF OnlyZero, vars, dvars, queue
  <2>3. Dimmed'
    BY <2>0, <2>1, <2>2 DEF Dimmed, Dim, GoalCarried
  <2>4. MaintenanceTypeOK'
    <3>1. TypeOK'
      BY DEF IInv
    <3>2. goal' \in Gens
      BY <2>0, NoGoal
    <3>3. zeros' \in 0 .. 3 /\ dark' \in 0 .. 3
      BY <1>0, <2>0, <2>1 DEF MInv, MaintenanceTypeOK
    <3>4. QED
      BY <1>0, <2>0, <3>1, <3>2, <3>3 DEF MInv, MaintenanceTypeOK
  <2>5. Placed' /\ Quiet'
    <3>1. scene /\ zeros' \in 0 .. 3
      BY <1>0, <2>0, <2>1 DEF MInv, MaintenanceTypeOK
    <3>2. Placed'
      BY <1>0, <2>0, <3>1 DEF Placed, Active
    <3>3. QED
      BY <2>0, <3>2 DEF Quiet
  <2>6. QED
    BY <2>3, <2>4, <2>5 DEF MInv
<1>4. QED
  BY <1>1, <1>2, <1>3

LEMMA QuiesceRequestsStep == ASSUME MInv, IInv', QuiesceRequests PROVE MInv'
<1>0. /\ UNCHANGED <<scene, enabled, action, phase, zeros, goal, due, turn, dark>>
      /\ call' = "quiesce"
      /\ phase = "quiescing" /\ turn = "maintain"
      /\ RequestSender(FALSE) \/ UNCHANGED vars
  BY DEF QuiesceRequests, loopvars, Begins, MInv, Placed
<1>1. Dimmed'
  <2>1. CASE RequestSender(FALSE)
    BY <1>0, <2>1, DimKept DEF RequestSender, dvars, health, flight
  <2>2. CASE UNCHANGED vars
    BY <1>0, <2>2, IdleDim
  <2>3. QED
    BY <1>0, <2>1, <2>2
<1>2. MaintenanceTypeOK' /\ Placed' /\ Quiet'
  BY <1>0 DEF MInv, MaintenanceTypeOK, IInv, Placed, Active, Quiet
<1>3. QED
  BY <1>1, <1>2 DEF MInv

LEMMA ModeSteps == ASSUME MInv, IInv', EnterSender PROVE MInv'
<1>0. /\ UNCHANGED <<phase, action, zeros, goal, due, turn, call, dark>> /\ phase = "idle"
      /\ scene' \in BOOLEAN /\ enabled' \in BOOLEAN /\ zeros = 0 /\ goal = 0
      /\ turn = "app" /\ call = "none"
  BY DEF EnterSender, App, Active, MInv, Placed
<1>1. Dimmed'
  BY <1>0, Counts, NotDim
<1>2. QED
  BY <1>0, <1>1 DEF MInv, MaintenanceTypeOK, IInv, Placed, Active, Quiet

LEMMA AppSteps ==
  ASSUME MInv, IInv',
         \/ \E act \in {"restart", "power_off"} : Request(act)
         \/ CancelCountdown \/ EndTurn \/ TimePasses
  PROVE  MInv'
<1>0. UNCHANGED <<vars, scene, enabled, zeros, goal, call, dark>>
  BY DEF Request, CancelCountdown, EndTurn, TimePasses, loopvars
<1>1. CASE \E act \in {"restart", "power_off"} : Request(act)
  <2>1. /\ scene /\ phase = "idle" /\ phase' = "countdown" /\ turn' = turn /\ due' = FALSE
        /\ action' \in {"restart", "power_off"} /\ call = "none" /\ zeros = 0 /\ goal = 0
    BY <1>1 DEF Request, App, Active, MInv, Placed
  <2>2. Dimmed'
    BY <1>0, <2>1, IdleDim
  <2>3. QED
    BY <1>0, <2>1, <2>2 DEF MInv, MaintenanceTypeOK, IInv, Placed, Active, Quiet
<1>2. CASE CancelCountdown
  <2>1. /\ phase = "countdown" /\ phase' = "idle" /\ turn' = turn /\ due' = due
        /\ action' = "none"
        /\ call = "none" /\ zeros = 0 /\ goal = 0
    BY <1>2 DEF CancelCountdown, App, MInv, Placed
  <2>2. Dimmed'
    BY <1>0, <2>1, IdleDim
  <2>3. QED
    BY <1>0, <2>1, <2>2 DEF MInv, MaintenanceTypeOK, IInv, Placed, Active, Quiet
<1>3. CASE EndTurn
  <2>1. /\ turn = "app" /\ turn' = "poll" /\ UNCHANGED <<phase, action, due>>
        /\ call = "none"
    BY <1>3 DEF EndTurn, App, loopvars, MInv, Placed
  <2>2. Dim => ~enabled
    BY <2>1 DEF MInv, Dimmed
  <2>3. Dimmed'
    <3>1. CASE Dim
      BY <1>0, <2>2, <3>1, IdleDim
    <3>2. CASE ~Dim
      BY <1>0, <3>2, Counts, NotDim DEF Dim
    <3>3. QED
      BY <3>1, <3>2
  <2>4. UNCHANGED <<want, inflight, dmode, dphase, pc, polled>>
    BY <1>0 DEF vars, dvars, flight, history
  <2>5. QED
    BY <1>0, <2>1, <2>3, <2>4 DEF MInv, MaintenanceTypeOK, IInv, Placed, Active, Quiet
<1>4. CASE TimePasses
  <2>1. UNCHANGED <<phase, action, turn>> /\ due' = TRUE
    BY <1>4 DEF TimePasses, loopvars
  <2>2. Dimmed'
    BY <1>0, <2>1, IdleDim
  <2>3. UNCHANGED <<want, inflight, dmode, dphase, pc, polled>>
    BY <1>0 DEF vars, dvars, flight, history
  <2>4. QED
    BY <1>0, <2>1, <2>2, <2>3 DEF MInv, MaintenanceTypeOK, IInv, Placed, Active, Quiet
<1>5. QED
  BY <1>1, <1>2, <1>3, <1>4

(* A command can only be staged before the first zero frame is.             *)
LEMMA AppStagesStep ==
  ASSUME MInv, IInv', NEW p \in Packets, NEW barrier \in BOOLEAN, AppStages(p, barrier)
  PROVE  MInv'
<1>0. /\ UNCHANGED mvars /\ turn = "app" /\ enabled /\ Stage(p, barrier)
  BY DEF AppStages, App
<1>1. ~Dim
  BY <1>0 DEF MInv, Dimmed
<1>2. Dimmed'
  BY <1>0, <1>1, Counts, NotDim DEF Dim, mvars
<1>3. want
  BY <1>0 DEF Stage, CanStage
<1>4. Quiet' /\ UNCHANGED <<want, polled>>
  BY <1>0, <1>3 DEF MInv, Quiet, mvars, Stage
<1>5. QED
  BY <1>0, <1>2, <1>4 DEF MInv, MaintenanceTypeOK, IInv, Placed, Active, mvars

LEMMA InitMInv == MaintenanceInit => MInv
<1> SUFFICES ASSUME MaintenanceInit PROVE MInv
  OBVIOUS
<1>1. IInv
  BY InitIInv DEF MaintenanceInit
<1>2. MaintenanceTypeOK
  <2>1. TypeOK
    BY <1>1 DEF IInv
  <2>2. goal \in Gens
    BY NoGoal DEF MaintenanceInit
  <2>3. zeros \in 0 .. 3 /\ dark \in 0 .. 3
    BY DEF MaintenanceInit
  <2>4. QED
    BY <2>1, <2>2, <2>3 DEF MaintenanceInit, MaintenanceTypeOK
<1>3. QED
  BY <1>1, <1>2
  DEF MaintenanceInit, MInv, Placed, Active, Dimmed, Dim, GoalCarried, Quiet

LEMMA StepMInv == MInv /\ [MaintenanceNext]_allvars => MInv'
<1> SUFFICES ASSUME MInv, [MaintenanceNext]_allvars PROVE MInv'
  OBVIOUS
<1>0. IInv'
  BY TransportSteps, StepIInv DEF MInv
<1>1. CASE UNCHANGED allvars
  <2>1. UNCHANGED <<vars, scene, enabled, phase, action, zeros, goal, due, turn, call, dark>>
    BY <1>1 DEF allvars, mvars
  <2>2. UNCHANGED <<want, inflight, dmode, dphase, pc, polled>>
    BY <2>1 DEF vars, dvars, flight, history
  <2>3. Dimmed'
    BY <2>1, IdleDim
  <2>4. QED
    BY <1>0, <2>1, <2>2, <2>3 DEF MInv, MaintenanceTypeOK, IInv, Placed, Active, Quiet
<1>2. CASE MaintenanceNext
  BY <1>0, <1>2, PollSteps, TransportCallsStep, DriverRunsStep, RetryComesStep,
     ReturnSteps, CommitSteps, ZeroSteps, QuiesceRequestsStep, ModeSteps, AppSteps,
     AppStagesStep
  DEF MaintenanceNext, MaintenancePoll
<1>3. QED
  BY <1>1, <1>2

----------------------------------------------------------------------------
(* What follows for a restart.                                              *)

THEOREM MaintenanceInductive == MaintenanceSpec => []MInv
<1>1. QED
  BY InitMInv, StepMInv, PTL DEF MaintenanceSpec

(* RestartSafe: when DeviceMaintenance::poll restarts the device, the line  *)
(* has carried three zero frames whole since the commitment and no other    *)
(* frame after them, and the port receives, whatever was queued, retried or *)
(* staged before, and however the driver moved meanwhile.                   *)
THEOREM RestartIsSafe == MaintenanceSpec => []RestartSafe
<1>1. MInv => RestartDark
  <2> SUFFICES ASSUME MInv, phase = "executing", action = "restart" PROVE dark = 3
    BY DEF RestartDark
  <2>1. zeros = 3 /\ dark >= zeros
    BY DEF MInv, Placed, Dimmed
  <2>2. QED
    BY <2>1, Counts
<1>2. MInv => RestartQuiet /\ MaintenanceTypeOK
  BY DEF MInv, Quiet, RestartQuiet
<1>3. MInv => RestartSafe
  BY <1>1, <1>2 DEF RestartSafe
<1>4. QED
  BY <1>3, MaintenanceInductive, PTL
=============================================================================
