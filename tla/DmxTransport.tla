--------------------------- MODULE DmxTransport ---------------------------
(***************************************************************************)
(* DmxTransport (src/dmx_transport.cpp): the owner task's side of the DMX  *)
(* output. It keeps the latest packet and a ring of barrier packets, which *)
(* must reach the line one after the other before any later packet, offers *)
(* one of them to the driver at every opportunity, follows the attempt by  *)
(* polling, and moves the port between sending and receiving.              *)
(*                                                                         *)
(* The driver below it is DmxDriver. It moves by itself between any two    *)
(* calls the transport makes, so what a poll reported can be stale by the  *)
(* next call: every driver call is a step of its own here.                 *)
(***************************************************************************)
EXTENDS DmxDriver, Sequences

CONSTANTS
  GenMax,           (* the largest generation, UINT64_MAX in the code       *)
  BarrierCapacity,  (* barrier_capacity, 4 in the code                      *)
  MaxFailed,        (* max_failed_attempts, 3 in the code                   *)
  MayRefuse         (* the driver calls that may fail for no known reason   *)

ASSUME TransportAssumption ==
  /\ GenMax \in Nat \ {0}
  /\ BarrierCapacity \in Nat \ {0}
  /\ MaxFailed \in Nat \ {0}
  /\ MayRefuse \subseteq {"poll", "setSender", "write", "start", "cancel"}

VARIABLES
  want,         (* want_sender_                                             *)
  have,         (* have_packet_                                             *)
  latest,       (* latest_                                                  *)
  barriers,     (* barriers_[head_ ..] of length count_, see Barrier        *)
  requested, published, accepted, started, completed,   (* of health_       *)
  failures,     (* consecutive_failures, up to MaxFailed                    *)
  fault,        (* fault_stopped                                            *)
  retry,        (* retry_after_us_ has not come yet                         *)
  inflight,     (* inflight_                                                *)
  active,       (* active_generation_, active_attempt_, active_barrier_     *)
  write_mode,   (* status_.write_mode, as the last poll saw it              *)
  can_start,    (* status_.can_start                                        *)
  pc,           (* the call to the driver that comes next, or "idle"        *)
  serving,      (* that call is part of serviceTx, not of a bare poll       *)
  owed,         (* history: barriers neither on the line whole nor dropped  *)
                (* by requestSender(false)                                  *)
  paying,       (* history: the attempt under way sends Head(owed)          *)
  streak,       (* history: attempts in a row that the line did not carry   *)
  polled        (* history: polled since the last requestSender             *)

health == <<requested, published, accepted, started, completed, failures, fault, retry>>
queue == <<have, latest, barriers, requested>>
status == <<write_mode, can_start>>
flight == <<inflight, active>>
history == <<owed, paying, streak, polled>>

vars == <<dvars, want, queue, health, flight, status, pc, serving, history>>

Gens == 0 .. GenMax
Barrier == [packet : Packets, gen : Gens]
Flight == [gen : Gens, attempt : 0 .. AttemptMod - 1, barrier : BOOLEAN]
Steps == {"idle", "cancel", "receive", "send", "service", "start"}

TypeOK ==
  /\ DriverTypeOK
  /\ want \in BOOLEAN /\ have \in BOOLEAN /\ latest \in Packets
  /\ barriers \in Seq(Barrier) /\ Len(barriers) <= BarrierCapacity
  /\ requested \in Gens /\ published \in Gens /\ accepted \in Gens
  /\ started \in Gens /\ completed \in Gens
  /\ failures \in 0 .. MaxFailed /\ fault \in BOOLEAN /\ retry \in BOOLEAN
  /\ inflight \in BOOLEAN /\ active \in Flight
  /\ write_mode \in BOOLEAN /\ can_start \in BOOLEAN
  /\ pc \in Steps /\ serving \in BOOLEAN
  /\ owed \in Seq(Barrier) /\ paying \in BOOLEAN
  /\ streak \in Nat /\ polled \in BOOLEAN

Init ==
  /\ DriverInit
  /\ want = FALSE /\ have = FALSE /\ latest = Zero /\ barriers = <<>>
  /\ requested = 0 /\ published = 0 /\ accepted = 0 /\ started = 0 /\ completed = 0
  /\ failures = 0 /\ fault = FALSE /\ retry = FALSE
  /\ inflight = FALSE /\ active = [gen |-> 0, attempt |-> 0, barrier |-> FALSE]
  /\ write_mode = FALSE /\ can_start = FALSE
  /\ pc = "idle" /\ serving = FALSE
  /\ owed = <<>> /\ paying = FALSE /\ streak = 0 /\ polled = FALSE

----------------------------------------------------------------------------
(* stage and requestSender: no driver call.                                 *)

CanStage(barrier) ==
  /\ want
  /\ barrier => Len(barriers) < BarrierCapacity
  /\ requested # GenMax \/ (~inflight /\ barriers = <<>>)

NextGen == IF requested = GenMax THEN 1 ELSE requested + 1

Wrapped_Forgets(counter) == counter

Wrapped(counter) == IF requested = GenMax THEN 0 ELSE counter

Stage(p, barrier) ==
  /\ pc = "idle"
  /\ CanStage(barrier)
  /\ requested' = NextGen
  /\ published' = Wrapped(published) /\ accepted' = Wrapped(accepted)
  /\ started' = Wrapped(started) /\ completed' = Wrapped(completed)
  /\ latest' = p
  /\ have' = TRUE
  /\ LET kept == IF barrier THEN <<[packet |-> p, gen |-> requested']>> ELSE <<>>
     IN  barriers' = barriers \o kept /\ owed' = owed \o kept
  /\ UNCHANGED <<dvars, want, failures, fault, retry, flight, status, pc, serving,
                 paying, streak, polled>>

RequestSender_KeepsRing(sender) ==
  /\ pc = "idle"
  /\ want # sender
  /\ want' = sender
  /\ have' = (have /\ sender)
  /\ barriers' = barriers
  /\ owed' = IF sender THEN owed ELSE <<>>
  /\ paying' = FALSE /\ streak' = 0 /\ polled' = FALSE
  /\ UNCHANGED <<dvars, latest, health, flight, status, pc, serving>>

RequestSender(sender) ==
  /\ pc = "idle"
  /\ want # sender
  /\ want' = sender
  /\ have' = (have /\ sender)
  /\ barriers' = IF sender THEN barriers ELSE <<>>
  /\ owed' = IF sender THEN owed ELSE <<>>
  /\ paying' = FALSE /\ streak' = 0 /\ polled' = FALSE
  /\ UNCHANGED <<dvars, latest, health, flight, status, pc, serving>>

----------------------------------------------------------------------------
(* failed: only whether the budget is used up matters of the count.         *)

MoreFailures == IF failures < MaxFailed THEN failures + 1 ELSE failures

Exhausted == MoreFailures = MaxFailed

CountFailure ==
  /\ failures' = MoreFailures
  /\ fault' = (fault \/ Exhausted)
  /\ retry' = TRUE

(* What poll does about a fault: it counts once.                            *)
FailForGood ==
  /\ IF fault THEN UNCHANGED <<failures, retry>> ELSE failures' = MoreFailures /\ retry' = TRUE
  /\ fault' = TRUE

(* poll goes on to its driver call, or ends; serviceTx then goes on.        *)
GoOn(call, service) ==
  /\ pc' = IF call # "none" THEN call ELSE IF service THEN "service" ELSE "idle"
  /\ serving' = (service /\ call # "none")

----------------------------------------------------------------------------
(* poll: one reading of the driver, the bookkeeping that follows from it,   *)
(* and the choice of the driver call that ends it.                          *)

PollRefused(service) ==
  /\ pc = "idle"
  /\ "poll" \in MayRefuse
  /\ FailForGood
  /\ GoOn("none", service)
  /\ polled' = TRUE
  /\ UNCHANGED <<dvars, want, queue, published, accepted, started, completed, flight, status,
                 owed, paying, streak>>

Mismatch == inflight /\ dattempt # active.attempt

(* queued and first_fifo_us: whether the attempt has reached the FIFO; one  *)
(* that is complete certainly has.                                          *)
Fed(seen) == inflight /\ ~Mismatch /\ (seen \/ dresult = "COMPLETE")

(* Another attempt than the transport's, or a driver stopped for good.      *)
PollFaults(service) ==
  /\ pc = "idle"
  /\ Mismatch \/ dphase = "stopped"
  /\ write_mode' = (dmode = "write")
  /\ can_start' = (dmode = "write" /\ dphase = "ready")
  /\ \E seen \in BOOLEAN : started' = IF Fed(seen) THEN active.gen ELSE started
  /\ FailForGood
  /\ GoOn("none", service)
  /\ polled' = TRUE
  /\ UNCHANGED <<dvars, want, queue, published, accepted, completed, flight,
                 owed, paying, streak>>

Ended_WhileWanted == inflight /\ want /\ dphase = "ready"

Ended == inflight /\ dphase = "ready"

Succeeded_AnyResult == Ended

Succeeded == Ended /\ dresult = "COMPLETE"

PaysHead_AnyHead == active.barrier /\ barriers # <<>>

PaysHead_LatestOnly ==
  /\ active.barrier
  /\ barriers # <<>>
  /\ active.gen = requested

PaysHead ==
  /\ active.barrier
  /\ barriers # <<>>
  /\ Head(barriers).gen = active.gen

PollObserves(service) ==
  /\ pc = "idle"
  /\ ~Mismatch /\ dphase # "stopped"
  /\ write_mode' = (dmode = "write")
  /\ can_start' = (dmode = "write" /\ dphase = "ready")
  /\ \E seen \in BOOLEAN : started' = IF Fed(seen) THEN active.gen ELSE started
  /\ inflight' = (inflight /\ ~Ended)
  /\ completed' = IF Succeeded THEN active.gen ELSE completed
  /\ barriers' = IF Succeeded /\ PaysHead THEN Tail(barriers) ELSE barriers
  /\ IF Succeeded THEN failures' = 0 /\ UNCHANGED <<fault, retry>>
     ELSE IF Ended /\ want THEN CountFailure ELSE UNCHANGED <<failures, fault, retry>>
  /\ LET call == IF ~want /\ dphase = "active" THEN "cancel"
                 ELSE IF ~want /\ ~inflight' /\ can_start' THEN "receive"
                 ELSE IF want /\ ~fault' /\ dphase = "ready" /\ dmode = "read" THEN "send"
                 ELSE "none"
     IN  GoOn(call, service)
  /\ polled' = TRUE
  /\ UNCHANGED <<dvars, want, have, latest, requested, published, accepted, active,
                 owed, paying, streak>>

Poll(service) == PollRefused(service) \/ PollFaults(service) \/ PollObserves(service)

----------------------------------------------------------------------------
(* The driver calls a poll can end with.                                    *)

(* By the time of the call the attempt may have ended: then nothing happens. *)
Cancel ==
  /\ pc = "cancel"
  /\ IF dphase = "active" THEN DriverAbort ELSE UNCHANGED dvars
  /\ GoOn("none", serving)
  /\ UNCHANGED <<want, queue, health, flight, status, history>>

CallRefused(step, call, possible) ==
  /\ pc = step
  /\ call \in MayRefuse \/ ~possible
  /\ failures' = MoreFailures /\ retry' = TRUE /\ fault' = TRUE
  /\ GoOn("none", serving)
  /\ UNCHANGED <<dvars, want, queue, published, accepted, started, completed, flight, status,
                 history>>

CancelRefused == CallRefused("cancel", "cancel", TRUE)

SetReceiver ==
  /\ pc = "receive"
  /\ DriverSetMode("read")
  /\ write_mode' = FALSE
  /\ GoOn("none", serving)
  /\ UNCHANGED <<want, queue, health, flight, can_start, history>>

SetReceiverRefused_Quietly ==
  /\ pc = "receive"
  /\ "setSender" \in MayRefuse
  /\ write_mode' = FALSE
  /\ GoOn("none", serving)
  /\ UNCHANGED <<dvars, want, queue, health, flight, can_start, history>>

SetReceiverRefused == CallRefused("receive", "setSender", dphase = "ready")

(* status_ is left as it is: the next poll sees the mode.                   *)
SetSender ==
  /\ pc = "send"
  /\ DriverSetMode("write")
  /\ GoOn("none", serving)
  /\ UNCHANGED <<want, queue, health, flight, status, history>>

SetSenderRefused == CallRefused("send", "setSender", dphase = "ready")

----------------------------------------------------------------------------
(* serviceTx after its poll: at most one start.                             *)

MaySend == want /\ have /\ ~inflight /\ ~fault /\ can_start /\ ~retry

Offered_Latest == [packet |-> latest, gen |-> requested]

Offered ==
  IF barriers # <<>> THEN Head(barriers) ELSE [packet |-> latest, gen |-> requested]

NothingToSend ==
  /\ pc = "service"
  /\ ~MaySend
  /\ pc' = "idle"
  /\ UNCHANGED <<dvars, want, queue, health, flight, status, serving, history>>

Write ==
  /\ pc = "service"
  /\ MaySend
  /\ DriverWrite(Offered.packet)
  /\ published' = Offered.gen
  /\ pc' = "start"
  /\ UNCHANGED <<want, queue, accepted, started, completed, failures, fault, retry, flight,
                 status, serving, history>>

Start ==
  /\ pc = "start"
  /\ DriverStart
  /\ inflight' = TRUE
  /\ active' = [gen |-> Offered.gen, attempt |-> dattempt', barrier |-> barriers # <<>>]
  /\ accepted' = Offered.gen
  /\ pc' = "idle"
  /\ paying' = (owed # <<>>)
  /\ UNCHANGED <<want, queue, published, started, completed, failures, fault, retry, status,
                 serving, owed, streak, polled>>

(* A refused write or start is counted like a failed attempt.               *)
SendRefused ==
  /\ \/ pc = "service" /\ MaySend /\ ("write" \in MayRefuse \/ dmode # "write")
     \/ pc = "start" /\ ("start" \in MayRefuse \/ dmode # "write" \/ dphase # "ready")
  /\ CountFailure
  /\ pc' = "idle"
  /\ UNCHANGED <<dvars, want, queue, published, accepted, started, completed, flight, status,
                 serving, history>>

----------------------------------------------------------------------------
(* What happens around the transport: the driver moves on, time passes.     *)

DriverMoves ==
  /\ DriverProgress
  /\ owed' = IF DriverComplete /\ paying THEN Tail(owed) ELSE owed
  /\ paying' = (paying /\ dphase' = "active")
  /\ streak' = IF DriverComplete THEN 0
               ELSE IF dphase = "active" /\ want THEN streak + 1 ELSE streak
  /\ UNCHANGED <<want, queue, health, flight, status, pc, serving, polled>>

(* now is read once for a call.                                             *)
RetryDue ==
  /\ pc = "idle"
  /\ retry
  /\ retry' = FALSE
  /\ UNCHANGED <<dvars, want, queue, published, accepted, started, completed, failures, fault,
                 flight, status, pc, serving, history>>

----------------------------------------------------------------------------
Calls ==
  \/ Cancel \/ CancelRefused
  \/ SetReceiver \/ SetReceiverRefused
  \/ SetSender \/ SetSenderRefused
  \/ NothingToSend \/ Write \/ Start \/ SendRefused

Next ==
  \/ \E p \in Packets, barrier \in BOOLEAN : Stage(p, barrier)
  \/ \E sender \in BOOLEAN : RequestSender(sender)
  \/ \E service \in BOOLEAN : Poll(service)
  \/ Calls
  \/ DriverMoves
  \/ RetryDue

Spec == Init /\ [][Next]_vars

(* loop() polls in every iteration, and comes round to serviceTx in sender  *)
(* mode; a call runs to its end, time passes, and every attempt of the      *)
(* driver ends (DmxTx).                                                     *)
Fairness ==
  /\ SF_vars(\E service \in BOOLEAN : Poll(service))
  /\ SF_vars(want /\ Poll(TRUE))
  /\ WF_vars(Calls)
  /\ SF_vars(RetryDue)
  /\ WF_vars(DriverMoves)

FairSpec == Spec /\ Fairness

----------------------------------------------------------------------------
(* Properties.                                                              *)

(* The five counters of Health never get ahead of one another, whatever is  *)
(* staged, retried, dropped or wrapped (MaintenanceTransport compares them). *)
HealthOrdered ==
  completed <= started /\ started <= accepted /\ accepted <= published /\ published <= requested

(* The ring holds exactly the barriers still owed to the line, in order,    *)
(* but for the one a completion not yet polled has paid: none is lost by a  *)
(* failure or by a mode change, none is sent twice after its completion.    *)
RingIsOwed ==
  \/ barriers = owed
  \/ inflight /\ dresult = "COMPLETE" /\ barriers # <<>> /\ Tail(barriers) = owed

(* completed reaches the generation of a barrier only when the line has     *)
(* carried it whole: DeviceMaintenance restarts on the strength of it.      *)
CompletedMeansCarried == \A i \in 1 .. Len(owed) : completed < owed[i].gen

(* While a barrier is owed, no packet but the oldest one owed is sent, even *)
(* as a retry; otherwise the latest packet is.                              *)
BarriersFirst ==
  [][dattempt' # dattempt =>
       frame' = IF owed # <<>> THEN Head(owed).packet ELSE latest]_vars

(* receiverReady, which the receiver view asks before it reads the port.    *)
ReceiverReady == ~want /\ ~inflight /\ ~write_mode /\ ~fault

(* Once polled after a mode request, receiverReady tells the truth: the     *)
(* view may read from the port because the transmitter has left it.         *)
ReceiverReadyTrue ==
  pc = "idle" /\ polled /\ ReceiverReady => dmode = "read" /\ dphase = "ready"

(* The driver never finds a call of the transport out of order, however it  *)
(* has moved since the poll on whose answer the call rests.                 *)
CallsInOrder ==
  /\ pc \in {"receive", "send"} => dphase = "ready"
  /\ (pc = "service" /\ MaySend) \/ pc = "start" => dmode = "write" /\ dphase = "ready"

(* What the transport believes of the driver, when it answers the receiver  *)
(* view and when it calls the driver, is so.                                *)
DriverBelieved == ReceiverReadyTrue /\ CallsInOrder

(* MaxFailed attempts in a row that the line did not carry are the last.    *)
RetryBudget == streak <= MaxFailed

(* The counters stay in their types, ordered and within the budget, when    *)
(* they wrap, when a start fails after its write, and across retries.       *)
Bookkeeping == TypeOK /\ HealthOrdered /\ RetryBudget

(* Every barrier is carried, dropped by a mode change, or stopped by a      *)
(* fault: the ring drains, so blackout edges cannot be refused for ever.    *)
BarrierResolved == \A g \in Gens :
  (\E i \in 1 .. Len(barriers) : barriers[i].gen = g) ~>
     (fault \/ ~ \E i \in 1 .. Len(barriers) : barriers[i].gen = g)

(* A request to stop sending ends with the port receiving, unless it is     *)
(* withdrawn or the transport has stopped.                                  *)
SenderLeaves == ~want ~> (want \/ fault \/ ReceiverReady)

Staging == INSTANCE TransportStaging WITH
  Capacity <- BarrierCapacity, pending <- Len(barriers), halted <- fault

(* Whoever stages packets may rely on canStage, on the packet staged last   *)
(* and on the ring, however the driver behaves: the dispatcher does.        *)
ImplementsStaging == Staging!StagingSpec
=============================================================================
