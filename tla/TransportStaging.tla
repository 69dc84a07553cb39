-------------------------- MODULE TransportStaging --------------------------
(***************************************************************************)
(* What DmxTransport promises to those who stage packets: canStage tells   *)
(* whether stage will be accepted now, the packet staged last is the one   *)
(* that stays on the line, barriers occupy a bounded ring until the line   *)
(* has carried them, and no longer sending empties it. DmxTransport        *)
(* implements this module; CommandDispatcher is built on it.               *)
(*                                                                         *)
(* The 2^64 generations of the transport are taken as inexhaustible here:  *)
(* close to its wrap-around the transport accepts less than this.          *)
(***************************************************************************)
EXTENDS Naturals

CONSTANTS Packets, Zero,
  Capacity   (* barrier_capacity                                            *)

VARIABLES
  want,      (* want_sender_                                                *)
  latest,    (* latest_                                                     *)
  pending,   (* barriers in the ring                                        *)
  halted     (* fault_stopped                                               *)

svars == <<want, latest, pending, halted>>

StagingInit == want = FALSE /\ latest = Zero /\ pending = 0 /\ halted = FALSE

CanStage(barrier) == want /\ (barrier => pending < Capacity)

Stage(p, barrier) ==
  /\ CanStage(barrier)
  /\ latest' = p
  /\ pending' = IF barrier THEN pending + 1 ELSE pending
  /\ UNCHANGED <<want, halted>>

RequestSender(sender) ==
  /\ want # sender
  /\ want' = sender
  /\ pending' = IF sender THEN pending ELSE 0
  /\ UNCHANGED <<latest, halted>>

(* The line has carried the oldest barrier.                                 *)
Carry ==
  /\ pending > 0
  /\ pending' = pending - 1
  /\ UNCHANGED <<want, latest, halted>>

Halt ==
  /\ ~halted
  /\ halted' = TRUE
  /\ UNCHANGED <<want, latest, pending>>

StagingNext ==
  \/ \E p \in Packets, barrier \in BOOLEAN : Stage(p, barrier)
  \/ \E sender \in BOOLEAN : RequestSender(sender)
  \/ Carry
  \/ Halt

StagingSpec == StagingInit /\ [][StagingNext]_svars
=============================================================================
