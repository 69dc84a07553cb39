---------------------------- MODULE DmxDriver ----------------------------
(***************************************************************************)
(* What the patched esp_dmx transmitter promises its one owner task, with  *)
(* the UART, the interrupt handler and the port lock abstracted away: one  *)
(* frame at a time is sent from a private copy of the packet; the attempt  *)
(* ends either complete, with the whole packet on the line, or aborted,    *)
(* in which case the line is left to drain before anything else is done    *)
(* with the port, or the port stops for good.                              *)
(*                                                                         *)
(* DmxTx implements this specification; DmxTransport is built on it.       *)
(***************************************************************************)
EXTENDS Naturals

CONSTANTS
  Packets,     (* the 513 byte packets the owner may send                  *)
  Zero,        (* the all-zero packet dmx_set_mode leaves in the buffer    *)
  NoPacket,    (* "no frame yet"                                           *)
  AttemptMod   (* the attempt counter's modulus, 2^32 in the code          *)

ASSUME DriverAssumption ==
  /\ Zero \in Packets
  /\ NoPacket \notin Packets
  /\ AttemptMod \in Nat \ {0, 1}

(* dmx_tx_result_t, with the reasons an attempt can fail for taken as one: *)
(* the owner only asks whether the attempt is complete.                    *)
Results == {"PENDING", "COMPLETE", "FAILED"}

VARIABLES
  dmode,      (* "read" or "write"                                          *)
  dphase,     (* "ready", "active", "retiring" or "stopped"                 *)
  dresult,    (* the result of the current or last attempt                  *)
  dattempt,   (* its number; 0 only before the first attempt                *)
  staged,     (* the packet dmx_write_packet left for the next attempt      *)
  frame,      (* the packet the current or last attempt sends               *)
  delivered   (* the last packet the line carried whole                     *)

dvars == <<dmode, dphase, dresult, dattempt, staged, frame, delivered>>

DriverTypeOK ==
  /\ dmode \in {"read", "write"}
  /\ dphase \in {"ready", "active", "retiring", "stopped"}
  /\ dresult \in Results
  /\ dattempt \in 0 .. AttemptMod - 1
  /\ staged \in Packets
  /\ frame \in Packets \cup {NoPacket}
  /\ delivered \in Packets \cup {NoPacket}

(* Attempt numbers wrap around and skip 0, which means "no attempt".       *)
NextAttempt(a) ==
  IF (a + 1) % AttemptMod = 0 THEN 1 ELSE (a + 1) % AttemptMod

DriverInit ==
  /\ dmode = "read"
  /\ dphase = "ready"
  /\ dresult = "PENDING"
  /\ dattempt = 0
  /\ staged = Zero
  /\ frame = NoPacket
  /\ delivered = NoPacket

----------------------------------------------------------------------------
(* The owner's calls that succeed. One that is refused changes nothing; a  *)
(* cancel is an abort.                                                     *)

DriverWrite(p) ==
  /\ dmode = "write"
  /\ staged' = p
  /\ UNCHANGED <<dmode, dphase, dresult, dattempt, frame, delivered>>

DriverStart ==
  /\ dmode = "write"
  /\ dphase = "ready"
  /\ dphase' = "active"
  /\ dresult' = "PENDING"
  /\ dattempt' = NextAttempt(dattempt)
  /\ frame' = staged
  /\ UNCHANGED <<dmode, staged, delivered>>

DriverSetMode(m) ==
  /\ dphase = "ready"
  /\ dmode # m
  /\ dmode' = m
  /\ staged' = IF m = "write" THEN Zero ELSE staged
  /\ UNCHANGED <<dphase, dresult, dattempt, frame, delivered>>

(* The attempt is given up: by dmx_tx_cancel, or because the line was not  *)
(* fed in time, or because it takes too long. A line that is already idle  *)
(* lets the port be ready at once.                                         *)
DriverAbort ==
  /\ dphase = "active"
  /\ dresult' = "FAILED"
  /\ dphase' \in {"retiring", "ready"}
  /\ UNCHANGED <<dmode, dattempt, staged, frame, delivered>>

----------------------------------------------------------------------------
(* What the transmitter does by itself.                                    *)

DriverComplete ==
  /\ dphase = "active"
  /\ dphase' = "ready"
  /\ dresult' = "COMPLETE"
  /\ delivered' = frame
  /\ UNCHANGED <<dmode, dattempt, staged, frame>>

DriverRetired ==
  /\ dphase = "retiring"
  /\ dphase' = "ready"
  /\ UNCHANGED <<dmode, dresult, dattempt, staged, frame, delivered>>

DriverStop ==
  /\ dphase = "retiring"
  /\ dphase' = "stopped"
  /\ UNCHANGED <<dmode, dresult, dattempt, staged, frame, delivered>>

DriverProgress ==
  \/ DriverComplete
  \/ DriverAbort
  \/ DriverRetired
  \/ DriverStop

DriverNext ==
  \/ \E p \in Packets : DriverWrite(p)
  \/ DriverStart
  \/ \E m \in {"read", "write"} : DriverSetMode(m)
  \/ DriverProgress

DriverSpec == DriverInit /\ [][DriverNext]_dvars
=============================================================================
