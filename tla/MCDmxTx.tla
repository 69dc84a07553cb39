----------------------------- MODULE MCDmxTx -----------------------------
(* Frames of three slots through a FIFO of two: a frame needs a refill, the *)
(* refill may come late, and the last refill leaves a slot to drain. Two    *)
(* packets tell a snapshot from the owner's buffer. One tick per frame      *)
(* separates the deadlines of four and of two frames.                       *)
EXTENDS DmxTx
=============================================================================
