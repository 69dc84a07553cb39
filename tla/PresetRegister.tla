-------------------------- MODULE PresetRegister --------------------------
(***************************************************************************)
(* What the preset storage promises the controller: one register holding   *)
(* the collection of presets. A write takes effect at once or not at all,  *)
(* whatever fails and whenever the power goes; the answer "ok" means that  *)
(* it took effect for good, "failed" that it did not, and "uncertain" that *)
(* the next reading, or the next boot, will tell.                          *)
(***************************************************************************)
CONSTANTS
  Collections,  (* the contents of the presets P1 to P8                     *)
  Empty,        (* no preset at all                                         *)
  NoWrite       (* "no write is under way"                                  *)

VARIABLES
  stored,    (* what a reading returns                                      *)
  bootable,  (* what a reading may return after the power has gone          *)
  writing,   (* the collection being written                                *)
  took,      (* that write has taken effect                                 *)
  answer     (* of the last write: "none", "ok", "failed" or "uncertain";   *)
             (* "same" if there was nothing to write                        *)

rvars == <<stored, bootable, writing, took, answer>>

RegisterInit ==
  /\ stored = Empty /\ bootable = {Empty}
  /\ writing = NoWrite /\ took = FALSE /\ answer = "none"

BeginWrite(c) ==
  /\ writing = NoWrite
  /\ writing' = c /\ took' = FALSE /\ answer' = "none"
  /\ UNCHANGED <<stored, bootable>>

TakeEffect ==
  /\ writing # NoWrite /\ ~took
  /\ stored' = writing
  /\ bootable' = bootable \cup {writing}
  /\ took' = TRUE
  /\ UNCHANGED <<writing, answer>>

(* The medium makes sure of what a reading returns.                         *)
Settle ==
  /\ bootable' = {stored}
  /\ UNCHANGED <<stored, writing, took, answer>>

EndWrite(a) ==
  /\ writing # NoWrite
  /\ a = "ok" => took /\ bootable = {stored}
  /\ a = "failed" => ~took
  /\ writing' = NoWrite /\ answer' = a /\ took' = FALSE
  /\ bootable' \in {bootable, {stored}}
  /\ UNCHANGED stored

(* A write that touches nothing: turned down, or of what is stored already. *)
Refuse ==
  /\ writing = NoWrite
  /\ answer' \in {"failed", "same"}
  /\ UNCHANGED <<stored, bootable, writing, took>>

PowerCut ==
  /\ stored' \in bootable
  /\ bootable' = {stored'}
  /\ writing' = NoWrite /\ took' = FALSE /\ answer' = "none"

RegisterNext ==
  \/ \E c \in Collections : BeginWrite(c)
  \/ TakeEffect \/ Settle
  \/ \E a \in {"ok", "failed", "uncertain"} : EndWrite(a)
  \/ Refuse
  \/ PowerCut

RegisterSpec == RegisterInit /\ [][RegisterNext]_rvars
=============================================================================
