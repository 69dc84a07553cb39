----------------------------- MODULE LiveScene -----------------------------
(***************************************************************************)
(* What DmxController promises to those who only watch the live scene: the *)
(* packet being edited, blackout, and what every operation answers.        *)
(* DmxController implements this module; CommandDispatcher is built on it. *)
(***************************************************************************)
CONSTANTS Packets, Zero

VARIABLES
  working,   (* working_                                                    *)
  restore,   (* restore_                                                    *)
  blackout,  (* blackout_                                                   *)
  ok,        (* the last operation's Result was ok                          *)
  changed    (* revision_ moved in it                                       *)

lvars == <<working, restore, blackout, ok, changed>>

SceneInit == working = Zero /\ restore = Zero /\ blackout = FALSE /\ ok = TRUE /\ changed = FALSE

Output == IF blackout THEN Zero ELSE working

Edit(p) ==
  /\ working' = p
  /\ ok' = TRUE /\ changed' = (p # working)
  /\ UNCHANGED <<restore, blackout>>

SetBlackout(active) ==
  /\ blackout' = active
  /\ restore' = IF active /\ ~blackout THEN working ELSE restore
  /\ working' = IF blackout /\ ~active THEN restore ELSE working
  /\ ok' = TRUE /\ changed' = (active # blackout)

Refuse ==
  /\ ok' = FALSE /\ changed' = FALSE
  /\ UNCHANGED <<working, restore, blackout>>

(* A load may change no channel and yet the provenance.                     *)
Load(p) ==
  /\ working' = p
  /\ ok' = TRUE /\ changed' \in {p # working, TRUE}
  /\ UNCHANGED <<restore, blackout>>

(* Saving, copying, clearing, exporting and importing presets.              *)
Presets ==
  /\ ok' \in BOOLEAN /\ changed' \in BOOLEAN
  /\ UNCHANGED <<working, restore, blackout>>

Reset ==
  /\ working' = Zero /\ restore' = Zero /\ blackout' = FALSE
  /\ ok' = TRUE
  /\ changed' \in {<<working, restore, blackout>> # <<Zero, Zero, FALSE>>, TRUE}

SceneNext ==
  \/ \E p \in Packets : Edit(p) \/ Load(p)
  \/ \E active \in BOOLEAN : SetBlackout(active)
  \/ Refuse \/ Presets \/ Reset

SceneSpec == SceneInit /\ [][SceneNext]_lvars
=============================================================================
