------------------------- MODULE WifiConfiguration --------------------------
(***************************************************************************)
(* The authority over a change of the Wi-Fi credentials                    *)
(* (wifi_configuration.h), which lives in the owner task: a browser        *)
(* proposes, the panel approves, the network worker applies. What the      *)
(* authority asks of the network (its Backend) is a parameter here.        *)
(***************************************************************************)
EXTENDS Naturals

CONSTANT Networks   (* the credentials that there may be                    *)

ASSUME NetworksAssumption == Networks \subseteq Nat \ {0}

VARIABLE conf       (* state_, owner_ and candidate_: shown is state_.ssid, *)
                    (* told that the phase applying has been announced      *)

NoNetwork == 0      (* none, or not known yet                               *)
NoOwner == 0

ConfPhases == {"idle", "approval", "applying", "failed"}

ConfInit ==
  conf = [phase |-> "idle", owner |-> NoOwner, candidate |-> NoNetwork,
          shown |-> NoNetwork, told |-> FALSE]

Active == conf.phase \in {"approval", "applying"}
Applying == conf.phase = "applying"

Discarded(phase) ==
  [conf EXCEPT !.phase = phase, !.owner = NoOwner, !.candidate = NoNetwork, !.told = FALSE]

(* A proposal of what runs already is no change, and changes nothing.       *)
Propose(gen, candidate, current) ==
  /\ ~Active
  /\ candidate # current
  /\ conf' = [Discarded("approval") EXCEPT !.owner = gen, !.candidate = candidate]

Cancel(gen) ==
  /\ conf.phase = "approval" /\ conf.owner = gen
  /\ conf' = Discarded("idle")

(* begun: the network has taken the job over.                               *)
Approve(late, connected, begun) ==
  /\ conf.phase = "approval"
  /\ conf' = IF late \/ ~connected THEN Discarded("idle")
             ELSE IF ~begun THEN Discarded("failed")
             ELSE [conf EXCEPT !.phase = "applying", !.candidate = NoNetwork]

Dismiss == conf.phase = "failed" /\ conf' = Discarded("idle")

CancelPhysical == conf' = IF conf.phase = "approval" THEN Discarded("idle") ELSE conf

Poll(late, connected, ready, result, current) ==
  conf' =
    CASE conf.phase = "approval" -> IF late \/ ~connected THEN Discarded("idle") ELSE conf
      [] Applying -> IF result = "pending" THEN conf
                     ELSE [Discarded(IF result = "done" THEN "idle" ELSE "failed") EXCEPT !.shown = current]
      [] OTHER -> IF ready /\ conf.shown = NoNetwork THEN [conf EXCEPT !.shown = current] ELSE conf
=============================================================================
