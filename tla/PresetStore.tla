---------------------------- MODULE PresetStore ----------------------------
(***************************************************************************)
(* preset_archive::Store (include/preset_archive_store.h) on its key-value *)
(* store: two banks and a selector. A collection is written to the bank    *)
(* that is not selected, read back, and made current by one write of the   *)
(* selector. Every call to the key-value store can fail, before or after   *)
(* it has had its effect, and the power can go between any two of them.    *)
(*                                                                         *)
(* The key-value store is external (NVS behind preset_store.h). It keeps   *)
(* the order of its writes: what the power leaves is what some prefix of   *)
(* the writes since the last commit made, the last one perhaps torn.       *)
(***************************************************************************)
EXTENDS Naturals

CONSTANTS
  Collections, Empty, NoWrite,   (* see PresetRegister                      *)
  Missing,  (* no selector, or no such blob                                 *)
  Bad       (* a blob valid() rejects: torn, or with a wrong CRC            *)

ASSUME StoreAssumption ==
  /\ Empty \in Collections
  /\ NoWrite \notin Collections
  /\ Missing \notin Collections \cup {0, 1}
  /\ Bad \notin Collections

VARIABLES
  view,     (* what the calls read now, see Flash                           *)
  maybe,    (* what a boot after a power cut may read                       *)
  raw,      (* the collection publish is to write                           *)
  next,     (* the bank it writes                                           *)
  sure,     (* select and commit both reported success                      *)
  pc,       (* the next call of publish, or "idle"                          *)
  reply     (* of the last operation, see TypeOK                            *)

vars == <<view, maybe, raw, next, sure, pc, reply>>

Banks == {0, 1}
Flash ==
  [selector : Banks \cup {Missing}, bank : [Banks -> Collections \cup {Missing, Bad}]]

(* What load returns: the selected bank, or nothing at all before the first *)
(* publication.                                                             *)
Stored(m) == IF m.selector = Missing THEN Empty ELSE m.bank[m.selector]

Steps == {"idle", "erase", "erased", "write", "written", "verify", "select", "selected",
          "resolve"}

TypeOK ==
  /\ view \in Flash
  /\ maybe \subseteq Flash
  /\ raw \in Collections
  /\ next \in Banks
  /\ sure \in BOOLEAN
  /\ pc \in Steps
  /\ reply \in {"none", "same", "ok", "failed", "uncertain"}

Init ==
  /\ view = [selector |-> Missing, bank |-> [b \in Banks |-> Missing]]
  /\ maybe = {view}
  /\ raw = Empty /\ next = 0 /\ sure = FALSE
  /\ pc = "idle" /\ reply = "none"

----------------------------------------------------------------------------
(* The key-value store (external). A write changes what is read at once,    *)
(* and what a power cut may leave; a commit, or the medium by itself,       *)
(* makes sure of it.                                                        *)

WithBank(content) == [view EXCEPT !.bank[next] = content]

Writes(m) == view' = m /\ maybe' = maybe \cup {m}
WritesBlob(m) == view' = m /\ maybe' = maybe \cup {WithBank(Bad), m}

CommitOk == maybe' = {view} /\ UNCHANGED view
CommitError == maybe' \in {maybe, {view}} /\ UNCHANGED view

----------------------------------------------------------------------------
(* The operations of PresetStore and Store::replace that write: each loads  *)
(* the selected collection first.                                           *)

OtherBank(selector) == IF selector = Missing THEN 0 ELSE 1 - selector

Publish(c) ==
  /\ pc = "idle"
  /\ Stored(view) \in Collections
  /\ raw' = c
  /\ next' = OtherBank(view.selector)
  /\ sure' = FALSE
  /\ pc' = "erase"
  /\ reply' = "none"
  /\ UNCHANGED <<view, maybe>>

(* save and erase change one preset of what is stored.                      *)
Edit(c) == c # Stored(view) /\ Publish(c)

(* save of what the slot already holds writes nothing.                      *)
EditNothing ==
  /\ pc = "idle"
  /\ Stored(view) \in Collections
  /\ reply' = "same"
  /\ UNCHANGED <<view, maybe, raw, next, sure, pc>>

(* replace publishes any collection, behind a gate another task can close.  *)
Replace(c) == Publish(c)

(* load fails, or the gate is closed before anything is written.            *)
Refused ==
  /\ pc = "idle"
  /\ reply' = "failed"
  /\ UNCHANGED <<view, maybe, raw, next, sure, pc>>

Finish(commit) ==
  /\ pc' = "idle"
  /\ reply' = commit
  /\ UNCHANGED <<raw, next, sure>>

GoOn(step) ==
  /\ pc' = step
  /\ UNCHANGED <<raw, next, sure, reply>>

----------------------------------------------------------------------------
(* publish.                                                                 *)

Erase ==
  /\ pc = "erase"
  /\ \/ Writes(WithBank(Missing)) /\ GoOn("erased")
     \/ Writes(WithBank(Missing)) /\ Finish("failed")
     \/ UNCHANGED <<view, maybe>> /\ Finish("failed")

CommitErase ==
  /\ pc = "erased"
  /\ \/ CommitOk /\ GoOn("write")
     \/ CommitError /\ Finish("failed")

(* A blob can be wrong although the call reported success.                  *)
Write ==
  /\ pc = "write"
  /\ \/ \E content \in {raw, Bad} : WritesBlob(WithBank(content)) /\ GoOn("written")
     \/ \E content \in {raw, Bad} : WritesBlob(WithBank(content)) /\ Finish("failed")
     \/ UNCHANGED <<view, maybe>> /\ Finish("failed")

CommitWrite ==
  /\ pc = "written"
  /\ \/ CommitOk /\ GoOn("verify")
     \/ CommitError /\ Finish("failed")

ReadsBack_Unchecked == TRUE

ReadsBack == view.bank[next] = raw

Verify ==
  /\ pc = "verify"
  /\ ReadsBack /\ GoOn("select")
  /\ UNCHANGED <<view, maybe>>

(* The bank cannot be read, holds something else, or the gate has closed.   *)
VerifyFails ==
  /\ pc = "verify"
  /\ Finish("failed")
  /\ UNCHANGED <<view, maybe>>

Select ==
  /\ pc = "select"
  /\ \/ Writes([view EXCEPT !.selector = next]) /\ GoOn("selected")
     \/ Writes([view EXCEPT !.selector = next]) /\ GoOn("resolve")
     \/ UNCHANGED <<view, maybe>> /\ GoOn("resolve")

CommitSelect ==
  /\ pc = "selected"
  /\ pc' = "resolve"
  /\ \/ CommitOk /\ sure' = TRUE
     \/ CommitError /\ UNCHANGED sure
  /\ UNCHANGED <<raw, next, reply>>

Outcome_Optimistic == IF view.selector = next THEN "ok" ELSE "failed"

(* The selector decides what the errors of select and commit left open.     *)
Outcome ==
  IF view.selector # next THEN "failed" ELSE IF sure THEN "ok" ELSE "uncertain"

Resolve ==
  /\ pc = "resolve"
  /\ Finish(Outcome) \/ Finish("uncertain")
  /\ UNCHANGED <<view, maybe>>

PowerCut ==
  /\ view' \in maybe
  /\ maybe' = {view'}
  /\ pc' = "idle" /\ reply' = "none" /\ sure' = FALSE
  /\ raw' = Empty /\ next' = 0

Next ==
  \/ \E c \in Collections : Edit(c) \/ Replace(c)
  \/ EditNothing
  \/ Refused
  \/ Erase \/ CommitErase
  \/ Write \/ CommitWrite
  \/ Verify \/ VerifyFails
  \/ Select \/ CommitSelect
  \/ Resolve
  \/ PowerCut

Spec == Init /\ [][Next]_vars

----------------------------------------------------------------------------
(* Properties.                                                              *)

(* Whatever fails and whenever the power goes, the selected bank holds a    *)
(* whole collection (load never answers "corrupt").                         *)
Recoverable == \A m \in maybe \cup {view} : Stored(m) \in Collections

(* The banks and the selector implement a register that is written at once  *)
(* or not at all, and whose answers are true.                               *)
Register == INSTANCE PresetRegister WITH
  stored <- Stored(view),
  bootable <- {Stored(m) : m \in maybe},
  writing <- IF pc = "idle" THEN NoWrite ELSE raw,
  took <- pc # "idle" /\ view.selector = next,
  answer <- reply

ImplementsRegister == Register!RegisterSpec
=============================================================================
