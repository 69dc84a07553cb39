--------------------------- MODULE WifiCredentials ---------------------------
(***************************************************************************)
(* The change of the Wi-Fi credentials (wifi_credential_transaction.h), as *)
(* the network worker executes it (wifiChange), and the boot that follows  *)
(* a power cut (prepare, src/network_service.cpp). The record "ap1" is     *)
(* replaced under an undo journal "ap_try", which holds the previous       *)
(* record and the candidate until the radio runs on the candidate and the  *)
(* candidate is stored.                                                    *)
(*                                                                         *)
(* One task at a time uses these records, so a store call and the reading  *)
(* that verifies it are one step: what a power cut leaves between the two  *)
(* is what it leaves after either. Every store call can fail, before or    *)
(* after its effect, a read can fail, and a write that reports success can *)
(* have stored something else. One write is all or nothing to a power cut. *)
(***************************************************************************)
EXTENDS Naturals

CONSTANTS
  Factory,     (* the record derived from the MAC address                   *)
  Customs,     (* the records an operator may propose                       *)
  None,        (* no record: a missing key, a radio that is down            *)
  Bad          (* bytes that valid() or select() rejects                    *)

ASSUME CredentialsAssumption ==
  /\ Factory \notin Customs
  /\ None \notin Customs \cup {Factory}
  /\ Bad \notin Customs \cup {Factory, None}
  /\ \A none \in {None, Bad} : none \notin [previous : Customs \cup {Factory}, candidate : Customs]

VARIABLES
  view,       (* what the store reads now, see Flash                        *)
  maybe,      (* what a boot after a power cut may read                     *)
  journal,    (* the journal of the transaction, in RAM                     *)
  result,     (* what the transaction would answer                          *)
  touched,    (* the sessions are closed, the radio may have changed        *)
  healthy,    (* recovery and rollback have succeeded so far                *)
  caller,     (* who recovers or rolls back: "boot", "stage" or "execute"   *)
  verdict,    (* the Work the transaction ended with, or "none"             *)
  ram,        (* credentials: what the screen shows                         *)
  radio,      (* what the access point runs on                              *)
  resetting,  (* shared.reset_pending                                       *)
  pc,         (* the next step; "idle" if the worker has nothing to do      *)
  owes,       (* history: the records a boot is to come back with           *)
  unowed,     (* history: those it may come back with because a change was  *)
              (* staged over a journal that named another                   *)
  resumed,    (* history: Wi-Fi was turned on again after a rollback_error, *)
              (* and neither a restart nor a change that was done followed  *)
  begun       (* history: the record when the transaction began             *)

flash == <<view, maybe>>
work == <<journal, result, touched, healthy, caller>>
history == <<owes, unowed, resumed, begun>>
vars == <<flash, work, verdict, ram, radio, resetting, pc, history>>

Records == Customs \cup {Factory}
Journals == [previous : Records, candidate : Customs]
Flash == [ap1 : Records \cup {Bad}, ap_try : Journals \cup {None, Bad}, factory : BOOLEAN]
Works == {"none", "done", "storage_error", "radio_error", "rollback_error"}
Steps == {"boot", "wipe", "recover", "rollback", "unjournal", "select", "launch", "idle",
          "off", "dead", "stage", "retire", "apply", "promote", "forget", "restore"}

TypeOK ==
  /\ view \in Flash /\ maybe \subseteq Flash
  /\ journal \in Journals
  /\ result \in Works /\ touched \in BOOLEAN /\ healthy \in BOOLEAN
  /\ caller \in {"boot", "stage", "execute"}
  /\ verdict \in Works
  /\ ram \in Records \cup {None} /\ radio \in Records \cup {None}
  /\ resetting \in BOOLEAN
  /\ pc \in Steps
  /\ owes \subseteq Records \cup {Bad} /\ unowed \subseteq Records
  /\ resumed \in BOOLEAN /\ begun \in Records

(* A device that has been set up: it holds a valid record and no journal.   *)
Init ==
  /\ view \in [ap1 : Records, ap_try : {None}, factory : {FALSE}]
  /\ maybe = {view}
  /\ journal \in Journals
  /\ result = "none" /\ touched = FALSE /\ healthy = TRUE /\ caller = "boot"
  /\ verdict = "none" /\ ram = None /\ radio = None /\ resetting = FALSE
  /\ pc = "boot"
  /\ owes = {view.ap1} /\ unowed = {} /\ resumed = FALSE /\ begun = view.ap1

----------------------------------------------------------------------------
(* The store: WifiCredentialStore and Preferences over NVS. Each call that  *)
(* writes commits, and a commit settles every earlier write as well.        *)

Succeeds(m) == view' = m /\ maybe' = {m}

Fails(m) ==
  \/ UNCHANGED flash
  \/ view' = m /\ maybe' \in {{m}, maybe \cup {m}}

(* write and verify: a failure may also be that of the reading, or the      *)
(* discovery that something else was stored.                                *)
WriteVerified(m) == Succeeds(m)
WriteUnverified(m, wrong) == Fails(m) \/ Fails(wrong) \/ Succeeds(m) \/ Succeeds(wrong)

(* What a boot restores from m, if its calls succeed and no factory reset   *)
(* was asked for.                                                           *)
Restored(m) == IF m.ap_try \in Journals THEN m.ap_try.previous ELSE m.ap1

WithRecord(r) == [view EXCEPT !.ap1 = r]
WithJournal(j) == [view EXCEPT !.ap_try = j]

(* eraseVerified: a key that is missing already needs no commit.            *)
Erased == IF view.ap_try = None THEN UNCHANGED flash ELSE Succeeds(WithJournal(None))
NotErased ==
  IF view.ap_try = None THEN UNCHANGED flash
  ELSE Fails(WithJournal(None)) \/ Succeeds(WithJournal(None))

----------------------------------------------------------------------------
(* How a transaction ends. After a rollback_error the worker tears the      *)
(* network down.                                                            *)

Conclude(ok) ==
  /\ verdict' = IF ok THEN result ELSE "rollback_error"
  /\ pc' = IF ok THEN "idle" ELSE "off"

(* What follows recover, and what follows rollback.                         *)
Recovered(ok) ==
  /\ caller = "boot" => pc' = (IF ok THEN "select" ELSE "dead") /\ UNCHANGED <<verdict, radio>>
  /\ caller = "stage" => Conclude(ok) /\ radio' = IF ok THEN radio ELSE None

Saved_Always(ok) == healthy' = healthy

Saved(ok) == healthy' = (healthy /\ ok)

MustRestore_Never == FALSE

MustRestore == touched

RolledBack(ok) ==
  IF caller # "execute" THEN Recovered(ok) /\ UNCHANGED healthy
  ELSE /\ Saved(ok)
       /\ IF MustRestore THEN pc' = "restore" /\ UNCHANGED <<verdict, radio>>
          ELSE Conclude(healthy') /\ radio' = IF healthy' THEN radio ELSE None

----------------------------------------------------------------------------
(* recover and rollback.                                                    *)

Valid(j) == j \in Journals

FirstUndo_Erase == "unjournal"

FirstUndo == "rollback"

Recover ==
  /\ pc = "recover"
  /\ \/ view.ap_try = None /\ Recovered(TRUE) /\ UNCHANGED journal
     \/ ~Valid(view.ap_try) /\ view.ap_try # None /\ Recovered(FALSE) /\ UNCHANGED journal
     \/ Recovered(FALSE) /\ UNCHANGED journal
     \/ /\ Valid(view.ap_try)
        /\ journal' = view.ap_try
        /\ pc' = FirstUndo
        /\ UNCHANGED <<verdict, radio>>
  /\ UNCHANGED <<flash, result, touched, healthy, caller, ram, resetting, history>>

Rollback ==
  /\ pc = "rollback"
  /\ \/ /\ WriteVerified(WithRecord(journal.previous))
        /\ pc' = "unjournal"
        /\ UNCHANGED <<healthy, verdict, radio>>
     \/ /\ WriteUnverified(WithRecord(journal.previous), WithRecord(Bad))
        /\ RolledBack(FALSE)
  /\ UNCHANGED <<journal, result, touched, caller, ram, resetting, history>>

Unjournal ==
  /\ pc = "unjournal"
  /\ \/ Erased /\ RolledBack(TRUE)
     \/ NotErased /\ RolledBack(FALSE)
  /\ UNCHANGED <<journal, result, touched, caller, ram, resetting, history>>

----------------------------------------------------------------------------
(* The boot: prepare, and the worker bringing up the access point.          *)

BootRecover ==
  /\ pc = "boot"
  /\ ~view.factory
  /\ caller' = "boot"
  /\ pc' = "recover"
  /\ UNCHANGED <<flash, journal, result, touched, healthy, verdict, ram, radio, resetting,
                 history>>

(* A factory reset that was asked for wins over a journal.                  *)
BootWipe ==
  /\ pc = "boot"
  /\ view.factory
  /\ owes' = {Factory}
  /\ pc' = "wipe"
  /\ UNCHANGED <<flash, work, verdict, ram, radio, resetting, unowed, resumed, begun>>

Wipe ==
  /\ pc = "wipe"
  /\ \/ Erased /\ pc' = "select"
     \/ NotErased /\ pc' = "dead"
  /\ UNCHANGED <<work, verdict, ram, radio, resetting, history>>

Select ==
  /\ pc = "select"
  /\ ~view.factory
  /\ \/ view.ap1 \in Records /\ ram' = view.ap1 /\ pc' = "launch"
     \/ ram' = None /\ pc' = "dead"
  /\ UNCHANGED <<flash, work, verdict, radio, resetting, history>>

(* The factory record is written and verified; only then is the request     *)
(* removed, see Acknowledge.                                                *)
WriteFactory ==
  /\ pc = "select"
  /\ view.factory /\ view.ap1 # Factory
  /\ \/ WriteVerified(WithRecord(Factory)) /\ UNCHANGED pc
     \/ WriteUnverified(WithRecord(Factory), WithRecord(Bad)) /\ pc' = "dead"
  /\ UNCHANGED <<work, verdict, ram, radio, resetting, history>>

Acknowledge ==
  /\ pc = "select"
  /\ view.factory /\ view.ap1 = Factory
  /\ \/ Succeeds([view EXCEPT !.factory = FALSE]) /\ ram' = Factory /\ pc' = "launch"
     \/ Fails([view EXCEPT !.factory = FALSE]) /\ UNCHANGED ram /\ pc' = "dead"
  /\ UNCHANGED <<work, verdict, radio, resetting, history>>

(* runNetwork: at boot, and when Wi-Fi is turned on again, which nothing    *)
(* prevents after a rollback_error.                                         *)
Launch ==
  /\ pc \in {"launch", "off"}
  /\ \/ radio' = ram /\ pc' = "idle"
     \/ radio' = None /\ pc' = "off"
  /\ resumed' = (resumed \/ verdict = "rollback_error")
  /\ UNCHANGED <<flash, work, verdict, ram, resetting, owes, unowed, begun>>

TurnOff ==
  /\ pc = "idle"
  /\ radio' = None
  /\ pc' = "off"
  /\ UNCHANGED <<flash, work, verdict, ram, resetting, history>>

RequestFactoryReset ==
  /\ pc \in {"idle", "off"}
  /\ ~resetting
  /\ \/ Succeeds([view EXCEPT !.factory = TRUE]) /\ resetting' = TRUE
     \/ Fails([view EXCEPT !.factory = TRUE]) /\ UNCHANGED resetting
  /\ UNCHANGED <<work, verdict, ram, radio, pc, history>>

PowerCut ==
  /\ pc # "boot"
  /\ view' \in maybe
  /\ maybe' = {view'}
  /\ UNCHANGED <<journal, begun>>
  /\ result' = "none" /\ touched' = FALSE /\ healthy' = TRUE /\ caller' = "boot"
  /\ verdict' = "none" /\ ram' = None /\ radio' = None /\ resetting' = FALSE
  /\ pc' = "boot"
  /\ owes' = IF view'.factory THEN owes ELSE (owes \cup unowed) \cap {Restored(view')}
  /\ unowed' = {} /\ resumed' = FALSE

----------------------------------------------------------------------------
(* execute: stage, retire the sessions, run the radio on the candidate,     *)
(* promote it, or undo all of that in the order below.                      *)

Begin(c) ==
  /\ pc = "idle"
  /\ ~resetting
  /\ c # ram
  /\ journal' = [journal EXCEPT !.candidate = c]
  /\ result' = "storage_error" /\ touched' = FALSE /\ healthy' = TRUE
  /\ caller' = "stage"
  /\ verdict' = "none"
  /\ begun' = IF view.ap1 \in Records THEN view.ap1 ELSE begun
  /\ owes' = owes \cap {Restored(m) : m \in maybe}
  /\ pc' = "stage"
  /\ UNCHANGED <<flash, ram, radio, resetting, unowed, resumed>>

Stage ==
  /\ pc = "stage"
  /\ \/ UNCHANGED <<flash, journal, caller, result, unowed>> /\ pc' = "recover"
     \/ /\ view.ap1 \in Records
        /\ journal' = [journal EXCEPT !.previous = view.ap1]
        /\ unowed' = IF Restored(view) = view.ap1 THEN unowed ELSE unowed \cup {view.ap1}
        /\ \/ /\ WriteVerified(WithJournal(journal'))
              /\ caller' = "execute" /\ result' = "radio_error" /\ pc' = "retire"
           \/ /\ WriteUnverified(WithJournal(journal'), WithJournal(Bad))
              /\ UNCHANGED <<caller, result>> /\ pc' = "recover"
  /\ UNCHANGED <<touched, healthy, verdict, ram, radio, resetting, owes, resumed, begun>>

Undo(outcome) ==
  /\ result' = outcome
  /\ pc' = "rollback"

Retire ==
  /\ pc = "retire"
  /\ \/ touched' = TRUE /\ pc' = "apply" /\ UNCHANGED result
     \/ Undo("radio_error") /\ UNCHANGED touched
  /\ UNCHANGED <<flash, journal, healthy, caller, verdict, ram, radio, resetting, history>>

(* apply and ready. An attempt that fails leaves the radio down, or up on   *)
(* either record.                                                           *)
Apply ==
  /\ pc = "apply"
  /\ \/ radio' = journal.candidate /\ result' = "storage_error" /\ pc' = "promote"
     \/ radio' \in {radio, None, journal.candidate} /\ Undo("radio_error")
  /\ UNCHANGED <<flash, journal, touched, healthy, caller, verdict, ram, resetting, history>>

Promote ==
  /\ pc = "promote"
  /\ \/ /\ WriteVerified(WithRecord(journal.candidate))
        /\ pc' = "forget" /\ UNCHANGED result
     \/ /\ WriteUnverified(WithRecord(journal.candidate), WithRecord(Bad))
        /\ Undo("storage_error")
  /\ UNCHANGED <<journal, touched, healthy, caller, verdict, ram, radio, resetting, history>>

Forget ==
  /\ pc = "forget"
  /\ \/ /\ Erased
        /\ ram' = journal.candidate
        /\ result' = "done" /\ verdict' = "done" /\ pc' = "idle"
        /\ owes' = {journal.candidate} /\ unowed' = {} /\ resumed' = FALSE
     \/ /\ NotErased
        /\ Undo("storage_error")
        /\ owes' = owes \cup {journal.candidate, Bad}
        /\ UNCHANGED <<ram, verdict, unowed, resumed>>
  /\ UNCHANGED <<journal, touched, healthy, caller, radio, resetting, begun>>

Restore ==
  /\ pc = "restore"
  /\ \/ /\ Conclude(healthy)
        /\ radio' = IF healthy THEN journal.previous ELSE None
        /\ UNCHANGED healthy
     \/ healthy' = FALSE /\ Conclude(FALSE) /\ radio' = None
  /\ UNCHANGED <<flash, journal, result, touched, caller, ram, resetting, history>>

Next ==
  \/ BootRecover \/ BootWipe \/ Wipe \/ Select \/ WriteFactory \/ Acknowledge
  \/ Launch \/ TurnOff \/ RequestFactoryReset \/ PowerCut
  \/ Recover \/ Rollback \/ Unjournal
  \/ \E c \in Customs : Begin(c)
  \/ Stage \/ Retire \/ Apply \/ Promote \/ Forget \/ Restore

Spec == Init /\ [][Next]_vars

----------------------------------------------------------------------------
(* Properties.                                                              *)

(* Whatever fails and whenever the power goes, a boot comes back with the   *)
(* record of the last change that was done and never with the candidate of  *)
(* one that was interrupted ("Never promotes an interrupted candidate"); it *)
(* may only once the erasure of the journal has been asked for and has      *)
(* failed. Only then can a second fault, a wrong write of the rollback,     *)
(* leave no valid record. The code breaks this: a change that is staged     *)
(* over a journal still owed takes an interrupted candidate for a record.   *)
NeverPromoted == \A m \in maybe \cup {view} : m.factory \/ Restored(m) \in owes

(* What remains true: the only other record a boot may come back with is    *)
(* the one such a change found in ap1, never that change's own candidate.   *)
NothingLost == \A m \in maybe \cup {view} : m.factory \/ Restored(m) \in owes \cup unowed

(* The verdict tells the operator the truth, now and after any power cut:   *)
(* done, and the candidate is stored; a storage or radio error, and the     *)
(* record from before is, and no journal is left. The errors say nothing of *)
(* the store once Wi-Fi was turned on again after a failed rollback, until  *)
(* a restart or a change that is done.                                      *)
VerdictTrue == \A m \in maybe \cup {view} :
  /\ verdict = "done" => m.ap1 = journal.candidate /\ m.ap_try = None
  /\ verdict \in {"storage_error", "radio_error"} /\ ~resumed =>
       m.ap1 = begun /\ m.ap_try = None

(* While the access point is up, it runs on the record the screen shows,    *)
(* which is the one that is stored, but for the same period.                *)
ScreenIsRadio == pc = "idle" /\ ~resumed => radio = ram /\ ram = view.ap1

(* ... and whatever is read from a damaged flash, nothing but a record ever *)
(* reaches the radio or the screen.                                         *)
RadioSound == TypeOK /\ ScreenIsRadio
=============================================================================
