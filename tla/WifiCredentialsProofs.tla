------------------------ MODULE WifiCredentialsProofs ------------------------
(***************************************************************************)
(* The change of the Wi-Fi credentials, for any records: whatever fails    *)
(* and wherever the power is cut, which record a boot comes back with, and *)
(* that what the operator and the screen were told is so. Nothing is       *)
(* assumed of the worker: where Wi-Fi was turned on again after a          *)
(* rollback_error (resumed), the theorems promise less and say so.         *)
(***************************************************************************)
EXTENDS WifiCredentials, TLAPS

(* A power cut cannot make the store read anything but what it reads now.   *)
Alone == maybe = {view}

(* r is stored, whatever happens, and no journal is.                        *)
Settled(r) == r \in Records /\ \A m \in maybe : m.ap1 = r /\ m.ap_try = None

(* The records a boot may come back with.                                   *)
Returns == owes \cup unowed

(* What the journal says of ap1 wins over ap1.                              *)
Owed == view \in maybe /\ \A m \in maybe : m.factory \/ Restored(m) \in Returns

(* The screen is right about the record, and the access point runs on it,   *)
(* unless Wi-Fi was turned on again after a failed rollback.                *)
AtRest ==
  /\ pc = "launch" => Settled(ram)
  /\ pc = "idle" /\ ~resumed => Settled(ram) /\ radio = ram
  /\ pc = "off" /\ ~resumed /\ verdict # "rollback_error" => Settled(ram)

Told ==
  /\ verdict # "none" => pc \in {"idle", "off"}
  /\ verdict = "rollback_error" => pc = "off" \/ resumed
  /\ verdict = "done" => ram = journal.candidate /\ ~resumed
  /\ verdict \in {"storage_error", "radio_error"} /\ ~resumed => ram = begun

Undoes == pc \in {"rollback", "unjournal"}

(* The boot. A factory reset that was asked for has left nothing else owed. *)
Booting ==
  /\ pc \in {"boot", "wipe", "select"} => Alone
  /\ (pc = "recover" \/ Undoes) /\ caller = "boot" => Alone /\ ~view.factory
  /\ pc = "wipe" => view.factory
  /\ pc = "wipe" \/ (pc = "select" /\ view.factory) => owes = {Factory}
  /\ pc = "select" => view.ap_try = None

(* The journal under which ap1 is restored, in RAM and in the store.        *)
Undoing ==
  /\ pc = "recover" => caller # "execute"
  /\ Undoes /\ caller # "execute" => view.ap_try = journal
  /\ pc = "unjournal" =>
       Alone /\ view.ap1 = journal.previous /\ view.ap_try \in {journal, None}

(* A transaction that has not stored its journal for certain: whatever the  *)
(* store has made of it, the record from before comes back.                 *)
Staging ==
  pc = "stage" \/ ((pc = "recover" \/ Undoes) /\ caller = "stage") =>
    /\ caller = "stage" /\ result = "storage_error" /\ ~touched /\ healthy
    /\ ~resumed =>
         /\ ram \in Records /\ begun = ram /\ radio = ram
         /\ \A m \in maybe : m.ap1 = ram /\ Restored(m) = ram
         /\ pc = "stage" \/ view.ap_try = None => Settled(ram)

(* A transaction whose journal is stored: until the erasure of the journal  *)
(* is asked for, every boot finds it.                                       *)
Executing ==
  (\/ pc \in {"retire", "apply", "promote", "forget", "restore"}
   \/ Undoes /\ caller = "execute") =>
    /\ caller = "execute" /\ result \in {"storage_error", "radio_error"}
    /\ ~resumed => begun = ram /\ journal.previous = ram
    /\ pc # "restore" =>
         /\ healthy
         /\ \A m \in maybe : m.factory = view.factory
         /\ \A m \in maybe : m.ap_try = journal
                            \/ (m.ap_try = None /\ {journal.candidate, Bad} \subseteq owes)
         /\ view.factory \/ journal.previous \in Returns
    /\ pc \in {"retire", "apply", "promote", "forget"} => Alone /\ view.ap_try = journal
    /\ pc = "forget" => view.ap1 = journal.candidate /\ radio = journal.candidate
    /\ pc = "promote" => radio = journal.candidate
    /\ pc \in {"apply", "promote", "forget"} => touched
    /\ pc \in {"retire", "apply"} \/ (Undoes /\ ~touched) => resumed \/ radio = ram
    /\ pc = "restore" /\ healthy => Settled(journal.previous)

IInv == TypeOK /\ Owed /\ AtRest /\ Told /\ Booting /\ Undoing /\ Staging /\ Executing

----------------------------------------------------------------------------
(* The store.                                                               *)

LEMMA NoJournal == None \notin Journals /\ Bad \notin Journals /\ None # Bad
  BY CredentialsAssumption DEF Journals, Records

LEMMA RecordWritten ==
  ASSUME view \in Flash, NEW r \in Records \cup {Bad}
  PROVE  /\ WithRecord(r) \in Flash /\ WithRecord(r).ap1 = r
         /\ WithRecord(r).ap_try = view.ap_try /\ WithRecord(r).factory = view.factory
  BY DEF WithRecord, Flash

LEMMA JournalWritten ==
  ASSUME view \in Flash, NEW j \in Journals \cup {None, Bad}
  PROVE  /\ WithJournal(j) \in Flash /\ WithJournal(j).ap1 = view.ap1
         /\ WithJournal(j).ap_try = j /\ WithJournal(j).factory = view.factory
  BY DEF WithJournal, Flash

WithFlag(b) == [view EXCEPT !.factory = b]

LEMMA FlagWritten ==
  ASSUME view \in Flash, NEW b \in BOOLEAN
  PROVE  /\ WithFlag(b) \in Flash /\ WithFlag(b).ap1 = view.ap1
         /\ WithFlag(b).ap_try = view.ap_try /\ WithFlag(b).factory = b
  BY DEF WithFlag, Flash

(* What the store and a boot may read, after a step that may have stored    *)
(* one of new: of the old contents only those that a boot could read before *)
(* it.                                                                      *)
Stored(new) ==
  /\ view' \in Flash /\ maybe' \subseteq Flash
  /\ view' \in maybe' /\ maybe' \subseteq maybe \cup new
  /\ (view' = view /\ maybe' = maybe) \/ view' \in new

LEMMA FailureStores ==
  ASSUME TypeOK, Owed, NEW m \in Flash, Fails(m)
  PROVE  Stored({m})
  BY DEF Fails, flash, Stored, TypeOK, Owed

LEMMA WriteStores ==
  ASSUME TypeOK, Owed, NEW m \in Flash, NEW wrong \in Flash, WriteUnverified(m, wrong)
  PROVE  Stored({m, wrong})
  BY DEF WriteUnverified, Fails, Succeeds, flash, Stored, TypeOK, Owed

LEMMA ErasureStores ==
  ASSUME TypeOK, Owed, NotErased
  PROVE  Stored({WithJournal(None)})
<1>1. WithJournal(None) \in Flash
  BY JournalWritten DEF TypeOK
<1>2. QED
  BY <1>1 DEF NotErased, Fails, Succeeds, flash, Stored, TypeOK, Owed

LEMMA ErasureReads ==
  ASSUME TypeOK, Erased
  PROVE  /\ view' \in Flash /\ view'.ap_try = None /\ view'.ap1 = view.ap1
         /\ view'.factory = view.factory /\ (Alone => Alone')
         /\ view.ap_try # None => Alone'
  BY JournalWritten DEF Erased, Succeeds, Alone, flash, TypeOK

LEMMA RestoredIs ==
  ASSUME NEW m
  PROVE  /\ m.ap_try \in Journals => Restored(m) = m.ap_try.previous
         /\ m.ap_try \in {None, Bad} => Restored(m) = m.ap1
  BY NoJournal DEF Restored

(* Nothing is lost by storing what restores a record that is owed.          *)
LEMMA OwedKept ==
  ASSUME Owed, NEW new, Stored(new), Returns \subseteq Returns',
         \A m \in new : m.factory \/ Restored(m) \in Returns'
  PROVE  Owed'
  BY DEF Owed, Stored

----------------------------------------------------------------------------
(* Where a boot or a transaction ends.                                      *)

LEMMA Stopped ==
  ASSUME TypeOK', Owed',
         (pc' = "dead" /\ verdict' = "none") \/ (pc' = "off" /\ verdict' = "rollback_error")
  PROVE  IInv'
  BY DEF IInv, AtRest, Told, Booting, Undoing, Undoes, Staging, Executing

LEMMA Refused ==
  ASSUME TypeOK', Owed', pc' = "idle", verdict' \in {"storage_error", "radio_error"},
         ~resumed' => Settled(ram)' /\ radio' = ram' /\ begun' = ram'
  PROVE  IInv'
  BY DEF IInv, AtRest, Told, Booting, Undoing, Undoes, Staging, Executing

LEMMA Restoring ==
  ASSUME TypeOK', Owed', pc' = "restore", verdict' = "none",
         caller' = "execute", result' \in {"storage_error", "radio_error"},
         ~resumed' => begun' = ram' /\ journal'.previous = ram',
         healthy' => Settled(journal.previous)'
  PROVE  IInv'
  BY DEF IInv, AtRest, Told, Booting, Undoing, Undoes, Staging, Executing

----------------------------------------------------------------------------
(* The invariant.                                                           *)

LEMMA BootSteps == ASSUME IInv, BootRecover \/ BootWipe \/ Wipe PROVE IInv'
<1>0. TypeOK /\ Owed /\ (pc \in {"boot", "wipe"} => Alone /\ verdict = "none")
  BY DEF IInv, Booting, Told
<1>1. CASE BootRecover
  <2>1. TypeOK' /\ Owed'
    BY <1>0, <1>1 DEF BootRecover, TypeOK, Steps, Owed, flash, history, Returns
  <2>2. QED
    BY <1>0, <1>1, <2>1
    DEF BootRecover, IInv, AtRest, Told, Booting, Undoes, Undoing, Staging, Executing,
        Alone, flash
<1>2. CASE BootWipe
  <2>1. TypeOK'
    BY <1>0, <1>2 DEF BootWipe, TypeOK, Steps, Records, flash, work
  <2>2. Owed'
    BY <1>0, <1>2 DEF BootWipe, Owed, Alone, flash
  <2>3. QED
    BY <1>0, <1>2, <2>1, <2>2
    DEF BootWipe, IInv, AtRest, Told, Booting, Undoes, Undoing, Staging, Executing, Alone,
        flash
<1>3. CASE Wipe
  <2>0. view.factory /\ owes = {Factory} /\ Alone /\ verdict = "none"
    BY <1>0, <1>3 DEF Wipe, IInv, Booting
  <2>1. CASE Erased /\ pc' = "select"
    <3>1. /\ view' \in Flash /\ view'.ap_try = None /\ view'.factory /\ Alone'
          /\ pc' = "select"
          /\ UNCHANGED <<work, verdict, ram, radio, resetting, history>>
      BY <1>0, <1>3, <2>0, <2>1, ErasureReads DEF Wipe
    <3>2. TypeOK'
      BY <1>0, <3>1 DEF TypeOK, Steps, Alone, work, history
    <3>3. QED
      BY <2>0, <3>1, <3>2
      DEF IInv, Owed, AtRest, Told, Booting, Undoes, Undoing, Staging, Executing, Alone,
          work, history
  <2>2. CASE NotErased /\ pc' = "dead"
    <3>1. Stored({WithJournal(None)}) /\ WithJournal(None).factory
      BY <1>0, <2>0, <2>2, ErasureStores, JournalWritten DEF TypeOK
    <3>2. Owed'
      BY <1>0, <1>3, <3>1, OwedKept DEF Wipe, history, Returns
    <3>3. TypeOK'
      BY <1>0, <1>3, <2>2, <3>1 DEF Wipe, Stored, TypeOK, Steps, work, history
    <3>4. QED
      BY <1>3, <2>0, <2>2, <3>2, <3>3, Stopped DEF Wipe
  <2>3. QED
    BY <1>3, <2>1, <2>2 DEF Wipe
<1>4. QED
  BY <1>1, <1>2, <1>3

LEMMA SelectStep == ASSUME IInv, Select PROVE IInv'
<1>0. TypeOK /\ Owed /\ Alone /\ view.ap_try = None /\ verdict = "none" /\ UNCHANGED verdict
  BY DEF Select, IInv, Booting, Told
<1>1. TypeOK' /\ Owed'
  BY <1>0 DEF Select, TypeOK, Steps, Owed, flash, work, history, Returns
<1>2. CASE view.ap1 \in Records /\ ram' = view.ap1 /\ pc' = "launch"
  <2>1. Settled(ram)'
    BY <1>0, <1>2 DEF Select, Settled, Alone, flash
  <2>2. QED
    BY <1>0, <1>1, <1>2, <2>1
    DEF IInv, AtRest, Told, Booting, Undoes, Undoing, Staging, Executing
<1>3. CASE pc' = "dead"
  BY <1>0, <1>1, <1>3, Stopped
<1>4. QED
  BY <1>2, <1>3 DEF Select

LEMMA FactoryResetSteps == ASSUME IInv, WriteFactory \/ Acknowledge PROVE IInv'
<1>0. /\ TypeOK /\ Owed /\ Alone /\ view.ap_try = None /\ verdict = "none"
      /\ owes = {Factory}
      /\ view.factory /\ view \in Flash
      /\ UNCHANGED <<verdict, work, history, radio, resetting>>
  BY DEF WriteFactory, Acknowledge, IInv, Booting, Told, TypeOK
<1>1. CASE WriteFactory
  <2> DEFINE m == WithRecord(Factory)  wrong == WithRecord(Bad)
  <2>0. /\ m \in Flash /\ m.ap_try = None /\ m.factory
        /\ wrong \in Flash /\ wrong.factory /\ ram' = ram
    BY <1>0, <1>1, RecordWritten DEF WriteFactory, Records
  <2> HIDE DEF m, wrong
  <2>1. CASE WriteVerified(m) /\ UNCHANGED pc
    <3>1. view' = m /\ maybe' = {m} /\ pc' = "select"
      BY <1>1, <2>1 DEF WriteVerified, Succeeds, WriteFactory
    <3>2. TypeOK' /\ Owed'
      BY <1>0, <2>0, <3>1 DEF TypeOK, Owed, Steps, work, history
    <3>3. QED
      BY <1>0, <2>0, <3>1, <3>2
      DEF IInv, AtRest, Told, Booting, Undoes, Undoing, Staging, Executing, Alone,
          history, work
  <2>2. CASE WriteUnverified(m, wrong) /\ pc' = "dead"
    <3>1. Stored({m, wrong})
      BY <1>0, <2>0, <2>2, WriteStores
    <3>2. Owed'
      BY <1>0, <2>0, <3>1, OwedKept DEF history, Returns
    <3>3. TypeOK'
      BY <1>0, <2>0, <2>2, <3>1 DEF Stored, TypeOK, Steps, work, history
    <3>4. QED
      BY <1>0, <2>2, <3>2, <3>3, Stopped
  <2>3. QED
    BY <1>1, <2>1, <2>2 DEF WriteFactory, m, wrong
<1>2. CASE Acknowledge
  <2> DEFINE m == WithFlag(FALSE)
  <2>0. /\ m \in Flash /\ m.ap1 = Factory /\ m.ap_try = None /\ Restored(m) = Factory
    BY <1>0, <1>2, FlagWritten, RestoredIs DEF Acknowledge
  <2>1. \/ Succeeds(m) /\ ram' = Factory /\ pc' = "launch"
        \/ Fails(m) /\ UNCHANGED ram /\ pc' = "dead"
    BY <1>2 DEF Acknowledge, WithFlag
  <2> HIDE DEF m
  <2>2. CASE Succeeds(m) /\ ram' = Factory /\ pc' = "launch"
    <3>1. view' = m /\ maybe' = {m}
      BY <2>2 DEF Succeeds
    <3>2. TypeOK' /\ Owed' /\ Settled(ram)'
      BY <1>0, <2>0, <2>2, <3>1
      DEF TypeOK, Owed, Returns, Settled, Records, Steps, work, history
    <3>3. QED
      BY <1>0, <2>2, <3>2
      DEF IInv, AtRest, Told, Booting, Undoes, Undoing, Staging, Executing
  <2>3. CASE Fails(m) /\ UNCHANGED ram /\ pc' = "dead"
    <3>1. Stored({m})
      BY <1>0, <2>0, <2>3, FailureStores
    <3>2. Owed'
      BY <1>0, <2>0, <3>1, OwedKept DEF history, Returns
    <3>3. TypeOK'
      BY <1>0, <2>3, <3>1 DEF Stored, TypeOK, Steps, work, history
    <3>4. QED
      BY <1>0, <2>3, <3>2, <3>3, Stopped
  <2>4. QED
    BY <2>1, <2>2, <2>3
<1>3. QED
  BY <1>1, <1>2

LEMMA SwitchSteps == ASSUME IInv, Launch \/ TurnOff PROVE IInv'
<1>0. /\ UNCHANGED <<flash, work, verdict, ram, resetting, owes, unowed, begun>>
      /\ pc \in {"launch", "idle", "off"} /\ (pc = "launch" => verdict = "none")
      /\ radio' \in {ram, None} /\ resumed' \in BOOLEAN
      /\ (pc' = "idle" /\ radio' = ram) \/ pc' = "off"
  BY DEF Launch, TurnOff, IInv, Told, TypeOK, history
<1>1. TypeOK' /\ Owed'
  BY <1>0 DEF IInv, TypeOK, Owed, Returns, Steps, flash, work
<1>2. ~resumed' => ~resumed /\ (verdict # "rollback_error" => Settled(ram))
  BY DEF Launch, TurnOff, IInv, AtRest, history
<1>3. ~resumed' /\ pc' = "idle" => verdict # "rollback_error"
  BY DEF Launch, TurnOff
<1>4. AtRest'
  BY <1>0, <1>2, <1>3 DEF AtRest, Settled, flash
<1>5. resumed => resumed'
  BY DEF Launch, TurnOff, history
<1>6. verdict = "rollback_error" => pc' = "off" \/ resumed'
  BY <1>0 DEF Launch, TurnOff
<1>7. verdict = "done" => ~resumed'
  BY DEF Launch, TurnOff, IInv, Told, history
<1>8. Told'
  BY <1>0, <1>2, <1>6, <1>7 DEF IInv, Told, flash, work
<1>9. QED
  BY <1>0, <1>1, <1>4, <1>8 DEF IInv, Booting, Undoes, Undoing, Staging, Executing

LEMMA RequestFactoryResetStep == ASSUME IInv, RequestFactoryReset PROVE IInv'
<1> DEFINE m == WithFlag(TRUE)
<1>0. /\ UNCHANGED <<work, verdict, ram, radio, pc, history>> /\ pc \in {"idle", "off"}
      /\ TypeOK /\ Owed /\ view \in Flash /\ resetting' \in BOOLEAN
  BY DEF RequestFactoryReset, IInv, TypeOK
<1>1. m \in Flash /\ m.factory /\ m.ap1 = view.ap1 /\ m.ap_try = view.ap_try
  BY <1>0, FlagWritten
<1>2. Succeeds(m) \/ Fails(m)
  BY DEF RequestFactoryReset, WithFlag
<1> HIDE DEF m
<1>3. Stored({m})
  BY <1>0, <1>1, <1>2, FailureStores DEF Stored, Succeeds
<1>4. Owed'
  BY <1>0, <1>1, <1>3, OwedKept DEF history, Returns
<1>5. TypeOK'
  BY <1>0, <1>3 DEF TypeOK, Stored, work, history
<1>6. Settled(ram) => Settled(ram)'
  BY <1>0, <1>1, <1>3 DEF Settled, Stored, Owed
<1>7. QED
  BY <1>0, <1>4, <1>5, <1>6
  DEF IInv, AtRest, Told, Booting, Undoes, Undoing, Staging, Executing, work, history

LEMMA PowerCutStep == ASSUME IInv, PowerCut PROVE IInv'
<1>1. TypeOK'
  BY DEF PowerCut, IInv, TypeOK, Works, Steps
<1>2. Owed'
  BY DEF PowerCut, IInv, Owed, Returns
<1>3. QED
  BY <1>1, <1>2
  DEF PowerCut, IInv, AtRest, Told, Booting, Alone, Undoes, Undoing, Staging, Executing

LEMMA RecoverStep == ASSUME IInv, Recover PROVE IInv'
<1>0. /\ TypeOK /\ Owed /\ verdict = "none" /\ caller \in {"boot", "stage"}
      /\ caller = "boot" => Alone /\ ~view.factory
      /\ UNCHANGED <<flash, result, touched, healthy, caller, ram, resetting, history>>
      /\ caller = "stage" => result = "storage_error" /\ ~touched /\ healthy
      /\ caller = "stage" /\ ~resumed =>
           /\ ram \in Records /\ begun = ram /\ radio = ram
           /\ \A m \in maybe : m.ap1 = ram /\ Restored(m) = ram
           /\ view.ap_try = None => Settled(ram)
  BY DEF Recover, IInv, Told, Undoing, Booting, Staging, TypeOK
<1>1. Owed'
  BY <1>0 DEF Owed, flash, history, Returns
<1>2. CASE Recovered(FALSE) /\ UNCHANGED journal
  <2>1. TypeOK'
    BY <1>0, <1>2 DEF Recovered, Conclude, TypeOK, Works, Steps, flash, history
  <2>2. QED
    BY <1>0, <1>1, <1>2, <2>1, Stopped DEF Recovered, Conclude
<1>3. CASE view.ap_try = None /\ Recovered(TRUE) /\ UNCHANGED journal
  <2>1. TypeOK'
    BY <1>0, <1>3 DEF Recovered, Conclude, TypeOK, Works, Steps, flash, history
  <2>2. CASE caller = "boot"
    BY <1>0, <1>1, <1>3, <2>1, <2>2
    DEF Recovered, IInv, AtRest, Told, Booting, Alone, Undoes, Undoing, Staging,
        Executing, flash
  <2>3. CASE caller = "stage"
    <3>1. ~resumed' => Settled(ram)' /\ radio' = ram' /\ begun' = ram'
      BY <1>0, <1>3, <2>3 DEF Recovered, Settled, flash, history
    <3>2. QED
      BY <1>0, <1>1, <1>3, <2>1, <2>3, <3>1, Refused DEF Recovered, Conclude
  <2>4. QED
    BY <1>0, <2>2, <2>3
<1>4. CASE Valid(view.ap_try) /\ journal' = view.ap_try /\ pc' = "rollback"
           /\ UNCHANGED <<verdict, radio>>
  <2>1. TypeOK' /\ journal' \in Journals
    BY <1>0, <1>4 DEF Valid, TypeOK, Steps, flash, history
  <2>2. view.ap_try # None
    BY <1>4, NoJournal DEF Valid
  <2>3. CASE caller = "boot"
    BY <1>0, <1>1, <1>4, <2>1, <2>3
    DEF IInv, AtRest, Told, Booting, Alone, Undoes, Undoing, Staging, Executing, flash
  <2>4. CASE caller = "stage"
    BY <1>0, <1>1, <1>4, <2>1, <2>2, <2>4
    DEF IInv, AtRest, Told, Booting, Alone, Undoes, Undoing, Staging, Executing, flash,
        history
  <2>5. QED
    BY <1>0, <2>3, <2>4
<1>5. QED
  BY <1>2, <1>3, <1>4 DEF Recover, FirstUndo

(* What an undo finds: the record from before in the journal, and, once the *)
(* erasure of the journal has failed, that nothing else is lost by a write. *)
LEMMA UndoOwes ==
  ASSUME IInv, Undoes
  PROVE  /\ TypeOK /\ Owed /\ verdict = "none" /\ journal \in Journals
         /\ view.factory \/ journal.previous \in Returns
         /\ view.ap_try = journal \/ (view.ap_try = None /\ Bad \in owes)
         /\ caller # "boot" /\ ~resumed => begun = ram /\ journal.previous = ram
         /\ caller # "boot" => healthy /\ (~touched /\ ~resumed => radio = ram)
         /\ caller = "execute" => result \in {"storage_error", "radio_error"}
         /\ caller = "stage" => result = "storage_error" /\ ~touched
<1>1. TypeOK /\ Owed /\ verdict = "none" /\ journal \in Journals /\ view \in maybe
  BY DEF IInv, Undoes, Told, TypeOK, Owed
<1>2. CASE caller = "execute"
  BY <1>1, <1>2 DEF IInv, Executing, Undoes
<1>3. CASE caller # "execute"
  <2>1. view.ap_try = journal /\ Restored(view) = journal.previous
    BY <1>1, <1>3, RestoredIs DEF IInv, Undoing
  <2>2. view.factory \/ journal.previous \in Returns
    BY <1>1, <2>1 DEF Owed
  <2>3. QED
    BY <1>1, <1>3, <2>1, <2>2 DEF IInv, Staging, Undoes, TypeOK
<1>4. QED
  BY <1>2, <1>3

LEMMA FailedUndo ==
  ASSUME IInv, Undoes, RolledBack(FALSE), TypeOK', Owed',
         UNCHANGED <<journal, result, touched, caller, ram, resetting, history>>
  PROVE  IInv'
<1>0. /\ verdict = "none" /\ caller \in {"boot", "stage", "execute"}
  BY UndoOwes DEF TypeOK
<1>1. CASE caller # "execute"
  BY <1>0, <1>1, Stopped DEF RolledBack, Recovered, Conclude
<1>2. CASE caller = "execute" /\ ~touched
  BY <1>0, <1>2, Stopped DEF RolledBack, Saved, MustRestore, Conclude
<1>3. CASE caller = "execute" /\ touched
  BY <1>0, <1>3, UndoOwes, Restoring DEF RolledBack, Saved, MustRestore, history
<1>4. QED
  BY <1>1, <1>2, <1>3

LEMMA RollbackStep == ASSUME IInv, Rollback PROVE IInv'
<1> DEFINE m == WithRecord(journal.previous)  wrong == WithRecord(Bad)
<1>0. /\ Undoes /\ pc = "rollback"
      /\ UNCHANGED <<journal, result, touched, caller, ram, resetting, history>>
  BY DEF Rollback, Undoes
<1>1. /\ TypeOK /\ Owed /\ verdict = "none" /\ journal \in Journals
      /\ view.factory \/ journal.previous \in Returns
      /\ view.ap_try = journal \/ (view.ap_try = None /\ Bad \in owes)
  BY <1>0, UndoOwes
<1>2. /\ m \in Flash /\ m.ap1 = journal.previous /\ m.ap_try = view.ap_try
      /\ m.factory = view.factory
      /\ wrong \in Flash /\ wrong.ap1 = Bad /\ wrong.ap_try = view.ap_try
      /\ wrong.factory = view.factory
  BY <1>1, RecordWritten DEF TypeOK, Journals
<1> HIDE DEF m, wrong
<1>3. /\ m.factory \/ Restored(m) \in Returns
      /\ Restored(m) = journal.previous
      /\ wrong.factory \/ Restored(wrong) \in Returns
  BY <1>1, <1>2, RestoredIs DEF Returns
<1>4. CASE WriteUnverified(m, wrong) /\ RolledBack(FALSE)
  <2>1. Stored({m, wrong})
    BY <1>1, <1>2, <1>4, WriteStores
  <2>2. Owed'
    BY <1>0, <1>1, <1>3, <2>1, OwedKept DEF history, Returns
  <2>3. TypeOK'
    BY <1>0, <1>1, <1>4, <2>1
    DEF Stored, RolledBack, Recovered, Conclude, Saved, MustRestore, TypeOK, Works, Steps,
        history
  <2>4. QED
    BY <1>0, <1>4, <2>2, <2>3, FailedUndo
<1>5. CASE WriteVerified(m) /\ pc' = "unjournal" /\ UNCHANGED <<healthy, verdict, radio>>
  <2>1. view' = m /\ maybe' = {m}
    BY <1>5 DEF WriteVerified, Succeeds
  <2>2. TypeOK' /\ Owed'
    BY <1>0, <1>1, <1>2, <1>3, <1>5, <2>1 DEF TypeOK, Owed, Steps, history, Returns
  <2>3. AtRest' /\ Told' /\ Undoing'
    BY <1>0, <1>1, <1>2, <1>5, <2>1 DEF IInv, AtRest, Told, Undoing, Undoes, Alone
  <2>4. Booting'
    BY <1>0, <1>2, <1>5, <2>1 DEF IInv, Booting, Undoes, Alone
  <2>5. Staging'
    BY <1>0, <1>1, <1>2, <1>3, <1>5, <2>1, UndoOwes, NoJournal
    DEF IInv, Staging, Undoing, Undoes, history
  <2>6. Executing'
    BY <1>0, <1>1, <1>2, <1>3, <1>5, <2>1, UndoOwes
    DEF IInv, Executing, Undoes, Owed, history, Returns
  <2>7. QED
    BY <2>2, <2>3, <2>4, <2>5, <2>6 DEF IInv
<1>6. QED
  BY <1>4, <1>5 DEF Rollback, m, wrong

LEMMA UnjournalStep == ASSUME IInv, Unjournal PROVE IInv'
<1>0. /\ Undoes /\ pc = "unjournal"
      /\ UNCHANGED <<journal, result, touched, caller, ram, resetting, history>>
  BY DEF Unjournal, Undoes
<1>1. /\ TypeOK /\ Owed /\ verdict = "none" /\ journal \in Journals /\ view \in Flash
      /\ view.factory \/ journal.previous \in Returns
      /\ Alone /\ view.ap1 = journal.previous
      /\ caller = "boot" => ~view.factory
  BY <1>0, UndoOwes DEF IInv, Undoing, Booting, TypeOK
<1>2. CASE NotErased /\ RolledBack(FALSE)
  <2>0. WithJournal(None).factory \/ Restored(WithJournal(None)) \in Returns
    BY <1>1, JournalWritten, RestoredIs
  <2>1. Stored({WithJournal(None)})
    BY <1>1, <1>2, ErasureStores
  <2>2. Owed'
    BY <1>0, <1>1, <2>0, <2>1, OwedKept DEF history, Returns
  <2>3. TypeOK'
    BY <1>0, <1>1, <1>2, <2>1
    DEF Stored, RolledBack, Recovered, Conclude, Saved, MustRestore, TypeOK, Works, Steps,
        history
  <2>4. QED
    BY <1>0, <1>2, <2>2, <2>3, FailedUndo
<1>3. CASE Erased /\ RolledBack(TRUE)
  <2>1. /\ Alone' /\ view' \in Flash /\ view'.ap1 = journal.previous /\ view'.ap_try = None
        /\ view'.factory = view.factory
    BY <1>1, <1>3, ErasureReads
  <2>2. Owed'
    BY <1>0, <1>1, <2>1, RestoredIs DEF Owed, Alone, history, Returns
  <2>3. TypeOK'
    BY <1>0, <1>1, <1>3, <2>1
    DEF Alone, RolledBack, Recovered, Conclude, Saved, MustRestore, TypeOK, Works, Steps,
        history
  <2>4. CASE caller = "boot"
    BY <1>0, <1>1, <1>3, <2>1, <2>2, <2>3, <2>4
    DEF RolledBack, Recovered, IInv, AtRest, Told, Booting, Undoes, Undoing, Staging,
        Executing
  <2>5. CASE caller = "stage"
    <3>1. ~resumed' => Settled(ram)' /\ begun' = ram' /\ radio' = ram'
      BY <1>0, <1>1, <1>3, <2>1, <2>5, UndoOwes
      DEF Settled, Alone, Journals, RolledBack, Recovered, history
    <3>2. pc' = "idle" /\ verdict' = "storage_error"
      BY <1>0, <1>3, <2>5, UndoOwes DEF RolledBack, Recovered, Conclude
    <3>3. QED
      BY <2>2, <2>3, <3>1, <3>2, Refused
  <2>6. CASE caller = "execute"
    <3>1. /\ Settled(journal.previous)'
          /\ ~resumed' => begun' = ram' /\ journal'.previous = ram'
      BY <1>0, <1>1, <2>1, <2>6, UndoOwes DEF Settled, Alone, Journals, history
    <3>2. CASE touched
      BY <1>0, <1>1, <1>3, <2>2, <2>3, <2>6, <3>1, <3>2, UndoOwes, Restoring
      DEF RolledBack, Saved, MustRestore
    <3>3. CASE ~touched
      <4>1. /\ pc' = "idle" /\ verdict' \in {"storage_error", "radio_error"}
            /\ ~resumed' => radio' = ram' /\ Settled(ram)'
        BY <1>0, <1>3, <2>6, <3>1, <3>3, UndoOwes
        DEF RolledBack, Saved, MustRestore, Conclude, Settled, history
      <4>2. QED
        BY <2>2, <2>3, <3>1, <4>1, Refused
    <3>4. QED
      BY <3>2, <3>3
  <2>7. QED
    BY <1>1, <2>4, <2>5, <2>6 DEF TypeOK
<1>4. QED
  BY <1>2, <1>3 DEF Unjournal

LEMMA BeginStep == ASSUME IInv, NEW c \in Customs, Begin(c) PROVE IInv'
<1>0. /\ TypeOK /\ Owed /\ (~resumed => Settled(ram) /\ radio = ram)
      /\ journal \in Journals /\ view \in maybe
      /\ pc' = "stage" /\ verdict' = "none" /\ caller' = "stage"
      /\ result' = "storage_error" /\ touched' = FALSE /\ healthy' = TRUE
      /\ UNCHANGED <<flash, ram, radio, resetting, unowed, resumed>>
  BY DEF Begin, IInv, AtRest, TypeOK, Owed
<1>1. journal' \in Journals
  BY <1>0 DEF Begin, Journals
<1>2. ~resumed => begun' = ram /\ ram \in Records
  BY <1>0 DEF Begin, Settled
<1>3. TypeOK'
  BY <1>0, <1>1 DEF Begin, TypeOK, Works, Steps, flash
<1>4. Owed'
  BY <1>0 DEF Begin, Owed, Returns, flash
<1>5. ~resumed => \A m \in maybe' : m.ap1 = ram /\ Restored(m) = ram
  BY <1>0, RestoredIs DEF Settled, flash
<1>6. QED
  BY <1>0, <1>2, <1>3, <1>4, <1>5
  DEF IInv, AtRest, Told, Booting, Undoes, Undoing, Staging, Executing, Settled, flash

LEMMA StageStep == ASSUME IInv, Stage PROVE IInv'
<1>0. /\ TypeOK /\ Owed /\ verdict = "none" /\ view \in maybe /\ view \in Flash
      /\ journal \in Journals
      /\ caller = "stage" /\ result = "storage_error" /\ ~touched /\ healthy
      /\ ~resumed => Settled(ram) /\ begun = ram /\ radio = ram
      /\ UNCHANGED <<touched, healthy, verdict, ram, radio, resetting, owes, resumed, begun>>
  BY DEF Stage, IInv, Told, Staging, TypeOK, Owed
<1>1. ~resumed => ram \in Records /\ \A m \in maybe : m.ap1 = ram /\ Restored(m) = ram
  BY <1>0, RestoredIs DEF Settled
<1>2. CASE UNCHANGED <<flash, journal, caller, result, unowed>> /\ pc' = "recover"
  <2>1. TypeOK' /\ Owed'
    BY <1>0, <1>2 DEF TypeOK, Owed, Returns, Steps, flash
  <2>2. QED
    BY <1>0, <1>1, <1>2, <2>1
    DEF IInv, AtRest, Told, Booting, Undoes, Undoing, Staging, Executing, Settled, flash
<1>3. CASE ~(UNCHANGED <<flash, journal, caller, result, unowed>> /\ pc' = "recover")
  <2> DEFINE m == WithJournal(journal')  wrong == WithJournal(Bad)
  <2>0. /\ view.ap1 \in Records /\ journal' = [journal EXCEPT !.previous = view.ap1]
        /\ unowed' = IF Restored(view) = view.ap1 THEN unowed ELSE unowed \cup {view.ap1}
    BY <1>3 DEF Stage
  <2>1. /\ journal' \in Journals /\ journal'.previous = view.ap1
        /\ ~resumed => view.ap1 = ram
    BY <1>0, <1>1, <2>0 DEF Journals
  <2>2. /\ m \in Flash /\ m.ap1 = view.ap1 /\ m.ap_try = journal'
        /\ m.factory = view.factory
        /\ wrong \in Flash /\ wrong.ap1 = view.ap1 /\ wrong.ap_try = Bad
        /\ wrong.factory = view.factory
    BY <1>0, <2>1, JournalWritten
  <2> HIDE DEF m, wrong
  <2>3. Restored(m) = view.ap1 /\ Restored(wrong) = view.ap1
    BY <2>1, <2>2, RestoredIs
  <2>4. Returns \subseteq Returns' /\ (view.factory \/ view.ap1 \in Returns')
    <3>1. CASE Restored(view) = view.ap1
      BY <1>0, <2>0, <3>1 DEF Returns, Owed
    <3>2. CASE Restored(view) # view.ap1
      BY <1>0, <2>0, <3>2 DEF Returns
    <3>3. QED
      BY <3>1, <3>2
  <2>5. unowed' \subseteq Records
    BY <1>0, <2>0 DEF TypeOK
  <2>6. CASE WriteVerified(m) /\ caller' = "execute" /\ result' = "radio_error" /\ pc' = "retire"
    <3>1. view' = m /\ maybe' = {m}
      BY <2>6 DEF WriteVerified, Succeeds
    <3>2. TypeOK' /\ Owed'
      BY <1>0, <2>1, <2>2, <2>3, <2>4, <2>5, <2>6, <3>1 DEF TypeOK, Owed, Works, Steps
    <3>3. QED
      BY <1>0, <2>1, <2>2, <2>4, <2>6, <3>1, <3>2
      DEF IInv, AtRest, Told, Booting, Undoes, Undoing, Staging, Executing, Alone
  <2>7. CASE WriteUnverified(m, wrong) /\ UNCHANGED <<caller, result>> /\ pc' = "recover"
    <3>1. Stored({m, wrong})
      BY <1>0, <2>2, <2>7, WriteStores
    <3>2. Owed'
      BY <1>0, <2>2, <2>3, <2>4, <3>1, OwedKept
    <3>3. TypeOK'
      BY <1>0, <2>1, <2>5, <2>7, <3>1 DEF Stored, TypeOK, Steps
    <3>4. ~resumed => \A x \in maybe' : x.ap1 = ram /\ Restored(x) = ram
      BY <1>1, <2>1, <2>2, <2>3, <3>1 DEF Stored
    <3>5. ~resumed /\ view'.ap_try = None => Settled(ram)'
      BY <1>0, <2>1, <2>2, <3>1, NoJournal DEF Stored, Settled
    <3>6. QED
      BY <1>0, <1>1, <2>7, <3>2, <3>3, <3>4, <3>5
      DEF IInv, AtRest, Told, Booting, Undoes, Undoing, Staging, Executing
  <2>8. QED
    BY <1>3, <2>0, <2>6, <2>7 DEF Stage, m, wrong
<1>4. QED
  BY <1>2, <1>3

(* What every step from retire to forget finds.                             *)
LEMMA ExecuteHas ==
  ASSUME IInv, pc \in {"retire", "apply", "promote", "forget"}
  PROVE  /\ TypeOK /\ Owed /\ verdict = "none" /\ caller = "execute" /\ healthy
         /\ journal \in Journals /\ (~resumed => journal.previous = ram /\ begun = ram)
         /\ Alone /\ view \in Flash /\ view.ap_try = journal
         /\ view.factory \/ journal.previous \in Returns
         /\ pc = "retire" \/ touched
  BY DEF IInv, Told, Executing, TypeOK

LEMMA RadioSteps == ASSUME IInv, Retire \/ Apply PROVE IInv'
<1>0. /\ pc \in {"retire", "apply"} /\ (resumed \/ radio = ram)
      /\ UNCHANGED <<flash, journal, healthy, caller, verdict, ram, resetting, history>>
      /\ radio' \in Records \cup {None} /\ result' \in {"storage_error", "radio_error"}
      /\ touched' \in BOOLEAN
      /\ \/ pc' = "apply" /\ touched' /\ radio' = radio
         \/ pc' = "promote" /\ touched' /\ radio' = journal.candidate
         \/ pc' = "rollback" /\ (~touched' => radio' = radio)
  <2>1. pc \in {"retire", "apply"} /\ (resumed \/ radio = ram)
    BY DEF Retire, Apply, IInv, Executing
  <2>2. CASE Retire
    BY <2>1, <2>2, ExecuteHas DEF Retire, Undo, IInv, Executing, TypeOK
  <2>3. CASE Apply
    BY <2>1, <2>3, ExecuteHas DEF Apply, Undo, IInv, Executing, TypeOK, Journals, Records
  <2>4. QED
    BY <2>2, <2>3
<1>1. TypeOK' /\ Owed'
  BY <1>0, ExecuteHas DEF TypeOK, Owed, Works, Steps, flash, history, Returns
<1>2. QED
  BY <1>0, <1>1, ExecuteHas
  DEF IInv, AtRest, Told, Booting, Undoes, Undoing, Staging, Executing, Alone, flash,
      history, Returns

LEMMA PromoteStep == ASSUME IInv, Promote PROVE IInv'
<1> DEFINE m == WithRecord(journal.candidate)  wrong == WithRecord(Bad)
<1>0. /\ pc = "promote" /\ touched /\ radio = journal.candidate
      /\ UNCHANGED <<journal, touched, healthy, caller, verdict, ram, radio, resetting, history>>
  BY DEF Promote, IInv, Executing
<1>1. /\ m \in Flash /\ m.ap1 = journal.candidate /\ m.ap_try = journal
      /\ m.factory = view.factory /\ wrong \in Flash /\ wrong.ap_try = journal
      /\ wrong.factory = view.factory
  BY <1>0, RecordWritten, ExecuteHas DEF Journals, Records
<1> HIDE DEF m, wrong
<1>2. Restored(m) = journal.previous /\ Restored(wrong) = journal.previous
  BY <1>0, <1>1, RestoredIs, ExecuteHas
<1>3. CASE WriteVerified(m) /\ pc' = "forget" /\ UNCHANGED result
  <2>1. view' = m /\ maybe' = {m}
    BY <1>3 DEF WriteVerified, Succeeds
  <2>2. TypeOK' /\ Owed'
    BY <1>0, <1>1, <1>2, <1>3, <2>1, ExecuteHas DEF TypeOK, Owed, Steps, history, Returns
  <2>3. result \in {"storage_error", "radio_error"}
    BY <1>0 DEF IInv, Executing
  <2>4. QED
    BY <1>0, <1>1, <1>3, <2>1, <2>2, <2>3, ExecuteHas
    DEF IInv, AtRest, Told, Booting, Undoes, Undoing, Staging, Executing, Alone,
        history, Returns
<1>4. CASE WriteUnverified(m, wrong) /\ Undo("storage_error")
  <2>1. Stored({m, wrong})
    BY <1>0, <1>1, <1>4, WriteStores, ExecuteHas
  <2>2. Owed'
    BY <1>0, <1>1, <1>2, <2>1, OwedKept, ExecuteHas DEF history, Returns
  <2>3. TypeOK'
    BY <1>0, <1>4, <2>1, ExecuteHas DEF Undo, Stored, TypeOK, Works, Steps, history
  <2>4. \A x \in maybe' : x.factory = view'.factory /\ x.ap_try = journal
    BY <1>0, <1>1, <2>1, ExecuteHas DEF Stored, Alone
  <2>5. view'.factory \/ journal.previous \in Returns
    BY <1>0, <1>1, <2>1, ExecuteHas DEF Stored
  <2>6. QED
    BY <1>0, <1>4, <2>2, <2>3, <2>4, <2>5, ExecuteHas
    DEF Undo, IInv, AtRest, Told, Booting, Undoes, Undoing, Staging, Executing,
        history, Returns
<1>5. QED
  BY <1>3, <1>4 DEF Promote, m, wrong

LEMMA ForgetStep == ASSUME IInv, Forget PROVE IInv'
<1>0. /\ pc = "forget" /\ touched /\ radio = journal.candidate
      /\ view.ap1 = journal.candidate
      /\ UNCHANGED <<journal, touched, healthy, caller, radio, resetting, begun>>
  BY DEF Forget, IInv, Executing
<1>1. CASE Erased /\ pc' = "idle"
  <2>0. /\ ram' = journal.candidate /\ result' = "done" /\ verdict' = "done"
        /\ owes' = {journal.candidate} /\ unowed' = {} /\ resumed' = FALSE
    BY <1>1 DEF Forget, Undo
  <2>1. /\ Alone' /\ view' \in Flash /\ view'.ap1 = journal.candidate /\ view'.ap_try = None
    BY <1>0, <1>1, ErasureReads, ExecuteHas
  <2>2. TypeOK' /\ journal.candidate \in Records
    BY <1>0, <1>1, <2>0, <2>1, ExecuteHas
    DEF TypeOK, Alone, Journals, Records, Works, Steps
  <2>3. Owed' /\ Settled(ram)'
    BY <2>0, <2>1, <2>2, RestoredIs DEF Owed, Returns, Alone, Settled
  <2>4. QED
    BY <1>0, <1>1, <2>0, <2>2, <2>3
    DEF IInv, AtRest, Told, Booting, Undoes, Undoing, Staging, Executing
<1>2. CASE NotErased /\ Undo("storage_error")
  <2> DEFINE m == WithJournal(None)
  <2>0. /\ UNCHANGED <<ram, verdict, unowed, resumed>>
        /\ owes' = owes \cup {journal.candidate, Bad}
        /\ Returns \subseteq Returns' /\ journal.candidate \in Returns'
    BY <1>2 DEF Forget, Undo, Returns
  <2>1. /\ m \in Flash /\ m.ap1 = journal.candidate /\ m.ap_try = None
        /\ m.factory = view.factory /\ Restored(m) \in Returns'
    BY <1>0, <2>0, JournalWritten, RestoredIs, ExecuteHas
  <2>2. Stored({m})
    BY <1>0, <1>2, ErasureStores, ExecuteHas
  <2> HIDE DEF m
  <2>3. Owed'
    BY <1>0, <2>0, <2>1, <2>2, OwedKept, ExecuteHas
  <2>4. TypeOK'
    BY <1>0, <1>2, <2>0, <2>2, ExecuteHas
    DEF Undo, Stored, TypeOK, Journals, Records, Works, Steps
  <2>5. \A x \in maybe' : x.factory = view'.factory /\ (x.ap_try = journal \/ x.ap_try = None)
    BY <1>0, <2>1, <2>2, ExecuteHas DEF Stored, Alone
  <2>6. view'.factory \/ journal.previous \in Returns'
    BY <1>0, <2>0, <2>1, <2>2, ExecuteHas DEF Stored
  <2>7. QED
    BY <1>0, <1>2, <2>0, <2>3, <2>4, <2>5, <2>6, ExecuteHas
    DEF Undo, IInv, AtRest, Told, Booting, Undoes, Undoing, Staging, Executing
<1>3. QED
  BY <1>1, <1>2 DEF Forget

LEMMA RestoreStep == ASSUME IInv, Restore PROVE IInv'
<1>0. /\ TypeOK /\ Owed /\ verdict = "none"
      /\ ~resumed => begun = ram /\ journal.previous = ram
      /\ result \in {"storage_error", "radio_error"}
      /\ healthy => Settled(journal.previous)
      /\ UNCHANGED <<flash, journal, result, touched, caller, ram, resetting, history>>
  BY DEF Restore, IInv, Told, Executing
<1>1. Owed'
  BY <1>0 DEF Owed, flash, history, Returns
<1>2. TypeOK'
  BY <1>0 DEF Restore, Conclude, TypeOK, Works, Steps, Journals, flash, history
<1>3. CASE Conclude(FALSE)
  BY <1>0, <1>1, <1>2, <1>3, Stopped DEF Conclude
<1>4. CASE healthy /\ Conclude(TRUE) /\ radio' = journal.previous
  <2>1. ~resumed' => Settled(ram)' /\ radio' = ram' /\ begun' = ram'
    BY <1>0, <1>4 DEF Settled, flash, history
  <2>2. QED
    BY <1>0, <1>1, <1>2, <1>4, <2>1, Refused DEF Conclude
<1>5. QED
  BY <1>0, <1>3, <1>4 DEF Restore, TypeOK

----------------------------------------------------------------------------
(* What follows for the credentials.                                        *)

LEMMA InitIInv == Init => IInv
<1> SUFFICES ASSUME Init PROVE IInv
  OBVIOUS
<1>1. /\ view \in Flash /\ view.ap1 \in Records /\ view.ap_try = None /\ maybe = {view}
      /\ owes = {view.ap1} /\ unowed = {} /\ begun \in Records
  BY DEF Init, Flash
<1>2. TypeOK
  BY <1>1 DEF Init, TypeOK, Works, Steps
<1>3. Owed
  BY <1>1, RestoredIs DEF Owed, Returns
<1>4. QED
  BY <1>1, <1>2, <1>3
  DEF Init, IInv, AtRest, Told, Booting, Alone, Undoes, Undoing, Staging, Executing

LEMMA StepIInv == IInv /\ [Next]_vars => IInv'
<1> SUFFICES ASSUME IInv, [Next]_vars PROVE IInv'
  OBVIOUS
<1>1. CASE UNCHANGED vars
  BY <1>1
  DEF vars, flash, work, history, IInv, TypeOK, Owed, AtRest, Settled, Told, Booting,
      Alone, Undoes, Undoing, Staging, Executing, Returns
<1>2. CASE \E c \in Customs : Begin(c)
  BY <1>2, BeginStep
<1>3. QED
  BY <1>1, <1>2, BootSteps, SelectStep, FactoryResetSteps, SwitchSteps,
     RequestFactoryResetStep, PowerCutStep, RecoverStep, RollbackStep, UnjournalStep,
     StageStep, RadioSteps, PromoteStep, ForgetStep, RestoreStep
  DEF Next

THEOREM CredentialsInductive == Spec => []IInv
<1>1. QED
  BY InitIInv, StepIInv, PTL DEF Spec

(* NothingLost: wherever execute, its rollback or a recovery is cut off and *)
(* whichever of their calls fail, prepare comes back with the record of the *)
(* last change that was done. Two things may come instead: the candidate of *)
(* a change whose erasure of the journal (forget) failed, or then, after a  *)
(* wrong write of the rollback, no record; and the record that stage found  *)
(* in ap1 when it overwrote a journal that named another.                   *)
THEOREM NoChangeIsHalfDone == Spec => []NothingLost
<1>1. IInv => NothingLost
  BY DEF IInv, Owed, Returns, NothingLost
<1>2. QED
  BY <1>1, CredentialsInductive, PTL

(* VerdictTrue: what execute answers is what is stored, and stays so after  *)
(* any power cut: the candidate after done, always; the record from before  *)
(* after a storage or radio error, unless Wi-Fi was turned on again after a *)
(* rollback_error; and no journal after either.                             *)
THEOREM VerdictsAreTrue == Spec => []VerdictTrue
<1>1. IInv => VerdictTrue
  <2> SUFFICES ASSUME IInv, NEW m \in maybe \cup {view},
                      \/ verdict = "done"
                      \/ verdict \in {"storage_error", "radio_error"} /\ ~resumed
               PROVE  /\ verdict = "done" => m.ap1 = journal.candidate /\ m.ap_try = None
                      /\ verdict # "done" => m.ap1 = begun /\ m.ap_try = None
    BY DEF VerdictTrue
  <2>1. m \in maybe /\ Settled(ram)
    BY DEF IInv, Owed, Told, AtRest
  <2>2. QED
    BY <2>1 DEF IInv, Told, Settled
<1>2. QED
  BY <1>1, CredentialsInductive, PTL

(* RadioSound: while the access point is up it runs on the record that the  *)
(* screen shows and the store holds (wifiChange, runNetwork), unless it was *)
(* turned on again after a rollback_error; and in no case does anything     *)
(* read from a damaged flash reach either (select).                         *)
THEOREM RadioRunsOnARecord == Spec => []RadioSound
<1>1. IInv => RadioSound
  BY DEF IInv, RadioSound, ScreenIsRadio, AtRest, Settled, Owed
<1>2. QED
  BY <1>1, CredentialsInductive, PTL

=============================================================================
