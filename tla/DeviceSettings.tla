--------------------------- MODULE DeviceSettings ---------------------------
(***************************************************************************)
(* The three settings of the panel (device_settings.h): what is in force,  *)
(* what flash holds of it, a browser's preview that may be taken back, and *)
(* the panel's own edits, which are stored when the finger is lifted.      *)
(* Every call maps the state it finds to the states it may leave: the      *)
(* write to flash may fail, before or after it has taken effect.           *)
(***************************************************************************)
EXTENDS Naturals

CONSTANTS
  Keys,         (* brightness, screen timeout, volume                       *)
  Levels,       (* the values of a setting                                  *)
  Browsers      (* those who may preview a setting                          *)

Unknown == 100
NoBrowser == 0

ASSUME SettingsAssumption ==
  /\ Keys # {} /\ Levels # {}
  /\ Levels \subseteq Nat \ {Unknown} /\ Browsers \subseteq Nat \ {NoBrowser}

VARIABLE settings
(* level: what is in force, saved: the bits of persisted, pending: those    *)
(* owed to flash, durable: what flash is known to hold, flash: what it does *)

NoPreview == [owner |-> NoBrowser, key |-> CHOOSE k \in Keys : TRUE, value |-> Unknown, saved |-> FALSE]

Default == CHOOSE v \in Levels : TRUE

(* begin: what cannot be read is not known, and its default is in force.    *)
Loaded(flash) ==
  [level   |-> [k \in Keys |-> IF flash[k] \in Levels THEN flash[k] ELSE Default],
   saved   |-> {k \in Keys : flash[k] \in Levels},
   pending |-> {},
   durable |-> [k \in Keys |-> IF flash[k] \in Levels THEN flash[k] ELSE Unknown],
   preview |-> NoPreview,
   flash   |-> flash]

SettingsInit == \E flash \in [Keys -> Levels \union {Unknown}] : settings = Loaded(flash)

(* A commit that relies on what flash held before a failed write.           *)
Relied_StillKnown(s, failed) == s.durable

(* A failed write leaves either value, and flash is no longer relied upon.  *)
Relied(s, failed) == [k \in Keys |-> IF k \in failed THEN Unknown ELSE s.durable[k]]

Known(s) == {k \in Keys : s.durable[k] = s.level[k]}

(* The commit of each of keys: of stored it succeeds, for what flash is     *)
(* known to hold already without a write; the writes of late take effect.   *)
Committed(s, keys, stored, late) ==
  [s EXCEPT !.pending = @ \ keys,
            !.saved = @ \union stored,
            !.flash = [k \in Keys |-> IF k \in (stored \union late) \ Known(s) THEN s.level[k] ELSE @[k]],
            !.durable = [k \in Keys |-> IF k \in stored THEN s.level[k] ELSE Relied(s, keys \ stored)[k]]]

Commits(s, keys) ==
  {Committed(s, keys, stored, late) :
     stored \in {t \in SUBSET keys : keys \intersect Known(s) \subseteq t}, late \in SUBSET keys}

Commit(s, k) == Commits(s, {k})

CommitPending(s) == Commits(s, s.pending)

CancelPreview(s) ==
  IF s.preview.owner = NoBrowser THEN s
  ELSE [s EXCEPT !.level[s.preview.key] = s.preview.value,
                 !.saved = IF s.preview.saved THEN @ \union {s.preview.key} ELSE @ \ {s.preview.key},
                 !.preview = NoPreview]

Changed(s, k, v) == [s EXCEPT !.level = [@ EXCEPT ![k] = v], !.saved = @ \ {k}]

(* The panel's edit, and a browser's without a preview, which persists.     *)
SetLevel(s, k, v, persist) ==
  LET c == CancelPreview(s)
      d == [Changed(c, k, v) EXCEPT !.pending = @ \union {k}]
  IN  IF c.level[k] = v THEN {c}
      ELSE IF persist THEN Commit(d, k)
      ELSE {d}

MayPreview(s) == s.pending = {}

FirstPreview(s, owner, k, v) ==
  LET c == CancelPreview(s)
      p == [c EXCEPT !.preview = [owner |-> owner, key |-> k, value |-> c.level[k], saved |-> k \in c.saved]]
  IN  IF c.level[k] = v THEN {p} ELSE {Changed(p, k, v)}

NextPreview(s, v) ==
  IF s.level[s.preview.key] = v THEN {s} ELSE {Changed(s, s.preview.key, v)}

CommitPreview(s) == Commit([s EXCEPT !.preview = NoPreview], s.preview.key)

(* What a turn of the owner task may do to the settings for the browsers:   *)
(* a preview also ends with its owner, after 10 s, and for a restart.       *)
Edited(s) ==
  {CancelPreview(s)}
  \union (UNION {SetLevel(s, k, v, TRUE) : k \in Keys, v \in Levels})
  \union (IF MayPreview(s) THEN UNION {FirstPreview(s, b, k, v) : b \in Browsers, k \in Keys, v \in Levels} ELSE {})
  \union (IF s.preview.owner = NoBrowser THEN {}
          ELSE CommitPreview(s) \union (UNION {NextPreview(s, v) : v \in Levels}))

-----------------------------------------------------------------------------
(* What is shown as saved is what the next boot will find in flash, and     *)
(* what is neither saved nor being edited has not been forgotten: a write   *)
(* of it has failed. (commit, cancelPreview, the bits of persisted.)        *)
SavedIsStored ==
  /\ \A k \in settings.saved : settings.flash[k] = settings.level[k]
  /\ \A k \in Keys :
       k \notin settings.saved =>
         \/ k \in settings.pending
         \/ settings.preview.owner # NoBrowser
         \/ settings.durable[k] = Unknown
=============================================================================
