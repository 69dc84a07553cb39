--------------------------- MODULE DmxController ---------------------------
(***************************************************************************)
(* DmxController (src/dmx_controller.cpp): the working packet, blackout    *)
(* and its restore snapshot, the provenance of the working packet (which   *)
(* preset it was loaded from, and whether it was modified since), the      *)
(* stored presets and the collection staged for an import.                 *)
(*                                                                         *)
(* Every operation runs to its end in the owner task, so each is one       *)
(* step. A packet is taken as a whole: setting, adjusting or patching      *)
(* channels makes the working packet another one. The storage below is the *)
(* register of PresetRegister, with each of its answers.                   *)
(***************************************************************************)
EXTENDS Naturals

CONSTANTS
  Packets, Zero,   (* the packets, and the one of all zeros                 *)
  NoPreset,        (* "this slot is empty"                                  *)
  Slots,           (* the number of presets (8)                             *)
  RevisionMax,     (* bound on preset_revision_                             *)
  TokenMax         (* bound on archive_counter_                             *)

ASSUME ControllerAssumption ==
  /\ Zero \in Packets
  /\ NoPreset \notin Packets
  /\ Slots \in Nat \ {0}
  /\ RevisionMax \in Nat /\ TokenMax \in Nat

VARIABLES
  working,   (* working_                                                    *)
  restore,   (* restore_                                                    *)
  blackout,  (* blackout_                                                   *)
  source,    (* loaded_preset_ and loaded_modified_ of the working packet   *)
  rsource,   (* restore_loaded_preset_ and restore_loaded_modified_         *)
  presets,   (* what the storage holds                                      *)
  revision,  (* preset_revision_                                            *)
  counter,   (* archive_counter_                                            *)
  archive,   (* archive_, archive_token_ (0 if discarded), archive_base_    *)
  domain,    (* the Result of the last operation: "ok", "rejected" or       *)
             (* "storage" for the storage errors                            *)
  changed,   (* changed() was called: revision_ has moved                   *)
  entered,   (* history: packet and provenance at the entry of this blackout *)
  touched    (* history: a preset changed since the archive was staged      *)

scene == <<working, restore, blackout, source, rsource>>
store == <<presets, revision>>
import == <<counter, archive>>
cvars == <<scene, store, import, domain, changed, entered, touched>>

Slot == 1 .. Slots
PresetSets == [Slot -> Packets \cup {NoPreset}]
Source == [preset : 0 .. Slots, modified : BOOLEAN]
Unknown == [preset |-> 0, modified |-> FALSE]
Entry == [packet |-> working, source |-> source]
NoEntry == [packet |-> Zero, source |-> Unknown]

ControllerTypeOK ==
  /\ working \in Packets /\ restore \in Packets
  /\ entered \in [packet : Packets, source : Source]
  /\ blackout \in BOOLEAN /\ changed \in BOOLEAN /\ touched \in BOOLEAN
  /\ source \in Source /\ rsource \in Source
  /\ presets \in PresetSets
  /\ revision \in 0 .. RevisionMax + 1
  /\ counter \in 0 .. TokenMax
  /\ archive \in [token : 0 .. TokenMax, base : 0 .. RevisionMax + 1, presets : PresetSets]
  /\ domain \in {"ok", "rejected", "storage"}

ControllerInit ==
  /\ working = Zero /\ restore = Zero /\ blackout = FALSE
  /\ source = Unknown /\ rsource = Unknown
  /\ presets \in PresetSets
  /\ revision = 0 /\ counter = 0
  /\ archive = [token |-> 0, base |-> 0, presets |-> presets]
  /\ domain = "ok" /\ changed = FALSE
  /\ entered = NoEntry /\ touched = FALSE

Says(result, change) == domain' = result /\ changed' = change

Rejects(result) ==
  /\ Says(result, FALSE)
  /\ UNCHANGED <<scene, store, import, entered, touched>>

(* outputPacket.                                                            *)
Output == IF blackout THEN Zero ELSE working

----------------------------------------------------------------------------
(* The live scene.                                                          *)

Reset ==
  /\ working' = Zero /\ restore' = Zero /\ blackout' = FALSE
  /\ source' = Unknown /\ rsource' = Unknown
  /\ Says("ok", scene' # scene)
  /\ entered' = NoEntry
  /\ UNCHANGED <<store, import, touched>>

(* setChannel, adjustChannel and setChannels: the packet they make.         *)
SetChannels(p) ==
  /\ working' = p
  /\ source' = [source EXCEPT !.modified = @ \/ (p # working /\ source.preset # 0)]
  /\ Says("ok", p # working)
  /\ UNCHANGED <<restore, blackout, rsource, store, import, entered, touched>>

SetBlackout_KeepsEdits(active) ==
  IF active = blackout THEN Rejects("ok")
  ELSE /\ blackout' = active
       /\ IF active
          THEN restore' = working /\ rsource' = source /\ entered' = Entry
          ELSE entered' = NoEntry /\ UNCHANGED <<restore, rsource>>
       /\ Says("ok", TRUE)
       /\ UNCHANGED <<working, source, store, import, touched>>

SetBlackout(active) ==
  IF active = blackout THEN Rejects("ok")
  ELSE /\ blackout' = active
       /\ IF active
          THEN /\ restore' = working /\ rsource' = source
               /\ entered' = Entry
               /\ UNCHANGED <<working, source>>
          ELSE /\ working' = restore /\ source' = rsource
               /\ entered' = NoEntry
               /\ UNCHANGED <<restore, rsource>>
       /\ Says("ok", TRUE)
       /\ UNCHANGED <<store, import, touched>>

LoadedFrom(s) == [preset |-> s, modified |-> FALSE]

Load(s) ==
  \/ presets[s] = NoPreset /\ Rejects("rejected")
  \/ Rejects("storage")
  \/ /\ presets[s] # NoPreset
     /\ working' = presets[s]
     /\ source' = LoadedFrom(s)
     /\ Says("ok", working' # working \/ source' # source)
     /\ UNCHANGED <<restore, blackout, rsource, store, import, entered, touched>>

----------------------------------------------------------------------------
(* The stored presets.                                                      *)

Forget(src, s) == IF src.preset = s THEN Unknown ELSE src

(* One write of the storage: a call that fails may have taken effect.       *)
Stores(p) ==
  /\ revision' = revision + 1
  /\ \/ presets' = p /\ domain' = "ok"
     \/ presets' \in {presets, p} /\ domain' = "storage"
  /\ touched' = (touched \/ presets' # presets)

(* invalidateLoaded, before the write: it may fail and yet take effect.     *)
Overwrites_AfterSuccess(s, content) ==
  /\ revision <= RevisionMax
  /\ Stores([presets EXCEPT ![s] = content])
  /\ source' = IF domain' = "ok" THEN Forget(source, s) ELSE source
  /\ rsource' = IF domain' = "ok" THEN Forget(rsource, s) ELSE rsource
  /\ changed' = (domain' = "ok" \/ source' # source \/ rsource' # rsource)
  /\ UNCHANGED <<working, restore, blackout, import, entered>>

Overwrites(s, content) ==
  /\ revision <= RevisionMax
  /\ Stores([presets EXCEPT ![s] = content])
  /\ source' = Forget(source, s)
  /\ rsource' = Forget(rsource, s)
  /\ changed' = (domain' = "ok" \/ source' # source \/ rsource' # rsource)
  /\ UNCHANGED <<working, restore, blackout, import, entered>>

Save(s) ==
  \/ Rejects("storage")
  \/ presets[s] = working /\ Rejects("ok")
  \/ presets[s] # working /\ Overwrites(s, working)

Copy(s, t) ==
  \/ (presets[s] = NoPreset \/ s = t \/ presets[t] # NoPreset) /\ Rejects("rejected")
  \/ Rejects("storage")
  \/ /\ presets[s] # NoPreset /\ s # t /\ presets[t] = NoPreset
     /\ revision <= RevisionMax
     /\ Stores([presets EXCEPT ![t] = presets[s]])
     /\ changed' = (domain' = "ok")
     /\ UNCHANGED <<scene, import, entered>>

Clear(s) ==
  \/ presets[s] = NoPreset /\ Rejects("rejected")
  \/ Rejects("storage")
  \/ presets[s] # NoPreset /\ Overwrites(s, NoPreset)

----------------------------------------------------------------------------
(* Export and import of the whole collection.                               *)

Discarded == [archive EXCEPT !.token = 0]

(* captureArchive uses the buffer of a staged import, which is lost.        *)
CaptureArchive ==
  /\ archive' = Discarded
  /\ domain' \in {"ok", "storage"} /\ changed' = FALSE
  /\ UNCHANGED <<scene, store, counter, entered, touched>>

StageArchive(c, base) ==
  \/ /\ archive' = Discarded
     /\ Says("rejected", FALSE)
     /\ UNCHANGED <<scene, store, counter, entered, touched>>
  \/ /\ base = revision
     /\ counter < TokenMax
     /\ counter' = counter + 1
     /\ archive' = [token |-> counter', base |-> base, presets |-> c]
     /\ Says("ok", FALSE)
     /\ touched' = FALSE
     /\ UNCHANGED <<scene, store, entered>>

DiscardArchive ==
  /\ archive' = Discarded
  /\ UNCHANGED <<scene, store, counter, domain, changed, entered, touched>>

ArchiveValid(token) == token # 0 /\ token = archive.token

MayReplace_AnyBase(token) == ArchiveValid(token)

MayReplace(token) == ArchiveValid(token) /\ archive.base = revision

(* Rejected for a wrong token or base or a closed gate; a storage error     *)
(* that is certain touches nothing; one that is not counts as a change.     *)
ReplaceArchive(token) ==
  \/ /\ archive' = IF ArchiveValid(token) THEN Discarded ELSE archive
     /\ domain' \in {"rejected", "storage"} /\ changed' = FALSE
     /\ UNCHANGED <<scene, store, counter, entered, touched>>
  \/ /\ MayReplace(token)
     /\ revision <= RevisionMax
     /\ archive' = Discarded
     /\ revision' = revision + 1
     /\ \/ presets' = archive.presets /\ domain' = "ok"
        \/ presets' \in {presets, archive.presets} /\ domain' = "storage"
     /\ source' = Unknown /\ rsource' = Unknown
     /\ changed' = TRUE
     /\ touched' = (touched \/ presets' # presets)
     /\ UNCHANGED <<working, restore, blackout, counter, entered>>

----------------------------------------------------------------------------
ControllerNext ==
  \/ Reset
  \/ \E p \in Packets : SetChannels(p)
  \/ \E active \in BOOLEAN : SetBlackout(active)
  \/ \E s \in Slot : Load(s) \/ Save(s) \/ Clear(s)
  \/ \E s, t \in Slot : Copy(s, t)
  \/ CaptureArchive \/ DiscardArchive
  \/ \E c \in PresetSets, base \in 0 .. revision : StageArchive(c, base)
  \/ \E token \in 0 .. counter : ReplaceArchive(token)

ControllerSpec == ControllerInit /\ [][ControllerNext]_cvars

----------------------------------------------------------------------------
(* Properties.                                                              *)

IsFrom(packet, src) == src.preset # 0 /\ ~src.modified => packet = presets[src.preset]

(* loadedPreset without "modified" tells the truth: the working packet, and *)
(* the one blackout will restore, are what the preset named holds now.      *)
Provenance ==
  /\ IsFrom(working, source)
  /\ blackout => IsFrom(restore, rsource)

(* Leaving blackout brings back the packet at its entry, whatever was set,  *)
(* loaded, saved or imported meanwhile, with the provenance it had, or none *)
(* if its preset was overwritten (README, Blackout). The one other way out  *)
(* is the sender's reset.                                                   *)
BlackoutRestores ==
  [][blackout /\ ~blackout' =>
       \/ Reset
       \/ working' = entered.packet /\ source' \in {entered.source, Unknown}]_cvars

(* An import never overwrites a preset change made after it was staged.     *)
ImportOverwritesNothing ==
  [][archive.token # 0 /\ touched /\ archive'.token = 0 =>
       presets' = presets]_cvars

Scene == INSTANCE LiveScene WITH ok <- (domain = "ok")

(* Whoever only watches the live scene may forget the presets, their        *)
(* provenance and the archives: the dispatcher does.                        *)
ImplementsScene == Scene!SceneSpec
=============================================================================
