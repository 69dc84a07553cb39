---------------------- MODULE ControllerAndStoreProofs ----------------------
(***************************************************************************)
(* The controller, for any number of presets and any set of packets: what  *)
(* it says of the working packet's origin is true, leaving blackout brings *)
(* the packet at its entry back, and an import overwrites nothing that was *)
(* changed after it was staged. And the store that the controller saves    *)
(* its presets in, for every set of collections: no failure and no power   *)
(* cut leaves an unreadable one, and the two banks with their selector     *)
(* implement the register of PresetRegister.                               *)
(***************************************************************************)
EXTENDS DmxController, PresetStore, TLAPS

----------------------------------------------------------------------------
(* The controller.                                                          *)

(* preset_revision_ has moved on if a preset changed since the staging.     *)
Staged ==
  archive.token # 0 =>
    archive.base <= revision /\ (touched => archive.base < revision)

(* What blackout saved is what was there at its entry; the provenance is    *)
(* forgotten when its preset is overwritten.                                *)
Snapshot ==
  blackout => restore = entered.packet /\ rsource \in {entered.source, Unknown}

IInv == ControllerTypeOK /\ Provenance /\ Snapshot /\ Staged

LEMMA EntryTypes ==
  /\ Unknown \in Source /\ Unknown.preset = 0
  /\ NoEntry \in [packet : Packets, source : Source]
  /\ working \in Packets /\ source \in Source => Entry \in [packet : Packets, source : Source]
  /\ Entry.packet = working /\ Entry.source = source
<1>1. Unknown \in Source /\ Unknown.preset = 0
  BY ControllerAssumption DEF Unknown, Source
<1>2. QED
  BY <1>1, ControllerAssumption DEF NoEntry, Entry

LEMMA InitIInv == ControllerInit => IInv
<1> SUFFICES ASSUME ControllerInit PROVE IInv
  OBVIOUS
<1>1. /\ Unknown \in Source /\ Unknown.preset = 0
      /\ NoEntry \in [packet : Packets, source : Source]
  BY EntryTypes
<1>2. archive \in [token : 0 .. TokenMax, base : 0 .. RevisionMax + 1, presets : PresetSets]
  BY ControllerAssumption DEF ControllerInit
<1>3. ControllerTypeOK
  BY <1>1, <1>2, ControllerAssumption DEF ControllerInit, ControllerTypeOK
<1>4. QED
  BY <1>1, <1>3 DEF ControllerInit, IInv, Provenance, IsFrom, Snapshot, Staged

LEMMA ForgetType ==
  ASSUME NEW src \in Source, NEW s \in Slot
  PROVE  Forget(src, s) \in Source /\ (Forget(src, s) = src \/ Forget(src, s).preset = 0)
         /\ Forget(src, s).preset # s
  BY ControllerAssumption DEF Forget, Source, Unknown, Slot

LEMMA DiscardedType ==
  ASSUME archive \in [token : 0 .. TokenMax, base : 0 .. RevisionMax + 1, presets : PresetSets]
  PROVE  /\ Discarded \in [token : 0 .. TokenMax, base : 0 .. RevisionMax + 1,
                           presets : PresetSets]
         /\ Discarded.token = 0 /\ Discarded.presets = archive.presets
  BY ControllerAssumption DEF Discarded

(* Steps that touch neither the scene nor the store.                        *)
LEMMA RejectsKeep == ASSUME IInv, NEW r \in {"ok", "rejected", "storage"}, Rejects(r) PROVE IInv'
  BY DEF Rejects, Says, IInv, ControllerTypeOK, Provenance, IsFrom, Snapshot, Staged,
         scene, store, import

(* A preset is overwritten: nothing claims to come from it any more.        *)
LEMMA OverwritesKeep ==
  ASSUME IInv, NEW s \in Slot, NEW content \in Packets \cup {NoPreset}, Overwrites(s, content)
  PROVE  IInv'
<1>1. /\ source \in Source /\ rsource \in Source /\ presets \in PresetSets
      /\ revision \in Nat /\ revision <= RevisionMax
      /\ archive.base \in Nat
  BY ControllerAssumption DEF IInv, ControllerTypeOK, Overwrites
<1>2. presets' \in PresetSets /\ \A t \in Slot : t # s => presets'[t] = presets[t]
  BY <1>1 DEF Overwrites, Stores, PresetSets
<1>3. revision' = revision + 1 /\ revision' \in 0 .. RevisionMax + 1
  BY <1>1, ControllerAssumption DEF Overwrites, Stores
<1>4. /\ source' \in Source /\ (source' = source \/ source'.preset = 0) /\ source'.preset # s
      /\ rsource' \in Source /\ (rsource' = rsource \/ rsource'.preset = 0) /\ rsource'.preset # s
  BY <1>1, ForgetType DEF Overwrites
<1>5. domain' \in {"ok", "storage"} /\ changed' \in BOOLEAN /\ touched' \in BOOLEAN
  BY DEF Overwrites, Stores, IInv, ControllerTypeOK
<1>6. ControllerTypeOK'
  BY <1>2, <1>3, <1>4, <1>5 DEF Overwrites, IInv, ControllerTypeOK, import
<1>7. Provenance'
  <2>1. ASSUME NEW p, NEW src \in Source, IsFrom(p, src), src.preset # s
        PROVE  IsFrom(p, src)'
    BY <1>2, <2>1 DEF IsFrom, Source, Slot
  <2>2. IsFrom(working, source) /\ (blackout => IsFrom(restore, rsource))
    BY DEF IInv, Provenance
  <2>3. UNCHANGED <<working, restore, blackout>>
    BY DEF Overwrites
  <2>4. IsFrom(working, source)'
    BY <1>2, <1>4, <2>2, <2>3 DEF IsFrom, Source, Slot
  <2>5. blackout' => IsFrom(restore, rsource)'
    BY <1>2, <1>4, <2>2, <2>3 DEF IsFrom, Source, Slot
  <2>6. QED
    BY <2>4, <2>5 DEF Provenance
<1>8. Staged'
  BY <1>1, <1>3 DEF Overwrites, IInv, Staged, import
<1>9. Snapshot'
  <2>1. rsource' \in {rsource, Unknown} /\ UNCHANGED <<restore, blackout, entered>>
    BY DEF Overwrites, Forget
  <2>2. QED
    BY <2>1 DEF IInv, Snapshot
<1>10. QED
  BY <1>6, <1>7, <1>8, <1>9 DEF IInv

LEMMA StepIInv == IInv /\ [ControllerNext]_cvars => IInv'
<1> SUFFICES ASSUME IInv, [ControllerNext]_cvars PROVE IInv'
  OBVIOUS
<1>0. /\ source \in Source /\ rsource \in Source /\ presets \in PresetSets
      /\ working \in Packets /\ restore \in Packets
      /\ archive \in [token : 0 .. TokenMax, base : 0 .. RevisionMax + 1, presets : PresetSets]
      /\ revision \in 0 .. RevisionMax + 1 /\ Unknown \in Source /\ Unknown.preset = 0
      /\ {NoEntry, Entry} \subseteq [packet : Packets, source : Source]
      /\ Entry.packet = working /\ Entry.source = source
  BY EntryTypes DEF IInv, ControllerTypeOK
<1>1. CASE Reset
  <2>1. ControllerTypeOK'
    BY <1>0, <1>1, ControllerAssumption
    DEF Reset, Says, IInv, ControllerTypeOK, store, import
  <2>2. QED
    BY <1>0, <1>1, <2>1
    DEF Reset, IInv, Provenance, IsFrom, Snapshot, Staged, store, import
<1>2. ASSUME NEW p \in Packets, SetChannels(p) PROVE IInv'
  <2>1. source' \in Source /\ source'.preset = source.preset
        /\ (source'.preset # 0 /\ ~source'.modified => p = working /\ ~source.modified)
    <3>1. (source.modified \/ (p # working /\ source.preset # 0)) \in BOOLEAN
      OBVIOUS
    <3>2. QED
      BY <1>0, <1>2, <3>1 DEF SetChannels, Source
  <2>2. ControllerTypeOK'
    BY <1>2, <2>1 DEF SetChannels, Says, IInv, ControllerTypeOK, store, import
  <2>3. QED
    BY <1>2, <2>1, <2>2
    DEF SetChannels, IInv, Provenance, IsFrom, Snapshot, Staged, store, import
<1>3. ASSUME NEW b \in BOOLEAN, SetBlackout(b) PROVE IInv'
  <2>1. CASE b = blackout
    BY <1>3, <2>1, RejectsKeep DEF SetBlackout
  <2>2. CASE b # blackout
    <3>1. ControllerTypeOK'
      BY <1>0, <1>3, <2>2 DEF SetBlackout, Says, IInv, ControllerTypeOK, store, import
    <3>2. CASE b
      BY <1>0, <1>3, <2>2, <3>1, <3>2
      DEF SetBlackout, IInv, Provenance, IsFrom, Snapshot, Staged, store, import
    <3>3. CASE ~b
      <4>1. blackout
        BY <2>2, <3>3 DEF IInv, ControllerTypeOK
      <4>2. QED
        BY <1>3, <2>2, <3>1, <3>3, <4>1
        DEF SetBlackout, IInv, Provenance, IsFrom, Snapshot, Staged, store, import
    <3>4. QED
      BY <3>2, <3>3
  <2>3. QED
    BY <2>1, <2>2
<1>4. ASSUME NEW s \in Slot, Load(s) PROVE IInv'
  <2>1. CASE Rejects("rejected") \/ Rejects("storage")
    BY <2>1, RejectsKeep
  <2>2. CASE presets[s] # NoPreset /\ working' = presets[s] /\ ~Rejects("storage")
             /\ ~Rejects("rejected")
    <3>1. LoadedFrom(s) \in Source /\ LoadedFrom(s).preset = s
      BY ControllerAssumption DEF LoadedFrom, Source, Slot
    <3>2. working' \in Packets
      BY <1>0, <2>2 DEF PresetSets
    <3>3. ControllerTypeOK'
      BY <1>4, <2>2, <3>1, <3>2 DEF Load, Says, IInv, ControllerTypeOK, store, import
    <3>4. QED
      BY <1>4, <2>2, <3>1, <3>3
      DEF Load, IInv, Provenance, IsFrom, Snapshot, Staged, store, import
  <2>3. QED
    BY <1>4, <2>1, <2>2 DEF Load
<1>5. ASSUME NEW s \in Slot, Save(s) PROVE IInv'
  BY <1>0, <1>5, RejectsKeep, OverwritesKeep DEF Save
<1>6. ASSUME NEW s \in Slot, Clear(s) PROVE IInv'
  BY <1>6, RejectsKeep, OverwritesKeep DEF Clear
<1>7. ASSUME NEW s \in Slot, NEW t \in Slot, Copy(s, t) PROVE IInv'
  <2>1. CASE Rejects("rejected") \/ Rejects("storage")
    BY <2>1, RejectsKeep
  <2>2. CASE /\ presets[s] # NoPreset /\ s # t /\ presets[t] = NoPreset
             /\ revision <= RevisionMax
             /\ Stores([presets EXCEPT ![t] = presets[s]])
             /\ changed' = (domain' = "ok")
             /\ UNCHANGED <<scene, import, entered>>
    <3>1. presets' \in PresetSets /\ \A u \in Slot : u # t => presets'[u] = presets[u]
      BY <1>0, <2>2 DEF Stores, PresetSets
    <3>2. revision' = revision + 1 /\ revision' \in 0 .. RevisionMax + 1
      BY <1>0, <2>2, ControllerAssumption DEF Stores
    <3>3. domain' \in {"ok", "storage"} /\ changed' \in BOOLEAN /\ touched' \in BOOLEAN
      BY <2>2 DEF Stores, IInv, ControllerTypeOK
    <3>4. ControllerTypeOK'
      BY <2>2, <3>1, <3>2, <3>3 DEF IInv, ControllerTypeOK, import, scene
    <3>5. Provenance'
      <4>1. IsFrom(working, source) => IsFrom(working, source)'
        BY <1>0, <2>2, <3>1, ControllerAssumption DEF IsFrom, Source, Slot, scene
      <4>2. IsFrom(restore, rsource) => IsFrom(restore, rsource)'
        BY <1>0, <2>2, <3>1, ControllerAssumption DEF IsFrom, Source, Slot, scene
      <4>3. QED
        BY <2>2, <4>1, <4>2 DEF Provenance, IInv, scene
    <3>6. Staged'
      BY <1>0, <2>2, <3>2 DEF IInv, Staged, import
    <3>7. QED
      BY <2>2, <3>4, <3>5, <3>6 DEF IInv, Snapshot, scene
  <2>3. QED
    BY <1>7, <2>1, <2>2 DEF Copy
<1>8. CASE CaptureArchive \/ DiscardArchive
  <2>1. archive' = Discarded /\ UNCHANGED <<scene, store, counter, entered, touched>>
        /\ domain' \in {"ok", "rejected", "storage"} /\ changed' \in BOOLEAN
    BY <1>8 DEF CaptureArchive, DiscardArchive, IInv, ControllerTypeOK
  <2>2. QED
    BY <1>0, <2>1, DiscardedType
    DEF IInv, ControllerTypeOK, Provenance, IsFrom, Snapshot, Staged, scene, store
<1>9. ASSUME NEW c \in PresetSets, NEW base \in 0 .. revision, StageArchive(c, base) PROVE IInv'
  <2>1. CASE archive' = Discarded /\ Says("rejected", FALSE)
             /\ UNCHANGED <<scene, store, counter, entered, touched>>
    BY <1>0, <2>1, DiscardedType
    DEF IInv, ControllerTypeOK, Provenance, IsFrom, Snapshot, Staged, scene, store, Says
  <2>2. CASE /\ base = revision /\ counter < TokenMax /\ counter' = counter + 1
             /\ archive' = [token |-> counter', base |-> base, presets |-> c]
             /\ Says("ok", FALSE) /\ touched' = FALSE
             /\ UNCHANGED <<scene, store, entered>>
    <3>1. counter' \in 0 .. TokenMax
      BY <2>2, ControllerAssumption DEF IInv, ControllerTypeOK
    <3>2. archive' \in [token : 0 .. TokenMax, base : 0 .. RevisionMax + 1, presets : PresetSets]
          /\ archive'.base = revision
      BY <1>0, <2>2, <3>1
    <3>3. ControllerTypeOK'
      BY <2>2, <3>1, <3>2 DEF IInv, ControllerTypeOK, scene, store, Says
    <3>4. Staged'
      BY <1>0, <2>2, <3>2 DEF Staged, store
    <3>5. QED
      BY <2>2, <3>3, <3>4 DEF IInv, Provenance, IsFrom, Snapshot, scene, store
  <2>3. QED
    BY <1>9, <2>1, <2>2 DEF StageArchive
<1>10. ASSUME NEW token \in 0 .. counter, ReplaceArchive(token) PROVE IInv'
  <2>1. CASE /\ archive' = IF ArchiveValid(token) THEN Discarded ELSE archive
             /\ domain' \in {"rejected", "storage"} /\ changed' = FALSE
             /\ UNCHANGED <<scene, store, counter, entered, touched>>
    BY <1>0, <2>1, DiscardedType
    DEF IInv, ControllerTypeOK, Provenance, IsFrom, Snapshot, Staged, scene, store
  <2>2. CASE /\ MayReplace(token) /\ revision <= RevisionMax
             /\ archive' = Discarded /\ revision' = revision + 1
             /\ presets' \in {presets, archive.presets} /\ domain' \in {"ok", "storage"}
             /\ source' = Unknown /\ rsource' = Unknown
             /\ changed' = TRUE /\ touched' = (touched \/ presets' # presets)
             /\ UNCHANGED <<working, restore, blackout, counter, entered>>
    <3>1. presets' \in PresetSets /\ revision' \in 0 .. RevisionMax + 1 /\ touched' \in BOOLEAN
      BY <1>0, <2>2, ControllerAssumption DEF IInv, ControllerTypeOK
    <3>2. ControllerTypeOK'
      BY <1>0, <2>2, <3>1, DiscardedType DEF IInv, ControllerTypeOK
    <3>3. QED
      BY <1>0, <2>2, <3>2, DiscardedType
      DEF IInv, Provenance, IsFrom, Snapshot, Staged
  <2>3. QED
    BY <1>10, <2>1, <2>2 DEF ReplaceArchive
<1>11. CASE UNCHANGED cvars
  BY <1>11
  DEF cvars, scene, store, import, IInv, ControllerTypeOK, Provenance, IsFrom, Snapshot,
      Staged
<1>12. QED
  BY <1>1, <1>2, <1>3, <1>4, <1>5, <1>6, <1>7, <1>8, <1>9, <1>10, <1>11 DEF ControllerNext

(* The invariant the other theorems follow from.                            *)
THEOREM ControllerInductive == ControllerSpec => []IInv
<1>1. QED
  BY InitIInv, StepIInv, PTL DEF ControllerSpec

(* ControllerTypeOK: no operation leaves the slots, tokens or revisions.    *)
THEOREM ControllerTypeCorrect == ControllerSpec => []ControllerTypeOK
<1>1. IInv => ControllerTypeOK
  BY DEF IInv
<1>2. QED
  BY <1>1, ControllerInductive, PTL

(* Provenance: loadedPreset without "modified" is true of what is stored    *)
(* now, also behind a blackout and after failed writes.                     *)
THEOREM ProvenanceIsTrue == ControllerSpec => []Provenance
<1>1. IInv => Provenance
  BY DEF IInv
<1>2. QED
  BY <1>1, ControllerInductive, PTL

(* BlackoutRestores: only the sender's reset and the end of blackout leave  *)
(* it, and the end brings back the packet and the provenance of the entry.  *)
THEOREM ExitRestoresEntry == ControllerSpec => BlackoutRestores
<1>1. IInv /\ [ControllerNext]_cvars =>
        [blackout /\ ~blackout' =>
           \/ Reset
           \/ working' = entered.packet /\ source' \in {entered.source, Unknown}]_cvars
  <2> SUFFICES ASSUME IInv, ControllerNext, blackout, ~blackout', ~Reset
               PROVE  working' = entered.packet /\ source' \in {entered.source, Unknown}
    OBVIOUS
  <2>1. ASSUME NEW a \in BOOLEAN, SetBlackout(a)
        PROVE  working' = entered.packet /\ source' \in {entered.source, Unknown}
    <3>1. restore = entered.packet /\ rsource \in {entered.source, Unknown}
      BY DEF IInv, Snapshot
    <3>2. a # blackout /\ ~a
      BY <2>1 DEF SetBlackout, Rejects, scene
    <3>3. QED
      BY <2>1, <3>1, <3>2 DEF SetBlackout
  <2>2. QED
    BY <2>1
    DEF ControllerNext, SetChannels, Load, Save, Clear, Copy, Overwrites, Rejects, CaptureArchive,
        DiscardArchive, StageArchive, ReplaceArchive, scene
<1>2. QED
  BY <1>1, ControllerInductive, PTL DEF ControllerSpec, BlackoutRestores

(* ImportOverwritesNothing: preset_revision_ guards every replacement.      *)
THEOREM ImportIsConditional == ControllerSpec => ImportOverwritesNothing
<1>1. IInv /\ [ControllerNext]_cvars =>
        [archive.token # 0 /\ touched /\ archive'.token = 0 => presets' = presets]_cvars
  <2> SUFFICES ASSUME IInv, ControllerNext, archive.token # 0, touched, archive'.token = 0
               PROVE  presets' = presets
    OBVIOUS
  <2>1. archive.base \in Nat /\ revision \in Nat /\ archive.base < revision
    BY ControllerAssumption DEF IInv, Staged, ControllerTypeOK
  <2>2. CASE archive' = archive
    BY <2>2
  <2>3. CASE archive' # archive
    <3>1. CASE CaptureArchive \/ DiscardArchive
      BY <3>1 DEF CaptureArchive, DiscardArchive, store
    <3>2. ASSUME NEW c \in PresetSets, NEW base \in 0 .. revision, StageArchive(c, base)
          PROVE  presets' = presets
      BY <3>2 DEF StageArchive, store
    <3>3. ASSUME NEW token \in 0 .. counter, ReplaceArchive(token)
          PROVE  presets' = presets
      <4>1. ~MayReplace(token)
        BY <2>1 DEF MayReplace
      <4>2. QED
        BY <3>3, <4>1 DEF ReplaceArchive, store
    <3>4. QED
      BY <2>3, <3>1, <3>2, <3>3
      DEF ControllerNext, Reset, SetChannels, SetBlackout, Load, Save, Clear, Copy, Overwrites,
          Rejects, import
  <2>4. QED
    BY <2>2, <2>3
<1>2. QED
  BY <1>1, ControllerInductive, PTL DEF ControllerSpec, ImportOverwritesNothing

----------------------------------------------------------------------------
(* The live scene.                                                          *)

LEMMA RejectsScene == ASSUME NEW r, Rejects(r) PROVE Scene!SceneNext
<1>1. UNCHANGED <<working, restore, blackout>> /\ changed' = FALSE
  BY DEF Rejects, Says, scene
<1>2. (domain' = "ok") \in BOOLEAN
  OBVIOUS
<1>3. Scene!Presets
  BY <1>1, <1>2, Zenon DEF Scene!Presets
<1>4. QED
  BY <1>3 DEF Scene!SceneNext

(* What leaves the scene alone is a step of the presets.                    *)
LEMMA PresetsScene ==
  ASSUME UNCHANGED <<working, restore, blackout>>, changed' \in BOOLEAN
  PROVE  Scene!SceneNext
<1>1. (domain' = "ok") \in BOOLEAN
  OBVIOUS
<1>2. Scene!Presets
  BY <1>1, Zenon DEF Scene!Presets
<1>3. QED
  BY <1>2 DEF Scene!SceneNext

LEMMA StepScene ==
  ASSUME IInv, IInv', [ControllerNext]_cvars
  PROVE  [Scene!SceneNext]_(Scene!lvars)
<1>0. /\ changed' \in BOOLEAN /\ blackout \in BOOLEAN /\ working' \in Packets
  BY DEF IInv, ControllerTypeOK
<1>1. CASE Reset
  <2>1. /\ working' = Zero /\ restore' = Zero /\ blackout' = FALSE /\ domain' = "ok"
        /\ changed' = (scene' # scene)
    BY <1>1 DEF Reset, Says
  <2>2. changed' = (<<working, restore, blackout>> # <<Zero, Zero, FALSE>>) \/ changed' = TRUE
    BY <2>1, <1>0 DEF scene
  <2>3. Scene!Reset
    BY <2>1, <2>2 DEF Scene!Reset
  <2>4. QED
    BY <2>3 DEF Scene!SceneNext
<1>2. ASSUME NEW p \in Packets, SetChannels(p) PROVE Scene!SceneNext
  <2>1. Scene!Edit(p)
    BY <1>2 DEF SetChannels, Says, Scene!Edit
  <2>2. QED
    BY <2>1 DEF Scene!SceneNext
<1>3. ASSUME NEW a \in BOOLEAN, SetBlackout(a) PROVE Scene!SceneNext
  <2>1. CASE a = blackout
    BY <1>3, <2>1, RejectsScene DEF SetBlackout
  <2>2. CASE a # blackout
    <3>1. /\ blackout' = a /\ domain' = "ok" /\ changed' = TRUE
          /\ a => restore' = working /\ working' = working
          /\ ~a => restore' = restore /\ working' = restore
      BY <1>3, <2>2 DEF SetBlackout, Says
    <3>2. Scene!SetBlackout(a)
      <4>1. (domain' = "ok") = TRUE /\ changed' = (a # blackout)
        BY <2>2, <3>1
      <4>2. CASE a = TRUE /\ blackout = FALSE
        BY <3>1, <4>1, <4>2 DEF Scene!SetBlackout
      <4>3. CASE a = FALSE /\ blackout = TRUE
        BY <3>1, <4>1, <4>3 DEF Scene!SetBlackout
      <4>4. blackout \in {TRUE, FALSE} /\ a \in {TRUE, FALSE}
        BY <1>0
      <4>5. (a = TRUE /\ blackout = FALSE) \/ (a = FALSE /\ blackout = TRUE)
        BY <2>2, <4>4, Zenon
      <4>6. QED
        BY <4>2, <4>3, <4>5, Zenon
    <3>3. QED
      BY <3>2 DEF Scene!SceneNext
  <2>3. QED
    BY <2>1, <2>2
<1>4. ASSUME NEW s \in Slot, Load(s) PROVE Scene!SceneNext
  <2>1. CASE Rejects("rejected") \/ Rejects("storage")
    BY <2>1, RejectsScene
  <2>2. CASE /\ working' = presets[s] /\ source' = LoadedFrom(s)
             /\ Says("ok", working' # working \/ source' # source)
             /\ UNCHANGED <<restore, blackout>>
    <3>1. /\ domain' = "ok" /\ UNCHANGED <<restore, blackout>>
          /\ changed' = (working' # working) \/ changed' = TRUE
      BY <2>2, <1>0 DEF Says
    <3>2. Scene!Load(working')
      BY <3>1 DEF Scene!Load
    <3>3. QED
      BY <3>2, <1>0 DEF Scene!SceneNext
  <2>3. QED
    BY <1>4, <2>1, <2>2 DEF Load
<1>5. ASSUME NEW s \in Slot, NEW content, Overwrites(s, content) PROVE Scene!SceneNext
  BY <1>0, <1>5, PresetsScene DEF Overwrites
<1>6. ASSUME NEW s \in Slot, Save(s) PROVE Scene!SceneNext
  BY <1>5, <1>6, RejectsScene DEF Save
<1>7. ASSUME NEW s \in Slot, Clear(s) PROVE Scene!SceneNext
  BY <1>5, <1>7, RejectsScene DEF Clear
<1>8. ASSUME NEW s \in Slot, NEW t \in Slot, Copy(s, t) PROVE Scene!SceneNext
  <2>1. CASE Rejects("rejected") \/ Rejects("storage")
    BY <2>1, RejectsScene
  <2>2. CASE UNCHANGED <<scene, import, entered>>
    BY <1>0, <2>2, PresetsScene DEF scene
  <2>3. QED
    BY <1>8, <2>1, <2>2 DEF Copy
<1>9. CASE CaptureArchive \/ DiscardArchive
  BY <1>0, <1>9, PresetsScene DEF CaptureArchive, DiscardArchive, scene
<1>10. ASSUME NEW c \in PresetSets, NEW base \in 0 .. revision, StageArchive(c, base)
       PROVE  Scene!SceneNext
  BY <1>0, <1>10, PresetsScene DEF StageArchive, scene
<1>11. ASSUME NEW token \in 0 .. counter, ReplaceArchive(token) PROVE Scene!SceneNext
  BY <1>0, <1>11, PresetsScene DEF ReplaceArchive, scene
<1>12. CASE UNCHANGED cvars
  BY <1>12 DEF cvars, scene, Scene!lvars
<1>13. QED
  BY <1>1, <1>2, <1>3, <1>4, <1>6, <1>7, <1>8, <1>9, <1>10, <1>11, <1>12 DEF ControllerNext

(* ImplementsScene: presets, provenance and archives apart, the controller  *)
(* is the live scene the dispatcher is built on.                            *)
THEOREM ControllerImplementsScene == ControllerSpec => ImplementsScene
<1>1. ControllerInit => Scene!SceneInit
  BY DEF ControllerInit, Scene!SceneInit
<1>2. IInv /\ IInv' /\ [ControllerNext]_cvars => [Scene!SceneNext]_(Scene!lvars)
  BY StepScene
<1>3. QED
  BY <1>1, <1>2, ControllerInductive, PTL DEF ImplementsScene, ControllerSpec, Scene!SceneSpec

----------------------------------------------------------------------------
(* The preset store.                                                        *)

(* Until the selector is written, publish works on the other bank.          *)
Aside ==
  pc \in {"erase", "erased", "write", "written", "verify", "select"} =>
    next \in Banks /\ view.selector # next /\ ~sure

(* What the steps around the one visible write know.                        *)
Selecting ==
  /\ pc = "select" => view.bank[next] = raw
  /\ pc = "selected" => view.selector = next /\ view.bank[next] = raw /\ ~sure
  /\ pc = "resolve" =>
       /\ view.selector = next => view.bank[next] = raw
       /\ sure => view.selector = next /\ maybe = {view}

StoreIInv == TypeOK /\ view \in maybe /\ Recoverable /\ Aside /\ Selecting

LEMMA WithBankType ==
  ASSUME view \in Flash, next \in Banks, NEW content \in Collections \cup {Missing, Bad}
  PROVE  /\ WithBank(content) \in Flash
         /\ WithBank(content).selector = view.selector
         /\ WithBank(content).bank[next] = content
         /\ view.selector # next => Stored(WithBank(content)) = Stored(view)
  BY StoreAssumption DEF WithBank, Flash, Stored, Banks

LEMMA SelectType ==
  ASSUME view \in Flash, next \in Banks
  PROVE  /\ [view EXCEPT !.selector = next] \in Flash
         /\ [view EXCEPT !.selector = next].selector = next
         /\ [view EXCEPT !.selector = next].bank = view.bank
         /\ Stored([view EXCEPT !.selector = next]) = view.bank[next]
  BY StoreAssumption DEF Flash, Stored, Banks

LEMMA InitStoreIInv == Init => StoreIInv
<1> SUFFICES ASSUME Init PROVE StoreIInv
  OBVIOUS
<1>1. view \in Flash /\ Stored(view) = Empty /\ maybe = {view}
  <2>1. [b \in Banks |-> Missing] \in [Banks -> Collections \cup {Missing, Bad}]
    OBVIOUS
  <2>2. QED
    BY <2>1 DEF Init, Flash, Stored
<1>2. Recoverable
  BY <1>1, StoreAssumption DEF Recoverable
<1>3. TypeOK
  BY <1>1, StoreAssumption DEF Init, TypeOK, Banks, Steps
<1>4. QED
  BY <1>1, <1>2, <1>3 DEF Init, StoreIInv, Aside, Selecting

(* A write of a blob to the other bank, as erase and write make it.         *)
LEMMA BlobKeeps ==
  ASSUME StoreIInv, view.selector # next,
         NEW content \in Collections \cup {Missing, Bad},
         view' = WithBank(content),
         maybe' = maybe \cup {view'} \/ maybe' = maybe \cup {WithBank(Bad), view'}
  PROVE  /\ view' \in Flash /\ maybe' \subseteq Flash /\ view' \in maybe'
         /\ view'.selector = view.selector /\ view'.bank[next] = content
         /\ Recoverable'
         /\ \A m \in maybe' : m \in maybe \/ Stored(m) = Stored(view)
<1>1. view \in Flash /\ next \in Banks /\ maybe \subseteq Flash
  BY DEF StoreIInv, TypeOK
<1>2. /\ WithBank(content) \in Flash /\ Stored(WithBank(content)) = Stored(view)
      /\ WithBank(content).selector = view.selector /\ WithBank(content).bank[next] = content
      /\ WithBank(Bad) \in Flash /\ Stored(WithBank(Bad)) = Stored(view)
  BY <1>1, WithBankType
<1>3. \A m \in maybe' : m \in maybe \/ Stored(m) = Stored(view)
  BY <1>2
<1>4. Stored(view) \in Collections /\ \A m \in maybe : Stored(m) \in Collections
  BY DEF StoreIInv, Recoverable
<1>5. \A m \in maybe' \cup {view'} : Stored(m) \in Collections
  BY <1>2, <1>3, <1>4
<1>6. QED
  BY <1>1, <1>2, <1>3, <1>5 DEF Recoverable

LEMMA StepStoreIInv == StoreIInv /\ [Next]_vars => StoreIInv'
<1> SUFFICES ASSUME StoreIInv, [Next]_vars PROVE StoreIInv'
  OBVIOUS
<1>0. /\ view \in Flash /\ maybe \subseteq Flash /\ next \in Banks /\ raw \in Collections
      /\ pc \in Steps /\ sure \in BOOLEAN /\ view \in maybe
      /\ Stored(view) \in Collections /\ \A m \in maybe : Stored(m) \in Collections
  BY DEF StoreIInv, TypeOK, Recoverable
<1>1. ASSUME NEW c \in Collections, Publish(c) PROVE StoreIInv'
  <2>1. next' \in Banks /\ view.selector # next'
    BY <1>0, <1>1, StoreAssumption DEF Publish, OtherBank, Flash, Banks
  <2>2. TypeOK'
    BY <1>1, <2>1 DEF StoreIInv, TypeOK, Publish, Steps
  <2>3. Recoverable'
    BY <1>1 DEF StoreIInv, Publish, Recoverable, Stored
  <2>4. QED
    BY <1>0, <1>1, <2>1, <2>2, <2>3 DEF StoreIInv, Publish, Aside, Selecting
<1>2. CASE EditNothing \/ Refused
  BY <1>2 DEF EditNothing, Refused, StoreIInv, TypeOK, Recoverable, Stored, Aside, Selecting
<1>3. CASE Erase
  <2>1. CASE UNCHANGED <<view, maybe>>
    BY <1>0, <1>3, <2>1
    DEF Erase, Finish, StoreIInv, TypeOK, Recoverable, Stored, Aside, Selecting, GoOn, Steps, Writes
  <2>2. CASE Writes(WithBank(Missing))
    <3>1. /\ view' \in Flash /\ maybe' \subseteq Flash /\ view' \in maybe' /\ Recoverable'
          /\ view'.selector = view.selector
      BY <1>3, <2>2, BlobKeeps DEF Erase, Writes, StoreIInv, Aside
    <3>2. QED
      BY <1>0, <1>3, <3>1
      DEF Erase, Finish, GoOn, StoreIInv, TypeOK, Steps, Aside, Selecting
  <2>3. QED
    BY <1>3, <2>1, <2>2 DEF Erase
<1>4. CASE CommitErase \/ CommitWrite
  <2>1. /\ view' = view /\ view' \in maybe' /\ maybe' \subseteq maybe
    BY <1>0, <1>4 DEF CommitErase, CommitWrite, CommitOk, CommitError
  <2>2. Recoverable'
    BY <1>0, <2>1 DEF Recoverable, Stored
  <2>3. QED
    BY <1>0, <1>4, <2>1, <2>2
    DEF CommitErase, CommitWrite, Finish, GoOn, StoreIInv, TypeOK, Steps, Aside, Selecting
<1>5. CASE Write
  <2>1. CASE UNCHANGED <<view, maybe>> /\ Finish("failed")
    BY <1>0, <1>5, <2>1
    DEF Finish, StoreIInv, TypeOK, Recoverable, Stored, Aside, Selecting, Steps
  <2>2. CASE \E content \in {raw, Bad} : WritesBlob(WithBank(content))
    <3>1. PICK content \in {raw, Bad} : WritesBlob(WithBank(content))
      BY <2>2
    <3>2. /\ view' \in Flash /\ maybe' \subseteq Flash /\ view' \in maybe' /\ Recoverable'
          /\ view'.selector = view.selector
      BY <1>0, <1>5, <3>1, BlobKeeps DEF Write, WritesBlob, StoreIInv, Aside
    <3>3. QED
      BY <1>0, <1>5, <3>2
      DEF Write, Finish, GoOn, StoreIInv, TypeOK, Steps, Aside, Selecting
  <2>3. QED
    BY <1>5, <2>1, <2>2 DEF Write
<1>6. CASE Verify \/ VerifyFails
  BY <1>0, <1>6
  DEF Verify, VerifyFails, ReadsBack, Finish, GoOn, StoreIInv, TypeOK, Recoverable, Stored, Steps,
      Aside, Selecting
<1>7. CASE Select
  <2>1. CASE UNCHANGED <<view, maybe>>
    <3>1. UNCHANGED <<view, maybe, raw, next, sure, reply>> /\ pc' \in {"resolve", "selected"}
      BY <1>7, <2>1 DEF Select, GoOn
    <3>2. view.selector # next /\ ~sure
      BY <1>7 DEF Select, StoreIInv, Aside
    <3>3. Recoverable'
      BY <3>1 DEF StoreIInv, Recoverable, Stored
    <3>4. pc' = "resolve"
      <4>1. CASE Writes([view EXCEPT !.selector = next])
        <5>1. view' # view
          BY <1>0, <3>2, <4>1, SelectType DEF Writes
        <5>2. QED
          BY <2>1, <5>1
      <4>2. QED
        BY <1>7, <4>1 DEF Select, GoOn
    <3>5. QED
      BY <1>0, <3>1, <3>2, <3>3, <3>4 DEF StoreIInv, TypeOK, Steps, Aside, Selecting
  <2>2. CASE Writes([view EXCEPT !.selector = next])
    <3>1. /\ view' \in Flash /\ view'.selector = next /\ view'.bank[next] = raw
          /\ Stored(view') = raw /\ maybe' = maybe \cup {view'}
      BY <1>0, <1>7, <2>2, SelectType DEF Writes, Select, StoreIInv, Selecting
    <3>2. Recoverable'
      BY <1>0, <3>1 DEF Recoverable
    <3>3. ~sure
      BY <1>7 DEF Select, StoreIInv, Aside
    <3>4. QED
      BY <1>0, <1>7, <3>1, <3>2, <3>3 DEF Select, GoOn, StoreIInv, TypeOK, Steps, Aside, Selecting
  <2>3. QED
    BY <1>7, <2>1, <2>2 DEF Select
<1>8. CASE CommitSelect
  <2>1. view' = view /\ view' \in maybe' /\ maybe' \subseteq maybe
    BY <1>0, <1>8 DEF CommitSelect, CommitOk, CommitError
  <2>2. Recoverable'
    BY <1>0, <2>1 DEF Recoverable, Stored
  <2>3. sure' => maybe' = {view'}
    BY <1>8, <2>1 DEF CommitSelect, CommitOk, StoreIInv, Selecting
  <2>4. QED
    BY <1>0, <1>8, <2>1, <2>2, <2>3 DEF CommitSelect, StoreIInv, TypeOK, Steps, Aside, Selecting
<1>9. CASE Resolve
  <2>1. Outcome \in {"failed", "ok", "uncertain"}
    BY DEF Outcome
  <2>2. QED
    BY <1>0, <1>9, <2>1
    DEF Resolve, Finish, StoreIInv, TypeOK, Recoverable, Stored, Steps, Aside, Selecting
<1>10. CASE PowerCut
  <2>1. view' \in maybe /\ maybe' = {view'} /\ view' \in Flash
    BY <1>0, <1>10 DEF PowerCut
  <2>2. Recoverable'
    BY <1>0, <2>1 DEF Recoverable, Stored
  <2>3. QED
    BY <1>10, <2>1, <2>2, StoreAssumption
    DEF PowerCut, StoreIInv, TypeOK, Steps, Banks, Aside, Selecting
<1>11. CASE UNCHANGED vars
  BY <1>11 DEF vars, StoreIInv, TypeOK, Recoverable, Stored, Aside, Selecting
<1>12. QED
  BY <1>1, <1>2, <1>3, <1>4, <1>5, <1>6, <1>7, <1>8, <1>9, <1>10, <1>11
  DEF Next, Edit, Replace

(* The invariant the other theorems follow from.                            *)
THEOREM StoreInductive == Spec => []StoreIInv
<1>1. QED
  BY InitStoreIInv, StepStoreIInv, PTL DEF Spec

(* TypeOK: publish never leaves the two banks or the two selector values.   *)
THEOREM StoreTypeCorrect == Spec => []TypeOK
<1>1. StoreIInv => TypeOK
  BY DEF StoreIInv
<1>2. QED
  BY <1>1, StoreInductive, PTL

(* Recoverable: whatever fails and whenever the power goes, load finds a    *)
(* whole collection.                                                        *)
THEOREM AlwaysRecoverable == Spec => []Recoverable
<1>1. StoreIInv => Recoverable
  BY DEF StoreIInv
<1>2. QED
  BY <1>1, StoreInductive, PTL


----------------------------------------------------------------------------
(* The refinement of PresetRegister.                                        *)

Bootable == {Stored(m) : m \in maybe}

LEMMA InitRegister == Init => Register!RegisterInit
<1> SUFFICES ASSUME Init PROVE Register!RegisterInit
  OBVIOUS
<1>1. Stored(view) = Empty /\ maybe = {view}
  BY DEF Init, Stored
<1>2. {Stored(m) : m \in maybe} = {Empty}
  BY <1>1
<1>3. QED
  BY <1>1, <1>2 DEF Init, Register!RegisterInit

(* Storage steps aside of the selected bank show nothing new to a reader.   *)
LEMMA AsideShowsNothing ==
  ASSUME StoreIInv, view.selector # next,
         NEW content \in Collections \cup {Missing, Bad},
         view' = WithBank(content),
         maybe' = maybe \cup {view'} \/ maybe' = maybe \cup {WithBank(Bad), view'}
  PROVE  Stored(view)' = Stored(view) /\ Bootable' = Bootable
<1>1. view \in Flash /\ next \in Banks /\ view \in maybe
  BY DEF StoreIInv, TypeOK
<1>2. Stored(view') = Stored(view) /\ Stored(view)' = Stored(view')
  BY <1>1, WithBankType DEF Stored
<1>3. maybe \subseteq maybe' /\ \A m \in maybe' : m \in maybe \/ Stored(m) = Stored(view)
  BY BlobKeeps
<1>4. Bootable' = {Stored(m) : m \in maybe'}
  BY DEF Bootable, Stored
<1>5. {Stored(m) : m \in maybe'} = {Stored(m) : m \in maybe}
  BY <1>1, <1>3
<1>6. QED
  BY <1>2, <1>4, <1>5 DEF Bootable

(* A step inside publish that does not end it and shows nothing.            *)
LEMMA Stutters ==
  ASSUME pc # "idle", pc' # "idle", raw' = raw, reply' = reply, next' = next,
         Stored(view)' = Stored(view), Bootable' = Bootable,
         view'.selector = view.selector
  PROVE  UNCHANGED Register!rvars
  BY DEF Register!rvars, Bootable

(* publish gives up: nothing took effect, so "failed" is true.              *)
LEMMA GivesUp ==
  ASSUME pc # "idle", pc' = "idle", reply' = "failed", view.selector # next,
         raw \in Collections, Stored(view)' = Stored(view),
         Bootable' \in {Bootable, {Stored(view)}}
  PROVE  Register!EndWrite("failed")
  BY StoreAssumption DEF Register!EndWrite, Bootable

(* A commit, whatever it reports, can only make sure of what is read.       *)
LEMMA CommitSettles ==
  ASSUME StoreIInv, CommitOk \/ CommitError
  PROVE  /\ Stored(view)' = Stored(view) /\ view' = view
         /\ Bootable' \in {Bootable, {Stored(view)}}
<1>1. view' = view /\ maybe' \in {maybe, {view}}
  BY DEF CommitOk, CommitError
<1>2. Stored(view)' = Stored(view)
  BY <1>1 DEF Stored
<1>3. Bootable' = {Stored(m) : m \in maybe'}
  BY DEF Bootable, Stored
<1>4. QED
  BY <1>1, <1>2, <1>3 DEF Bootable


LEMMA StepRegister == StoreIInv /\ [Next]_vars => [Register!RegisterNext]_(Register!rvars)
<1> SUFFICES ASSUME StoreIInv, [Next]_vars PROVE [Register!RegisterNext]_(Register!rvars)
  OBVIOUS
<1>0. /\ view \in Flash /\ next \in Banks /\ raw \in Collections /\ view \in maybe
      /\ raw # NoWrite
  BY StoreAssumption DEF StoreIInv, TypeOK
<1>1. ASSUME NEW c \in Collections, Publish(c) PROVE Register!BeginWrite(c)
  <2>1. next' # view'.selector
    BY <1>0, <1>1, StoreAssumption DEF Publish, OtherBank, Flash, Banks
  <2>2. UNCHANGED <<Stored(view), Bootable>>
    BY <1>1 DEF Publish, Stored, Bootable
  <2>3. QED
    BY <1>1, <2>1, <2>2 DEF Publish, Register!BeginWrite, Bootable
<1>2. CASE EditNothing \/ Refused
  <2>1. UNCHANGED <<Stored(view), Bootable>>
    BY <1>2 DEF EditNothing, Refused, Stored, Bootable
  <2>2. QED
    BY <1>2, <2>1
    DEF EditNothing, Refused, Register!RegisterNext, Register!Refuse, Bootable
<1>3. CASE Erase \/ Write
  <2>1. view.selector # next
    BY <1>3 DEF Erase, Write, StoreIInv, Aside
  <2>2. Stored(view)' = Stored(view) /\ Bootable' = Bootable /\ view'.selector = view.selector
    <3>1. CASE UNCHANGED <<view, maybe>>
      BY <3>1 DEF Stored, Bootable
    <3>2. CASE Writes(WithBank(Missing))
      BY <2>1, <3>2, AsideShowsNothing, BlobKeeps DEF Writes
    <3>3. ASSUME NEW content \in {raw, Bad}, WritesBlob(WithBank(content))
          PROVE  /\ Stored(view)' = Stored(view) /\ Bootable' = Bootable
                 /\ view'.selector = view.selector
      BY <1>0, <2>1, <3>3, AsideShowsNothing, BlobKeeps DEF WritesBlob
    <3>4. QED
      BY <1>3, <3>1, <3>2, <3>3 DEF Erase, Write
  <2>3. CASE GoOn("erased") \/ GoOn("written")
    BY <1>3, <2>2, <2>3, Stutters DEF Erase, Write, GoOn
  <2>4. CASE Finish("failed")
    <3>1. Register!EndWrite("failed")
      BY <1>0, <1>3, <2>1, <2>2, <2>4, GivesUp DEF Erase, Write, Finish
    <3>2. QED
      BY <3>1 DEF Register!RegisterNext
  <2>5. QED
    BY <1>3, <2>3, <2>4 DEF Erase, Write
<1>4. CASE CommitErase \/ CommitWrite
  <2>1. view.selector # next /\ pc # "idle"
    BY <1>4 DEF CommitErase, CommitWrite, StoreIInv, Aside
  <2>2. Stored(view)' = Stored(view) /\ Bootable' \in {Bootable, {Stored(view)}} /\ view' = view
    BY <1>4, CommitSettles DEF CommitErase, CommitWrite
  <2>3. CASE GoOn("write") \/ GoOn("verify")
    <3>1. CASE Bootable' = Bootable
      BY <2>1, <2>2, <2>3, <3>1, Stutters DEF GoOn
    <3>2. CASE Bootable' = {Stored(view)}
      BY <2>1, <2>2, <2>3, <3>2 DEF GoOn, Register!RegisterNext, Register!Settle, Bootable
    <3>3. QED
      BY <2>2, <3>1, <3>2
  <2>4. CASE Finish("failed")
    <3>1. Register!EndWrite("failed")
      BY <1>0, <2>1, <2>2, <2>4, GivesUp DEF Finish
    <3>2. QED
      BY <3>1 DEF Register!RegisterNext
  <2>5. QED
    BY <1>4, <2>3, <2>4 DEF CommitErase, CommitWrite
<1>5. CASE Verify \/ VerifyFails
  <2>1. /\ view.selector # next /\ pc # "idle" /\ view' = view
        /\ Stored(view)' = Stored(view) /\ Bootable' = Bootable
    BY <1>5 DEF Verify, VerifyFails, StoreIInv, Aside, Stored, Bootable
  <2>2. CASE Verify
    BY <2>1, <2>2, Stutters DEF Verify, GoOn
  <2>3. CASE VerifyFails
    <3>1. Register!EndWrite("failed")
      BY <1>0, <2>1, <2>3, GivesUp DEF VerifyFails, Finish
    <3>2. QED
      BY <3>1 DEF Register!RegisterNext
  <2>4. QED
    BY <1>5, <2>2, <2>3
<1>6. CASE Select
  <2>1. /\ view.selector # next /\ view.bank[next] = raw /\ pc = "select" /\ pc' # "idle"
        /\ UNCHANGED <<raw, next, sure, reply>>
    BY <1>6 DEF Select, StoreIInv, Aside, Selecting, GoOn
  <2>2. CASE UNCHANGED <<view, maybe>>
    BY <2>1, <2>2, Stutters DEF Stored, Bootable
  <2>3. CASE Writes([view EXCEPT !.selector = next])
    <3>1. /\ view'.selector = next /\ Stored(view') = raw /\ maybe' = maybe \cup {view'}
          /\ Stored(view)' = Stored(view')
      BY <1>0, <2>1, <2>3, SelectType DEF Writes, Stored
    <3>2. Bootable' = Bootable \cup {raw}
      <4>1. Bootable' = {Stored(m) : m \in maybe'}
        BY DEF Bootable, Stored
      <4>2. QED
        BY <3>1, <4>1 DEF Bootable
    <3>3. Register!TakeEffect
      BY <1>0, <2>1, <3>1, <3>2 DEF Register!TakeEffect, Bootable
    <3>4. QED
      BY <3>3 DEF Register!RegisterNext
  <2>4. QED
    BY <1>6, <2>2, <2>3 DEF Select
<1>7. CASE CommitSelect
  <2>1. Stored(view)' = Stored(view) /\ Bootable' \in {Bootable, {Stored(view)}} /\ view' = view
    BY <1>7, CommitSettles DEF CommitSelect
  <2>2. pc # "idle" /\ pc' # "idle" /\ UNCHANGED <<raw, next, reply>>
    BY <1>7 DEF CommitSelect
  <2>3. CASE Bootable' = Bootable
    BY <2>1, <2>2, <2>3, Stutters
  <2>4. CASE Bootable' = {Stored(view)}
    BY <2>1, <2>2, <2>4 DEF Register!RegisterNext, Register!Settle, Bootable
  <2>5. QED
    BY <2>1, <2>3, <2>4
<1>8. CASE Resolve
  <2>1. /\ Stored(view)' = Stored(view) /\ Bootable' = Bootable /\ pc = "resolve"
        /\ pc' = "idle" /\ reply' \in {Outcome, "uncertain"}
    BY <1>8 DEF Resolve, Finish, Stored, Bootable
  <2>2. reply' = "failed" => view.selector # next
    BY <2>1 DEF Outcome
  <2>3. reply' = "ok" => view.selector = next /\ maybe = {view}
    BY <2>1 DEF Outcome, StoreIInv, Selecting
  <2>4. reply' = "ok" => {Stored(m) : m \in maybe} = {Stored(view)}
    BY <2>3
  <2>5. reply' \in {"ok", "failed", "uncertain"}
    BY <2>1 DEF Outcome
  <2>6. Register!EndWrite(reply')
    BY <1>0, <2>1, <2>2, <2>3, <2>4 DEF Register!EndWrite, Bootable
  <2>7. QED
    BY <2>5, <2>6 DEF Register!RegisterNext
<1>9. CASE PowerCut
  <2>1. Stored(view)' \in Bootable
    BY <1>9 DEF PowerCut, Bootable, Stored
  <2>2. Bootable' = {Stored(view)'}
    <3>1. Bootable' = {Stored(m) : m \in maybe'} /\ Stored(view)' = Stored(view')
      BY DEF Bootable, Stored
    <3>2. QED
      BY <1>9, <3>1 DEF PowerCut
  <2>3. Register!PowerCut
    BY <1>9, <2>1, <2>2 DEF PowerCut, Register!PowerCut, Bootable
  <2>4. QED
    BY <2>3 DEF Register!RegisterNext
<1>10. CASE UNCHANGED vars
  <2>1. UNCHANGED <<Stored(view), Bootable>>
    BY <1>10 DEF vars, Stored, Bootable
  <2>2. QED
    BY <1>10, <2>1 DEF vars, Register!rvars, Bootable
<1>11. QED
  <2>1. ASSUME NEW c \in Collections, Publish(c) PROVE Register!RegisterNext
    BY <1>1, <2>1 DEF Register!RegisterNext
  <2>2. QED
    BY <1>2, <1>3, <1>4, <1>5, <1>6, <1>7, <1>8, <1>9, <1>10, <2>1 DEF Next, Edit, Replace

(* ImplementsRegister: banks and selector are a register that is written at *)
(* once or not at all and whose answers are true.                           *)
THEOREM StoreImplementsRegister == Spec => ImplementsRegister
<1>1. StoreIInv /\ StoreIInv' /\ [Next]_vars => [Register!RegisterNext]_(Register!rvars)
  BY StepRegister
<1>2. QED
  BY InitRegister, <1>1, StoreInductive, PTL DEF ImplementsRegister, Spec, Register!RegisterSpec

=============================================================================
