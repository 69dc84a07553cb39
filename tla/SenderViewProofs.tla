-------------------------- MODULE SenderViewProofs --------------------------
(***************************************************************************)
(* The panel and its settings, for any keys, values and browsers: what a   *)
(* gesture may do, what the page in charge shows, whose canvas it is, and  *)
(* that what is shown as saved is stored.                                  *)
(***************************************************************************)
EXTENDS SenderView, TLAPS

Stores == [Keys -> Levels \cup {Unknown}]

SettingsType ==
  [level : [Keys -> Levels], saved : SUBSET Keys, pending : SUBSET Keys, durable : Stores,
   preview : [owner : Browsers \cup {NoBrowser}, key : Keys, value : Levels \cup {Unknown},
              saved : BOOLEAN],
   flash : Stores]

(* What the preview took the place of comes back when it is taken back, and *)
(* it began when nothing was owed to flash.                                 *)
PreviewSound(s) ==
  /\ s.pending = {} /\ s.preview.value \in Levels
  /\ IF s.preview.saved THEN s.flash[s.preview.key] = s.preview.value
     ELSE s.durable[s.preview.key] = Unknown

(* The settings: what flash is relied upon to hold it does hold.            *)
Sound(s) ==
  /\ s \in SettingsType
  /\ \A k \in Keys : s.durable[k] # Unknown => s.flash[k] = s.durable[k]
  /\ \A k \in s.saved : s.flash[k] = s.level[k]
  /\ \A k \in Keys \ s.saved :
       \/ k \in s.pending \/ s.durable[k] = Unknown
       \/ s.preview.owner # NoBrowser /\ k = s.preview.key
  /\ s.preview.owner # NoBrowser => PreviewSound(s)

Overlays == [open : BOOLEAN, released : BOOLEAN, restored : BOOLEAN,
             prev : {"none", "settings", "precision", "keypad", "preset"}]

(* The type invariant, and the parts it leaves out.                         *)
Typed ==
  /\ TypeOK /\ touch.moved \in BOOLEAN /\ pair \subseteq {"tracking", "candidate"}
  /\ hold \in [on : {"none", "power", "reset", "slot", "save", "clear"}, age : 0 .. Held,
               st : {"idle", "armed", "cancelled", "done"}, left : BOOLEAN]
  /\ wifi \in Overlays /\ maint \in Overlays
  /\ config \in {"idle", "approval", "applying", "failed"}

(* The two pages that come before all others keep one another out, and each *)
(* opens in the turn in which it is due; the page beneath does not change.  *)
Covering ==
  /\ maintenance # "idle" \/ maint.open => ~WifiActive /\ ~wifi.open
  /\ at = "turn" => /\ WifiActive => wifi.open
                    /\ maintenance = "countdown" => maint.open
  /\ wifi.restored => wifi.open
  /\ maint.restored => maint.open
  /\ wifi.open => wifi.prev = FullPage(Screen)
  /\ maint.open => maint.prev = FullPage(Screen)
  /\ active = IF maint.open /\ ~maint.restored THEN "maintenance"
              ELSE IF wifi.open /\ ~wifi.restored THEN "wifi" ELSE FullPage(Screen)

OwnPages == {"main", "settings", "precision", "keypad", "grid", "options"}

(* Neither of the pages that come first is due or open, and no touch is     *)
(* being consumed that woke the display.                                    *)
Bare == maintenance = "idle" /\ ~maint.open /\ config \notin {"approval", "applying"} /\ ~wifi.open
Free == Bare /\ "wake" \notin swallow

(* The rest of the gesture is consumed.                                     *)
Consumed(page) ==
  \/ page = "main" /\ "main" \in swallow
  \/ page \in {"precision", "keypad"} /\ "precision" \in swallow
  \/ page = "options" /\ "options" \in swallow

(* CLEAR was held, which closes the options under the finger: nothing on    *)
(* the grid takes a gesture any more that has lasted that long.             *)
Spent == touch.age = Held /\ ~Clicked /\ hold.on = "none" /\ pair = {}

AtHome(page) == touch.home = page \/ Consumed(page) \/ (page = "grid" /\ Spent)

(* A finger that is down, or was until this turn.                           *)
Following == (at = "turn" /\ Pressed) \/ (at = "page" /\ Touched /\ ~Begun)

(* A gesture is at home on the page in charge, or comes to nothing there.   *)
Gestures ==
  /\ Following /\ Free => AtHome(Screen)
  /\ at = "page" /\ Begun =>
       /\ Free /\ ~asleep => touch.home = Screen
       /\ maintenance = "idle" /\ ~maint.open /\ wifi.open => touch.home = "wifi"
       /\ maint.open => touch.home = "maintenance"
  /\ drag = "fader" => "main" \notin swallow
  /\ GestureAtHome

PageOf(button) ==
  IF button \in {"slot", "save"} THEN "grid" ELSE IF button = "clear" THEN "options" ELSE "settings"

(* A hold is not older than the press on its button, and what could time    *)
(* another press with an earlier hold has been dropped.                     *)
Holding ==
  /\ Following /\ Free /\ hold.on \in {"slot", "save", "clear", "reset"} /\ hold.st = "armed"
     /\ touch.on = hold.on /\ touch.home = PageOf(hold.on) /\ Screen = PageOf(hold.on)
       => hold.age <= touch.age
  /\ "copy" \in screens => hold.on \in {"none", "save"} /\ "options" \notin screens
  /\ "options" \in swallow /\ Screen = "options" => hold.on = "none"
  /\ HoldIsContinuous

(* As long as no other page has taken over, the Settings page follows the   *)
(* press on the Wi-Fi power button in every turn, up to its end.            *)
Powered ==
  hold.on = "power" /\ ~hold.left =>
    /\ Screen = "settings" /\ ~wifi.open /\ ~maint.open /\ "wake" \notin swallow
    /\ hold.age <= touch.age
    /\ at = "turn" => Pressed /\ InCharge(FALSE) = "settings"
    /\ at = "page" => Touched /\ ~Begun

(* The redraws that the page will look for.                                 *)
Awaited ==
  IF Screen = "settings" THEN {"settings", "revision"}
  ELSE IF Screen = "options" THEN {}
  ELSE IF Screen \in {"precision", "keypad"} THEN {"controller", "precision"} ELSE {"controller"}

(* The page beneath is current or will be, but for the time that another    *)
(* one covers it.                                                           *)
Shown ==
  ~(wifi.open /\ ~wifi.restored) /\ ~(maint.open /\ ~maint.restored)
    => shown \/ owed \cap Awaited # {}

IInv == Sound(settings) /\ Typed /\ Covering /\ Gestures /\ Holding /\ Powered /\ Shown

-----------------------------------------------------------------------------
(* The settings                                                             *)

LEMMA ChangedIs ==
  ASSUME NEW s \in SettingsType, NEW k \in Keys, NEW v \in Levels
  PROVE  LET c == Changed(s, k, v) IN
         /\ c \in SettingsType
         /\ \A j \in Keys : c.level[j] = IF j = k THEN v ELSE s.level[j]
         /\ c.saved = s.saved \ {k} /\ c.pending = s.pending /\ c.durable = s.durable
         /\ c.preview = s.preview /\ c.flash = s.flash
<1> DEFINE level == [s.level EXCEPT ![k] = v]  c == Changed(s, k, v)
<1>1. level \in [Keys -> Levels] /\ \A j \in Keys : level[j] = IF j = k THEN v ELSE s.level[j]
  BY DEF SettingsType
<1>2. c.level = level
  BY DEF Changed, SettingsType
<1>3. c.saved = s.saved \ {k}
  BY DEF Changed, SettingsType
<1>4. c.pending = s.pending /\ c.durable = s.durable /\ c.preview = s.preview /\ c.flash = s.flash
  BY DEF Changed, SettingsType
<1>5. c \in SettingsType
  BY <1>1 DEF Changed, SettingsType
<1> HIDE DEF level, c
<1>6. \A j \in Keys : c.level[j] = IF j = k THEN v ELSE s.level[j]
  BY <1>1, <1>2
<1> QED
  BY <1>3, <1>4, <1>5, <1>6 DEF c

(* The commit of some keys, when no preview is under way: what is neither   *)
(* saved nor pending nor forgotten is among them.                           *)
LEMMA CommitsSound ==
  ASSUME NEW s \in SettingsType, NEW keys \in SUBSET Keys, NEW t \in Commits(s, keys),
         \A k \in Keys : s.durable[k] # Unknown => s.flash[k] = s.durable[k],
         \A k \in s.saved : s.flash[k] = s.level[k],
         \A k \in Keys \ s.saved : k \in keys \/ k \in s.pending \/ s.durable[k] = Unknown,
         s.preview.owner = NoBrowser
  PROVE  Sound(t) /\ t.preview.owner = NoBrowser /\ t.pending = s.pending \ keys
<1> DEFINE known == Known(s)
<1>1. PICK stored \in {u \in SUBSET keys : keys \cap Known(s) \subseteq u}, late \in SUBSET keys :
        t = Committed(s, keys, stored, late)
  BY DEF Commits
<1>2. stored \in SUBSET keys /\ late \in SUBSET keys /\ keys \cap known \subseteq stored
  BY <1>1
<1> DEFINE flash == [k \in Keys |-> IF k \in (stored \cup late) \ known THEN s.level[k]
           ELSE s.flash[k]]
           durable == [k \in Keys |-> IF k \in stored THEN s.level[k]
                                      ELSE IF k \in keys \ stored THEN Unknown ELSE s.durable[k]]
<1>3. t = [level |-> s.level, saved |-> s.saved \cup stored, pending |-> s.pending \ keys,
           durable |-> durable, preview |-> s.preview, flash |-> flash]
  BY <1>1 DEF SettingsType, Relied, Committed
<1>4. flash \in Stores /\ durable \in Stores
  BY <1>2 DEF SettingsType, Stores
<1>5. \A k \in Keys : k \in known <=> s.durable[k] = s.level[k]
  BY DEF Known
<1>6. Levels \subseteq Nat /\ Unknown \notin Levels
  BY SettingsAssumption
<1> HIDE DEF known
<1>7. t \in SettingsType
  BY <1>2, <1>3, <1>4 DEF SettingsType
<1>8. \A k \in Keys : durable[k] # Unknown => flash[k] = durable[k]
  BY <1>2, <1>5, <1>6 DEF SettingsType, Stores
<1>9. ASSUME NEW k \in s.saved \cup stored PROVE flash[k] = s.level[k]
  <2>1. k \in Keys /\ s.level[k] \in Levels
    BY <1>2 DEF SettingsType
  <2>2. CASE k \in known
    BY <1>5, <1>6, <2>1, <2>2
  <2>3. CASE k \notin known
    BY <2>1, <2>3
  <2> QED
    BY <2>2, <2>3
<1>10. \A k \in Keys \ (s.saved \cup stored) : k \in s.pending \ keys \/ durable[k] = Unknown
  BY <1>2, <1>5
<1> HIDE DEF flash, durable
<1> QED
  BY <1>3, <1>7, <1>8, <1>9, <1>10 DEF Sound

(* A preview that is taken back leaves the settings as it found them.       *)
LEMMA CancelSound ==
  ASSUME NEW s, Sound(s)
  PROVE  /\ Sound(CancelPreview(s)) /\ CancelPreview(s).preview.owner = NoBrowser
         /\ CancelPreview(s).pending = s.pending
<1> DEFINE p == s.preview.key  c == CancelPreview(s)
<1>1. CASE s.preview.owner = NoBrowser
  BY <1>1 DEF CancelPreview
<1>2. CASE s.preview.owner # NoBrowser
  <2> DEFINE level == [s.level EXCEPT ![p] = s.preview.value]
             saved == IF s.preview.saved THEN s.saved \cup {p} ELSE s.saved \ {p}
  <2>1. s \in SettingsType /\ PreviewSound(s) /\ p \in Keys
    BY <1>2 DEF Sound, SettingsType
  <2>2. c = [level |-> level, saved |-> saved, pending |-> s.pending, durable |-> s.durable,
             preview |-> NoPreview, flash |-> s.flash]
    BY <1>2, <2>1 DEF CancelPreview, SettingsType
  <2>3. NoPreview \in [owner : Browsers \cup {NoBrowser}, key : Keys, value : Levels \cup {Unknown},
                       saved : BOOLEAN] /\ NoPreview.owner = NoBrowser
    BY SettingsAssumption DEF NoPreview
  <2>4. level \in [Keys -> Levels] /\ saved \in SUBSET Keys
    BY <2>1 DEF PreviewSound, SettingsType
  <2>5. \A k \in Keys : level[k] = IF k = p THEN s.preview.value ELSE s.level[k]
    BY <2>1 DEF SettingsType
  <2>6. \A k \in saved : s.flash[k] = level[k]
    BY <2>1, <2>5, <2>4 DEF Sound, PreviewSound
  <2>7. \A k \in Keys \ saved : k \in s.pending \/ s.durable[k] = Unknown
    BY <2>1 DEF Sound, PreviewSound
  <2>8. c \in SettingsType
    BY <2>1, <2>2, <2>3, <2>4 DEF SettingsType
  <2> HIDE DEF level, saved
  <2>9. Sound(c) /\ c.preview.owner = NoBrowser /\ c.pending = s.pending
    BY <2>2, <2>3, <2>6, <2>7, <2>8 DEF Sound
  <2> QED
    BY <2>9
<1> QED
  BY <1>1, <1>2

(* An edit of the panel, which waits for its commit, and one of a browser.  *)
LEMMA SetLevelSound ==
  ASSUME NEW s, Sound(s), NEW k \in Keys, NEW v \in Levels, NEW persist \in BOOLEAN,
         NEW t \in SetLevel(s, k, v, persist)
  PROVE  Sound(t) /\ t.preview.owner = NoBrowser
<1> DEFINE c == CancelPreview(s)
           e == Changed(c, k, v)
           d == [e EXCEPT !.pending = @ \cup {k}]
<1>1. Sound(c) /\ c.preview.owner = NoBrowser /\ c \in SettingsType
  BY CancelSound DEF Sound
<1> HIDE DEF c
<1>2. /\ e \in SettingsType
      /\ \A j \in Keys : e.level[j] = IF j = k THEN v ELSE c.level[j]
      /\ e.saved = c.saved \ {k} /\ e.pending = c.pending /\ e.durable = c.durable
      /\ e.preview = c.preview /\ e.flash = c.flash
  BY <1>1, ChangedIs
<1> HIDE DEF e
<1>3. e \in SettingsType
  BY <1>2
<1>4. /\ d.level = e.level /\ d.saved = e.saved /\ d.pending = e.pending \cup {k}
      /\ d.durable = e.durable /\ d.preview = e.preview /\ d.flash = e.flash
  BY <1>3 DEF SettingsType
<1>5. d \in SettingsType
  BY <1>3 DEF SettingsType
<1> HIDE DEF d
<1>6. /\ \A j \in Keys : d.durable[j] # Unknown => d.flash[j] = d.durable[j]
      /\ \A j \in d.saved : d.flash[j] = d.level[j]
      /\ \A j \in Keys \ d.saved : j \in d.pending \/ d.durable[j] = Unknown
      /\ d.preview.owner = NoBrowser
  BY <1>1, <1>2, <1>4 DEF Sound, SettingsType
<1>7. Sound(d)
  BY <1>5, <1>6 DEF Sound
<1>8. ASSUME NEW u \in Commit(d, k) PROVE Sound(u) /\ u.preview.owner = NoBrowser
  <2>1. {k} \in SUBSET Keys /\ u \in Commits(d, {k})
    BY <1>8 DEF Commit
  <2> QED
    BY CommitsSound, <1>5, <1>6, <2>1
<1>9. \/ t = c
      \/ t = d
      \/ t \in Commit(d, k)
  BY DEF SetLevel, c, d, e
<1> QED
  BY <1>1, <1>6, <1>7, <1>8, <1>9

(* A browser's preview: its first value, another value, and its end.        *)
LEMMA FirstPreviewSound ==
  ASSUME NEW s, Sound(s), MayPreview(s), NEW b \in Browsers, NEW k \in Keys, NEW v \in Levels,
         NEW t \in FirstPreview(s, b, k, v)
  PROVE  Sound(t)
<1> DEFINE c == CancelPreview(s)
           q == [owner |-> b, key |-> k, value |-> c.level[k], saved |-> k \in c.saved]
           p == [c EXCEPT !.preview = q]
           e == Changed(p, k, v)
<1>1. Sound(c) /\ c.preview.owner = NoBrowser /\ c \in SettingsType /\ c.pending = {}
  BY CancelSound DEF Sound, MayPreview
<1> HIDE DEF c
<1>2. p = [level |-> c.level, saved |-> c.saved, pending |-> {}, durable |-> c.durable,
           preview |-> q, flash |-> c.flash]
  BY <1>1 DEF SettingsType
<1>3. q \in [owner : Browsers \cup {NoBrowser}, key : Keys, value : Levels \cup {Unknown},
             saved : BOOLEAN]
  BY <1>1 DEF SettingsType
<1>4. q.value = c.level[k] /\ q.key = k /\ (q.saved <=> k \in c.saved) /\ c.level[k] \in Levels
  BY <1>1 DEF SettingsType
<1> HIDE DEF q
<1>5. p \in SettingsType
  BY <1>1, <1>2, <1>3 DEF SettingsType
<1> HIDE DEF p
<1>6. /\ e \in SettingsType
      /\ \A j \in Keys : e.level[j] = IF j = k THEN v ELSE p.level[j]
      /\ e.saved = p.saved \ {k} /\ e.pending = p.pending /\ e.durable = p.durable
      /\ e.preview = p.preview /\ e.flash = p.flash
  BY <1>5, ChangedIs
<1> HIDE DEF e
<1>7. Sound(p)
  BY <1>1, <1>2, <1>4, <1>5 DEF Sound, PreviewSound
<1>8. PreviewSound(e)
  BY <1>1, <1>2, <1>4, <1>6 DEF Sound, PreviewSound
<1>9. \A j \in e.saved : e.flash[j] = e.level[j]
  <2> SUFFICES ASSUME NEW j \in e.saved PROVE e.flash[j] = e.level[j]
    OBVIOUS
  <2>1. j \in Keys /\ j \in c.saved /\ j # k
    BY <1>1, <1>2, <1>6 DEF SettingsType
  <2>2. e.level[j] = c.level[j] /\ e.flash = c.flash
    BY <1>2, <1>6, <2>1
  <2> QED
    BY <1>1, <2>1, <2>2 DEF Sound
<1>10. \A j \in Keys \ e.saved :
         \/ j \in e.pending \/ e.durable[j] = Unknown
         \/ e.preview.owner # NoBrowser /\ j = e.preview.key
  <2>1. b # NoBrowser
    BY SettingsAssumption
  <2>2. e.preview.owner = b /\ e.preview.key = k
    BY <1>2, <1>6 DEF q
  <2>3. \A j \in Keys \ c.saved : j \in c.pending \/ c.durable[j] = Unknown
    BY <1>1 DEF Sound
  <2>4. e.saved = c.saved \ {k} /\ e.durable = c.durable
    BY <1>2, <1>6
  <2> QED
    BY <1>1, <2>1, <2>2, <2>3, <2>4
<1>11. Sound(e)
  BY <1>1, <1>2, <1>6, <1>8, <1>9, <1>10 DEF Sound
<1>12. t = p \/ t = e
  BY DEF FirstPreview, p, q, c, e
<1> QED
  BY <1>7, <1>11, <1>12

LEMMA NextPreviewSound ==
  ASSUME NEW s, Sound(s), s.preview.owner # NoBrowser, NEW v \in Levels, NEW t \in NextPreview(s, v)
  PROVE  Sound(t)
<1> DEFINE p == s.preview.key  c == Changed(s, p, v)
<1>1. s \in SettingsType /\ PreviewSound(s) /\ p \in Keys
  BY DEF Sound, SettingsType
<1>2. /\ c \in SettingsType
      /\ \A j \in Keys : c.level[j] = IF j = p THEN v ELSE s.level[j]
      /\ c.saved = s.saved \ {p} /\ c.pending = s.pending /\ c.durable = s.durable
      /\ c.preview = s.preview /\ c.flash = s.flash
  BY <1>1, ChangedIs
<1> HIDE DEF c
<1>3. PreviewSound(c)
  BY <1>1, <1>2 DEF PreviewSound
<1>4. Sound(c)
  <2>1. ASSUME NEW j \in c.saved PROVE c.flash[j] = c.level[j]
    <3>1. j \in Keys /\ j \in s.saved /\ j # p
      BY <1>1, <1>2 DEF SettingsType
    <3> QED
      BY <1>2, <3>1 DEF Sound
  <2>2. ASSUME NEW j \in Keys \ c.saved
        PROVE  \/ j \in c.pending \/ c.durable[j] = Unknown
               \/ c.preview.owner # NoBrowser /\ j = c.preview.key
    BY <1>2 DEF Sound
  <2>3. \A j \in Keys : c.durable[j] # Unknown => c.flash[j] = c.durable[j]
    BY <1>2 DEF Sound
  <2> QED
    BY <1>2, <1>3, <2>1, <2>2, <2>3 DEF Sound
<1>5. t = s \/ t = c
  BY DEF NextPreview, c
<1> QED
  BY <1>4, <1>5

LEMMA CommitPreviewSound ==
  ASSUME NEW s, Sound(s), s.preview.owner # NoBrowser, NEW t \in CommitPreview(s)
  PROVE  Sound(t)
<1> DEFINE p == s.preview.key  c == [s EXCEPT !.preview = NoPreview]
<1>1. s \in SettingsType /\ PreviewSound(s) /\ p \in Keys
  BY DEF Sound, SettingsType
<1>2. c = [level |-> s.level, saved |-> s.saved, pending |-> s.pending,
           durable |-> s.durable, preview |-> NoPreview, flash |-> s.flash]
  BY <1>1 DEF SettingsType
<1>3. NoPreview \in [owner : Browsers \cup {NoBrowser}, key : Keys, value : Levels \cup {Unknown},
                     saved : BOOLEAN] /\ NoPreview.owner = NoBrowser
  BY SettingsAssumption DEF NoPreview
<1>4. c \in SettingsType
  BY <1>1, <1>2, <1>3 DEF SettingsType
<1>5. {p} \in SUBSET Keys /\ t \in Commits(c, {p})
  BY <1>1 DEF CommitPreview, Commit
<1> HIDE DEF c
<1>6. \A k \in Keys \ c.saved : k \in {p} \/ k \in c.pending \/ c.durable[k] = Unknown
  BY <1>2 DEF Sound
<1>7. /\ \A k \in Keys : c.durable[k] # Unknown => c.flash[k] = c.durable[k]
      /\ \A k \in c.saved : c.flash[k] = c.level[k]
  BY <1>2 DEF Sound
<1>8. c.preview.owner = NoBrowser
  BY <1>2, <1>3
<1> HIDE DEF p
<1> QED
  BY CommitsSound, <1>4, <1>5, <1>6, <1>7, <1>8

(* The commit of the panel's edits; a preview leaves none to commit.        *)
LEMMA CommitPendingSound ==
  ASSUME NEW s, Sound(s), NEW t \in CommitPending(s)
  PROVE  Sound(t)
<1>1. s \in SettingsType /\ s.pending \in SUBSET Keys /\ t \in Commits(s, s.pending)
  BY DEF Sound, SettingsType, CommitPending
<1>2. CASE s.preview.owner = NoBrowser
  <2>1. \A k \in Keys \ s.saved : k \in s.pending \/ k \in s.pending \/ s.durable[k] = Unknown
    BY <1>2 DEF Sound
  <2>2. /\ \A k \in Keys : s.durable[k] # Unknown => s.flash[k] = s.durable[k]
        /\ \A k \in s.saved : s.flash[k] = s.level[k]
    BY DEF Sound
  <2> QED
    BY CommitsSound, <1>1, <1>2, <2>1, <2>2
<1>3. CASE s.preview.owner # NoBrowser
  <2>1. s.pending = {}
    BY <1>3 DEF Sound, PreviewSound
  <2>2. PICK stored \in SUBSET {}, late \in SUBSET {} : t = Committed(s, {}, stored, late)
    BY <1>1, <2>1 DEF Commits
  <2>3. stored = {} /\ late = {}
    BY <2>2
  <2>4. [k \in Keys |-> IF k \in ({} \cup {}) \ Known(s) THEN s.level[k] ELSE s.flash[k]] = s.flash
    BY <1>1 DEF SettingsType, Stores
  <2>5. [k \in Keys |-> IF k \in {} THEN s.level[k] ELSE Relied(s, {} \ {})[k]] = s.durable
    BY <1>1 DEF SettingsType, Stores, Relied
  <2>6. t = [level |-> s.level, saved |-> s.saved, pending |-> {}, durable |-> s.durable,
             preview |-> s.preview, flash |-> s.flash]
    BY <1>1, <2>1, <2>2, <2>3, <2>4, <2>5 DEF SettingsType, Committed
  <2>7. t = s
    BY <1>1, <2>1, <2>6 DEF SettingsType
  <2> QED
    BY <2>7
<1> QED
  BY <1>2, <1>3

(* The boot, from whatever flash holds.                                     *)
LEMMA LoadedSound ==
  ASSUME NEW flash \in Stores
  PROVE  Sound(Loaded(flash))
<1> DEFINE s == Loaded(flash)
<1>1. Default \in Levels
  BY SettingsAssumption DEF Default
<1>2. NoPreview \in [owner : Browsers \cup {NoBrowser}, key : Keys, value : Levels \cup {Unknown},
                     saved : BOOLEAN] /\ NoPreview.owner = NoBrowser
  BY SettingsAssumption DEF NoPreview
<1>3. s \in SettingsType
  BY <1>1, <1>2 DEF Loaded, SettingsType, Stores
<1> QED
  BY <1>2, <1>3, SettingsAssumption DEF Sound, Loaded, Stores

(* What a turn may do for the browsers                                      *)
LEMMA EditedSound ==
  ASSUME NEW s, Sound(s), NEW t \in Edited(s)
  PROVE  Sound(t)
<1>1. CASE t = CancelPreview(s)
  BY <1>1, CancelSound
<1>2. ASSUME NEW k \in Keys, NEW v \in Levels, t \in SetLevel(s, k, v, TRUE) PROVE Sound(t)
  BY <1>2, SetLevelSound
<1>3. ASSUME MayPreview(s), NEW b \in Browsers, NEW k \in Keys, NEW v \in Levels,
             t \in FirstPreview(s, b, k, v)
      PROVE  Sound(t)
  BY <1>3, FirstPreviewSound
<1>4. ASSUME s.preview.owner # NoBrowser, t \in CommitPreview(s) PROVE Sound(t)
  BY <1>4, CommitPreviewSound
<1>5. ASSUME s.preview.owner # NoBrowser, NEW v \in Levels, t \in NextPreview(s, v) PROVE Sound(t)
  BY <1>5, NextPreviewSound
<1> DEFINE Set(k, v) == SetLevel(s, k, v, TRUE)
           First(b, k, v) == FirstPreview(s, b, k, v)
           After(v) == NextPreview(s, v)
           Sets == UNION {Set(k, v) : k \in Keys, v \in Levels}
           Firsts == UNION {First(b, k, v) : b \in Browsers, k \in Keys, v \in Levels}
           Nexts == UNION {After(v) : v \in Levels}
<1>6. \/ t = CancelPreview(s) \/ t \in Sets
      \/ MayPreview(s) /\ t \in Firsts
      \/ s.preview.owner # NoBrowser /\ (t \in CommitPreview(s) \/ t \in Nexts)
  <2>1. Edited(s) = {CancelPreview(s)} \cup (Sets) \cup (IF MayPreview(s) THEN Firsts ELSE {})
                    \cup (IF s.preview.owner = NoBrowser THEN {} ELSE CommitPreview(s) \cup Nexts)
    BY SMTT(30) DEF Edited, Set, First, After
  <2> HIDE DEF Sets, Firsts, Nexts
  <2> QED
    BY <2>1
<1> HIDE DEF Set, First, After
<1>7. t \in Sets => \E k \in Keys, v \in Levels : t \in Set(k, v)
  OBVIOUS
<1>8. t \in Firsts => \E b \in Browsers, k \in Keys, v \in Levels : t \in First(b, k, v)
  OBVIOUS
<1>9. t \in Nexts => \E v \in Levels : t \in After(v)
  OBVIOUS
<1> HIDE DEF Sets, Firsts, Nexts
<1>10. t \in Sets => Sound(t)
  BY <1>2, <1>7 DEF Set
<1>11. MayPreview(s) /\ t \in Firsts => Sound(t)
  BY <1>3, <1>8 DEF First
<1>12. s.preview.owner # NoBrowser /\ t \in Nexts => Sound(t)
  BY <1>5, <1>9 DEF After
<1> QED
  BY <1>1, <1>4, <1>6, <1>10, <1>11, <1>12

-----------------------------------------------------------------------------
(* A step leaves the settings sound.                                        *)

LEMMA StoredSound ==
  ASSUME NEW s, Sound(s), Stored(s)
  PROVE  Sound(settings')
<1>1. settings' = s \/ settings' \in CommitPending(s)
  BY DEF Stored
<1> QED
  BY <1>1, CommitPendingSound

(* Whatever a step does to the settings leaves them sound.                  *)
LEMMA SettingsStep ==
  ASSUME Sound(settings), Next
  PROVE  Sound(settings')
<1>1. CASE BeginTurn
  <2>1. \/ settings' = settings \/ settings' = CancelPreview(settings)
        \/ settings' \in Edited(settings)
    BY <1>1 DEF BeginTurn, Others, Quiet, Proposed, ConfigMoves, MaintenanceMoves, SettingsMove
  <2> QED
    BY <2>1, CancelSound, EditedSound
<1>2. CASE FirstPages
  <2>1. settings' = settings
    BY <1>2 DEF FirstPages, WifiOpens, WifiRestores, WifiTouched, WifiWaits, MaintenanceOpens,
       MaintenanceRestores, MaintenanceTouched, MaintenanceWaits, Wakes, others
  <2> QED
    BY <2>1
<1>3. CASE MainPage
  <2>1. settings' = settings
    BY <1>3 DEF MainPage, MainConsumes, FaderMoves, FaderLost, ListTouched, OpensSettings,
       OpensPresets, BlackoutTapped, OpensPrecision, FaderTaken, ButtonPressed, MainRests,
       MainFrame, MainStays, Consumes
  <2> QED
    BY <2>1
<1>4. CASE SettingsPage
  <2>1. settings' = settings \/ Stored(settings) \/ LevelSet
    BY <1>4 DEF SettingsPage, PowerTouched, ResetTouched, RestartTapped, PowersOff,
       PowerOffTapped, ClosesSettings, SettingsRest, others
  <2>2. CASE LevelSet
    <3>1. PICK k \in Keys, v \in Levels :
            \E s \in (IF settings.level[k] = v THEN {settings}
                      ELSE SetLevel(settings, k, v, FALSE)) : Stored(s)
      BY <2>2 DEF LevelSet
    <3>2. PICK s : (s = settings \/ s \in SetLevel(settings, k, v, FALSE)) /\ Stored(s)
      BY <3>1
    <3>3. Sound(s)
      BY <3>2, SetLevelSound
    <3> QED
      BY <3>2, <3>3, StoredSound
  <2> QED
    BY <2>1, <2>2, StoredSound
<1>5. CASE ValuePages
  <2>1. settings' = settings
    BY <1>5 DEF ValuePages, ValueConsumes, KeypadCloses, KeypadRests, ValueAdjusted,
       ValueSlides, OpensKeypad, ClosesPrecision, PrecisionRests, ValueTurn, ValuePage, Consumes
  <2> QED
    BY <2>1
<1>6. CASE PresetPages
  <2>1. settings' = settings
    BY <1>6 DEF PresetPages, SlotHeld, SaveHeld, SlotTapped, LoadTapped, CancelsCopy,
       ClosesPresets, GridRests, OptionsConsume, ClearHeld, CopyTapped, ClosesOptions,
       OptionsRest, GridTurn, OptionsTurn, PresetPage, Consumes
  <2> QED
    BY <2>1
<1>7. CASE Boots
  <2>1. settings' = Loaded(settings.flash) /\ settings.flash \in Stores
    BY <1>7 DEF Boots, Sound, SettingsType
  <2> QED
    BY <2>1, LoadedSound
<1> QED
  BY <1>1, <1>2, <1>3, <1>4, <1>5, <1>6, <1>7 DEF Next

-----------------------------------------------------------------------------
(* The type invariant                                                       *)

LEMMA AtTyped ==
  ASSUME Typed, Next
  PROVE  at' \in {"turn", "page", "off"}
<1>1. CASE BeginTurn
  BY <1>1 DEF BeginTurn, Turn, Typed, TypeOK
<1>2. CASE FirstPages
  BY <1>2 DEF FirstPages, WifiOpens, WifiRestores, WifiTouched, WifiWaits, MaintenanceOpens,
         MaintenanceRestores, MaintenanceTouched, MaintenanceWaits, Wakes, others, Turn, Typed,
         TypeOK
<1>3. CASE MainPage
  BY <1>3 DEF MainPage, MainConsumes, FaderMoves, FaderLost, ListTouched, OpensSettings,
         OpensPresets, BlackoutTapped, OpensPrecision, FaderTaken, ButtonPressed, MainRests,
         MainTurn, Own, MainStays, MainFrame, Consumes, Turn, Typed, TypeOK
<1>4. CASE SettingsPage
  BY <1>4 DEF SettingsPage, PowerTouched, ResetTouched, RestartTapped, PowersOff,
         PowerOffTapped, ClosesSettings, LevelSet, SettingsRest, SettingsTurn, Own,
         SettingsStay, panel, others, Turn, Typed, TypeOK
<1>5. CASE ValuePages
  BY <1>5 DEF ValuePages, ValueConsumes, KeypadCloses, KeypadRests, ValueAdjusted, ValueSlides,
         OpensKeypad, ClosesPrecision, PrecisionRests, ValueTurn, ValuePage, Own, Consumes,
         Turn, Typed, TypeOK
<1>6. CASE PresetPages
  BY <1>6 DEF PresetPages, SlotHeld, SaveHeld, SlotTapped, LoadTapped, CancelsCopy,
         ClosesPresets, GridRests, OptionsConsume, ClearHeld, CopyTapped, ClosesOptions,
         OptionsRest, GridTurn, OptionsTurn, PresetPage, Own, Consumes, GridStays, Turn, Typed,
         TypeOK
<1>7. CASE Boots
  BY <1>7 DEF Boots, Turn, Typed, TypeOK
<1> QED
  BY <1>1, <1>2, <1>3, <1>4, <1>5, <1>6, <1>7 DEF Next

(* The mode of the main page, what the finger drags, and what is armed.     *)
LEMMA ModeTyped ==
  ASSUME Typed, Next
  PROVE  ui_mode' \in {"select", "value"}
<1>1. CASE BeginTurn
  BY <1>1 DEF BeginTurn, Typed, TypeOK
<1>2. CASE FirstPages
  BY <1>2 DEF FirstPages, WifiOpens, WifiRestores, WifiTouched, WifiWaits, MaintenanceOpens,
         MaintenanceRestores, MaintenanceTouched, MaintenanceWaits, Wakes, others, Typed, TypeOK
<1>3. CASE MainPage
  BY <1>3 DEF MainPage, MainConsumes, FaderMoves, FaderLost, ListTouched, OpensSettings,
         OpensPresets, BlackoutTapped, OpensPrecision, FaderTaken, ButtonPressed, MainRests,
         MainTurn, Own, MainStays, MainFrame, Consumes, Typed, TypeOK
<1>4. CASE SettingsPage
  BY <1>4 DEF SettingsPage, PowerTouched, ResetTouched, RestartTapped, PowersOff,
         PowerOffTapped, ClosesSettings, LevelSet, SettingsRest, SettingsTurn, Own,
         SettingsStay, panel, others, Typed, TypeOK
<1>5. CASE ValuePages
  BY <1>5 DEF ValuePages, ValueConsumes, KeypadCloses, KeypadRests, ValueAdjusted, ValueSlides,
         OpensKeypad, ClosesPrecision, PrecisionRests, ValueTurn, ValuePage, Own, Consumes,
         Typed, TypeOK
<1>6. CASE PresetPages
  BY <1>6 DEF PresetPages, SlotHeld, SaveHeld, SlotTapped, LoadTapped, CancelsCopy,
         ClosesPresets, GridRests, OptionsConsume, ClearHeld, CopyTapped, ClosesOptions,
         OptionsRest, GridTurn, OptionsTurn, PresetPage, Own, Consumes, GridStays, Typed, TypeOK
<1>7. CASE Boots
  BY <1>7 DEF Boots, Typed, TypeOK
<1> QED
  BY <1>1, <1>2, <1>3, <1>4, <1>5, <1>6, <1>7 DEF Next

LEMMA DragTyped ==
  ASSUME Typed, Next
  PROVE  drag' \in {"none", "fader", "slider", "pending", "scroll", "level"}
<1>1. CASE BeginTurn
  BY <1>1 DEF BeginTurn, Typed, TypeOK
<1>2. CASE FirstPages
  BY <1>2 DEF FirstPages, WifiOpens, WifiRestores, WifiTouched, WifiWaits, MaintenanceOpens,
         MaintenanceRestores, MaintenanceTouched, MaintenanceWaits, Wakes, others, Typed,
         TypeOK, NoGesture, TakesOver
<1>3. CASE MainPage
  BY <1>3 DEF MainPage, MainConsumes, FaderMoves, FaderLost, ListTouched, OpensSettings,
         OpensPresets, BlackoutTapped, OpensPrecision, FaderTaken, ButtonPressed, MainRests,
         MainTurn, Own, MainStays, MainFrame, Consumes, Typed, TypeOK
<1>4. CASE SettingsPage
  BY <1>4 DEF SettingsPage, PowerTouched, ResetTouched, RestartTapped, PowersOff,
         PowerOffTapped, ClosesSettings, LevelSet, SettingsRest, SettingsTurn, Own,
         SettingsStay, panel, others, Typed, TypeOK, Grabbed
<1>5. CASE ValuePages
  BY <1>5 DEF ValuePages, ValueConsumes, KeypadCloses, KeypadRests, ValueAdjusted, ValueSlides,
         OpensKeypad, ClosesPrecision, PrecisionRests, ValueTurn, ValuePage, Own, Consumes,
         Typed, TypeOK
<1>6. CASE PresetPages
  BY <1>6 DEF PresetPages, SlotHeld, SaveHeld, SlotTapped, LoadTapped, CancelsCopy,
         ClosesPresets, GridRests, OptionsConsume, ClearHeld, CopyTapped, ClosesOptions,
         OptionsRest, GridTurn, OptionsTurn, PresetPage, Own, Consumes, GridStays, Typed, TypeOK
<1>7. CASE Boots
  BY <1>7 DEF Boots, Typed, TypeOK
<1> QED
  BY <1>1, <1>2, <1>3, <1>4, <1>5, <1>6, <1>7 DEF Next

LEMMA ArmTyped ==
  ASSUME Typed, Next
  PROVE  arm' \in {"none", "blackout", "restart", "poweroff"}
<1>1. CASE BeginTurn
  BY <1>1 DEF BeginTurn, Typed, TypeOK
<1>2. CASE FirstPages
  BY <1>2 DEF FirstPages, WifiOpens, WifiRestores, WifiTouched, WifiWaits, MaintenanceOpens,
         MaintenanceRestores, MaintenanceTouched, MaintenanceWaits, Wakes, others, Typed,
         TypeOK, NoGesture, TakesOver
<1>3. CASE MainPage
  BY <1>3 DEF MainPage, MainConsumes, FaderMoves, FaderLost, ListTouched, OpensSettings,
         OpensPresets, BlackoutTapped, OpensPrecision, FaderTaken, ButtonPressed, MainRests,
         MainTurn, Own, MainStays, MainFrame, Consumes, Typed, TypeOK
<1>4. CASE SettingsPage
  BY <1>4 DEF SettingsPage, PowerTouched, ResetTouched, RestartTapped, PowersOff,
         PowerOffTapped, ClosesSettings, LevelSet, SettingsRest, SettingsTurn, Own,
         SettingsStay, panel, others, Typed, TypeOK
<1>5. CASE ValuePages
  BY <1>5 DEF ValuePages, ValueConsumes, KeypadCloses, KeypadRests, ValueAdjusted, ValueSlides,
         OpensKeypad, ClosesPrecision, PrecisionRests, ValueTurn, ValuePage, Own, Consumes,
         Typed, TypeOK
<1>6. CASE PresetPages
  BY <1>6 DEF PresetPages, SlotHeld, SaveHeld, SlotTapped, LoadTapped, CancelsCopy,
         ClosesPresets, GridRests, OptionsConsume, ClearHeld, CopyTapped, ClosesOptions,
         OptionsRest, GridTurn, OptionsTurn, PresetPage, Own, Consumes, GridStays, Typed, TypeOK
<1>7. CASE Boots
  BY <1>7 DEF Boots, Typed, TypeOK
<1> QED
  BY <1>1, <1>2, <1>3, <1>4, <1>5, <1>6, <1>7 DEF Next

(* The phases of the Wi-Fi change and of the maintenance.                   *)
LEMMA PhasesTyped ==
  ASSUME Typed, Next
  PROVE  /\ config' \in {"idle", "approval", "applying", "failed"}
         /\ maintenance' \in {"idle", "countdown", "committed"}
<1>1. CASE BeginTurn
  BY <1>1 DEF BeginTurn, Typed, TypeOK, Others, Quiet, Proposed, ConfigMoves, MaintenanceMoves,
         SettingsMove
<1>2. CASE FirstPages
  BY <1>2 DEF FirstPages, WifiOpens, WifiRestores, WifiTouched, WifiWaits, MaintenanceOpens,
         MaintenanceRestores, MaintenanceTouched, MaintenanceWaits, Wakes, others, Typed,
         TypeOK, WifiOperation
<1>3. CASE MainPage
  BY <1>3 DEF MainPage, MainConsumes, FaderMoves, FaderLost, ListTouched, OpensSettings,
         OpensPresets, BlackoutTapped, OpensPrecision, FaderTaken, ButtonPressed, MainRests,
         MainTurn, Own, MainStays, MainFrame, Consumes, Typed, TypeOK
<1>4. CASE SettingsPage
  BY <1>4 DEF SettingsPage, PowerTouched, ResetTouched, RestartTapped, PowersOff,
         PowerOffTapped, ClosesSettings, LevelSet, SettingsRest, SettingsTurn, Own,
         SettingsStay, panel, others, Typed, TypeOK
<1>5. CASE ValuePages
  BY <1>5 DEF ValuePages, ValueConsumes, KeypadCloses, KeypadRests, ValueAdjusted, ValueSlides,
         OpensKeypad, ClosesPrecision, PrecisionRests, ValueTurn, ValuePage, Own, Consumes,
         Typed, TypeOK
<1>6. CASE PresetPages
  BY <1>6 DEF PresetPages, SlotHeld, SaveHeld, SlotTapped, LoadTapped, CancelsCopy,
         ClosesPresets, GridRests, OptionsConsume, ClearHeld, CopyTapped, ClosesOptions,
         OptionsRest, GridTurn, OptionsTurn, PresetPage, Own, Consumes, GridStays, Typed, TypeOK
<1>7. CASE Boots
  BY <1>7 DEF Boots, Typed, TypeOK
<1> QED
  BY <1>1, <1>2, <1>3, <1>4, <1>5, <1>6, <1>7 DEF Next

LEMMA AsleepTyped ==
  ASSUME Typed, Next
  PROVE  asleep' \in BOOLEAN
<1>1. CASE BeginTurn
  BY <1>1 DEF BeginTurn, Typed, TypeOK
<1>2. CASE FirstPages
  BY <1>2 DEF FirstPages, WifiOpens, WifiRestores, WifiTouched, WifiWaits, MaintenanceOpens,
         MaintenanceRestores, MaintenanceTouched, MaintenanceWaits, Wakes, others, Typed, TypeOK
<1>3. CASE MainPage
  BY <1>3 DEF MainPage, MainConsumes, FaderMoves, FaderLost, ListTouched, OpensSettings,
         OpensPresets, BlackoutTapped, OpensPrecision, FaderTaken, ButtonPressed, MainRests,
         MainTurn, Own, MainStays, MainFrame, Consumes, Typed, TypeOK
<1>4. CASE SettingsPage
  BY <1>4 DEF SettingsPage, PowerTouched, ResetTouched, RestartTapped, PowersOff,
         PowerOffTapped, ClosesSettings, LevelSet, SettingsRest, SettingsTurn, Own,
         SettingsStay, panel, others, Typed, TypeOK
<1>5. CASE ValuePages
  BY <1>5 DEF ValuePages, ValueConsumes, KeypadCloses, KeypadRests, ValueAdjusted, ValueSlides,
         OpensKeypad, ClosesPrecision, PrecisionRests, ValueTurn, ValuePage, Own, Consumes,
         Typed, TypeOK
<1>6. CASE PresetPages
  BY <1>6 DEF PresetPages, SlotHeld, SaveHeld, SlotTapped, LoadTapped, CancelsCopy,
         ClosesPresets, GridRests, OptionsConsume, ClearHeld, CopyTapped, ClosesOptions,
         OptionsRest, GridTurn, OptionsTurn, PresetPage, Own, Consumes, GridStays, Typed, TypeOK
<1>7. CASE Boots
  BY <1>7 DEF Boots, Typed, TypeOK
<1> QED
  BY <1>1, <1>2, <1>3, <1>4, <1>5, <1>6, <1>7 DEF Next

(* The gestures that are consumed, and the pages that are open.             *)
LEMMA SwallowTyped ==
  ASSUME Typed, Next
  PROVE  swallow' \subseteq {"main", "precision", "options", "wake"}
<1>1. CASE BeginTurn
  BY <1>1 DEF BeginTurn, Typed, TypeOK
<1>2. CASE FirstPages
  BY <1>2 DEF FirstPages, WifiOpens, WifiRestores, WifiTouched, WifiWaits, MaintenanceOpens,
         MaintenanceRestores, MaintenanceTouched, MaintenanceWaits, Wakes, others, Typed, TypeOK
<1>3. CASE MainPage
  BY <1>3 DEF MainPage, MainConsumes, FaderMoves, FaderLost, ListTouched, OpensSettings,
         OpensPresets, BlackoutTapped, OpensPrecision, FaderTaken, ButtonPressed, MainRests,
         MainTurn, Own, MainStays, MainFrame, Consumes, Typed, TypeOK
<1>4. CASE SettingsPage
  BY <1>4 DEF SettingsPage, PowerTouched, ResetTouched, RestartTapped, PowersOff,
         PowerOffTapped, ClosesSettings, LevelSet, SettingsRest, SettingsTurn, Own,
         SettingsStay, panel, others, Typed, TypeOK
<1>5. CASE ValuePages
  BY <1>5 DEF ValuePages, ValueConsumes, KeypadCloses, KeypadRests, ValueAdjusted, ValueSlides,
         OpensKeypad, ClosesPrecision, PrecisionRests, ValueTurn, ValuePage, Own, Consumes,
         Typed, TypeOK
<1>6. CASE PresetPages
  BY <1>6 DEF PresetPages, SlotHeld, SaveHeld, SlotTapped, LoadTapped, CancelsCopy,
         ClosesPresets, GridRests, OptionsConsume, ClearHeld, CopyTapped, ClosesOptions,
         OptionsRest, GridTurn, OptionsTurn, PresetPage, Own, Consumes, GridStays, Typed, TypeOK
<1>7. CASE Boots
  BY <1>7 DEF Boots, Typed, TypeOK
<1> QED
  BY <1>1, <1>2, <1>3, <1>4, <1>5, <1>6, <1>7 DEF Next

LEMMA ScreensTyped ==
  ASSUME Typed, Next
  PROVE  \/ screens' \subseteq {"settings"}
         \/ screens' \subseteq {"precision", "keypad"}
         \/ screens' \subseteq {"preset", "options", "copy"}
<1>1. CASE BeginTurn
  BY <1>1 DEF BeginTurn, Typed, TypeOK, Turn, InCharge, Screen
<1>2. CASE FirstPages
  BY <1>2 DEF FirstPages, WifiOpens, WifiRestores, WifiTouched, WifiWaits, MaintenanceOpens,
         MaintenanceRestores, MaintenanceTouched, MaintenanceWaits, Wakes, others, Typed,
         TypeOK, Turn, InCharge, Screen
<1>3. CASE MainPage
  BY <1>3 DEF MainPage, MainConsumes, FaderMoves, FaderLost, ListTouched, OpensSettings,
         OpensPresets, BlackoutTapped, OpensPrecision, FaderTaken, ButtonPressed, MainRests,
         MainTurn, Own, MainStays, MainFrame, Consumes, Typed, TypeOK, Turn, InCharge, Screen
<1>4. CASE SettingsPage
  BY <1>4 DEF SettingsPage, PowerTouched, ResetTouched, RestartTapped, PowersOff,
         PowerOffTapped, ClosesSettings, LevelSet, SettingsRest, SettingsTurn, Own,
         SettingsStay, panel, others, Typed, TypeOK, Turn, InCharge, Screen
<1>5. CASE ValuePages
  BY <1>5 DEF ValuePages, ValueConsumes, KeypadCloses, KeypadRests, ValueAdjusted, ValueSlides,
         OpensKeypad, ClosesPrecision, PrecisionRests, ValueTurn, ValuePage, Own, Consumes,
         Typed, TypeOK, Turn, InCharge, Screen
<1>6. CASE PresetPages
  BY <1>6 DEF PresetPages, SlotHeld, SaveHeld, SlotTapped, LoadTapped, CancelsCopy,
         ClosesPresets, GridRests, OptionsConsume, ClearHeld, CopyTapped, ClosesOptions,
         OptionsRest, GridTurn, OptionsTurn, PresetPage, Own, Consumes, GridStays, Typed,
         TypeOK, Turn, InCharge, Screen
<1>7. CASE Boots
  BY <1>7 DEF Boots, Typed, TypeOK, Turn, InCharge, Screen
<1> QED
  BY <1>1, <1>2, <1>3, <1>4, <1>5, <1>6, <1>7 DEF Next

(* The values that a tap may leave of a double tap.                         *)
LEMMA PairsTypes ==
  ASSUME Typed, NEW next \in Pairs
  PROVE  next[1] \subseteq {"tracking", "candidate"}
<1> DEFINE begun == IF ~Begun THEN pair ELSE IF On("grid", "slot")
           THEN pair \cup {"tracking"} ELSE {}
<1>1. begun \subseteq {"tracking", "candidate"}
  BY DEF Typed
<1>2. \/ next = <<{}, FALSE>> \/ next = <<begun, FALSE>>
      \/ next = <<{"candidate"}, FALSE>> \/ next = <<{}, TRUE>>
  BY DEF Pairs
<1> HIDE DEF begun
<1>3. CASE next = <<{}, FALSE>>
  BY <1>3
<1>4. CASE next = <<begun, FALSE>>
  BY <1>1, <1>4
<1>5. CASE next = <<{"candidate"}, FALSE>>
  BY <1>5
<1>6. CASE next = <<{}, TRUE>>
  BY <1>6
<1> QED
  BY <1>2, <1>3, <1>4, <1>5, <1>6

LEMMA PairTyped ==
  ASSUME Typed, Next
  PROVE  pair' \subseteq {"tracking", "candidate"}
<1>1. CASE BeginTurn
  BY <1>1 DEF BeginTurn, Typed, TypeOK
<1>2. CASE FirstPages
  BY <1>2 DEF FirstPages, WifiOpens, WifiRestores, WifiTouched, WifiWaits, MaintenanceOpens,
         MaintenanceRestores, MaintenanceTouched, MaintenanceWaits, Wakes, others, Typed,
         TypeOK, NoGesture, TakesOver
<1>3. CASE MainPage
  BY <1>3 DEF MainPage, MainConsumes, FaderMoves, FaderLost, ListTouched, OpensSettings,
         OpensPresets, BlackoutTapped, OpensPrecision, FaderTaken, ButtonPressed, MainRests,
         MainTurn, Own, MainStays, MainFrame, Consumes, Typed, TypeOK
<1>4. CASE SettingsPage
  BY <1>4 DEF SettingsPage, PowerTouched, ResetTouched, RestartTapped, PowersOff,
         PowerOffTapped, ClosesSettings, LevelSet, SettingsRest, SettingsTurn, Own,
         SettingsStay, panel, others, Typed, TypeOK
<1>5. CASE ValuePages
  BY <1>5 DEF ValuePages, ValueConsumes, KeypadCloses, KeypadRests, ValueAdjusted, ValueSlides,
         OpensKeypad, ClosesPrecision, PrecisionRests, ValueTurn, ValuePage, Own, Consumes,
         Typed, TypeOK
<1>6. CASE PresetPages
  <2>1. pair' = {} \/ \E next \in Pairs : pair' = next[1]
    BY <1>6 DEF PresetPages, SlotHeld, SaveHeld, SlotTapped, LoadTapped, CancelsCopy,
           ClosesPresets, GridRests, OptionsConsume, ClearHeld, CopyTapped, ClosesOptions,
           OptionsRest, GridTurn, OptionsTurn, PresetPage, Own, Consumes, GridStays
  <2> QED
    BY <2>1, PairsTypes
<1>7. CASE Boots
  BY <1>7 DEF Boots
<1> QED
  BY <1>1, <1>2, <1>3, <1>4, <1>5, <1>6, <1>7 DEF Next

HoldType ==
  [on : {"none", "power", "reset", "slot", "save", "clear"}, age : 0 .. Held,
   st : {"idle", "armed", "cancelled", "done"}, left : BOOLEAN]

(* The values that a step may give the held button.                         *)
LEMMA HoldTypes ==
  ASSUME Typed
  PROVE  /\ hold \in HoldType /\ NoHold \in HoldType
         /\ \A st \in {"armed", "cancelled", "done"} : [hold EXCEPT !.st = st] \in HoldType
         /\ \A button \in {"power", "reset", "slot", "save", "clear"} :
            HoldBegins(button) \in HoldType
         /\ [HoldBegins("power") EXCEPT !.st = "cancelled"] \in HoldType
         /\ [hold EXCEPT !.left = (hold.on # "none")] \in HoldType
         /\ [hold EXCEPT !.st = IF @ = "armed" THEN "cancelled" ELSE @] \in HoldType
         /\ \A time \in 0 .. Held :
              [hold EXCEPT !.age = IF hold.on = "none" THEN 0 ELSE Older(@, time)] \in HoldType
<1>1. hold \in HoldType
  BY DEF Typed, HoldType
<1>2. NoHold \in HoldType
  BY DEF HoldType, NoHold, Held
<1>3. \A st \in {"armed", "cancelled", "done"} : [hold EXCEPT !.st = st] \in HoldType
  BY <1>1 DEF HoldType
<1>4. ASSUME NEW button \in {"power", "reset", "slot", "save", "clear"}
      PROVE  /\ HoldBegins(button) \in HoldType
             /\ [HoldBegins(button) EXCEPT !.st = "cancelled"] \in HoldType
  <2>1. 0 \in 0 .. Held /\ FALSE \in BOOLEAN
    BY DEF Held
  <2>2. HoldBegins(button) \in HoldType
    BY <2>1, Zenon DEF HoldType, HoldBegins
  <2>3. \A h \in HoldType : [h EXCEPT !.st = "cancelled"] \in HoldType
    BY DEF HoldType
  <2> QED
    BY <2>2, <2>3
<1>5. [hold EXCEPT !.left = (hold.on # "none")] \in HoldType
  <2>1. \A b \in BOOLEAN : [hold EXCEPT !.left = b] \in HoldType
    BY <1>1 DEF HoldType
  <2>2. (hold.on # "none") \in BOOLEAN
    OBVIOUS
  <2> QED
    BY <2>1, <2>2
<1>6. [hold EXCEPT !.st = IF @ = "armed" THEN "cancelled" ELSE @] \in HoldType
  BY <1>1 DEF HoldType
<1>7. ASSUME NEW time \in 0 .. Held
      PROVE  [hold EXCEPT !.age = IF hold.on = "none" THEN 0 ELSE Older(@, time)] \in HoldType
  <2>1. (IF hold.on = "none" THEN 0 ELSE Older(hold.age, time)) \in 0 .. Held
    BY <1>1 DEF HoldType, Older, Held
  <2> QED
    BY <1>1, <2>1 DEF HoldType
<1> QED
  BY <1>1, <1>2, <1>3, <1>4, <1>5, <1>6, <1>7

LEMMA HoldTyped ==
  ASSUME Typed, Next
  PROVE  hold' \in HoldType
<1>1. CASE BeginTurn
  <2>1. \E time \in 0 .. Held :
        hold' = [hold EXCEPT !.age = IF hold.on = "none" THEN 0 ELSE Older(@, time)]
    BY <1>1 DEF BeginTurn, Held
  <2> QED
    BY <2>1, HoldTypes
<1>2. CASE FirstPages
  <2>1. hold' = hold \/ hold' = [hold EXCEPT !.left = (hold.on # "none")]
    BY <1>2 DEF FirstPages, WifiOpens, WifiRestores, WifiTouched, WifiWaits, MaintenanceOpens,
           MaintenanceRestores, MaintenanceTouched, MaintenanceWaits, Wakes, TakesOver, others
  <2> QED
    BY <2>1, HoldTypes
<1>3. CASE MainPage
  <2>1. hold' = hold \/ hold' = NoHold
    BY <1>3 DEF MainPage, MainConsumes, FaderMoves, FaderLost, ListTouched, OpensSettings,
           OpensPresets, BlackoutTapped, OpensPrecision, FaderTaken, ButtonPressed, MainRests,
           MainTurn, Own, MainStays, MainFrame, Consumes
  <2> QED
    BY <2>1, HoldTypes
<1>4. CASE SettingsPage
  <2>1. \/ hold' = hold \/ hold' = NoHold \/ hold' = HoldBegins("power")
        \/ hold' = HoldBegins("reset") \/ hold' = [HoldBegins("power") EXCEPT !.st = "cancelled"]
        \/ hold' = [hold EXCEPT !.st = IF @ = "armed" THEN "cancelled" ELSE @]
        \/ hold' = [hold EXCEPT !.st = "done"]
    BY <1>4 DEF SettingsPage, PowerTouched, ResetTouched, RestartTapped, PowersOff,
           PowerOffTapped, ClosesSettings, LevelSet, SettingsRest, SettingsTurn, Own,
           SettingsStay, panel, others
  <2> QED
    BY <2>1, HoldTypes
<1>5. CASE ValuePages
  <2>1. hold' = hold
    BY <1>5 DEF ValuePages, ValueConsumes, KeypadCloses, KeypadRests, ValueAdjusted,
           ValueSlides, OpensKeypad, ClosesPrecision, PrecisionRests, ValueTurn, ValuePage, Own,
           Consumes
  <2> QED
    BY <2>1, HoldTypes
<1>6. CASE PresetPages
  <2>1. \/ hold' = hold \/ hold' = NoHold \/ hold' = HoldBegins("slot")
        \/ hold' = HoldBegins("save") \/ hold' = HoldBegins("clear")
        \/ hold' = [hold EXCEPT !.st = "done"]
    BY <1>6 DEF PresetPages, SlotHeld, SaveHeld, SlotTapped, LoadTapped, CancelsCopy,
           ClosesPresets, GridRests, OptionsConsume, ClearHeld, CopyTapped, ClosesOptions,
           OptionsRest, GridTurn, OptionsTurn, PresetPage, Own, Consumes, GridStays, GridHold,
           ClearHolds, GridHolds
  <2> QED
    BY <2>1, HoldTypes
<1>7. CASE Boots
  <2>1. hold' = NoHold
    BY <1>7 DEF Boots
  <2> QED
    BY <2>1, HoldTypes
<1> QED
  BY <1>1, <1>2, <1>3, <1>4, <1>5, <1>6, <1>7 DEF Next

LEMMA PageNames ==
  ASSUME NEW begun \in BOOLEAN
  PROVE  InCharge(begun) \in Pages
BY DEF InCharge, Screen, Pages

LEMMA AgeTypes ==
  ASSUME NEW age \in 0 .. Held, NEW time \in 0 .. Held
  PROVE  Older(age, time) \in 0 .. Held
BY DEF Older, Held

(* What the sensor may report.                                              *)
LEMMA TouchTyped ==
  ASSUME Typed, Next
  PROVE  /\ touch'.st \in {"none", "begin", "down", "click", "end"} /\ touch'.age \in 0 .. Held
         /\ touch'.home \in Pages \cup {"none", "left"} /\ touch'.moved \in BOOLEAN
<1> DEFINE Fits == /\ touch'.st \in {"none", "begin", "down", "click", "end"}
                   /\ touch'.age \in 0 .. Held
                   /\ touch'.home \in Pages \cup {"none", "left"} /\ touch'.moved \in BOOLEAN
<1>1. CASE touch' = NoTouch
  BY <1>1 DEF NoTouch, Held
<1>2. CASE Lowered
  <2> DEFINE page == InCharge(TRUE)
  <2>1. page \in Pages
    BY PageNames
  <2>2. PICK on : touch' = [st |-> "begin", home |-> page, on |-> on, age |-> 0, moved |-> FALSE]
    BY <1>2 DEF Lowered
  <2> HIDE DEF page
  <2> QED
    BY <2>1, <2>2 DEF Held
<1>3. ASSUME NEW time \in 0 .. Held, Moves(time) PROVE Fits
  <2>1. PICK moved \in BOOLEAN :
             Finger("down", IF Timed THEN Older(touch.age, time) ELSE touch.age, moved)
    BY <1>3 DEF Moves, Typed
  <2> QED
    BY <2>1, AgeTypes DEF Finger, Typed, TypeOK
<1>4. ASSUME NEW time \in 0 .. Held, Lifted(time) PROVE Fits
  <2>1. PICK st \in {"click", "end"} :
             Finger(st, IF Timed THEN Older(touch.age, time) ELSE touch.age, touch.moved)
    BY <1>4 DEF Lifted, Typed
  <2> QED
    BY <2>1, AgeTypes DEF Finger, Typed, TypeOK
<1>5. CASE BeginTurn
  <2>1. PICK time \in 0 .. Held : Sampled(time)
    BY <1>5 DEF BeginTurn, Held
  <2> QED
    BY <2>1, <1>1, <1>2, <1>3, <1>4 DEF Sampled
<1>6. CASE FaderLost
  <2>1. touch' = touch
        \/ touch' = [st |-> "down", home |-> "left", on |-> "none", age |-> 0, moved |-> FALSE]
    BY <1>6 DEF FaderLost
  <2>3. CASE touch' = touch
    BY <2>3 DEF Typed, TypeOK
  <2>4. CASE touch' = [st |-> "down", home |-> "left", on |-> "none", age |-> 0, moved |-> FALSE]
    BY <2>4 DEF Held
  <2> QED
    BY <2>1, <2>3, <2>4
<1>7. CASE UNCHANGED touch
  BY <1>7 DEF Typed, TypeOK
<1>8. Next => BeginTurn \/ FaderLost \/ touch' = NoTouch \/ UNCHANGED touch
  <2>1. FirstPages => FaderLost \/ touch' = NoTouch \/ UNCHANGED touch
    BY DEF FirstPages, WifiOpens, WifiRestores, WifiTouched, WifiWaits, MaintenanceOpens,
           MaintenanceRestores, MaintenanceTouched, MaintenanceWaits, Wakes, others
  <2>2. MainPage => FaderLost \/ touch' = NoTouch \/ UNCHANGED touch
    BY DEF MainPage, MainConsumes, FaderMoves, ListTouched, OpensSettings, OpensPresets,
           BlackoutTapped, OpensPrecision, FaderTaken, ButtonPressed, MainRests, MainTurn, Own,
           MainStays, MainFrame, Consumes
  <2>3. SettingsPage => FaderLost \/ touch' = NoTouch \/ UNCHANGED touch
    BY DEF SettingsPage, PowerTouched, ResetTouched, RestartTapped, PowersOff, PowerOffTapped,
           ClosesSettings, LevelSet, SettingsRest, SettingsTurn, Own, SettingsStay, panel,
           others
  <2>4. ValuePages => FaderLost \/ touch' = NoTouch \/ UNCHANGED touch
    BY DEF ValuePages, ValueConsumes, KeypadCloses, KeypadRests, ValueAdjusted, ValueSlides,
           OpensKeypad, ClosesPrecision, PrecisionRests, ValueTurn, ValuePage, Own, Consumes
  <2>5. PresetPages => FaderLost \/ touch' = NoTouch \/ UNCHANGED touch
    BY DEF PresetPages, SlotHeld, SaveHeld, SlotTapped, LoadTapped, CancelsCopy, ClosesPresets,
           GridRests, OptionsConsume, ClearHeld, CopyTapped, ClosesOptions, OptionsRest,
           GridTurn, OptionsTurn, PresetPage, Own, Consumes, GridStays
  <2>6. Boots => FaderLost \/ touch' = NoTouch \/ UNCHANGED touch
    BY DEF Boots
  <2> QED
    BY <2>1, <2>2, <2>3, <2>4, <2>5, <2>6 DEF Next
<1> QED
  BY <1>1, <1>5, <1>6, <1>7, <1>8

Redraws == SUBSET {"controller", "settings", "precision", "revision"}

(* The redraws that may be owed.                                            *)
LEMMA DrawnTypes ==
  ASSUME NEW s, NEW redraws \in Redraws, NEW tone \in BOOLEAN, NEW before \in BOOLEAN,
         Drawn(s, redraws, tone, before)
  PROVE  owed' \in Redraws /\ shown' \in BOOLEAN
BY DEF Drawn, Turned, FullPage, Redraws

LEMMA RedrawTypes ==
  ASSUME Typed
  PROVE  /\ owed \in Redraws /\ shown \in BOOLEAN /\ owed \ {"revision"} \in Redraws
         /\ \A drained \in BOOLEAN : Drained(drained) \in Redraws
         /\ \A page : Turned(page, owed) \in Redraws
            /\ Turned(page, owed) \ {"revision"} \in Redraws
BY DEF Typed, TypeOK, Drained, Turned, Redraws

LEMMA ServiceTypes ==
  ASSUME NEW changed \in BOOLEAN, owed \in Redraws, shown \in BOOLEAN,
         ServiceControllerChanges(changed)
  PROVE  owed' \in Redraws /\ shown' \in BOOLEAN
<1> DEFINE revised == Revised(settings, settings')
           redraws == owed \cup (IF changed THEN {"controller"} ELSE {})
                           \cup (IF revised THEN {"revision"} ELSE {})
           before == shown /\ ~(changed /\ Screen \notin {"settings", "options"})
                           /\ ~(revised /\ Screen = "settings")
<1>1. redraws \in Redraws /\ redraws \ {"controller"} \in Redraws
  BY DEF Redraws
<1>2. before \in BOOLEAN
  OBVIOUS
<1>3. \/ owed' = redraws /\ shown' = before
      \/ owed' = redraws \ {"controller"} /\ shown' = before
      \/ Drawn(Screen, redraws \ {"controller"}, FALSE, before)
  BY DEF ServiceControllerChanges
<1> HIDE DEF redraws, before
<1> QED
  BY <1>1, <1>2, <1>3, DrawnTypes

LEMMA RedrawsTyped ==
  ASSUME Typed, Next
  PROVE  owed' \in Redraws /\ shown' \in BOOLEAN
<1>1. CASE BeginTurn
  <2>1. \E changed \in BOOLEAN : ServiceControllerChanges(changed)
    BY <1>1 DEF BeginTurn
  <2> QED
    BY <2>1, RedrawTypes, ServiceTypes
<1>2. CASE FirstPages
  <2>1. \/ UNCHANGED <<owed, shown>> \/ (shown' = TRUE /\ owed' = owed \cap {"revision"})
        \/ (shown' = shown /\ \E page : owed' = Turned(page, owed))
    BY <1>2 DEF FirstPages, WifiOpens, WifiRestores, WifiTouched, WifiWaits, MaintenanceOpens,
           MaintenanceRestores, MaintenanceTouched, MaintenanceWaits, Wakes, others, NoGesture,
           Unpainted, TakesOver, Redrawn
  <2> QED
    BY <2>1, RedrawTypes DEF Redraws
<1>3. CASE MainPage
  <2>1. \/ (owed' = owed /\ shown' \in {shown, TRUE, shown \/ ui_mode' # ui_mode})
        \/ \E drained \in BOOLEAN : owed' = Drained(drained) /\ shown' = (shown /\ ~drained)
        \/ \E s : \E tone \in BOOLEAN : Drawn(s, owed, tone, FALSE)
    BY <1>3 DEF MainPage, MainConsumes, FaderMoves, FaderLost, ListTouched, OpensSettings,
           OpensPresets, BlackoutTapped, OpensPrecision, FaderTaken, ButtonPressed, MainRests,
           MainTurn, Own, MainStays, MainFrame, Consumes, MainCommand
  <2> QED
    BY <2>1, RedrawTypes, DrawnTypes
<1>4. CASE SettingsPage
  <2>1. \/ UNCHANGED <<owed, shown>>
        \/ (owed' = Turned("none", owed) \ {"revision"} /\ shown' = TRUE)
        \/ \E tone \in BOOLEAN : Drawn("settings", owed \ {"revision"}, tone, FALSE)
    BY <1>4 DEF SettingsPage, PowerTouched, ResetTouched, RestartTapped, PowersOff,
           PowerOffTapped, ClosesSettings, LevelSet, SettingsRest, SettingsTurn, Own,
           SettingsStay, panel, others, Refreshed
  <2> QED
    BY <2>1, RedrawTypes, DrawnTypes
<1>5. CASE ValuePages
  <2>1. \/ UNCHANGED <<owed, shown>>
        \/ \E s : \E tone \in BOOLEAN : Drawn(s, owed, tone, shown)
        \/ \E s : \E tone \in BOOLEAN : Drawn(s, owed, tone, FALSE)
        \/ \E s : \E drained, tone \in BOOLEAN : Drawn(s, Drained(drained), tone, FALSE)
    BY <1>5 DEF ValuePages, ValueConsumes, KeypadCloses, KeypadRests, ValueAdjusted,
           ValueSlides, OpensKeypad, ClosesPrecision, PrecisionRests, ValueTurn, ValuePage, Own,
           Consumes, Repainted, ValueCommand
  <2> QED
    BY <2>1, RedrawTypes, DrawnTypes
<1>6. CASE PresetPages
  <2>1. \/ UNCHANGED <<owed, shown>>
        \/ (shown' = TRUE /\ (owed' = owed \/ owed' = Turned("none", owed)
                            \/ \E drained \in BOOLEAN : owed' = Drained(drained)))
    BY <1>6 DEF PresetPages, SlotHeld, SaveHeld, SlotTapped, LoadTapped, CancelsCopy,
           ClosesPresets, GridRests, OptionsConsume, ClearHeld, CopyTapped, ClosesOptions,
           OptionsRest, GridTurn, OptionsTurn, PresetPage, Own, Consumes, GridStays, Painted,
           PresetCommand
  <2> QED
    BY <2>1, RedrawTypes, DrawnTypes
<1>7. CASE Boots
  <2>1. owed' = {} /\ shown' = TRUE
    BY <1>7 DEF Boots
  <2> QED
    BY <2>1 DEF Redraws
<1> QED
  BY <1>1, <1>2, <1>3, <1>4, <1>5, <1>6, <1>7 DEF Next

-----------------------------------------------------------------------------
(* Whose canvas it is                                                       *)

FullPages == {"none", "settings", "precision", "keypad", "preset"}

LEMMA FullPageNames == FullPage(Screen) \in FullPages
BY DEF FullPage, Screen, FullPages

(* A page of the sender is in charge only when neither of the others is.    *)
LEMMA OwnMeans ==
  ASSUME NEW page \in OwnPages, NEW begun \in BOOLEAN, InCharge(begun) = page
  PROVE  /\ maintenance = "idle" /\ ~maint.open /\ config \notin {"approval", "applying"}
         /\ ~wifi.open /\ Screen = page
BY DEF InCharge, OwnPages

(* What the pages of the sender leave alone, and whose canvas it is then    *)
LEMMA OwnStep ==
  ASSUME Typed, MainPage \/ SettingsPage \/ ValuePages \/ PresetPages
  PROVE  /\ at = "page" /\ Bare /\ UNCHANGED <<wifi, maint, config>>
         /\ active = FullPage(Screen) => active' = FullPage(Screen)'
         /\ \/ at' = "turn" /\ maintenance' = "idle"
            \/ at' = "turn" /\ maintenance' = "committed" /\ screens' = screens
            \/ at' = "off" /\ maintenance' = maintenance
<1>1. CASE MainPage
  <2>1. at = "page" /\ Bare
    BY <1>1 DEF MainPage, MainConsumes, FaderMoves, FaderLost, ListTouched, OpensSettings,
           OpensPresets, BlackoutTapped, OpensPrecision, FaderTaken, ButtonPressed, MainRests,
           MainTurn, Own, MainStays, MainFrame, Consumes, Turn, InCharge, Bare, Screen
  <2>2. UNCHANGED <<wifi, maint, config>>
    BY <1>1 DEF MainPage, MainConsumes, FaderMoves, FaderLost, ListTouched, OpensSettings,
           OpensPresets, BlackoutTapped, OpensPrecision, FaderTaken, ButtonPressed, MainRests,
           MainTurn, Own, MainStays, MainFrame, Consumes
  <2>3. active = FullPage(Screen) => active' = FullPage(Screen)'
    BY <1>1 DEF MainPage, MainConsumes, FaderMoves, FaderLost, ListTouched, OpensSettings,
           OpensPresets, BlackoutTapped, OpensPrecision, FaderTaken, ButtonPressed, MainRests,
           MainTurn, Own, MainStays, MainFrame, Consumes, Turn, InCharge, Screen, FullPage,
           Typed, TypeOK
  <2>4. \/ at' = "turn" /\ maintenance' = "idle"
        \/ at' = "turn" /\ maintenance' = "committed" /\ screens' = screens
        \/ at' = "off" /\ maintenance' = maintenance
    BY <1>1, <2>1 DEF MainPage, MainConsumes, FaderMoves, FaderLost, ListTouched, OpensSettings,
           OpensPresets, BlackoutTapped, OpensPrecision, FaderTaken, ButtonPressed, MainRests,
           MainTurn, Own, MainStays, MainFrame, Consumes, Turn, Bare
  <2> QED
    BY <2>1, <2>2, <2>3, <2>4
<1>2. CASE SettingsPage
  <2>1. at = "page" /\ Bare
    BY <1>2 DEF SettingsPage, PowerTouched, ResetTouched, RestartTapped, PowersOff,
           PowerOffTapped, ClosesSettings, LevelSet, SettingsRest, SettingsTurn, Own,
           SettingsStay, panel, others, Turn, InCharge, Bare, Screen
  <2>2. UNCHANGED <<wifi, maint, config>>
    BY <1>2 DEF SettingsPage, PowerTouched, ResetTouched, RestartTapped, PowersOff,
           PowerOffTapped, ClosesSettings, LevelSet, SettingsRest, SettingsTurn, Own,
           SettingsStay, panel, others
  <2>3. active = FullPage(Screen) => active' = FullPage(Screen)'
    BY <1>2 DEF SettingsPage, PowerTouched, ResetTouched, RestartTapped, PowersOff,
           PowerOffTapped, ClosesSettings, LevelSet, SettingsRest, SettingsTurn, Own,
           SettingsStay, panel, others, Turn, InCharge, Screen, FullPage, Typed, TypeOK
  <2>5. RestartTapped =>
          at' = "turn" /\ screens' = screens
          /\ (maintenance' = maintenance \/ maintenance' = "committed")
    BY DEF RestartTapped, SettingsTurn, Own, SettingsStay, Turn
  <2>6. RestartTapped \/ (maintenance' = maintenance /\ (at' = "turn" \/ at' = "off"))
    BY <1>2 DEF SettingsPage, PowerTouched, ResetTouched, PowersOff, PowerOffTapped,
           ClosesSettings, LevelSet, SettingsRest, SettingsTurn, Own, SettingsStay, panel,
           others, Turn
  <2>4. \/ at' = "turn" /\ maintenance' = "idle"
        \/ at' = "turn" /\ maintenance' = "committed" /\ screens' = screens
        \/ at' = "off" /\ maintenance' = maintenance
    BY <2>1, <2>5, <2>6 DEF Bare
  <2> QED
    BY <2>1, <2>2, <2>3, <2>4
<1>3. CASE ValuePages
  <2>1. at = "page" /\ Bare
    BY <1>3 DEF ValuePages, ValueConsumes, KeypadCloses, KeypadRests, ValueAdjusted,
           ValueSlides, OpensKeypad, ClosesPrecision, PrecisionRests, ValueTurn, ValuePage, Own,
           Consumes, Turn, InCharge, Bare, Screen
  <2>2. UNCHANGED <<wifi, maint, config>>
    BY <1>3 DEF ValuePages, ValueConsumes, KeypadCloses, KeypadRests, ValueAdjusted,
           ValueSlides, OpensKeypad, ClosesPrecision, PrecisionRests, ValueTurn, ValuePage, Own,
           Consumes
  <2>3. active = FullPage(Screen) => active' = FullPage(Screen)'
    BY <1>3 DEF ValuePages, ValueConsumes, KeypadCloses, KeypadRests, ValueAdjusted,
           ValueSlides, OpensKeypad, ClosesPrecision, PrecisionRests, ValueTurn, ValuePage, Own,
           Consumes, Turn, InCharge, Screen, FullPage, Typed, TypeOK
  <2>4. \/ at' = "turn" /\ maintenance' = "idle"
        \/ at' = "turn" /\ maintenance' = "committed" /\ screens' = screens
        \/ at' = "off" /\ maintenance' = maintenance
    BY <1>3, <2>1 DEF ValuePages, ValueConsumes, KeypadCloses, KeypadRests, ValueAdjusted,
           ValueSlides, OpensKeypad, ClosesPrecision, PrecisionRests, ValueTurn, ValuePage, Own,
           Consumes, Turn, Bare
  <2> QED
    BY <2>1, <2>2, <2>3, <2>4
<1>4. CASE PresetPages
  <2>1. at = "page" /\ Bare
    BY <1>4 DEF PresetPages, SlotHeld, SaveHeld, SlotTapped, LoadTapped, CancelsCopy,
           ClosesPresets, GridRests, OptionsConsume, ClearHeld, CopyTapped, ClosesOptions,
           OptionsRest, GridTurn, OptionsTurn, PresetPage, Own, Consumes, GridStays, Turn,
           InCharge, Bare, Screen
  <2>2. UNCHANGED <<wifi, maint, config>>
    BY <1>4 DEF PresetPages, SlotHeld, SaveHeld, SlotTapped, LoadTapped, CancelsCopy,
           ClosesPresets, GridRests, OptionsConsume, ClearHeld, CopyTapped, ClosesOptions,
           OptionsRest, GridTurn, OptionsTurn, PresetPage, Own, Consumes, GridStays
  <2>3. active = FullPage(Screen) => active' = FullPage(Screen)'
    BY <1>4 DEF PresetPages, SlotHeld, SaveHeld, SlotTapped, LoadTapped, CancelsCopy,
           ClosesPresets, GridRests, OptionsConsume, ClearHeld, CopyTapped, ClosesOptions,
           OptionsRest, GridTurn, OptionsTurn, PresetPage, Own, Consumes, GridStays, Turn,
           InCharge, Screen, FullPage, Typed, TypeOK
  <2>4. \/ at' = "turn" /\ maintenance' = "idle"
        \/ at' = "turn" /\ maintenance' = "committed" /\ screens' = screens
        \/ at' = "off" /\ maintenance' = maintenance
    BY <1>4, <2>1 DEF PresetPages, SlotHeld, SaveHeld, SlotTapped, LoadTapped, CancelsCopy,
           ClosesPresets, GridRests, OptionsConsume, ClearHeld, CopyTapped, ClosesOptions,
           OptionsRest, GridTurn, OptionsTurn, PresetPage, Own, Consumes, GridStays, Turn, Bare
  <2> QED
    BY <2>1, <2>2, <2>3, <2>4
<1> QED
  BY <1>1, <1>2, <1>3, <1>4

(* The states of the two pages that come before all others.                 *)
LEMMA OverlayTypes ==
  /\ Closed \in Overlays /\ ~Closed.open /\ ~Closed.restored
  /\ active \in FullPages =>
       Opened \in Overlays /\ Opened.open /\ ~Opened.restored /\ Opened.prev = active
  /\ \A page \in Overlays : LET next == Watched(page) IN
       /\ next \in Overlays /\ next.open = page.open /\ next.restored = page.restored
       /\ next.prev = page.prev
<1>1. Closed \in Overlays /\ ~Closed.open /\ ~Closed.restored
  BY DEF Overlays, Closed
<1>2. ASSUME active \in FullPages
      PROVE  Opened \in Overlays /\ Opened.open /\ ~Opened.restored /\ Opened.prev = active
  BY <1>2 DEF Overlays, Opened, FullPages
<1>3. ASSUME NEW page \in Overlays
      PROVE  LET next == Watched(page) IN
             /\ next \in Overlays /\ next.open = page.open /\ next.restored = page.restored
             /\ next.prev = page.prev
  BY DEF Overlays, Watched
<1> QED
  BY <1>1, <1>2, <1>3

(* The page beneath is restored, and the other one goes with the gesture.   *)
LEMMA Restores ==
  ASSUME NEW page \in Overlays, NEW tone \in BOOLEAN, Redrawn(page, tone), page.open,
         page.restored => active = page.prev
  PROVE  LET next == Restored(page, tone) IN
         /\ next \in Overlays /\ (next.restored => next.open)
         /\ (next.open => next.prev = page.prev)
         /\ IF next.open /\ ~next.restored THEN ~page.restored /\ active' = active
            ELSE active' = page.prev
<1> DEFINE next == Restored(page, tone)
<1>1. CASE ~page.restored /\ tone
  <2>1. next = page /\ active' = active
    BY <1>1 DEF Restored, MayRestore, Redrawn
  <2> QED
    BY <1>1, <2>1
<1>2. CASE ~(~page.restored /\ tone)
  <2>1. active' = page.prev
    BY <1>2 DEF Redrawn
  <2>2. next = Closed \/ next = [page EXCEPT !.restored = TRUE]
    BY <1>2 DEF Restored, MayRestore
  <2>3. CASE next = Closed
    BY <2>1, <2>3, OverlayTypes
  <2>4. CASE next = [page EXCEPT !.restored = TRUE]
    <3>1. next \in Overlays /\ next.restored /\ next.open /\ next.prev = page.prev
      BY <2>4 DEF Overlays
    <3> QED
      BY <2>1, <3>1
  <2> QED
    BY <2>2, <2>3, <2>4
<1> QED
  BY <1>1, <1>2

Covers == Covering /\ wifi \in Overlays /\ maint \in Overlays

(* Every step leaves the canvas to the page in charge.                      *)
LEMMA CoveringStep ==
  ASSUME Typed, Covering, Next
  PROVE  Covers'
<1> DEFINE Full == FullPage(Screen)
<1>1. wifi \in Overlays /\ maint \in Overlays /\ Full \in FullPages
  BY FullPageNames DEF Typed
<1>2. CASE BeginTurn
  <2>1. UNCHANGED <<screens, active, wifi, maint>> /\ at = "turn" /\ at' = "page"
    BY <1>2 DEF BeginTurn
  <2>2. (maintenance' # "idle" \/ maint.open) =>
          config' # "approval" /\ config' # "applying" /\ ~wifi.open
    BY <1>2 DEF BeginTurn, Others, Quiet, Proposed, ConfigMoves, MaintenanceMoves, SettingsMove,
                ConfigBusy, MaintenanceBusy, Covering, WifiActive, Typed
  <2>3. Full' = Full
    BY <2>1 DEF FullPage, Screen
  <2> HIDE DEF Full
  <2> QED
    BY <1>1, <2>1, <2>2, <2>3 DEF Covers, Covering, WifiActive, Full
<1>3. CASE MainPage \/ SettingsPage \/ ValuePages \/ PresetPages
  BY <1>1, <1>3, OwnStep DEF Covers, Covering, WifiActive, Bare
<1>4. CASE FirstPages
  <2>1. UNCHANGED screens /\ Full' = Full
    BY <1>4 DEF FirstPages, WifiOpens, WifiRestores, WifiTouched, WifiWaits, MaintenanceOpens,
           MaintenanceRestores, MaintenanceTouched, MaintenanceWaits, Wakes, others, FullPage,
           Screen
  <2> HIDE DEF Full
  <2> USE DEF Covers, Covering, WifiActive, Turn, InCharge
  <2>2. CASE WifiOpens
    <3>1. wifi' \in Overlays /\ wifi'.open /\ ~wifi'.restored /\ wifi'.prev = Full
      BY <1>1, <2>2, OverlayTypes DEF WifiOpens, Full, Typed
    <3> QED
      BY <1>1, <2>1, <2>2, <3>1 DEF WifiOpens, TakesOver, others, Full, Typed
  <2>3. CASE WifiRestores
    <3>1. PICK tone \in BOOLEAN : wifi' = Restored(wifi, tone) /\ Redrawn(wifi, tone)
      BY <2>3 DEF WifiRestores
    <3>2. wifi.open /\ (wifi.restored => active = wifi.prev)
      BY <2>3 DEF WifiRestores, Full, Typed, Screen
    <3>3. /\ wifi' \in Overlays /\ (wifi'.restored => wifi'.open)
             /\ (wifi'.open => wifi'.prev = wifi.prev)
          /\ IF wifi'.open /\ ~wifi'.restored THEN ~wifi.restored /\ active' = active
             ELSE active' = wifi.prev
      BY <1>1, <3>1, <3>2, Restores
    <3> QED
      BY <1>1, <2>1, <2>3, <3>2, <3>3 DEF WifiRestores, others, Full, Typed
  <2>4. CASE WifiTouched
    <3>1. /\ at = "page" /\ at' = "turn" /\ wifi.open /\ maintenance' = maintenance
          /\ UNCHANGED maint
      BY <2>4 DEF WifiTouched
    <3>2. \/ UNCHANGED <<wifi, active>> /\ config' # "idle"
          \/ config' = "idle" /\ \E tone \in BOOLEAN : wifi' = Restored(wifi, tone)
             /\ Redrawn(wifi, tone)
      BY <2>4 DEF WifiTouched, WifiOperation, Unpainted
    <3>3. wifi.restored => active = wifi.prev
      BY <2>4, <3>1 DEF WifiTouched, Full, Typed
    <3>4. ASSUME NEW tone \in BOOLEAN, wifi' = Restored(wifi, tone), Redrawn(wifi, tone)
          PROVE  /\ wifi' \in Overlays /\ (wifi'.restored => wifi'.open)
                 /\ (wifi'.open => wifi'.prev = wifi.prev)
                 /\ IF wifi'.open /\ ~wifi'.restored THEN ~wifi.restored /\ active' = active
                    ELSE active' = wifi.prev
      BY <1>1, <3>1, <3>3, <3>4, Restores
    <3> QED
      BY <1>1, <2>1, <2>4, <3>1, <3>2, <3>3, <3>4 DEF WifiTouched, Full, Typed
  <2>5. CASE WifiWaits
    <3>1. /\ wifi' \in Overlays /\ wifi'.open = wifi.open /\ wifi'.restored = wifi.restored
          /\ wifi'.prev = wifi.prev
      BY <1>1, <2>5, OverlayTypes DEF WifiWaits
    <3> QED
      BY <1>1, <2>1, <2>5, <3>1 DEF WifiWaits, Unpainted, others, Full, Typed
  <2>6. CASE MaintenanceOpens
    <3>1. maint' \in Overlays /\ maint'.open /\ ~maint'.restored /\ maint'.prev = Full
      BY <1>1, <2>6, OverlayTypes DEF MaintenanceOpens, Full, Typed
    <3> QED
      BY <1>1, <2>1, <2>6, <3>1 DEF MaintenanceOpens, TakesOver, others, Full, Typed
  <2>7. CASE MaintenanceRestores
    <3>1. PICK tone \in BOOLEAN : maint' = Restored(maint, tone) /\ Redrawn(maint, tone)
      BY <2>7 DEF MaintenanceRestores
    <3>2. maint.open /\ (maint.restored => active = maint.prev)
      BY <2>7 DEF MaintenanceRestores, Full, Typed, Screen
    <3>3. /\ maint' \in Overlays /\ (maint'.restored => maint'.open)
             /\ (maint'.open => maint'.prev = maint.prev)
          /\ IF maint'.open /\ ~maint'.restored THEN ~maint.restored /\ active' = active
             ELSE active' = maint.prev
      BY <1>1, <3>1, <3>2, Restores
    <3> QED
      BY <1>1, <2>1, <2>7, <3>2, <3>3 DEF MaintenanceRestores, others, Full, Typed
  <2>8. CASE MaintenanceTouched
    <3>1. /\ at = "page" /\ at' = "turn" /\ maint.open /\ config' = config
          /\ UNCHANGED wifi
      BY <2>8 DEF MaintenanceTouched
    <3>2. \/ UNCHANGED <<maint, active>> /\ FALSE
          \/ maintenance' = "idle" /\ \E tone \in BOOLEAN : maint' = Restored(maint, tone)
             /\ Redrawn(maint, tone)
      BY <2>8 DEF MaintenanceTouched, WifiOperation, Unpainted
    <3>3. maint.restored => active = maint.prev
      BY <2>8, <3>1 DEF MaintenanceTouched, Full, Typed
    <3>4. ASSUME NEW tone \in BOOLEAN, maint' = Restored(maint, tone), Redrawn(maint, tone)
          PROVE  /\ maint' \in Overlays /\ (maint'.restored => maint'.open)
                 /\ (maint'.open => maint'.prev = maint.prev)
                 /\ IF maint'.open /\ ~maint'.restored THEN ~maint.restored /\ active' = active
                    ELSE active' = maint.prev
      BY <1>1, <3>1, <3>3, <3>4, Restores
    <3> QED
      BY <1>1, <2>1, <2>8, <3>1, <3>2, <3>3, <3>4 DEF MaintenanceTouched, Full, Typed
  <2>9. CASE MaintenanceWaits
    <3>1. /\ maint' \in Overlays /\ maint'.open = maint.open /\ maint'.restored = maint.restored
          /\ maint'.prev = maint.prev
      BY <1>1, <2>9, OverlayTypes DEF MaintenanceWaits
    <3> QED
      BY <1>1, <2>1, <2>9, <3>1 DEF MaintenanceWaits, Unpainted, others, Full, Typed
  <2>10. CASE Wakes
    BY <1>1, <2>1, <2>10 DEF Wakes, others, Unpainted, Full, Typed
  <2> QED
    BY <1>4, <2>2, <2>3, <2>4, <2>5, <2>6, <2>7, <2>8, <2>9, <2>10 DEF FirstPages
<1>5. CASE Boots
  BY <1>5 DEF Boots, Covers, Covering, WifiActive, Closed, Overlays, FullPage, Screen
<1> QED
  BY <1>2, <1>3, <1>4, <1>5 DEF Next

-----------------------------------------------------------------------------
(* A gesture acts where it began                                            *)

LEMMA TurnAtHome ==
  ASSUME Gestures, NEW page \in OwnPages, Turn(page)
  PROVE  /\ at = "page" /\ at' = "turn" /\ Free /\ Screen = page
         /\ (Touched => AtHome(page)) /\ (Begun => touch.home = page)
<1>1. Free /\ Screen = page /\ ~(asleep /\ Begun) /\ at = "page" /\ at' = "turn"
  BY DEF Turn, InCharge, OwnPages, Free, Bare
<1>2. CASE Begun
  BY <1>1, <1>2 DEF Gestures, AtHome
<1>3. CASE ~Begun
  BY <1>1, <1>3 DEF Gestures, Following
<1> QED
  BY <1>2, <1>3, <1>1

(* What the rest of a step has to keep, once it is known to leave a turn    *)
LEMMA GesturesAfter ==
  ASSUME at' # "page", at' = "turn" /\ Pressed' /\ Free' => AtHome(Screen)',
         drag' = "fader" => "main" \notin swallow', GestureAtHome'
  PROVE  Gestures'
BY DEF Gestures, Following

(* The steps of each kind of page: a gesture is at home, or comes to nothing.*)
LEMMA MainPageGestures ==
  ASSUME Typed, Gestures, MainPage
  PROVE  Gestures'
<1>1. /\ at' = "turn" /\ Screen = "main" /\ (Touched => AtHome("main"))
         /\ (Begun => touch.home = "main")
      /\ drag = "fader" => "main" \notin swallow
  <2>1. Turn("main")
    BY DEF MainPage, MainConsumes, FaderMoves, FaderLost, ListTouched, OpensSettings,
           OpensPresets, BlackoutTapped, OpensPrecision, FaderTaken, ButtonPressed, MainRests,
           MainTurn, Own, MainStays, MainFrame, Consumes
  <2> QED
    BY <2>1, TurnAtHome DEF OwnPages, Gestures
<1>2. Touched => touch.home = "main" \/ "main" \in swallow
  BY <1>1 DEF AtHome, Consumed
<1>3. \/ did' = Nothing
      \/ touch' = touch /\ did'.page = "main" /\ Touched /\ "main" \notin swallow
  <2>1. CASE MainConsumes
    BY <2>1, <1>1 DEF MainConsumes, MainTurn, Own, MainStays, MainFrame, Consumes, MainCommand,
           Did, DidNothing, Tapped, Touched, Begun, Clicked, Pressed
  <2>2. CASE FaderMoves
    BY <2>2, <1>1 DEF FaderMoves, MainTurn, Own, MainStays, MainFrame, Consumes, MainCommand,
           Did, DidNothing, Tapped, Touched, Begun, Clicked, Pressed
  <2>3. CASE FaderLost
    BY <2>3, <1>1 DEF FaderLost, MainTurn, Own, MainStays, MainFrame, Consumes, MainCommand,
           Did, DidNothing, Tapped, Touched, Begun, Clicked, Pressed
  <2>4. CASE ListTouched
    BY <2>4, <1>1 DEF ListTouched, MainTurn, Own, MainStays, MainFrame, Consumes, MainCommand,
           Did, DidNothing, Tapped, Touched, Begun, Clicked, Pressed
  <2>5. CASE OpensSettings
    BY <2>5, <1>1 DEF OpensSettings, MainTurn, Own, MainStays, MainFrame, Consumes, MainCommand,
           Did, DidNothing, Tapped, Touched, Begun, Clicked, Pressed
  <2>6. CASE OpensPresets
    BY <2>6, <1>1 DEF OpensPresets, MainTurn, Own, MainStays, MainFrame, Consumes, MainCommand,
           Did, DidNothing, Tapped, Touched, Begun, Clicked, Pressed
  <2>7. CASE BlackoutTapped
    BY <2>7, <1>1 DEF BlackoutTapped, MainTurn, Own, MainStays, MainFrame, Consumes,
           MainCommand, Did, DidNothing, Tapped, Touched, Begun, Clicked, Pressed
  <2>8. CASE OpensPrecision
    BY <2>8, <1>1 DEF OpensPrecision, MainTurn, Own, MainStays, MainFrame, Consumes,
           MainCommand, Did, DidNothing, Tapped, Touched, Begun, Clicked, Pressed
  <2>9. CASE FaderTaken
    BY <2>9, <1>1 DEF FaderTaken, MainTurn, Own, MainStays, MainFrame, Consumes, MainCommand,
           Did, DidNothing, Tapped, Touched, Begun, Clicked, Pressed
  <2>10. CASE ButtonPressed
    BY <2>10, <1>1 DEF ButtonPressed, MainTurn, Own, MainStays, MainFrame, Consumes,
           MainCommand, Did, DidNothing, Tapped, Touched, Begun, Clicked, Pressed
  <2>11. CASE MainRests
    BY <2>11, <1>1 DEF MainRests, MainTurn, Own, MainStays, MainFrame, Consumes, MainCommand,
           Did, DidNothing, Tapped, Touched, Begun, Clicked, Pressed
  <2> QED
    BY <2>1, <2>2, <2>3, <2>4, <2>5, <2>6, <2>7, <2>8, <2>9, <2>10, <2>11 DEF MainPage
<1>4. GestureAtHome'
  BY <1>2, <1>3 DEF Nothing, GestureAtHome
<1>5. drag' = "fader" => "main" \notin swallow'
  BY <1>1 DEF MainPage, MainConsumes, FaderMoves, FaderLost, ListTouched, OpensSettings,
         OpensPresets, BlackoutTapped, OpensPrecision, FaderTaken, ButtonPressed, MainRests,
         MainTurn, Own, MainStays, MainFrame, Consumes
<1>6. Pressed' => AtHome(Screen)'
  BY <1>1, <1>2 DEF MainPage, MainConsumes, FaderMoves, FaderLost, ListTouched, OpensSettings,
         OpensPresets, BlackoutTapped, OpensPrecision, FaderTaken, ButtonPressed, MainRests,
         MainTurn, Own, MainStays, MainFrame, Consumes, Tapped, Touched, Begun, Clicked,
         Pressed, AtHome, Consumed, Screen
<1> QED
  BY <1>1, <1>4, <1>5, <1>6, GesturesAfter

LEMMA SettingsPageGestures ==
  ASSUME Typed, Gestures, SettingsPage
  PROVE  Gestures'
<1>1. /\ at' # "page" /\ Screen = "settings" /\ (Touched => touch.home = "settings")
      /\ drag = "fader" => "main" \notin swallow
  <2>1. /\ InCharge(Begun) = "settings" /\ at = "page" /\ (at' = "turn" \/ at' = "off")
    BY DEF SettingsPage, PowerTouched, ResetTouched, RestartTapped, PowersOff, PowerOffTapped,
           ClosesSettings, LevelSet, SettingsRest, SettingsTurn, Own, SettingsStay, panel,
           others, Turn
  <2>2. /\ Screen = "settings" /\ (Touched => AtHome("settings"))
        /\ drag = "fader" => "main" \notin swallow
    BY <2>1 DEF Gestures, InCharge, Free, Bare, Following, AtHome
  <2> QED
    BY <2>1, <2>2 DEF AtHome, Consumed
<1>2. UNCHANGED <<touch, swallow>>
  BY DEF SettingsPage, PowerTouched, ResetTouched, RestartTapped, PowersOff, PowerOffTapped,
         ClosesSettings, LevelSet, SettingsRest, SettingsTurn, Own, SettingsStay, panel, others
<1>3. DidNothing \/ (Touched /\ \E op : Did("settings", op))
  <2>1. CASE PowerTouched
    BY <2>1 DEF PowerTouched, SettingsTurn, Own, SettingsStay, panel, others, Touched, Pressed,
           Clicked, Tapped
  <2>2. CASE ResetTouched
    BY <2>2 DEF ResetTouched, SettingsTurn, Own, SettingsStay, panel, others, Touched, Pressed,
           Clicked, Tapped
  <2>3. CASE RestartTapped
    BY <2>3 DEF RestartTapped, SettingsTurn, Own, SettingsStay, panel, others, Touched, Pressed,
           Clicked, Tapped
  <2>4. CASE PowersOff
    BY <2>4 DEF PowersOff, SettingsTurn, Own, SettingsStay, panel, others, Touched, Pressed,
           Clicked, Tapped
  <2>5. CASE PowerOffTapped
    BY <2>5 DEF PowerOffTapped, SettingsTurn, Own, SettingsStay, panel, others, Touched,
           Pressed, Clicked, Tapped
  <2>6. CASE ClosesSettings
    BY <2>6 DEF ClosesSettings, SettingsTurn, Own, SettingsStay, panel, others, Touched,
           Pressed, Clicked, Tapped
  <2>7. CASE LevelSet
    BY <2>7 DEF LevelSet, SettingsTurn, Own, SettingsStay, panel, others, Touched, Pressed,
           Clicked, Tapped
  <2>8. CASE SettingsRest
    BY <2>8 DEF SettingsRest, SettingsTurn, Own, SettingsStay, panel, others, Touched, Pressed,
           Clicked, Tapped
  <2> QED
    BY <2>1, <2>2, <2>3, <2>4, <2>5, <2>6, <2>7, <2>8 DEF SettingsPage
<1>4. drag' # "fader" \/ drag' = drag
  BY DEF SettingsPage, PowerTouched, ResetTouched, RestartTapped, PowersOff, PowerOffTapped,
         ClosesSettings, LevelSet, SettingsRest, SettingsTurn, Own, SettingsStay, panel, others,
         Grabbed
<1>5. GestureAtHome'
  BY <1>1, <1>2, <1>3 DEF DidNothing, Did, Nothing, GestureAtHome
<1>6. Pressed' => AtHome(Screen)'
  <2>1. Pressed => ~Clicked
    BY DEF Pressed, Clicked
  <2>2. Pressed => screens' = screens
    BY <2>1 DEF SettingsPage, PowerTouched, ResetTouched, RestartTapped, PowersOff,
           PowerOffTapped, ClosesSettings, LevelSet, SettingsRest, SettingsTurn, Own,
           SettingsStay, panel, others, Tapped
  <2> QED
    BY <1>1, <1>2, <2>2 DEF AtHome, Screen, Pressed, Touched
<1> QED
  BY <1>1, <1>2, <1>4, <1>5, <1>6, GesturesAfter

LEMMA ValuePagesGestures ==
  ASSUME Typed, Gestures, ValuePages
  PROVE  Gestures'
<1> DEFINE page == InCharge(Begun)
<1>1. /\ page \in {"precision", "keypad"}
      /\ at' = "turn" /\ Screen = page /\ (Touched => AtHome(page)) /\ (Begun => touch.home = page)
      /\ drag = "fader" => "main" \notin swallow
  <2>1. Turn("precision") \/ Turn("keypad")
    BY DEF ValuePages, ValueConsumes, KeypadCloses, KeypadRests, ValueAdjusted, ValueSlides,
           OpensKeypad, ClosesPrecision, PrecisionRests, ValueTurn, ValuePage, Own, Consumes
  <2>2. "precision" \in OwnPages /\ "keypad" \in OwnPages
    BY DEF OwnPages
  <2> QED
    BY <2>1, <2>2, TurnAtHome DEF Gestures, Turn
<1> HIDE DEF page
<1>2. Touched => touch.home = page \/ "precision" \in swallow
  BY <1>1 DEF AtHome, Consumed
<1>3. UNCHANGED touch
  BY DEF ValuePages, ValueConsumes, KeypadCloses, KeypadRests, ValueAdjusted, ValueSlides,
         OpensKeypad, ClosesPrecision, PrecisionRests, ValueTurn, ValuePage, Own, Consumes
<1>4. DidNothing \/ (Touched /\ "precision" \notin swallow /\ \E p, op : Turn(p) /\ Did(p, op))
  <2>1. CASE ValueConsumes
    BY <2>1 DEF ValueConsumes, ValueTurn, ValuePage, Own, Consumes, Touched, Clicked, Tapped,
           ValueCommand
  <2>2. CASE KeypadCloses
    BY <2>2 DEF KeypadCloses, ValueTurn, ValuePage, Own, Consumes, Touched, Clicked, Tapped,
           ValueCommand
  <2>3. CASE KeypadRests
    BY <2>3 DEF KeypadRests, ValueTurn, ValuePage, Own, Consumes, Touched, Clicked, Tapped,
           ValueCommand
  <2>4. CASE ValueAdjusted
    BY <2>4 DEF ValueAdjusted, ValueTurn, ValuePage, Own, Consumes, Touched, Clicked, Tapped,
           ValueCommand
  <2>5. CASE ValueSlides
    BY <2>5 DEF ValueSlides, ValueTurn, ValuePage, Own, Consumes, Touched, Clicked, Tapped,
           ValueCommand
  <2>6. CASE OpensKeypad
    BY <2>6 DEF OpensKeypad, ValueTurn, ValuePage, Own, Consumes, Touched, Clicked, Tapped,
           ValueCommand
  <2>7. CASE ClosesPrecision
    BY <2>7 DEF ClosesPrecision, ValueTurn, ValuePage, Own, Consumes, Touched, Clicked, Tapped,
           ValueCommand
  <2>8. CASE PrecisionRests
    BY <2>8 DEF PrecisionRests, ValueTurn, ValuePage, Own, Consumes, Touched, Clicked, Tapped,
           ValueCommand
  <2> QED
    BY <2>1, <2>2, <2>3, <2>4, <2>5, <2>6, <2>7, <2>8 DEF ValuePages
<1>5. GestureAtHome'
  <2>1. CASE DidNothing
    BY <2>1 DEF DidNothing, Nothing, GestureAtHome
  <2>2. ASSUME Touched, "precision" \notin swallow, NEW p, NEW op, Turn(p), Did(p, op)
        PROVE  GestureAtHome'
    BY <1>2, <1>3, <2>2 DEF Turn, Did, GestureAtHome, page
  <2> QED
    BY <1>4, <2>1, <2>2
<1>6. drag' = "fader" => drag = "fader" /\ ("main" \in swallow' => "main" \in swallow)
  <2>1. CASE ValueConsumes
    BY <2>1 DEF ValueConsumes, ValueTurn, ValuePage, Own, Consumes
  <2>2. CASE KeypadCloses
    BY <2>2 DEF KeypadCloses, ValueTurn, ValuePage, Own, Consumes
  <2>3. CASE KeypadRests
    BY <2>3 DEF KeypadRests, ValueTurn, ValuePage, Own, Consumes
  <2>4. CASE ValueAdjusted
    BY <2>4 DEF ValueAdjusted, ValueTurn, ValuePage, Own, Consumes
  <2>5. CASE ValueSlides
    BY <2>5 DEF ValueSlides, ValueTurn, ValuePage, Own, Consumes
  <2>6. CASE OpensKeypad
    BY <2>6 DEF OpensKeypad, ValueTurn, ValuePage, Own, Consumes
  <2>7. CASE ClosesPrecision
    BY <2>7 DEF ClosesPrecision, ValueTurn, ValuePage, Own, Consumes
  <2>8. CASE PrecisionRests
    BY <2>8 DEF PrecisionRests, ValueTurn, ValuePage, Own, Consumes
  <2> QED
    BY <2>1, <2>2, <2>3, <2>4, <2>5, <2>6, <2>7, <2>8 DEF ValuePages
<1>7. Pressed' => AtHome(Screen)'
  <2>1. Pressed => Touched /\ ~Clicked
    BY DEF Pressed, Clicked, Touched
  <2>2. Pressed => screens' = screens /\ ("precision" \in swallow => "precision" \in swallow')
    BY <2>1 DEF ValuePages, ValueConsumes, KeypadCloses, KeypadRests, ValueAdjusted,
           ValueSlides, OpensKeypad, ClosesPrecision, PrecisionRests, ValueTurn, ValuePage, Own,
           Consumes, Tapped
  <2> QED
    BY <1>1, <1>2, <1>3, <2>1, <2>2 DEF AtHome, Consumed, Screen, Pressed
<1> QED
  BY <1>1, <1>5, <1>6, <1>7, GesturesAfter

(* A hold that ends was held on its button for all of its time.             *)
LEMMA HeldThroughout ==
  ASSUME Typed, Gestures, Holding, NEW page \in OwnPages, Turn(page), ~Consumed(page),
         NEW button \in {"slot", "save", "clear", "reset"}, page = PageOf(button),
         Touched, ~Begun, On(page, button), HeldFor(button)
  PROVE  touch.home = page /\ touch.on = button /\ touch.age = Held
<1>1. Free /\ Screen = page /\ AtHome(page) /\ Following
  BY TurnAtHome DEF Following
<1>2. hold.on = button /\ hold.st = "armed" /\ hold.age = Held /\ button # "none"
  BY DEF HeldFor
<1>3. touch.home = page
  BY <1>1, <1>2 DEF AtHome, Spent
<1>4. touch.on = button
  BY <1>3 DEF On
<1>5. hold.age <= touch.age
  BY <1>1, <1>2, <1>3, <1>4 DEF Holding
<1>6. touch.age \in 0 .. Held
  BY DEF Typed, TypeOK
<1> QED
  BY <1>2, <1>3, <1>4, <1>5, <1>6 DEF Held

LEMMA PresetPagesGestures ==
  ASSUME Typed, Gestures, Holding, PresetPages
  PROVE  Gestures'
<1> DEFINE page == InCharge(Begun)
<1>1. /\ page \in {"grid", "options"}
      /\ at' = "turn" /\ Screen = page /\ (Touched => AtHome(page)) /\ (Begun => touch.home = page)
      /\ drag = "fader" => "main" \notin swallow
  <2>1. Turn("grid") \/ Turn("options")
    BY DEF PresetPages, SlotHeld, SaveHeld, SlotTapped, LoadTapped, CancelsCopy, ClosesPresets,
           GridRests, OptionsConsume, ClearHeld, CopyTapped, ClosesOptions, OptionsRest,
           GridTurn, OptionsTurn, PresetPage, Own, Consumes, GridStays
  <2>2. "grid" \in OwnPages /\ "options" \in OwnPages
    BY DEF OwnPages
  <2> QED
    BY <2>1, <2>2, TurnAtHome DEF Gestures, Turn
<1> HIDE DEF page
<1>2. Touched => \/ touch.home = page
                 \/ page = "options" /\ "options" \in swallow
                 \/ page = "grid" /\ Spent
  BY <1>1 DEF AtHome, Consumed
<1>3. UNCHANGED <<touch, drag>>
  BY DEF PresetPages, SlotHeld, SaveHeld, SlotTapped, LoadTapped, CancelsCopy, ClosesPresets,
         GridRests, OptionsConsume, ClearHeld, CopyTapped, ClosesOptions, OptionsRest, GridTurn,
         OptionsTurn, PresetPage, Own, Consumes, GridStays
<1>4. \/ DidNothing
      \/ /\ Touched /\ "options" \notin swallow
         /\ \E op : Turn("options") /\ Did("options", op)
      \/ /\ Touched /\ ~Spent
         /\ \E op : Turn("grid") /\ Did("grid", op)
  <2>1. CASE SlotHeld
    BY <2>1 DEF SlotHeld, GridTurn, OptionsTurn, PresetPage, Own, Consumes, GridStays, Touched,
           Clicked, Tapped, PresetCommand, HoldEnds, HeldFor, Spent
  <2>2. CASE SaveHeld
    BY <2>2 DEF SaveHeld, GridTurn, OptionsTurn, PresetPage, Own, Consumes, GridStays, Touched,
           Clicked, Tapped, PresetCommand, HoldEnds, HeldFor, Spent
  <2>3. CASE SlotTapped
    BY <2>3 DEF SlotTapped, GridTurn, OptionsTurn, PresetPage, Own, Consumes, GridStays,
           Touched, Clicked, Tapped, PresetCommand, HoldEnds, HeldFor, Spent
  <2>4. CASE LoadTapped
    BY <2>4 DEF LoadTapped, GridTurn, OptionsTurn, PresetPage, Own, Consumes, GridStays,
           Touched, Clicked, Tapped, PresetCommand, HoldEnds, HeldFor, Spent
  <2>5. CASE CancelsCopy
    BY <2>5 DEF CancelsCopy, GridTurn, OptionsTurn, PresetPage, Own, Consumes, GridStays,
           Touched, Clicked, Tapped, PresetCommand, HoldEnds, HeldFor, Spent
  <2>6. CASE ClosesPresets
    BY <2>6 DEF ClosesPresets, GridTurn, OptionsTurn, PresetPage, Own, Consumes, GridStays,
           Touched, Clicked, Tapped, PresetCommand, HoldEnds, HeldFor, Spent
  <2>7. CASE GridRests
    BY <2>7 DEF GridRests, GridTurn, OptionsTurn, PresetPage, Own, Consumes, GridStays, Touched,
           Clicked, Tapped, PresetCommand, HoldEnds, HeldFor, Spent
  <2>8. CASE OptionsConsume
    BY <2>8 DEF OptionsConsume, GridTurn, OptionsTurn, PresetPage, Own, Consumes, GridStays,
           Touched, Clicked, Tapped, PresetCommand, HoldEnds, HeldFor, Spent
  <2>9. CASE ClearHeld
    BY <2>9 DEF ClearHeld, GridTurn, OptionsTurn, PresetPage, Own, Consumes, GridStays, Touched,
           Clicked, Tapped, PresetCommand, HoldEnds, HeldFor, Spent
  <2>10. CASE CopyTapped
    BY <2>10 DEF CopyTapped, GridTurn, OptionsTurn, PresetPage, Own, Consumes, GridStays,
           Touched, Clicked, Tapped, PresetCommand, HoldEnds, HeldFor, Spent
  <2>11. CASE ClosesOptions
    BY <2>11 DEF ClosesOptions, GridTurn, OptionsTurn, PresetPage, Own, Consumes, GridStays,
           Touched, Clicked, Tapped, PresetCommand, HoldEnds, HeldFor, Spent
  <2>12. CASE OptionsRest
    BY <2>12 DEF OptionsRest, GridTurn, OptionsTurn, PresetPage, Own, Consumes, GridStays,
           Touched, Clicked, Tapped, PresetCommand, HoldEnds, HeldFor, Spent
  <2> QED
    BY <2>1, <2>2, <2>3, <2>4, <2>5, <2>6, <2>7, <2>8, <2>9, <2>10, <2>11, <2>12 DEF PresetPages
<1>5. GestureAtHome'
  <2>1. CASE DidNothing
    BY <2>1 DEF DidNothing, Nothing, GestureAtHome
  <2>2. ASSUME Touched, "options" \notin swallow, NEW op, Turn("options"), Did("options", op)
        PROVE  GestureAtHome'
    BY <1>2, <1>3, <2>2 DEF Turn, Did, GestureAtHome, page
  <2>3. ASSUME Touched, ~Spent, NEW op, Turn("grid"), Did("grid", op)
        PROVE  GestureAtHome'
    BY <1>2, <1>3, <2>3 DEF Turn, Did, GestureAtHome, page
  <2> QED
    BY <1>4, <2>1, <2>2, <2>3
<1>6. "main" \in swallow' => "main" \in swallow
  <2>1. CASE SlotHeld
    BY <2>1 DEF SlotHeld, GridTurn, OptionsTurn, PresetPage, Own, Consumes, GridStays
  <2>2. CASE SaveHeld
    BY <2>2 DEF SaveHeld, GridTurn, OptionsTurn, PresetPage, Own, Consumes, GridStays
  <2>3. CASE SlotTapped
    BY <2>3 DEF SlotTapped, GridTurn, OptionsTurn, PresetPage, Own, Consumes, GridStays
  <2>4. CASE LoadTapped
    BY <2>4 DEF LoadTapped, GridTurn, OptionsTurn, PresetPage, Own, Consumes, GridStays
  <2>5. CASE CancelsCopy
    BY <2>5 DEF CancelsCopy, GridTurn, OptionsTurn, PresetPage, Own, Consumes, GridStays
  <2>6. CASE ClosesPresets
    BY <2>6 DEF ClosesPresets, GridTurn, OptionsTurn, PresetPage, Own, Consumes, GridStays
  <2>7. CASE GridRests
    BY <2>7 DEF GridRests, GridTurn, OptionsTurn, PresetPage, Own, Consumes, GridStays
  <2>8. CASE OptionsConsume
    BY <2>8 DEF OptionsConsume, GridTurn, OptionsTurn, PresetPage, Own, Consumes, GridStays
  <2>9. CASE ClearHeld
    BY <2>9 DEF ClearHeld, GridTurn, OptionsTurn, PresetPage, Own, Consumes, GridStays
  <2>10. CASE CopyTapped
    BY <2>10 DEF CopyTapped, GridTurn, OptionsTurn, PresetPage, Own, Consumes, GridStays
  <2>11. CASE ClosesOptions
    BY <2>11 DEF ClosesOptions, GridTurn, OptionsTurn, PresetPage, Own, Consumes, GridStays
  <2>12. CASE OptionsRest
    BY <2>12 DEF OptionsRest, GridTurn, OptionsTurn, PresetPage, Own, Consumes, GridStays
  <2> QED
    BY <2>1, <2>2, <2>3, <2>4, <2>5, <2>6, <2>7, <2>8, <2>9, <2>10, <2>11, <2>12 DEF PresetPages
<1>7. ASSUME Pressed PROVE AtHome(Screen)'
  <2>1. Touched /\ ~Clicked
    BY <1>7 DEF Pressed, Clicked, Touched
  <2>2. CASE SlotHeld
    <3>1. Turn("grid") /\ ~Spent
      BY <2>2 DEF SlotHeld, GridTurn, PresetPage, Own, HoldEnds, HeldFor, Spent
    <3>2. touch'.home = "grid" /\ Screen = "grid"
      BY <1>1, <1>2, <1>3, <2>1, <3>1 DEF Turn, page
    <3>3. \/ screens' = screens \cup {"options"} /\ "options" \in swallow'
          \/ screens' = screens
      BY <2>2 DEF SlotHeld, GridStays
    <3> QED
      BY <3>2, <3>3 DEF AtHome, Consumed, Screen
  <2>3. CASE ClearHeld
    <3>1. Turn("options") /\ "options" \notin swallow /\ HoldEnds("options", "clear")
      BY <2>3 DEF ClearHeld, OptionsTurn, PresetPage, Own
    <3>2. touch.age = Held
      BY <3>1, HeldThroughout DEF OwnPages, PageOf, HoldEnds, Consumed
    <3>3. hold' = NoHold /\ pair' = {} /\ screens' = screens \ {"options"}
      BY <2>3 DEF ClearHeld, OptionsTurn
    <3>4. Screen' = "grid"
      BY <1>1, <3>1, <3>3 DEF Screen, Turn, page
    <3> QED
      BY <1>3, <2>1, <3>2, <3>3, <3>4 DEF AtHome, Spent, NoHold, Clicked
  <2>4. CASE OptionsConsume
    <3>1. swallow' = swallow /\ screens' = screens /\ Turn("options") /\ "options" \in swallow
      BY <2>1, <2>4 DEF OptionsConsume, Consumes, Own
    <3> QED
      BY <1>1, <3>1 DEF AtHome, Consumed, Screen, Turn, page
  <2>5. CASE OptionsRest
    <3>1. screens' = screens /\ Turn("options") /\ "options" \notin swallow
      BY <2>5 DEF OptionsRest, OptionsTurn, PresetPage, Own
    <3> QED
      BY <1>1, <1>2, <1>3, <2>1, <3>1 DEF AtHome, Screen, Turn, page
  <2>6. CASE SaveHeld
    <3>1. screens' = screens /\ Turn("grid") /\ ~Spent
      BY <2>6 DEF SaveHeld, GridTurn, PresetPage, Own, GridStays, HoldEnds, HeldFor, Spent
    <3> QED
      BY <1>1, <1>2, <1>3, <2>1, <3>1 DEF AtHome, Screen, Turn, page
  <2>7. CASE GridRests
    <3>1. screens' = screens /\ Turn("grid")
      BY <2>7 DEF GridRests, GridTurn, PresetPage, Own, GridStays
    <3>2. ~Begun /\ Spent => Spent'
      <4> SUFFICES ASSUME ~Begun, Spent PROVE Spent'
        OBVIOUS
      <4>1. hold' = NoHold
        BY <2>7 DEF GridRests, GridHolds, GridHold, Spent
      <4>2. \A next \in Pairs : next[1] = {}
        <5>1. Pairs \subseteq {<<{}, FALSE>>}
          BY DEF Pairs, Spent
        <5>2. ASSUME NEW next \in Pairs PROVE next[1] = {}
          <6>1. next = <<{}, FALSE>>
            BY <5>1
          <6> QED
            BY <6>1
        <5> QED
          BY <5>2
      <4>3. pair' = {}
        BY <2>7, <4>2 DEF GridRests
      <4> QED
        BY <1>3, <2>1, <4>1, <4>3 DEF Spent, NoHold, Clicked
    <3> QED
      BY <1>1, <1>2, <1>3, <2>1, <3>1, <3>2 DEF AtHome, Screen, Turn, page
  <2>8. ~(SlotTapped \/ LoadTapped \/ CancelsCopy \/ ClosesPresets \/ CopyTapped \/ ClosesOptions)
    BY <2>1 DEF SlotTapped, LoadTapped, CancelsCopy, ClosesPresets, CopyTapped, ClosesOptions,
       Tapped
  <2> QED
    BY <2>2, <2>3, <2>4, <2>5, <2>6, <2>7, <2>8 DEF PresetPages
<1>8. Pressed' => AtHome(Screen)'
  BY <1>3, <1>7 DEF Pressed
<1> QED
  BY <1>1, <1>3, <1>5, <1>6, <1>8, GesturesAfter

(* No finger is down when a page that comes first gives way to the page     *)
(* beneath it.                                                              *)
LEMMA LeavesNoTouch ==
  ASSUME Typed, FirstPages
  PROVE  Free' => ~Touched
<1> USE DEF Free, Bare
<1>1. CASE WifiOpens
  BY <1>1 DEF WifiOpens, Opened
<1>2. CASE WifiRestores
  <2>1. ASSUME Touched, NEW tone \in BOOLEAN, wifi' = Restored(wifi, tone)
        PROVE wifi'.open = wifi.open
    BY <2>1 DEF Restored, Typed, Overlays
  <2>2. wifi.open
    BY <1>2 DEF WifiRestores, Turn, InCharge, Screen
  <2> QED
    BY <1>2, <2>1, <2>2 DEF WifiRestores
<1>3. CASE WifiTouched
  <2>1. ASSUME Touched, NEW tone \in BOOLEAN, wifi' = Restored(wifi, tone)
        PROVE wifi'.open = wifi.open
    BY <2>1 DEF Restored, Typed, Overlays
  <2>2. \/ UNCHANGED wifi
        \/ \E tone \in BOOLEAN : wifi' = Restored(wifi, tone)
    BY <1>3 DEF WifiTouched
  <2> QED
    BY <1>3, <2>1, <2>2 DEF WifiTouched
<1>4. CASE WifiWaits
  BY <1>4 DEF WifiWaits, Watched, Typed, Overlays, others
<1>5. CASE MaintenanceOpens
  BY <1>5 DEF MaintenanceOpens, Opened
<1>6. CASE MaintenanceRestores
  <2>1. ASSUME Touched, NEW tone \in BOOLEAN, maint' = Restored(maint, tone)
        PROVE maint'.open = maint.open
    BY <2>1 DEF Restored, Typed, Overlays
  <2>2. maint.open
    BY <1>6 DEF MaintenanceRestores, Turn, InCharge, Screen
  <2> QED
    BY <1>6, <2>1, <2>2 DEF MaintenanceRestores
<1>7. CASE MaintenanceTouched
  <2>1. ASSUME Touched, NEW tone \in BOOLEAN, maint' = Restored(maint, tone)
        PROVE maint'.open = maint.open
    BY <2>1 DEF Restored, Typed, Overlays
  <2>2. \/ UNCHANGED maint
        \/ \E tone \in BOOLEAN : maint' = Restored(maint, tone)
    BY <1>7 DEF MaintenanceTouched
  <2> QED
    BY <1>7, <2>1, <2>2 DEF MaintenanceTouched
<1>8. CASE MaintenanceWaits
  BY <1>8 DEF MaintenanceWaits, Watched, Typed, Overlays, others
<1>9. CASE Wakes
  BY <1>9 DEF Wakes
<1> QED
  BY <1>1, <1>2, <1>3, <1>4, <1>5, <1>6, <1>7, <1>8, <1>9 DEF FirstPages

LEMMA FirstPagesGestures ==
  ASSUME Typed, Gestures, FirstPages
  PROVE  Gestures'
<1>1. at' = "turn" /\ UNCHANGED touch
  BY DEF FirstPages, WifiOpens, WifiRestores, WifiTouched, WifiWaits, MaintenanceOpens,
         MaintenanceRestores, MaintenanceTouched, MaintenanceWaits, Wakes, others, Turn
<1>2. Free' => ~Touched
  BY LeavesNoTouch
<1>3. (drag' = "fader" => drag = "fader") /\ ("main" \in swallow' => "main" \in swallow)
  <2>1. CASE WifiOpens
    BY <2>1 DEF WifiOpens, others, NoGesture, TakesOver
  <2>2. CASE WifiRestores
    BY <2>2 DEF WifiRestores, others, NoGesture, TakesOver
  <2>3. CASE WifiTouched
    BY <2>3 DEF WifiTouched, others, NoGesture, TakesOver
  <2>4. CASE WifiWaits
    BY <2>4 DEF WifiWaits, others, NoGesture, TakesOver
  <2>5. CASE MaintenanceOpens
    BY <2>5 DEF MaintenanceOpens, others, NoGesture, TakesOver
  <2>6. CASE MaintenanceRestores
    BY <2>6 DEF MaintenanceRestores, others, NoGesture, TakesOver
  <2>7. CASE MaintenanceTouched
    BY <2>7 DEF MaintenanceTouched, others, NoGesture, TakesOver
  <2>8. CASE MaintenanceWaits
    BY <2>8 DEF MaintenanceWaits, others, NoGesture, TakesOver
  <2>9. CASE Wakes
    BY <2>9 DEF Wakes, others, NoGesture, TakesOver
  <2> QED
    BY <2>1, <2>2, <2>3, <2>4, <2>5, <2>6, <2>7, <2>8, <2>9 DEF FirstPages
<1>4. \/ DidNothing
      \/ /\ Begun /\ wifi.open /\ Turn("wifi")
         /\ \E op : Did("wifi", op)
      \/ /\ Begun /\ maint.open /\ at = "page"
         /\ \E op : Did("maintenance", op)
  <2>1. CASE WifiOpens
    BY <2>1 DEF WifiOpens, others, Turn
  <2>2. CASE WifiRestores
    BY <2>2 DEF WifiRestores, others, Turn
  <2>3. CASE WifiTouched
    BY <2>3 DEF WifiTouched, others, Turn
  <2>4. CASE WifiWaits
    BY <2>4 DEF WifiWaits, others, Turn
  <2>5. CASE MaintenanceOpens
    BY <2>5 DEF MaintenanceOpens, others, Turn
  <2>6. CASE MaintenanceRestores
    BY <2>6 DEF MaintenanceRestores, others, Turn
  <2>7. CASE MaintenanceTouched
    BY <2>7 DEF MaintenanceTouched, others, Turn
  <2>8. CASE MaintenanceWaits
    BY <2>8 DEF MaintenanceWaits, others, Turn
  <2>9. CASE Wakes
    BY <2>9 DEF Wakes, others, Turn
  <2> QED
    BY <2>1, <2>2, <2>3, <2>4, <2>5, <2>6, <2>7, <2>8, <2>9 DEF FirstPages
<1>5. GestureAtHome'
  <2>1. CASE DidNothing
    BY <2>1 DEF DidNothing, Nothing, GestureAtHome
  <2>2. ASSUME Begun, wifi.open, Turn("wifi"), NEW op, Did("wifi", op)
        PROVE  GestureAtHome'
    <3>1. at = "page" /\ maintenance = "idle" /\ ~maint.open
      BY <2>2 DEF Turn, InCharge
    <3> QED
      BY <1>1, <2>2, <3>1 DEF Gestures, Did, GestureAtHome
  <2>3. ASSUME Begun, maint.open, at = "page", NEW op, Did("maintenance", op)
        PROVE  GestureAtHome'
    BY <1>1, <2>3 DEF Gestures, Did, GestureAtHome
  <2> QED
    BY <1>4, <2>1, <2>2, <2>3
<1>6. Pressed => Touched
  BY DEF Pressed, Touched
<1> QED
  BY <1>1, <1>2, <1>3, <1>5, <1>6, GesturesAfter DEF Gestures, Pressed

(* The sensor follows a finger that is down: on the page where it began, or *)
(* as one from elsewhere.                                                   *)
LEMMA FingerFollowed ==
  ASSUME Typed, Pressed, NEW time \in 0 .. Held, Sampled(time)
  PROVE  /\ touch'.st \in {"down", "click", "end"}
         /\ touch'.age = IF Timed THEN Older(touch.age, time) ELSE touch.age
         /\ Stays => touch'.home = touch.home /\ touch'.on = touch.on
         /\ ~Stays => touch'.home = "left" /\ touch'.on = "none"
         /\ touch.age = Held => touch'.st # "click"
<1>1. PICK st \in {"down", "click", "end"} : \E moved :
        /\ Finger(st, IF Timed THEN Older(touch.age, time) ELSE touch.age, moved)
        /\ touch.age = Held => st # "click"
  BY DEF Sampled, Moves, Lifted
<1>2. PICK moved : Finger(st, IF Timed THEN Older(touch.age, time) ELSE touch.age, moved)
  BY <1>1
<1>3. touch.age = Held => st # "click"
  BY <1>1
<1> DEFINE age == IF Timed THEN Older(touch.age, time) ELSE touch.age
           home == IF Stays THEN touch.home ELSE "left"
           on == IF Stays THEN touch.on ELSE "none"
<1>4. touch' = [st |-> st, age |-> age, moved |-> moved, home |-> home, on |-> on]
  BY <1>2 DEF Finger
<1> HIDE DEF age, home, on
<1>5. touch'.st = st /\ touch'.age = age /\ touch'.home = home /\ touch'.on = on
  BY <1>4
<1> QED
  BY <1>3, <1>5 DEF age, home, on

(* While a page of the sender is in charge after a turn has begun, it was    *)
(* before.                                                                  *)
LEMMA StillFree ==
  ASSUME Typed, Covering, BeginTurn, Free'
  PROVE  Free
<1>1. UNCHANGED <<wifi, maint, swallow>> /\ at = "turn"
  BY DEF BeginTurn
<1>2. ~maint.open /\ ~wifi.open /\ "wake" \notin swallow
  BY <1>1 DEF Free, Bare
<1>3. maintenance # "countdown" /\ ~WifiActive
  BY <1>1, <1>2 DEF Covering
<1>4. maintenance = "committed" => maintenance' = "committed"
  BY DEF BeginTurn, Others, Quiet, Proposed, ConfigMoves, MaintenanceMoves, SettingsMove
<1> QED
  BY <1>2, <1>3, <1>4 DEF Free, Bare, WifiActive, Typed, TypeOK

(* The sensor's sample keeps a gesture where it was.                        *)
LEMMA BeginTurnGestures ==
  ASSUME Typed, Covering, Gestures, BeginTurn
  PROVE  Gestures'
<1>1. /\ at = "turn" /\ at' = "page" /\ did' = Nothing
      /\ UNCHANGED <<screens, ui_mode, active, wifi, maint, swallow, drag, arm, pair, asleep>>
  BY DEF BeginTurn
<1>2. PICK time \in 0 .. Held :
        Sampled(time) /\ (hold.on = "none" => hold' = [hold EXCEPT !.age = 0])
  BY DEF BeginTurn, Held
<1>3. GestureAtHome'
  BY <1>1 DEF GestureAtHome, Nothing
<1>4. drag' = "fader" => "main" \notin swallow'
  BY <1>1 DEF Gestures
<1>5. Screen' = Screen
  BY <1>1 DEF Screen
<1>6. CASE touch' = NoTouch
  BY <1>1, <1>3, <1>4, <1>6 DEF Gestures, Following, Begun, Touched, NoTouch
<1>7. CASE Lowered
  <2> DEFINE page == InCharge(TRUE)
  <2>1. PICK on : touch' = [st |-> "begin", home |-> page, on |-> on, age |-> 0, moved |-> FALSE]
    BY <1>7 DEF Lowered
  <2>2. ~maint.open /\ wifi.open /\ maintenance = "idle" => page = "wifi"
    BY DEF InCharge
  <2>3. maint.open => page = "maintenance"
    BY DEF InCharge
  <2>4. Free /\ ~asleep => page = Screen
    BY DEF InCharge, Free, Bare
  <2>5. maint.open \/ wifi.open \/ maintenance' = "idle" => maintenance = "idle" \/ maint.open
    BY <1>1 DEF Covering, BeginTurn, Others, Quiet, Proposed, ConfigMoves, MaintenanceMoves,
                SettingsMove, Typed, TypeOK
  <2> HIDE DEF page
  <2>6. touch'.st = "begin" /\ touch'.home = page
    BY <2>1
  <2> QED
    BY <1>1, <1>3, <1>4, <1>5, <2>2, <2>3, <2>4, <2>5, <2>6, StillFree
       DEF Gestures, Following, Begun, Touched
<1>8. CASE Pressed
  <2>1. /\ touch'.st \in {"down", "click", "end"}
        /\ touch'.age = IF Timed THEN Older(touch.age, time) ELSE touch.age
        /\ Stays => touch'.home = touch.home
        /\ touch.age = Held => touch'.st # "click"
    BY <1>2, <1>8, FingerFollowed
  <2>2. Free' => AtHome(Screen)'
    <3> SUFFICES ASSUME Free' PROVE AtHome(Screen)'
      OBVIOUS
    <3>1. AtHome(Screen) /\ Free
      BY <1>1, <1>8, StillFree DEF Gestures, Following
    <3>2. touch.home = Screen => touch'.home = Screen
      BY <2>1, <3>1 DEF Stays, InCharge, Free, Bare
    <3>3. Consumed(Screen) => Consumed(Screen)'
      BY <1>1, <1>5 DEF Consumed
    <3>4. ASSUME Spent PROVE Spent'
      <4>1. hold'.on = "none"
        BY <1>2, <3>4 DEF Spent, Typed
      <4>2. touch'.age = Held /\ touch'.st # "click"
        BY <2>1, <3>4 DEF Spent, Older, Held
      <4> QED
        BY <1>1, <3>4, <4>1, <4>2 DEF Spent, Clicked
    <3> QED
      BY <1>5, <3>1, <3>2, <3>3, <3>4 DEF AtHome
  <2> QED
    BY <1>1, <1>3, <1>4, <2>1, <2>2 DEF Gestures, Following, Begun
<1> QED
  BY <1>2, <1>6, <1>7, <1>8 DEF Sampled

(* Every step keeps gestures at home.                                       *)
LEMMA GesturesStep ==
  ASSUME Typed, Covering, Gestures, Holding, Next
  PROVE  Gestures'
<1>1. CASE Boots
  BY <1>1 DEF Boots, Gestures, Following, Pressed, NoTouch, GestureAtHome, Nothing
<1> QED
  BY <1>1, MainPageGestures, SettingsPageGestures, ValuePagesGestures, PresetPagesGestures,
     FirstPagesGestures, BeginTurnGestures DEF Next

-----------------------------------------------------------------------------
(* A hold is timed by one press                                             *)

Timing == {"slot", "save", "clear", "reset"}

OnItsButton == touch.on = hold.on /\ touch.home = PageOf(hold.on) /\ Screen = PageOf(hold.on)

(* What the turn of a page may do to the hold: it is dropped, it begins, it *)
(* ends, or it goes on with the press that began it.                        *)
HoldGoesOn ==
  \/ hold' = NoHold \/ hold'.age = 0 \/ hold'.st # "armed"
  \/ /\ hold' = hold /\ (Pressed => screens' = screens)
     /\ ~(Begun /\ hold.on \in Timing /\ OnItsButton)

(* What would time another press is dropped.                                *)
HoldDropped ==
  /\ "copy" \in screens => hold.on \in {"none", "save"} /\ "options" \notin screens
  /\ "options" \in swallow /\ Screen = "options" => hold.on = "none"

LEMMA HoldingAfter ==
  ASSUME Typed, Holding, Free, at = "page", at' # "page", UNCHANGED touch, HoldGoesOn,
         HoldDropped', HoldIsContinuous'
  PROVE  Holding'
<1>1. ASSUME Pressed, hold'.on \in Timing, hold'.st = "armed", OnItsButton'
      PROVE  hold'.age <= touch'.age
  <2>1. CASE hold' = NoHold
    BY <1>1, <2>1 DEF NoHold, Timing
  <2>2. CASE hold'.age = 0
    BY <2>2 DEF Typed, TypeOK, Held
  <2>3. CASE hold' = hold /\ screens' = screens /\ ~(Begun /\ hold.on \in Timing /\ OnItsButton)
    <3>1. OnItsButton /\ Screen' = Screen
      BY <1>1, <2>3 DEF OnItsButton, Screen, PageOf
    <3>2. ~Begun /\ Touched
      BY <1>1, <2>3, <3>1 DEF Touched, Pressed
    <3> QED
      BY <1>1, <2>3, <3>1, <3>2 DEF Holding, Following, OnItsButton, Timing
  <2> QED
    BY <1>1, <2>1, <2>2, <2>3 DEF HoldGoesOn
<1>2. Pressed' <=> Pressed
  BY DEF Pressed
<1> QED
  BY <1>1, <1>2 DEF Holding, HoldDropped, Following, OnItsButton, Timing

(* The steps of each kind of page: a hold is timed by one press.            *)
LEMMA MainPageHolding ==
  ASSUME Typed, Gestures, Holding, MainPage
  PROVE  Holding'
<1>1. /\ at = "page" /\ at' # "page" /\ Screen = "main" /\ Free
  <2>1. Turn("main")
    BY DEF MainPage, MainConsumes, FaderMoves, FaderLost, ListTouched, OpensSettings,
           OpensPresets, BlackoutTapped, OpensPrecision, FaderTaken, ButtonPressed, MainRests,
           MainTurn, Own, MainStays, MainFrame, Consumes
  <2> QED
    BY <2>1, TurnAtHome DEF OwnPages
<1>2. CASE FaderLost
  <2>1. screens' = screens /\ hold' = hold /\ did' = Nothing
    BY <1>2 DEF FaderLost, MainStays, DidNothing
  <2>2. Screen' = "main"
    BY <1>1, <2>1 DEF Screen
  <2> QED
    BY <2>1, <2>2 DEF Holding, PageOf, HoldIsContinuous, Nothing
<1>3. ASSUME ~FaderLost PROVE Holding'
  <2>1. UNCHANGED touch /\ (hold' = hold \/ hold' = NoHold)
    BY <1>3 DEF MainPage, MainConsumes, FaderMoves, ListTouched, OpensSettings, OpensPresets,
           BlackoutTapped, OpensPrecision, FaderTaken, ButtonPressed, MainRests, MainTurn, Own,
           MainStays, MainFrame, Consumes
  <2>2. /\ ~Clicked => screens' = screens
        /\ screens' = screens \/ screens' = {"settings"} \/ screens' = {"preset"}
           \/ screens' = {"precision"}
    BY DEF MainPage, MainConsumes, FaderMoves, FaderLost, ListTouched, OpensSettings,
           OpensPresets, BlackoutTapped, OpensPrecision, FaderTaken, ButtonPressed, MainRests,
           MainTurn, Own, MainStays, MainFrame, Consumes, Tapped
  <2>3. Pressed => ~Clicked
    BY DEF Pressed, Clicked
  <2>4. HoldGoesOn
    BY <1>1, <2>1, <2>2, <2>3 DEF HoldGoesOn, OnItsButton, PageOf
  <2>5. HoldDropped'
    BY <1>1, <2>1, <2>2 DEF HoldDropped, Screen, NoHold, Holding
  <2>6. DidNothing
        \/ \E op \in {"fader", "select", "settings", "preset", "blackout", "edit", "button"} :
          Did("main", op)
    <3>1. CASE MainConsumes
      BY <3>1 DEF MainConsumes, MainTurn, Own, MainStays, MainFrame, Consumes, MainCommand
    <3>2. CASE FaderMoves
      BY <3>2 DEF FaderMoves, MainTurn, Own, MainStays, MainFrame, Consumes, MainCommand
    <3>3. CASE FaderLost
      BY <3>3 DEF FaderLost, MainTurn, Own, MainStays, MainFrame, Consumes, MainCommand
    <3>4. CASE ListTouched
      BY <3>4 DEF ListTouched, MainTurn, Own, MainStays, MainFrame, Consumes, MainCommand
    <3>5. CASE OpensSettings
      BY <3>5 DEF OpensSettings, MainTurn, Own, MainStays, MainFrame, Consumes, MainCommand
    <3>6. CASE OpensPresets
      BY <3>6 DEF OpensPresets, MainTurn, Own, MainStays, MainFrame, Consumes, MainCommand
    <3>7. CASE BlackoutTapped
      BY <3>7 DEF BlackoutTapped, MainTurn, Own, MainStays, MainFrame, Consumes, MainCommand
    <3>8. CASE OpensPrecision
      BY <3>8 DEF OpensPrecision, MainTurn, Own, MainStays, MainFrame, Consumes, MainCommand
    <3>9. CASE FaderTaken
      BY <3>9 DEF FaderTaken, MainTurn, Own, MainStays, MainFrame, Consumes, MainCommand
    <3>10. CASE ButtonPressed
      BY <3>10 DEF ButtonPressed, MainTurn, Own, MainStays, MainFrame, Consumes, MainCommand
    <3>11. CASE MainRests
      BY <3>11 DEF MainRests, MainTurn, Own, MainStays, MainFrame, Consumes, MainCommand
    <3> QED
      BY <3>1, <3>2, <3>3, <3>4, <3>5, <3>6, <3>7, <3>8, <3>9, <3>10, <3>11 DEF MainPage
  <2>7. HoldIsContinuous'
    BY <2>6 DEF DidNothing, Did, Nothing, HoldIsContinuous
  <2> QED
    BY <1>1, <2>1, <2>4, <2>5, <2>7, HoldingAfter
<1> QED
  BY <1>2, <1>3

LEMMA ValuePagesHolding ==
  ASSUME Typed, Gestures, Holding, ValuePages
  PROVE  Holding'
<1> DEFINE page == InCharge(Begun)
<1>1. page \in {"precision", "keypad"} /\ at = "page" /\ at' # "page" /\ Screen = page /\ Free
  <2>1. Turn("precision") \/ Turn("keypad")
    BY DEF ValuePages, ValueConsumes, KeypadCloses, KeypadRests, ValueAdjusted, ValueSlides,
           OpensKeypad, ClosesPrecision, PrecisionRests, ValueTurn, ValuePage, Own, Consumes
  <2>2. "precision" \in OwnPages /\ "keypad" \in OwnPages
    BY DEF OwnPages
  <2> QED
    BY <2>1, <2>2, TurnAtHome DEF Turn
<1> HIDE DEF page
<1>2. UNCHANGED <<touch, hold>>
  BY DEF ValuePages, ValueConsumes, KeypadCloses, KeypadRests, ValueAdjusted, ValueSlides,
         OpensKeypad, ClosesPrecision, PrecisionRests, ValueTurn, ValuePage, Own, Consumes
<1>3. /\ ~Clicked => screens' = screens
      /\ \/ screens' = screens \/ screens' = {} \/ screens' = screens \cup {"keypad"}
         \/ screens' = screens \ {"keypad"}
  BY DEF ValuePages, ValueConsumes, KeypadCloses, KeypadRests, ValueAdjusted, ValueSlides,
         OpensKeypad, ClosesPrecision, PrecisionRests, ValueTurn, ValuePage, Own, Consumes,
         Tapped
<1>4. Pressed => ~Clicked
  BY DEF Pressed, Clicked
<1>5. HoldGoesOn
  BY <1>1, <1>2, <1>3, <1>4 DEF HoldGoesOn, OnItsButton, PageOf
<1>6. "copy" \notin screens' /\ "options" \notin screens'
  BY <1>1, <1>3 DEF Screen, Typed, TypeOK
<1>7. HoldDropped'
  BY <1>6 DEF HoldDropped, Screen
<1>8. DidNothing \/ \E p : \E op \in {"back", "ok", "adjust", "slider", "value"} : Did(p, op)
  <2>1. CASE ValueConsumes
    BY <2>1 DEF ValueConsumes, ValueTurn, ValuePage, Own, Consumes, ValueCommand
  <2>2. CASE KeypadCloses
    BY <2>2 DEF KeypadCloses, ValueTurn, ValuePage, Own, Consumes, ValueCommand
  <2>3. CASE KeypadRests
    BY <2>3 DEF KeypadRests, ValueTurn, ValuePage, Own, Consumes, ValueCommand
  <2>4. CASE ValueAdjusted
    BY <2>4 DEF ValueAdjusted, ValueTurn, ValuePage, Own, Consumes, ValueCommand
  <2>5. CASE ValueSlides
    BY <2>5 DEF ValueSlides, ValueTurn, ValuePage, Own, Consumes, ValueCommand
  <2>6. CASE OpensKeypad
    BY <2>6 DEF OpensKeypad, ValueTurn, ValuePage, Own, Consumes, ValueCommand
  <2>7. CASE ClosesPrecision
    BY <2>7 DEF ClosesPrecision, ValueTurn, ValuePage, Own, Consumes, ValueCommand
  <2>8. CASE PrecisionRests
    BY <2>8 DEF PrecisionRests, ValueTurn, ValuePage, Own, Consumes, ValueCommand
  <2> QED
    BY <2>1, <2>2, <2>3, <2>4, <2>5, <2>6, <2>7, <2>8 DEF ValuePages
<1>9. HoldIsContinuous'
  BY <1>8 DEF DidNothing, Did, Nothing, HoldIsContinuous
<1> QED
  BY <1>1, <1>2, <1>5, <1>7, <1>9, HoldingAfter

LEMMA SettingsPageHolding ==
  ASSUME Typed, Gestures, Holding, Powered, SettingsPage
  PROVE  Holding'
<1>1. /\ at = "page" /\ at' # "page" /\ Screen = "settings" /\ Free
      /\ (Touched => AtHome("settings")) /\ InCharge(Begun) = "settings"
  <2>1. /\ InCharge(Begun) = "settings" /\ at = "page" /\ (at' = "turn" \/ at' = "off")
    BY DEF SettingsPage, PowerTouched, ResetTouched, RestartTapped, PowersOff, PowerOffTapped,
           ClosesSettings, LevelSet, SettingsRest, SettingsTurn, Own, SettingsStay, panel,
           others, Turn
  <2> QED
    BY <2>1 DEF Gestures, InCharge, Free, Bare, Following, AtHome
<1>2. Touched => touch.home = "settings"
  BY <1>1 DEF AtHome, Consumed
<1>3. UNCHANGED touch
  BY DEF SettingsPage, PowerTouched, ResetTouched, RestartTapped, PowersOff, PowerOffTapped,
         ClosesSettings, LevelSet, SettingsRest, SettingsTurn, Own, SettingsStay, panel, others
<1>4. /\ ~Clicked => screens' = screens
      /\ screens' = screens \/ screens' = {}
  BY DEF SettingsPage, PowerTouched, ResetTouched, RestartTapped, PowersOff, PowerOffTapped,
         ClosesSettings, LevelSet, SettingsRest, SettingsTurn, Own, SettingsStay, panel, others,
         Tapped
<1>5. Pressed => ~Clicked
  BY DEF Pressed, Clicked
<1>6. \/ hold' = NoHold \/ hold' = HoldBegins("reset") \/ hold'.st # "armed"
      \/ hold' = hold /\ hold.on # "reset"
      \/ hold' = hold /\ ~ResetBegins /\ ~PowerHeld
      \/ hold' = HoldBegins("power")
  <2>1. /\ [HoldBegins("power") EXCEPT !.st = "cancelled"].st # "armed"
        /\ [hold EXCEPT !.st = "done"].st # "armed"
        /\ [hold EXCEPT !.st = IF @ = "armed" THEN "cancelled" ELSE @].st # "armed"
    BY DEF Typed, HoldBegins
  <2>2. CASE PowerTouched
    <3>1. \/ hold' = HoldBegins("power") \/ hold' = [HoldBegins("power") EXCEPT !.st = "cancelled"]
          \/ hold' = NoHold \/ hold' = [hold EXCEPT !.st = "done"]
          \/ hold' = [hold EXCEPT !.st = IF @ = "armed" THEN "cancelled" ELSE @]
          \/ hold' = hold /\ PowerHeld
      BY <2>2 DEF PowerTouched
    <3> QED
      BY <2>1, <3>1 DEF PowerHeld
  <2>3. CASE ResetTouched
    <3>1. ~PowerHeld
      BY <2>3 DEF ResetTouched, ResetHeld, PowerHeld, ResetBegins
    <3>2. \/ hold' = HoldBegins("reset") \/ hold' = NoHold \/ hold' = [hold EXCEPT !.st = "done"]
          \/ hold' = [hold EXCEPT !.st = IF @ = "armed" THEN "cancelled" ELSE @]
          \/ hold' = hold /\ ~ResetBegins
      BY <2>3 DEF ResetTouched
    <3> QED
      BY <2>1, <3>1, <3>2
  <2>4. ASSUME ~PowerTouched, ~ResetTouched PROVE hold' = hold /\ NoWifiHold
    BY <2>4 DEF SettingsPage, RestartTapped, PowersOff, PowerOffTapped, ClosesSettings, LevelSet,
                SettingsRest, SettingsStay, panel
  <2> QED
    BY <2>2, <2>3, <2>4 DEF NoWifiHold, ResetHeld
<1>7. HoldGoesOn
  <2>1. CASE hold' = HoldBegins("reset") \/ hold' = HoldBegins("power")
    BY <2>1 DEF HoldGoesOn, HoldBegins
  <2>2. CASE hold' = hold /\ ~(Begun /\ hold.on \in Timing /\ OnItsButton)
    BY <1>4, <1>5, <2>2 DEF HoldGoesOn
  <2>3. hold.on # "reset" => ~(hold.on \in Timing /\ OnItsButton)
    BY <1>1 DEF Timing, OnItsButton, PageOf
  <2>4. ~ResetBegins /\ ~PowerHeld => ~(Begun /\ hold.on \in Timing /\ OnItsButton)
    BY <1>2, <2>3 DEF ResetBegins, OnItsButton, On, Begun, Touched
  <2> QED
    BY <1>6, <2>1, <2>2, <2>3, <2>4 DEF HoldGoesOn
<1>8. HoldDropped'
  <2>1. "copy" \notin screens' /\ "options" \notin screens'
    BY <1>1, <1>4 DEF Screen, Typed, TypeOK
  <2> QED
    BY <2>1 DEF HoldDropped, Screen
<1>9. HoldIsContinuous'
  <2>1. \/ DidNothing \/ \E op \in {"restart", "poweroff", "back", "level"} : Did("settings", op)
        \/ /\ Pressed /\ ~touch.moved /\ On("settings", "power") /\ HeldFor("power")
           /\ Did("settings", "power") /\ hold' = [hold EXCEPT !.st = "done"]
        \/ ~ResetBegins /\ Touched /\ ~touch.moved /\ On("settings", "reset") /\ HeldFor("reset")
           /\ Did("settings", "reset")
    <3>1. CASE PowerTouched
      BY <3>1 DEF PowerTouched, SettingsTurn, Own, SettingsStay, panel, others
    <3>2. CASE ResetTouched
      BY <3>2 DEF ResetTouched, SettingsTurn, Own, SettingsStay, panel, others
    <3>3. CASE RestartTapped
      BY <3>3 DEF RestartTapped, SettingsTurn, Own, SettingsStay, panel, others
    <3>4. CASE PowersOff
      BY <3>4 DEF PowersOff, SettingsTurn, Own, SettingsStay, panel, others
    <3>5. CASE PowerOffTapped
      BY <3>5 DEF PowerOffTapped, SettingsTurn, Own, SettingsStay, panel, others
    <3>6. CASE ClosesSettings
      BY <3>6 DEF ClosesSettings, SettingsTurn, Own, SettingsStay, panel, others
    <3>7. CASE LevelSet
      BY <3>7 DEF LevelSet, SettingsTurn, Own, SettingsStay, panel, others
    <3>8. CASE SettingsRest
      BY <3>8 DEF SettingsRest, SettingsTurn, Own, SettingsStay, panel, others
    <3> QED
      BY <3>1, <3>2, <3>3, <3>4, <3>5, <3>6, <3>7, <3>8 DEF SettingsPage
  <2>2. CASE ~ResetBegins /\ Touched /\ ~touch.moved /\ On("settings", "reset") /\ HeldFor("reset")
             /\ Did("settings", "reset")
    <3>1. ~Begun
      BY <2>2 DEF ResetBegins, PowerHeld, HeldFor
    <3>2. Following
      BY <1>1, <2>2, <3>1 DEF Following
    <3>3. touch.on = "reset" /\ touch.home = "settings" /\ hold.on = "reset" /\ hold.st = "armed"
          /\ hold.age = Held
      BY <1>2, <2>2 DEF On, HeldFor
    <3>4. hold.age <= touch.age
      BY <1>1, <3>2, <3>3 DEF Holding, PageOf
    <3>5. touch.age = Held
      BY <3>3, <3>4 DEF Typed, TypeOK, Held
    <3> QED
      BY <1>3, <2>2, <3>3, <3>5 DEF HoldIsContinuous, Did
  <2>3. CASE /\ Pressed /\ ~touch.moved /\ On("settings", "power") /\ HeldFor("power")
             /\ Did("settings", "power") /\ hold' = [hold EXCEPT !.st = "done"]
    <3>1. touch.home = "settings" /\ touch.on = "power"
      BY <1>2, <2>3 DEF On
    <3>2. hold.on = "power" /\ hold.age = Held /\ hold'.left = hold.left
      BY <2>3 DEF HeldFor, Typed
    <3>3. ~hold.left => hold.age <= touch.age
      BY <3>2 DEF Powered
    <3>5. touch.age \in 0 .. Held
      BY DEF Typed, TypeOK
    <3>7. hold.age <= touch.age => touch.age = Held
      BY <3>2, <3>5 DEF Held
    <3>6. touch.age = Held \/ hold.left
      BY <3>3, <3>7
    <3>4. Pressed'
      BY <1>3, <2>3 DEF Pressed
    <3> QED
      BY <1>3, <2>3, <3>1, <3>2, <3>4, <3>6 DEF HoldIsContinuous, Did
  <2> QED
    BY <2>1, <2>2, <2>3 DEF DidNothing, Did, Nothing, HoldIsContinuous
<1> QED
  BY <1>1, <1>3, <1>7, <1>8, <1>9, HoldingAfter

LEMMA PresetPagesHolding ==
  ASSUME Typed, Gestures, Holding, PresetPages
  PROVE  Holding'
<1> DEFINE page == InCharge(Begun)
<1>1. /\ page \in {"grid", "options"} /\ at = "page" /\ at' # "page" /\ Screen = page /\ Free
      /\ Turn(page) /\ (Touched => AtHome(page)) /\ page \in OwnPages
         /\ (Begun => touch.home = page)
  <2>1. Turn("grid") \/ Turn("options")
    BY DEF PresetPages, SlotHeld, SaveHeld, SlotTapped, LoadTapped, CancelsCopy, ClosesPresets,
           GridRests, OptionsConsume, ClearHeld, CopyTapped, ClosesOptions, OptionsRest,
           GridTurn, OptionsTurn, PresetPage, Own, Consumes, GridStays
  <2>2. "grid" \in OwnPages /\ "options" \in OwnPages
    BY DEF OwnPages
  <2> QED
    BY <2>1, <2>2, TurnAtHome DEF Turn
<1>2. page = "grid" => "options" \notin screens
  BY <1>1 DEF Screen, Typed, TypeOK
<1> HIDE DEF page
<1>3. UNCHANGED touch
  BY DEF PresetPages, SlotHeld, SaveHeld, SlotTapped, LoadTapped, CancelsCopy, ClosesPresets,
         GridRests, OptionsConsume, ClearHeld, CopyTapped, ClosesOptions, OptionsRest, GridTurn,
         OptionsTurn, PresetPage, Own, Consumes, GridStays
<1>4. Pressed => ~Clicked
  BY DEF Pressed, Clicked
<1>5. hold' = NoHold \/ (~Clicked => screens' = screens)
  BY DEF PresetPages, SlotHeld, SaveHeld, SlotTapped, LoadTapped, CancelsCopy, ClosesPresets,
         GridRests, OptionsConsume, ClearHeld, CopyTapped, ClosesOptions, OptionsRest, GridTurn,
         OptionsTurn, PresetPage, Own, Consumes, GridStays, Tapped
<1>6. \/ hold' = NoHold \/ hold'.age = 0 \/ hold'.st # "armed"
      \/ hold' = hold /\ ~(Begun /\ hold.on \in Timing /\ OnItsButton)
  <2>1. CASE SlotHeld \/ ClearHeld \/ ClosesOptions
    BY <2>1 DEF SlotHeld, ClearHeld, ClosesOptions
  <2>2. CASE SaveHeld
    BY <2>2 DEF SaveHeld, Typed
  <2>3. ASSUME GridHolds, page = "grid"
        PROVE  \/ hold' = NoHold \/ hold'.age = 0
               \/ hold' = hold /\ ~(Begun /\ hold.on \in Timing /\ OnItsButton)
    <3>1. \/ hold' = HoldBegins("slot") \/ hold' = HoldBegins("save") \/ hold' = NoHold
          \/ /\ hold' = hold /\ (Begun => ~On("grid", "save"))
             /\ (Begun => ~On("grid", "slot") \/ "copy" \in screens)
      BY <2>3 DEF GridHolds, GridHold
    <3>2. CASE /\ hold' = hold /\ (Begun => ~On("grid", "save"))
               /\ (Begun => ~On("grid", "slot") \/ "copy" \in screens)
      <4>1. ASSUME Begun, hold.on \in Timing, OnItsButton PROVE FALSE
        <5>1. touch.home = "grid" /\ Touched /\ touch.on = hold.on
              /\ (hold.on = "slot" \/ hold.on = "save")
          BY <1>1, <2>3, <4>1 DEF OnItsButton, PageOf, Timing, Begun, Touched
        <5> QED
          BY <3>2, <4>1, <5>1 DEF On, Holding
      <4> QED
        BY <3>2, <4>1
    <3> QED
      BY <3>1, <3>2 DEF HoldBegins
  <2>4. ASSUME ClearHolds, page = "options"
        PROVE  \/ hold' = NoHold \/ hold'.age = 0
               \/ hold' = hold /\ ~(Begun /\ hold.on \in Timing /\ OnItsButton)
    <3>1. \/ hold' = HoldBegins("clear") \/ hold' = NoHold
          \/ hold' = hold /\ (Begun => ~On("options", "clear"))
      BY <2>4 DEF ClearHolds
    <3>2. CASE hold' = hold /\ (Begun => ~On("options", "clear"))
      <4>1. ASSUME Begun, hold.on \in Timing, OnItsButton PROVE FALSE
        <5>1. touch.home = "options" /\ Touched /\ touch.on = hold.on /\ hold.on = "clear"
          BY <1>1, <2>4, <4>1 DEF OnItsButton, PageOf, Timing, Begun, Touched
        <5> QED
          BY <3>2, <4>1, <5>1 DEF On
      <4> QED
        BY <3>2, <4>1
    <3> QED
      BY <3>1, <3>2 DEF HoldBegins
  <2>5. CASE OptionsConsume
    <3>1. hold' = hold /\ "options" \in swallow /\ page = "options"
      BY <2>5 DEF OptionsConsume, Consumes, Own, Turn, page
    <3> QED
      BY <1>1, <3>1 DEF Holding, Timing
  <2>6. CASE SlotTapped \/ LoadTapped \/ CancelsCopy \/ ClosesPresets \/ GridRests
    <3>1. GridHolds /\ page = "grid"
      BY <2>6 DEF SlotTapped, LoadTapped, CancelsCopy, ClosesPresets, GridRests, GridTurn,
         PresetPage,
                  Own, Turn, page
    <3> QED
      BY <2>3, <3>1
  <2>7. CASE CopyTapped \/ OptionsRest
    <3>1. ClearHolds /\ page = "options"
      BY <2>7 DEF CopyTapped, OptionsRest, OptionsTurn, PresetPage, Own, Turn, page
    <3> QED
      BY <2>4, <3>1
  <2> QED
    BY <2>1, <2>2, <2>5, <2>6, <2>7 DEF PresetPages
<1>7. HoldGoesOn
  BY <1>4, <1>5, <1>6 DEF HoldGoesOn
<1>8. HoldDropped'
  <2>1. CASE SlotHeld
    BY <1>1, <1>2, <2>1 DEF SlotHeld, GridStays, HoldDropped, NoHold, Screen
  <2>2. ASSUME GridHolds \/ hold'.on = hold.on, screens' \subseteq screens,
               swallow' \subseteq swallow, page = "grid"
        PROVE  HoldDropped'
    <3>1. "copy" \in screens => hold'.on \in {"none", "save"}
      BY <2>2 DEF GridHolds, GridHold, HoldBegins, NoHold, Holding
    <3> QED
      BY <1>2, <2>2, <3>1 DEF HoldDropped, Screen
  <2>3. CASE SaveHeld
    BY <1>1, <2>2, <2>3 DEF SaveHeld, GridTurn, PresetPage, Own, Turn, GridStays, Typed, page
  <2>4. CASE SlotTapped \/ LoadTapped \/ CancelsCopy \/ ClosesPresets \/ GridRests
    BY <2>2, <2>4 DEF SlotTapped, LoadTapped, CancelsCopy, ClosesPresets, GridRests, GridTurn,
                      PresetPage, Own, Turn, GridStays, page
  <2>5. CASE OptionsConsume
    <3>1. /\ UNCHANGED <<screens, hold>> /\ swallow' \subseteq swallow
      BY <2>5 DEF OptionsConsume, Consumes, Own
    <3> QED
      BY <3>1 DEF HoldDropped, Holding, Screen
  <2>6. CASE ClearHeld \/ ClosesOptions \/ OptionsRest
    <3>1. page = "options" /\ screens' \subseteq screens /\ swallow' = swallow
          /\ "options" \notin swallow
      BY <2>6 DEF ClearHeld, ClosesOptions, OptionsRest, OptionsTurn, PresetPage, Own, Turn, page
    <3>2. "copy" \notin screens
      BY <1>1, <3>1 DEF Screen, Holding
    <3> QED
      BY <3>1, <3>2 DEF HoldDropped
  <2>7. CASE CopyTapped
    <3>1. /\ page = "options" /\ screens' = (screens \ {"options"}) \cup {"copy"}
          /\ swallow' = swallow /\ "options" \notin swallow
      BY <2>7 DEF CopyTapped, OptionsTurn, PresetPage, Own, Turn, page
    <3>2. Touched /\ ~Begun /\ On("options", "copy")
      BY <2>7 DEF CopyTapped, Tapped, Clicked, Touched, Begun
    <3>3. touch.home = "options" /\ touch.on = "copy"
      BY <1>1, <3>1, <3>2 DEF AtHome, Consumed, On
    <3>4. hold' = NoHold
      BY <2>7, <3>2, <3>3 DEF CopyTapped, ClearHolds, On
    <3> QED
      BY <3>1, <3>4 DEF HoldDropped, NoHold
  <2> QED
    BY <2>1, <2>3, <2>4, <2>5, <2>6, <2>7 DEF PresetPages
<1>9. HoldIsContinuous'
  <2>1. CASE SlotHeld
    <3>1. Turn("grid") /\ HoldEnds("grid", "slot") /\ Did("grid", "slot")
      BY <2>1 DEF SlotHeld, GridTurn, PresetPage, Own
    <3> QED
      BY <1>3, <3>1, HeldThroughout DEF OwnPages, PageOf, HoldEnds, Consumed, HoldIsContinuous, Did
  <2>2. CASE SaveHeld
    <3>1. Turn("grid") /\ HoldEnds("grid", "save") /\ Did("grid", "save")
      BY <2>2 DEF SaveHeld, GridTurn, PresetPage, Own, PresetCommand
    <3> QED
      BY <1>3, <3>1, HeldThroughout DEF OwnPages, PageOf, HoldEnds, Consumed, HoldIsContinuous, Did
  <2>3. CASE ClearHeld
    <3>1. Turn("options") /\ HoldEnds("options", "clear") /\ Did("options", "clear")
          /\ "options" \notin swallow
      BY <2>3 DEF ClearHeld, OptionsTurn, PresetPage, Own, PresetCommand
    <3> QED
      BY <1>3, <3>1, HeldThroughout DEF OwnPages, PageOf, HoldEnds, Consumed, HoldIsContinuous, Did
  <2>4. ASSUME ~SlotHeld, ~SaveHeld, ~ClearHeld PROVE HoldIsContinuous'
    <3>1. DidNothing \/ \E p : \E op \in {"copy", "load", "select", "back"} : Did(p, op)
      BY <2>4 DEF PresetPages, SlotTapped, LoadTapped, CancelsCopy, ClosesPresets, GridRests,
             OptionsConsume, CopyTapped, ClosesOptions, OptionsRest, PresetCommand, Consumes
    <3> QED
      BY <3>1 DEF DidNothing, Did, Nothing, HoldIsContinuous
  <2> QED
    BY <2>1, <2>2, <2>3, <2>4
<1> QED
  BY <1>1, <1>3, <1>7, <1>8, <1>9, HoldingAfter

LEMMA FirstPagesHolding ==
  ASSUME Typed, Gestures, Holding, FirstPages
  PROVE  Holding'
<1>1. /\ at' = "turn" /\ UNCHANGED <<touch, screens>>
      /\ hold' = hold \/ hold' = [hold EXCEPT !.left = (hold.on # "none")]
  BY DEF FirstPages, WifiOpens, WifiRestores, WifiTouched, WifiWaits, MaintenanceOpens,
         MaintenanceRestores, MaintenanceTouched, MaintenanceWaits, Wakes, TakesOver, others, Turn
<1>8. hold'.on = hold.on /\ hold'.age = hold.age /\ hold'.st = hold.st
  BY <1>1 DEF Typed
<1>2. Free' => ~Touched
  BY LeavesNoTouch
<1>3. "options" \in swallow' => "options" \in swallow
  BY DEF FirstPages, WifiOpens, WifiRestores, WifiTouched, WifiWaits, MaintenanceOpens,
         MaintenanceRestores, MaintenanceTouched, MaintenanceWaits, Wakes, others
<1>4. \/ DidNothing
      \/ \E p : \E op \in {"ok", "cancel", "close"} : Did(p, op)
  <2>1. CASE WifiOpens
    BY <2>1 DEF WifiOpens, others
  <2>2. CASE WifiRestores
    BY <2>2 DEF WifiRestores, others
  <2>3. CASE WifiTouched
    BY <2>3 DEF WifiTouched, others
  <2>4. CASE WifiWaits
    BY <2>4 DEF WifiWaits, others
  <2>5. CASE MaintenanceOpens
    BY <2>5 DEF MaintenanceOpens, others
  <2>6. CASE MaintenanceRestores
    BY <2>6 DEF MaintenanceRestores, others
  <2>7. CASE MaintenanceTouched
    BY <2>7 DEF MaintenanceTouched, others
  <2>8. CASE MaintenanceWaits
    BY <2>8 DEF MaintenanceWaits, others
  <2>9. CASE Wakes
    BY <2>9 DEF Wakes, others
  <2> QED
    BY <2>1, <2>2, <2>3, <2>4, <2>5, <2>6, <2>7, <2>8, <2>9 DEF FirstPages
<1>5. HoldIsContinuous'
  BY <1>4 DEF DidNothing, Did, Nothing, HoldIsContinuous
<1>6. Pressed => Touched
  BY DEF Pressed, Touched
<1>7. Screen' = Screen /\ (Pressed' <=> Pressed)
  BY <1>1 DEF Screen, Pressed
<1> QED
  BY <1>1, <1>2, <1>3, <1>5, <1>6, <1>7, <1>8 DEF Holding, Following

(* Time passes for the hold and for its press alike.                        *)
LEMMA BeginTurnHolding ==
  ASSUME Typed, Covering, Holding, BeginTurn
  PROVE  Holding'
<1>1. /\ at = "turn" /\ at' = "page" /\ did' = Nothing
      /\ UNCHANGED <<screens, ui_mode, active, wifi, maint, swallow, drag, arm, pair, asleep>>
  BY DEF BeginTurn
<1>2. PICK time \in 0 .. Held :
        /\ Sampled(time)
        /\ hold' = [hold EXCEPT !.age = IF hold.on = "none" THEN 0 ELSE Older(hold.age, time)]
  BY DEF BeginTurn, Held
<1>3. /\ hold'.on = hold.on /\ hold'.st = hold.st
      /\ hold.on # "none" => hold'.age = Older(hold.age, time)
  BY <1>2 DEF Typed
<1>4. Screen' = Screen
  BY <1>1 DEF Screen
<1>5. HoldIsContinuous'
  BY <1>1 DEF HoldIsContinuous, Nothing
<1>6. ASSUME Following', Free', hold.on \in Timing, hold.st = "armed",
             touch'.on = hold.on, touch'.home = PageOf(hold.on), Screen = PageOf(hold.on)
      PROVE  hold'.age <= touch'.age
  <2>1. touch'.st # "none" /\ touch'.st # "begin"
    BY <1>1, <1>6 DEF Following, Touched, Begun
  <2>2. Pressed
    <3>1. Lowered => touch'.st = "begin"
      BY DEF Lowered
    <3>2. NoTouch.st = "none"
      BY DEF NoTouch
    <3> QED
      BY <1>2, <2>1, <3>1, <3>2 DEF Sampled
  <2>3. /\ touch'.age = IF Timed THEN Older(touch.age, time) ELSE touch.age
        /\ Stays => touch'.home = touch.home /\ touch'.on = touch.on
        /\ ~Stays => touch'.on = "none"
    BY <1>2, <2>2, FingerFollowed
  <2>4. touch.on = hold.on /\ touch.home = PageOf(hold.on)
    BY <1>6, <2>3 DEF Timing
  <2>5. Free /\ Following
    BY <1>1, <1>6, <2>2, StillFree DEF Following
  <2>6. hold.age <= touch.age
    BY <1>6, <2>4, <2>5 DEF Holding, Timing
  <2>7. Timed
    BY <1>6, <2>5 DEF Timed, InCharge, Free, Bare, Timing, PageOf
  <2>8. Older(hold.age, time) <= Older(touch.age, time)
    BY <2>6 DEF Older, Held, Typed, TypeOK
  <2> QED
    BY <1>3, <1>6, <2>3, <2>7, <2>8 DEF Timing
<1> QED
  BY <1>1, <1>3, <1>4, <1>5, <1>6 DEF Holding, Timing

(* Every step times a hold by one press.                                    *)
LEMMA HoldingStep ==
  ASSUME Typed, Covering, Gestures, Holding, Powered, Next
  PROVE  Holding'
<1>1. CASE Boots
  <2>1. at' = "turn" /\ touch' = NoTouch /\ hold' = NoHold /\ did' = Nothing /\ screens' = {}
    BY <1>1 DEF Boots
  <2> QED
    BY <2>1 DEF Holding, Following, Pressed, NoTouch, NoHold, HoldIsContinuous, Nothing
<1> QED
  BY <1>1, MainPageHolding, SettingsPageHolding, ValuePagesHolding, PresetPagesHolding,
     FirstPagesHolding, BeginTurnHolding DEF Next

(* The Settings page keeps following the press on the power button, or the  *)
(* hold has ended.                                                          *)
LEMMA PoweredBegins ==
  ASSUME Typed, Powered, BeginTurn
  PROVE  Powered'
<1>1. /\ at = "turn" /\ at' = "page" /\ UNCHANGED <<screens, wifi, maint, swallow>>
  BY DEF BeginTurn
<1>2. PICK time \in 0 .. Held :
        /\ Sampled(time)
        /\ hold' = [hold EXCEPT !.age = IF hold.on = "none" THEN 0 ELSE Older(hold.age, time)]
  BY DEF BeginTurn, Held
<1>3. /\ hold'.on = hold.on /\ hold'.left = hold.left
      /\ hold.on # "none" => hold'.age = Older(hold.age, time)
  BY <1>2 DEF Typed
<1> SUFFICES ASSUME hold.on = "power", ~hold.left
             PROVE  Powered'
  BY <1>3 DEF Powered
<1>4. Pressed /\ InCharge(FALSE) = "settings" /\ hold.age <= touch.age
  BY <1>1 DEF Powered
<1>5. touch'.st \in {"down", "click", "end"} /\ touch'.age = Older(touch.age, time)
  BY <1>2, <1>4, FingerFollowed DEF Timed
<1>6. Older(hold.age, time) <= Older(touch.age, time)
  BY <1>4 DEF Older, Held, Typed, TypeOK
<1>7. Touched' /\ ~Begun' /\ Screen' = Screen
  BY <1>1, <1>5 DEF Touched, Begun, Screen
<1> QED
  BY <1>1, <1>3, <1>5, <1>6, <1>7 DEF Powered

LEMMA PoweredFirst ==
  ASSUME Typed, Powered, FirstPages
  PROVE  Powered'
<1> SUFFICES ASSUME hold'.on = "power", ~hold'.left
             PROVE  FALSE
  BY DEF Powered
<1>1. at = "page" /\ InCharge(Begun) \in {"wifi", "maintenance", "asleep"}
  BY DEF FirstPages, WifiOpens, WifiRestores, WifiTouched, WifiWaits, MaintenanceOpens,
         MaintenanceRestores, MaintenanceTouched, MaintenanceWaits, Wakes, Turn
<1>2. CASE WifiOpens \/ MaintenanceOpens
  <2>1. hold' = [hold EXCEPT !.left = (hold.on # "none")]
    BY <1>2 DEF WifiOpens, MaintenanceOpens, TakesOver
  <2> QED
    BY <2>1 DEF Typed
<1>3. CASE ~WifiOpens /\ ~MaintenanceOpens
  <2>1. hold' = hold
    BY <1>3 DEF FirstPages, WifiRestores, WifiTouched, WifiWaits, MaintenanceRestores,
           MaintenanceTouched, MaintenanceWaits, Wakes, others
  <2>2. Screen = "settings" /\ ~wifi.open /\ ~maint.open /\ "wake" \notin swallow /\ ~Begun
    BY <1>1, <2>1 DEF Powered
  <2>3. InCharge(Begun) = "wifi" => config \in {"approval", "applying"}
    BY <2>2 DEF InCharge
  <2>4. InCharge(Begun) = "maintenance" => maintenance # "idle"
    BY <2>2 DEF InCharge
  <2>5. InCharge(Begun) # "asleep"
    BY <2>2 DEF InCharge
  <2> QED
    BY <1>3, <2>2, <2>3, <2>4, <2>5 DEF FirstPages, WifiRestores, WifiTouched, WifiWaits,
       MaintenanceRestores, MaintenanceTouched, MaintenanceWaits, Wakes, Turn
<1> QED
  BY <1>2, <1>3

LEMMA PoweredSettings ==
  ASSUME Typed, Powered, SettingsPage
  PROVE  Powered'
<1> SUFFICES ASSUME hold'.on = "power", ~hold'.left
             PROVE  Powered'
  BY DEF Powered
<1>1. PowerTouched
  <2>1. CASE ResetTouched
    <3>1. ~PowerHeld
      BY <2>1 DEF ResetTouched, ResetHeld, PowerHeld, ResetBegins
    <3>2. \/ hold' = HoldBegins("reset") \/ hold' = NoHold \/ hold' = [hold EXCEPT !.st = "done"]
          \/ hold' = [hold EXCEPT !.st = IF @ = "armed" THEN "cancelled" ELSE @] \/ hold' = hold
      BY <2>1 DEF ResetTouched
    <3> QED
      BY <3>1, <3>2 DEF PowerHeld, HoldBegins, NoHold, Typed
  <2>2. ASSUME ~PowerTouched, ~ResetTouched PROVE hold' = hold /\ NoWifiHold
    BY <2>2 DEF SettingsPage, RestartTapped, PowersOff, PowerOffTapped, ClosesSettings, LevelSet,
                SettingsRest, SettingsStay, panel
  <2> QED
    BY <2>1, <2>2 DEF NoWifiHold, PowerHeld
<1>2. /\ at = "page" /\ at' = "turn" /\ InCharge(Begun) = "settings"
      /\ UNCHANGED <<touch, screens, wifi, maint, swallow, config, maintenance>>
  BY <1>1 DEF PowerTouched, SettingsTurn, Own, SettingsStay, Turn
<1>3. \/ PowerBegins /\ hold'.age = 0
      \/ PowerHeld /\ Pressed /\ hold'.age = hold.age /\ hold'.left = hold.left
  <2>1. \/ PowerBegins
           /\ hold' \in {HoldBegins("power"), [HoldBegins("power") EXCEPT !.st = "cancelled"]}
        \/ hold' = NoHold
        \/ /\ PowerHeld /\ Pressed
           /\ \/ hold' = [hold EXCEPT !.st = IF @ = "armed" THEN "cancelled" ELSE @]
              \/ hold' = [hold EXCEPT !.st = "done"] \/ hold' = hold
    BY <1>1 DEF PowerTouched
  <2> QED
    BY <2>1 DEF HoldBegins, NoHold, Typed
<1>4. Screen = "settings" /\ Bare /\ "wake" \notin swallow
  BY <1>2 DEF InCharge, Bare
<1>5. Pressed /\ hold'.age <= touch.age
  <2>1. CASE PowerBegins /\ hold'.age = 0
    <3>1. 0 <= touch.age
      BY DEF Typed, TypeOK, Held
    <3> QED
      BY <2>1, <3>1 DEF PowerBegins, Pressed, Begun
  <2>2. CASE PowerHeld /\ Pressed /\ hold'.age = hold.age /\ hold'.left = hold.left
    BY <2>2 DEF Powered, PowerHeld
  <2> QED
    BY <1>3, <2>1, <2>2
<1>6. Screen' = Screen /\ Pressed'
  BY <1>2, <1>5 DEF Screen, Pressed
<1>7. InCharge(FALSE)' = "settings"
  BY <1>2, <1>4, <1>6 DEF InCharge, Bare
<1> QED
  BY <1>2, <1>4, <1>5, <1>6, <1>7 DEF Powered, Bare

LEMMA PoweredStep ==
  ASSUME Typed, Powered, Next
  PROVE  Powered'
<1>1. CASE MainPage \/ ValuePages \/ PresetPages
  <2>1. at = "page" /\ InCharge(Begun) \in OwnPages \ {"settings"}
    BY <1>1 DEF MainPage, MainConsumes, FaderMoves, FaderLost, ListTouched, OpensSettings,
           OpensPresets, BlackoutTapped, OpensPrecision, FaderTaken, ButtonPressed, MainRests,
           MainTurn, Consumes, ValuePages, ValueConsumes, KeypadCloses, KeypadRests,
           ValueAdjusted, ValueSlides, OpensKeypad, ClosesPrecision, PrecisionRests, ValueTurn,
           ValuePage, PresetPages, SlotHeld, SaveHeld, SlotTapped, LoadTapped, CancelsCopy,
           ClosesPresets, GridRests, OptionsConsume, ClearHeld, CopyTapped, ClosesOptions,
           OptionsRest, GridTurn, OptionsTurn, PresetPage, Own, Turn, OwnPages
  <2>2. ~(hold.on = "power" /\ ~hold.left)
    BY <2>1 DEF InCharge, Powered, OwnPages
  <2>3. hold' = hold \/ hold'.on # "power"
    <3>1. CASE MainPage
      <4>1. hold' = hold \/ hold' = NoHold
        BY <3>1 DEF MainPage, MainConsumes, FaderMoves, FaderLost, ListTouched, OpensSettings,
               OpensPresets, BlackoutTapped, OpensPrecision, FaderTaken, ButtonPressed, MainRests,
               MainTurn, Own, MainStays, MainFrame, Consumes
      <4> QED
        BY <4>1 DEF NoHold
    <3>2. CASE ValuePages
      BY <3>2 DEF ValuePages, ValueConsumes, KeypadCloses, KeypadRests, ValueAdjusted,
             ValueSlides, OpensKeypad, ClosesPrecision, PrecisionRests, ValueTurn, ValuePage, Own,
             Consumes
    <3>3. CASE PresetPages
      <4>1. \/ hold' = hold \/ hold' = NoHold \/ hold' = HoldBegins("slot")
            \/ hold' = HoldBegins("save") \/ hold' = HoldBegins("clear")
            \/ hold' = [hold EXCEPT !.st = "done"] /\ hold.on = "save"
        BY <3>3 DEF PresetPages, SlotHeld, SaveHeld, SlotTapped, LoadTapped, CancelsCopy,
               ClosesPresets, GridRests, OptionsConsume, ClearHeld, CopyTapped, ClosesOptions,
               OptionsRest, GridTurn, OptionsTurn, PresetPage, Own, Consumes, GridStays, GridHold,
               ClearHolds, GridHolds, HoldEnds, HeldFor
      <4> QED
        BY <4>1 DEF NoHold, HoldBegins, Typed
    <3> QED
      BY <1>1, <3>1, <3>2, <3>3
  <2> QED
    BY <2>2, <2>3 DEF Powered
<1>2. CASE Boots
  BY <1>2 DEF Boots, Powered, NoHold
<1> QED
  BY <1>1, <1>2, PoweredBegins, PoweredFirst, PoweredSettings DEF Next

-----------------------------------------------------------------------------
(* What is shown is current, or its redraw is owed                          *)

Beneath == ~(wifi.open /\ ~wifi.restored) /\ ~(maint.open /\ ~maint.restored)

(* A page is drawn now, or remembers that it is to be drawn.                *)
LEMMA DrawnShows ==
  ASSUME NEW s, NEW redraws, NEW tone \in BOOLEAN, NEW before, Drawn(s, redraws, tone, before)
  PROVE  \/ shown' = TRUE
         \/ s = "settings" /\ "settings" \in owed'
         \/ s \in {"precision", "keypad"} /\ "precision" \in owed'
BY DEF Drawn

(* The steps of each kind of page: what they change is drawn or owed.       *)
LEMMA MainPageShown ==
  ASSUME Typed, Gestures, Shown, MainPage
  PROVE  Shown'
<1>1. Screen = "main" /\ UNCHANGED <<wifi, maint>>
  <2>1. Turn("main") /\ UNCHANGED <<wifi, maint>>
    BY DEF MainPage, MainConsumes, FaderMoves, FaderLost, ListTouched, OpensSettings,
           OpensPresets, BlackoutTapped, OpensPrecision, FaderTaken, ButtonPressed, MainRests,
           MainTurn, Own, MainStays, MainFrame, Consumes
  <2> QED
    BY <2>1, TurnAtHome DEF OwnPages
<1>2. \/ shown' = TRUE
      \/ screens' = screens /\ owed' = owed /\ (shown => shown')
      \/ screens' = screens /\ "controller" \in owed'
      \/ screens' = {"settings"} /\ "settings" \in owed'
      \/ screens' = {"precision"} /\ "precision" \in owed'
  <2>1. CASE MainConsumes \/ FaderLost \/ MainRests
    BY <2>1 DEF MainConsumes, FaderLost, MainRests, Consumes, MainStays
  <2>2. ASSUME NEW op, MainCommand(op), screens' = screens
        PROVE  screens' = screens /\ ((owed' = owed /\ (shown => shown')) \/ "controller" \in owed')
    BY <2>2 DEF MainCommand, Drained
  <2>3. CASE FaderMoves \/ FaderTaken
    <3>1. screens' = screens /\ MainCommand("fader")
      BY <2>3 DEF FaderMoves, FaderTaken, MainStays
    <3> QED
      BY <2>2, <3>1
  <2>4. CASE ListTouched
    <3>1. screens' = screens /\ owed' = owed
          /\ (shown' = TRUE \/ shown' = (shown \/ ui_mode' # ui_mode))
      BY <2>4 DEF ListTouched, MainStays
    <3> QED
      BY <3>1
  <2>5. CASE OpensSettings
    <3>1. PICK tone \in BOOLEAN : screens' = {"settings"} /\ Drawn("settings", owed, tone, FALSE)
      BY <2>5 DEF OpensSettings
    <3>2. shown' = TRUE \/ "settings" \in owed'
      BY <3>1 DEF Drawn
    <3> QED
      BY <3>1, <3>2
  <2>6. CASE OpensPrecision
    <3>1. PICK tone \in BOOLEAN : screens' = {"precision"} /\ Drawn("precision", owed, tone, FALSE)
      BY <2>6 DEF OpensPrecision
    <3>2. shown' = TRUE \/ "precision" \in owed'
      BY <3>1, DrawnShows
    <3> QED
      BY <3>1, <3>2
  <2>7. CASE OpensPresets
    BY <2>7 DEF OpensPresets, Drawn
  <2>8. CASE BlackoutTapped
    <3>1. screens' = screens /\ (UNCHANGED <<owed, shown>> \/ MainCommand("blackout"))
      BY <2>8 DEF BlackoutTapped, MainStays
    <3> QED
      BY <2>2, <3>1
  <2>9. CASE ButtonPressed
    <3>1. screens' = screens /\ (shown' = TRUE \/ MainCommand("button"))
      BY <2>9 DEF ButtonPressed, MainStays
    <3> QED
      BY <2>2, <3>1
  <2> QED
    BY <2>1, <2>3, <2>4, <2>5, <2>6, <2>7, <2>8, <2>9 DEF MainPage
<1> QED
  BY <1>1, <1>2 DEF Shown, Awaited, Screen

LEMMA SettingsPageShown ==
  ASSUME Typed, Gestures, Shown, SettingsPage
  PROVE  Shown'
<1>1. Screen = "settings" /\ UNCHANGED <<wifi, maint>>
  <2>1. InCharge(Begun) = "settings" /\ UNCHANGED <<wifi, maint>>
    BY DEF SettingsPage, PowerTouched, ResetTouched, RestartTapped, PowersOff, PowerOffTapped,
           ClosesSettings, LevelSet, SettingsRest, SettingsTurn, Own, SettingsStay, panel,
           others, Turn
  <2> QED
    BY <2>1 DEF InCharge
<1>2. \/ shown' = TRUE
      \/ screens' = screens /\ UNCHANGED <<owed, shown>>
      \/ screens' = screens /\ \E changed : Refreshed(changed)
  BY DEF SettingsPage, PowerTouched, ResetTouched, RestartTapped, PowersOff, PowerOffTapped,
         ClosesSettings, LevelSet, SettingsRest, SettingsTurn, Own, SettingsStay, panel, others
<1>3. ASSUME NEW changed, Refreshed(changed)
      PROVE  \/ shown' = TRUE \/ "settings" \in owed'
             \/ UNCHANGED <<owed, shown>>
  <2>1. \/ UNCHANGED <<owed, shown>>
        \/ \E tone \in BOOLEAN : Drawn("settings", owed \ {"revision"}, tone, FALSE)
    BY <1>3 DEF Refreshed
  <2>2. ASSUME NEW tone \in BOOLEAN, Drawn("settings", owed \ {"revision"}, tone, FALSE)
        PROVE  shown' = TRUE \/ "settings" \in owed'
    BY <2>2 DEF Drawn
  <2> QED
    BY <2>1, <2>2
<1>4. screens' = screens => Screen' = "settings"
  BY <1>1 DEF Screen
<1> QED
  BY <1>1, <1>2, <1>3, <1>4 DEF Shown, Awaited

LEMMA ValuePagesShown ==
  ASSUME Typed, Gestures, Shown, ValuePages
  PROVE  Shown'
<1>1. Screen \in {"precision", "keypad"} /\ UNCHANGED <<wifi, maint>>
  <2>1. (Turn("precision") \/ Turn("keypad")) /\ UNCHANGED <<wifi, maint>>
    BY DEF ValuePages, ValueConsumes, KeypadCloses, KeypadRests, ValueAdjusted, ValueSlides,
           OpensKeypad, ClosesPrecision, PrecisionRests, ValueTurn, ValuePage, Own, Consumes
  <2> QED
    BY <2>1, TurnAtHome DEF OwnPages
<1>2. \/ shown' = TRUE
      \/ screens' = screens /\ UNCHANGED <<owed, shown>>
      \/ /\ screens' \in {screens, screens \ {"keypad"}, screens \cup {"keypad"}}
         /\ \E s \in {"precision", "keypad"}, tone \in BOOLEAN : \E redraws, before :
            Drawn(s, redraws, tone, before)
  <2>1. CASE ClosesPrecision
    BY <2>1 DEF ClosesPrecision, Drawn
  <2>2. ASSUME NEW page, Repainted(page)
        PROVE  UNCHANGED <<owed, shown>> \/ \E tone \in BOOLEAN : Drawn(page, owed, tone, shown)
    BY <2>2 DEF Repainted
  <2>3. ASSUME NEW page, NEW after, NEW op, ValueCommand(page, after, op)
        PROVE  \E tone \in BOOLEAN : \E redraws : Drawn(after, redraws, tone, FALSE)
    BY <2>3 DEF ValueCommand
  <2>4. CASE ValueConsumes
    BY <2>2, <2>4 DEF ValueConsumes, Consumes
  <2>5. CASE KeypadCloses
    <3>1. screens' = screens \ {"keypad"}
      BY <2>5 DEF KeypadCloses
    <3>2. \/ \E tone \in BOOLEAN : Drawn("precision", owed, tone, FALSE)
          \/ ValueCommand("keypad", "precision", "ok")
      BY <2>5 DEF KeypadCloses
    <3> QED
      BY <2>3, <3>1, <3>2
  <2>6. CASE KeypadRests
    <3>1. screens' = screens
      BY <2>6 DEF KeypadRests
    <3>2. (\E tone \in BOOLEAN : Drawn("keypad", owed, tone, shown)) \/ Repainted("keypad")
      BY <2>6 DEF KeypadRests
    <3> QED
      BY <2>2, <3>1, <3>2
  <2>7. CASE ValueAdjusted \/ ValueSlides
    <3>1. screens' = screens /\ \E op : ValueCommand("precision", "precision", op)
      BY <2>7 DEF ValueAdjusted, ValueSlides
    <3> QED
      BY <2>3, <3>1
  <2>8. CASE OpensKeypad
    BY <2>8 DEF OpensKeypad
  <2>9. CASE PrecisionRests
    <3>1. screens' = screens
      BY <2>9 DEF PrecisionRests
    <3>2. (\E tone \in BOOLEAN : Drawn("precision", owed, tone, shown)) \/ Repainted("precision")
      BY <2>9 DEF PrecisionRests
    <3> QED
      BY <2>2, <3>1, <3>2
  <2> QED
    BY <2>1, <2>4, <2>5, <2>6, <2>7, <2>8, <2>9 DEF ValuePages
<1>3. CASE shown' = TRUE
  BY <1>3 DEF Shown
<1>4. CASE screens' = screens /\ UNCHANGED <<owed, shown>>
  BY <1>1, <1>4 DEF Shown, Awaited, Screen
<1>5. CASE /\ screens' \in {screens, screens \ {"keypad"}, screens \cup {"keypad"}}
           /\ \E s \in {"precision", "keypad"}, tone \in BOOLEAN : \E redraws, before :
              Drawn(s, redraws, tone, before)
  <2>1. Screen' \in {"precision", "keypad"}
    BY <1>1, <1>5 DEF Screen
  <2>2. PICK s \in {"precision", "keypad"}, tone \in BOOLEAN : \E redraws, before :
             Drawn(s, redraws, tone, before)
    BY <1>5
  <2>3. shown' = TRUE \/ "precision" \in owed'
    BY <2>2, DrawnShows
  <2> QED
    BY <2>1, <2>3 DEF Shown, Awaited
<1> QED
  BY <1>2, <1>3, <1>4, <1>5

LEMMA PresetPagesShown ==
  ASSUME Typed, Gestures, Shown, PresetPages
  PROVE  Shown'
<1>1. UNCHANGED <<wifi, maint>>
  BY DEF PresetPages, SlotHeld, SaveHeld, SlotTapped, LoadTapped, CancelsCopy, ClosesPresets,
         GridRests, OptionsConsume, ClearHeld, CopyTapped, ClosesOptions, OptionsRest, GridTurn,
         OptionsTurn, PresetPage, Own, Consumes, GridStays
<1>2. shown' = TRUE \/ UNCHANGED <<screens, owed, shown>>
  BY DEF PresetPages, SlotHeld, SaveHeld, SlotTapped, LoadTapped, CancelsCopy, ClosesPresets,
         GridRests, OptionsConsume, ClearHeld, CopyTapped, ClosesOptions, OptionsRest, GridTurn,
         OptionsTurn, PresetPage, Own, Consumes, GridStays, Painted, PresetCommand
<1> QED
  BY <1>1, <1>2 DEF Shown, Awaited, Screen

LEMMA FirstPagesShown ==
  ASSUME Typed, Covering, Shown, FirstPages
  PROVE  Shown'
<1>1. ASSUME NEW page, NEW tone \in BOOLEAN, NEW next, next = Restored(page, tone), page.open,
             Redrawn(page, tone)
      PROVE  shown' \/ (UNCHANGED <<owed, shown>> /\ (page.restored
             \/ (next.open /\ ~next.restored)))
  BY <1>1 DEF Restored, MayRestore, Redrawn
<1>2. CASE WifiOpens
  BY <1>2 DEF WifiOpens, Opened, Shown
<1>3. CASE WifiRestores
  <2>1. UNCHANGED <<screens, maint>> /\ wifi.open
    BY <1>3 DEF WifiRestores, Turn, InCharge, Screen
  <2>2. \/ UNCHANGED wifi /\ UNCHANGED <<owed, shown>>
        \/ \E tone \in BOOLEAN : wifi' = Restored(wifi, tone) /\ Redrawn(wifi, tone)
    BY <1>3 DEF WifiRestores, Unpainted
  <2>3. \/ UNCHANGED wifi /\ UNCHANGED <<owed, shown>>
        \/ shown' \/ (UNCHANGED <<owed, shown>> /\ (wifi.restored
           \/ (wifi'.open /\ ~wifi'.restored)))
    BY <1>1, <2>1, <2>2
  <2> QED
    BY <2>1, <2>3 DEF Shown, Awaited, Screen
<1>4. CASE WifiTouched
  <2>1. UNCHANGED <<screens, maint>> /\ wifi.open
    BY <1>4 DEF WifiTouched, Turn, InCharge, Screen
  <2>2. \/ UNCHANGED wifi /\ UNCHANGED <<owed, shown>>
        \/ \E tone \in BOOLEAN : wifi' = Restored(wifi, tone) /\ Redrawn(wifi, tone)
    BY <1>4 DEF WifiTouched, Unpainted
  <2>3. \/ UNCHANGED wifi /\ UNCHANGED <<owed, shown>>
        \/ shown' \/ (UNCHANGED <<owed, shown>> /\ (wifi.restored
           \/ (wifi'.open /\ ~wifi'.restored)))
    BY <1>1, <2>1, <2>2
  <2> QED
    BY <2>1, <2>3 DEF Shown, Awaited, Screen
<1>5. CASE WifiWaits
  BY <1>5 DEF WifiWaits, Watched, Typed, Overlays, Unpainted, Shown, Awaited, Screen, others
<1>6. CASE MaintenanceOpens
  BY <1>6 DEF MaintenanceOpens, Opened, Shown
<1>7. CASE MaintenanceRestores
  <2>1. UNCHANGED <<screens, wifi>> /\ maint.open
    BY <1>7 DEF MaintenanceRestores, Turn, InCharge, Screen
  <2>2. \/ UNCHANGED maint /\ UNCHANGED <<owed, shown>>
        \/ \E tone \in BOOLEAN : maint' = Restored(maint, tone) /\ Redrawn(maint, tone)
    BY <1>7 DEF MaintenanceRestores, Unpainted
  <2>3. \/ UNCHANGED maint /\ UNCHANGED <<owed, shown>>
        \/ shown' \/ (UNCHANGED <<owed, shown>> /\ (maint.restored
           \/ (maint'.open /\ ~maint'.restored)))
    BY <1>1, <2>1, <2>2
  <2> QED
    BY <2>1, <2>3 DEF Shown, Awaited, Screen
<1>8. CASE MaintenanceTouched
  <2>1. UNCHANGED <<screens, wifi>> /\ maint.open
    BY <1>8 DEF MaintenanceTouched, Turn, InCharge, Screen
  <2>2. \/ UNCHANGED maint /\ UNCHANGED <<owed, shown>>
        \/ \E tone \in BOOLEAN : maint' = Restored(maint, tone) /\ Redrawn(maint, tone)
    BY <1>8 DEF MaintenanceTouched, Unpainted
  <2>3. \/ UNCHANGED maint /\ UNCHANGED <<owed, shown>>
        \/ shown' \/ (UNCHANGED <<owed, shown>> /\ (maint.restored
           \/ (maint'.open /\ ~maint'.restored)))
    BY <1>1, <2>1, <2>2
  <2> QED
    BY <2>1, <2>3 DEF Shown, Awaited, Screen
<1>9. CASE MaintenanceWaits
  BY <1>9 DEF MaintenanceWaits, Watched, Typed, Overlays, Unpainted, Shown, Awaited, Screen, others
<1>10. CASE Wakes
  BY <1>10 DEF Wakes, Unpainted, Shown, Awaited, Screen
<1> QED
  BY <1>2, <1>3, <1>4, <1>5, <1>6, <1>7, <1>8, <1>9, <1>10 DEF FirstPages

(* What the browsers change is drawn, or owed to the page that shows it.    *)
LEMMA BeginTurnShown ==
  ASSUME Typed, Shown, BeginTurn
  PROVE  Shown'
<1>1. UNCHANGED <<screens, wifi, maint>>
  BY DEF BeginTurn
<1>2. PICK changed \in BOOLEAN : ServiceControllerChanges(changed)
  BY DEF BeginTurn
<1> DEFINE revised == Revised(settings, settings')
           redraws == owed \cup (IF changed THEN {"controller"} ELSE {})
                           \cup (IF revised THEN {"revision"} ELSE {})
           before == shown /\ ~(changed /\ Screen \notin {"settings", "options"})
                           /\ ~(revised /\ Screen = "settings")
<1>3. \/ owed' = redraws /\ shown' = before
      \/ Screen \in {"settings", "options"} /\ owed' = redraws \ {"controller"} /\ shown' = before
      \/ Drawn(Screen, redraws \ {"controller"}, FALSE, before)
  BY <1>2 DEF ServiceControllerChanges
<1>4. Drawn(Screen, redraws \ {"controller"}, FALSE, before) => shown' = TRUE
  BY DEF Drawn
<1>5. /\ owed \subseteq redraws
      /\ changed => "controller" \in redraws
      /\ revised => "revision" \in redraws
  OBVIOUS
<1>6. shown => before \/ (changed /\ Screen \notin {"settings", "options"})
      \/ (revised /\ Screen = "settings")
  <2>1. shown \in BOOLEAN /\ revised \in BOOLEAN
    BY DEF Typed, TypeOK, Revised
  <2> HIDE DEF redraws, revised
  <2> QED
    BY <2>1
<1> HIDE DEF redraws, revised
<1> HIDE DEF before
<1>7. Beneath => before \/ redraws \cap Awaited # {}
  BY <1>5, <1>6 DEF Shown, Awaited, Beneath
<1>8. Screen' = Screen /\ Awaited' = Awaited /\ Beneath' = Beneath
  BY <1>1 DEF Screen, Awaited, Beneath
<1>9. Screen \in {"settings", "options"} => "controller" \notin Awaited
  BY DEF Awaited
<1>10. CASE owed' = redraws /\ shown' = before
  BY <1>7, <1>8, <1>10 DEF Shown, Beneath
<1>11. CASE Screen \in {"settings", "options"} /\ owed' = redraws \ {"controller"}
            /\ shown' = before
  <2>1. redraws \cap Awaited = (redraws \ {"controller"}) \cap Awaited
    BY <1>9, <1>11
  <2> QED
    BY <1>7, <1>8, <1>11, <2>1 DEF Shown, Beneath
<1> QED
  BY <1>3, <1>4, <1>10, <1>11 DEF Shown

(* Every step draws what it changes, or owes it.                            *)
LEMMA ShownStep ==
  ASSUME Typed, Covering, Gestures, Shown, Next
  PROVE  Shown'
<1>1. CASE Boots
  BY <1>1 DEF Boots, Shown
<1> QED
  BY <1>1, MainPageShown, SettingsPageShown, ValuePagesShown, PresetPagesShown, FirstPagesShown,
     BeginTurnShown DEF Next

-----------------------------------------------------------------------------
(* The inductive invariant                                                  *)

LEMMA TypedStep ==
  ASSUME Typed, Covering, Next
  PROVE  Typed'
<1>1. /\ hold' \in HoldType /\ owed' \in Redraws /\ shown' \in BOOLEAN /\ asleep' \in BOOLEAN
      /\ wifi' \in Overlays /\ maint' \in Overlays
  BY HoldTyped, RedrawsTyped, AsleepTyped, CoveringStep DEF Covers
<1>2. /\ hold'.on \in {"none", "power", "reset", "slot", "save", "clear"} /\ hold'.age \in 0 .. Held
      /\ owed' \subseteq {"controller", "settings", "precision", "revision"}
      /\ {shown', asleep'} \subseteq BOOLEAN /\ hold'.left \in BOOLEAN
  BY <1>1 DEF HoldType, Redraws
<1>3. TypeOK'
  BY <1>2, AtTyped, TouchTyped, ScreensTyped, ModeTyped, DragTyped, ArmTyped, SwallowTyped,
     PhasesTyped DEF TypeOK
<1> QED
  BY <1>1, <1>3, TouchTyped, PairTyped, PhasesTyped DEF Typed, HoldType

(* The inductive invariant holds at first, and every step keeps it.         *)
LEMMA InitiallyTrue == Init => IInv
<1> SUFFICES ASSUME Init PROVE IInv
  OBVIOUS
<1>1. /\ at = "turn" /\ screens = {} /\ ui_mode = "select" /\ active = "none" /\ swallow = {}
      /\ drag = "none" /\ arm = "none" /\ pair = {} /\ owed = {} /\ shown = TRUE /\ asleep = FALSE
      /\ config = "idle" /\ maintenance = "idle"
  BY DEF Init
<1>2. touch = NoTouch /\ hold = NoHold /\ wifi = Closed /\ maint = Closed /\ did = Nothing
  BY DEF Init
<1>3. Sound(settings)
  <2>1. PICK flash \in Stores : settings = Loaded(flash)
    BY DEF Init, SettingsInit, Stores
  <2> QED
    BY <2>1, LoadedSound
<1>4. Screen = "main" /\ FullPage(Screen) = "none"
  BY <1>1 DEF Screen, FullPage
<1>5. Typed
  <2>1. hold \in HoldType /\ wifi \in Overlays /\ maint \in Overlays
    BY <1>2 DEF HoldType, NoHold, Closed, Overlays, Held
  <2>2. /\ touch.st = "none" /\ touch.age = 0 /\ touch.home = "none" /\ touch.moved = FALSE
        /\ hold.on = "none" /\ hold.age = 0 /\ hold.left \in BOOLEAN
    BY <1>2 DEF NoTouch, NoHold
  <2>3. {shown, asleep} \subseteq BOOLEAN
    BY <1>1
  <2>4. touch.age \in 0 .. Held /\ hold.age \in 0 .. Held
    BY <2>2 DEF Held
  <2>5. /\ screens \subseteq {"settings"}
           /\ swallow \subseteq {"main", "precision", "options", "wake"}
        /\ owed \subseteq {"controller", "settings", "precision", "revision"}
    BY <1>1
  <2>6. TypeOK
    BY <1>1, <2>2, <2>3, <2>4, <2>5 DEF TypeOK
  <2> QED
    BY <1>1, <2>1, <2>2, <2>6 DEF Typed, HoldType
<1>6. Covering
  BY <1>1, <1>2, <1>4 DEF Covering, Closed, WifiActive
<1>7. Gestures
  BY <1>1, <1>2 DEF Gestures, Following, Pressed, NoTouch, GestureAtHome, Nothing
<1>8. Holding
  BY <1>1, <1>2 DEF Holding, Following, NoHold, HoldIsContinuous, Nothing
<1>9. Shown
  BY <1>1 DEF Shown
<1>10. Powered
  BY <1>2 DEF Powered, NoHold
<1> QED
  BY <1>3, <1>5, <1>6, <1>7, <1>8, <1>9, <1>10 DEF IInv

LEMMA Inductive == IInv /\ [Next]_vars => IInv'
<1> SUFFICES ASSUME IInv, [Next]_vars PROVE IInv'
  OBVIOUS
<1>1. CASE Next
  <2>1. Sound(settings')
    BY <1>1, SettingsStep DEF IInv
  <2>2. Sound(settings)'
    BY <2>1
  <2>3. Covering' /\ Typed'
    BY <1>1, TypedStep, CoveringStep DEF IInv, Covers
  <2>4. Gestures' /\ Holding' /\ Shown'
    BY <1>1, GesturesStep, HoldingStep, ShownStep DEF IInv
  <2>5. Powered'
    BY <1>1, PoweredStep DEF IInv
  <2> QED
    BY <2>2, <2>3, <2>4, <2>5 DEF IInv
<1>2. CASE UNCHANGED vars
  <2> USE <1>2 DEF vars, panel, others
  <2>1. Screen' = Screen /\ (Following' <=> Following) /\ (Free' <=> Free) /\ Awaited' = Awaited
    BY DEF Screen, Following, Free, Bare, Pressed, Touched, Begun, Awaited
  <2>2. Sound(settings)'
    BY DEF IInv
  <2>3. Typed'
    BY DEF IInv, Typed, TypeOK
  <2>4. Covering'
    BY <2>1 DEF IInv, Covering, WifiActive
  <2>5. AtHome(Screen)' <=> AtHome(Screen)
    BY <2>1 DEF AtHome, Consumed, Spent, Clicked
  <2>6. Gestures'
    BY <2>1, <2>5 DEF IInv, Gestures, GestureAtHome, Begun
  <2>7. Holding'
    BY <2>1 DEF IInv, Holding, HoldIsContinuous, Pressed
  <2>9. Powered'
    BY <2>1 DEF IInv, Powered, Pressed, Touched, Begun, InCharge
  <2>8. Shown'
    BY <2>1 DEF IInv, Shown
  <2> QED
    BY <2>2, <2>3, <2>4, <2>6, <2>7, <2>8, <2>9 DEF IInv
<1> QED
  BY <1>1, <1>2

-----------------------------------------------------------------------------
(* What follows                                                             *)

(* The inductive invariant holds of every run of the panel, whatever the    *)
(* finger, the browsers, the speaker and flash do.                          *)
THEOREM PanelInductive == Spec => []IInv
BY InitiallyTrue, Inductive, PTL DEF Spec

(* What the panel or a browser is told is saved is what the next boot will  *)
(* find, also when writes to flash have failed and a preview is taken back  *)
(* (commit, cancelPreview and the persisted bits of device_settings.h).     *)
THEOREM SettingsSaved == Spec => []SavedIsStored
<1>1. IInv => SavedIsStored
  BY DEF IInv, Sound, SettingsType, SavedIsStored
<1> QED
  BY <1>1, PanelInductive, PTL

(* The pages of a Wi-Fi change and of a maintenance countdown are never     *)
(* open together, and the canvas is that of the page in charge, also after  *)
(* they have closed (active_fullscreen_page, restoreWifiPage).              *)
THEOREM PagesAreSound == Spec => []PagesSound
<1>1. IInv => PagesSound
  BY DEF IInv, Typed, Covering, PagesSound, PageOwned
<1> QED
  BY <1>1, PanelInductive, PTL

(* A gesture operates only the page on which it began: the release of the   *)
(* press that opened, closed, covered or woke a page does nothing there.    *)
THEOREM GesturesAtHome == Spec => []GestureAtHome
<1>1. IInv => GestureAtHome
  BY DEF IInv, Gestures
<1> QED
  BY <1>1, PanelInductive, PTL

(* A slot's options, SAVE, CLEAR and the reset of the credentials need one  *)
(* press that began on their button and has lasted a full hold: no time of  *)
(* an earlier press counts. The reset and the Wi-Fi power button are not    *)
(* operated by a finger that has slid, and power only by one that is down,  *)
(* for a full hold unless another page has taken over since the hold began. *)
THEOREM HoldsAreContinuous == Spec => []HoldIsContinuous
<1>1. IInv => HoldIsContinuous
  BY DEF IInv, Holding
<1> QED
  BY <1>1, PanelInductive, PTL

(* The page in charge shows the present scene and settings or a redraw of   *)
(* it is owed: none is lost to a tone, a browser or another page.           *)
THEOREM ScreenStaysCurrent == Spec => []ScreenCurrent
<1>1. IInv => ScreenCurrent
  <2> SUFFICES ASSUME IInv, at = "turn", ~Overlaid, ~shown
               PROVE  \/ owed \cap {"controller", "settings", "precision"} # {}
                      \/ "revision" \in owed /\ Screen = "settings"
    BY DEF ScreenCurrent
  <2>1. owed \cap Awaited # {}
    BY DEF IInv, Shown, Overlaid
  <2> QED
    BY <2>1 DEF Awaited
<1> QED
  BY <1>1, PanelInductive, PTL

=============================================================================
