----------------------------- MODULE SenderView -----------------------------
(***************************************************************************)
(* The touch panel while the device is a sender (view_sender.h), in the    *)
(* turns of the owner task (loop in src.cpp). A turn reads the touch       *)
(* sensor, serves the browsers, redraws what they have changed, and hands  *)
(* the touch to the one page in charge; the pages of a maintenance         *)
(* countdown and of a Wi-Fi change come before all others.                 *)
(*                                                                         *)
(* A control is named, its place and looks are left out. A page that       *)
(* follows a touch begun elsewhere may find any control of its own under   *)
(* the finger. Time is counted in whole holds; a tone may be playing in    *)
(* any turn, and any window of a double tap may be over.                   *)
(***************************************************************************)
EXTENDS DeviceSettings

VARIABLES
  at,           (* what the turn does next: "turn" (it begins) or "page"    *)
  touch,        (* M5.Touch.getDetail(): see Touches                        *)
  screens,      (* settings_screen, precision_editor_screen, and so on      *)
  ui_mode,      (* "select" or "value"                                      *)
  active,       (* active_fullscreen_page                                   *)
  wifi, maint,  (* the state of the two pages that come before all others   *)
  swallow,      (* which gestures are being consumed until their release    *)
  drag,         (* what follows the finger: the faders, settings_drag_mode  *)
  hold,         (* the protected button that is held; left is a history:    *)
                (* another page has been in charge since the hold began     *)
  arm,          (* the button that waits for its second tap                 *)
  pair,         (* PresetDoubleTap                                          *)
  owed,         (* the redraws that wait for the speaker or for their page  *)
  shown,        (* the page underneath shows the present state              *)
  asleep,       (* display_sleeping                                         *)
  config,       (* the phase of the Wi-Fi change                            *)
  maintenance,  (* the phase of DeviceMaintenance                           *)
  did           (* what this step did for the finger, and on which page     *)

panel == <<screens, ui_mode, active, wifi, maint, swallow, drag, hold, arm, pair, owed, shown, asleep>>
others == <<config, maintenance, settings>>
vars == <<at, touch, panel, others, did>>

-----------------------------------------------------------------------------
(* The touch sensor                                                         *)

Pages == {"main", "settings", "precision", "keypad", "grid", "options", "wifi", "maintenance", "asleep"}

NoTouch == [st |-> "none", home |-> "none", on |-> "none", age |-> 0, moved |-> FALSE]

Held == 1       (* the time of a hold that a page waits for                 *)

Pressed == touch.st \in {"begin", "down"}            (* isPressed           *)
Begun == touch.st = "begin"                          (* wasPressed          *)
Clicked == touch.st = "click"                        (* wasClicked          *)
Touched == touch.st # "none"                         (* state: also of an end *)

Screen ==
  IF "settings" \in screens THEN "settings"
  ELSE IF "precision" \in screens THEN IF "keypad" \in screens THEN "keypad" ELSE "precision"
  ELSE IF "preset" \in screens THEN IF "options" \in screens THEN "options" ELSE "grid"
  ELSE "main"

(* The page that the loop hands a touch to, in the order of its tests.      *)
InCharge(begun) ==
  IF maintenance # "idle" \/ maint.open THEN "maintenance"
  ELSE IF config \in {"approval", "applying"} \/ wifi.open THEN "wifi"
  ELSE IF "wake" \in swallow \/ (asleep /\ begun) THEN "asleep"
  ELSE Screen

Controls(page) ==
  CASE page = "main"        -> IF ui_mode = "select" THEN {"list", "settings", "blackout", "preset", "else"}
                                                         ELSE {"list", "edit", "fader", "else"}
    [] page = "settings"    -> {"power", "reset", "restart", "poweroff", "back", "level", "else"}
    [] page = "precision"   -> {"back", "value", "adjust", "slider"}
    [] page = "keypad"      -> {"back", "ok", "digit"}
    [] page = "grid"        -> {"slot", "load", "save", "back"}
    [] page = "options"     -> {"copy", "clear", "back"}
    [] page = "wifi"        -> {"ok", "cancel", "close"}
    [] page = "maintenance" -> {"cancel", "else"}
    [] page = "asleep"      -> {"else"}

Older(age, time) == IF age + time > Held THEN Held ELSE age + time

(* A bound: edits of the settings begin while their page is shown and no     *)
(* other control is touched; until all of them are stored again, and at     *)
(* their defaults, the panel is not used for anything else, is not left     *)
(* alone, and a Wi-Fi change begins only during the panel's own edit.       *)
Settled ==
  settings.saved = Keys /\ settings.preview.owner = NoBrowser /\ \A k \in Keys : settings.level[k] = Default
Unsettling == Controls("settings") \ {"power", "reset", "restart"}

(* M5.update: a finger comes down, moves, stays, or is lifted. It is a      *)
(* click if it neither moved nor was seen to stay. An end may be followed   *)
(* by a beginning with no sample in between. How long a finger stays is     *)
(* told where a page waits for it, how it moves where a page shows it.      *)
Lowered ==
  \E on \in Controls(InCharge(TRUE)) :
    /\ Settled \/ InCharge(TRUE) \in {"wifi", "maintenance", "asleep"} \/ on \in Unsettling
       \/ (on = "settings" /\ Screen = "main")
    /\ touch' = [st |-> "begin", home |-> InCharge(TRUE), on |-> on, age |-> 0, moved |-> FALSE]

Timed == InCharge(FALSE) \in {"settings", "grid", "options"}
Followed == InCharge(FALSE) \notin {"wifi", "maintenance", "asleep"}
Stays == touch.home = InCharge(FALSE)

Finger(st, age, moved) ==
  touch' = [st |-> st, age |-> age, moved |-> moved,
            home |-> IF Stays THEN touch.home ELSE "left", on |-> IF Stays THEN touch.on ELSE "none"]

Moves(time) ==
  \E moved \in {touch.moved} \union (IF Followed THEN {TRUE} ELSE {}) :
    Finger("down", IF Timed THEN Older(touch.age, time) ELSE touch.age, moved)

Lifted(time) ==
  \E st \in (IF touch.moved \/ touch.age = Held THEN {"end"} ELSE IF Timed THEN {"click"} ELSE {"click", "end"}) :
    Finger(st, IF Timed THEN Older(touch.age, time) ELSE touch.age, touch.moved)

Sampled(time) ==
  IF Pressed THEN Moves(time) \/ Lifted(time)
  ELSE touch' = NoTouch \/ Lowered

-----------------------------------------------------------------------------
(* Drawing: tone says that the speaker is playing, which puts a redraw off  *)

FullPage(s) == IF s \in {"settings", "precision", "keypad"} THEN s ELSE IF s = "main" THEN "none" ELSE "preset"

(* setActiveFullscreenPage: a redraw owed by a page is forgotten with it.   *)
Turned(page, redraws) ==
  redraws \ ((IF page # "settings" THEN {"settings"} ELSE {})
             \union (IF page \notin {"precision", "keypad"} THEN {"precision"} ELSE {}))

(* The page is not drawn while a tone is playing, and nobody remembers it.   *)
Drawn_Forgotten(s, redraws, tone, before) ==
  owed' = Turned(FullPage(s), redraws) \ {"settings", "precision"} /\ shown' = (before \/ ~tone)

(* The page s is drawn, at once or when the tone has ended.                 *)
Drawn(s, redraws, tone, before) ==
  IF s \in {"settings", "precision", "keypad"} /\ tone
  THEN /\ owed' = Turned(FullPage(s), redraws) \union {IF s = "settings" THEN s ELSE "precision"}
       /\ shown' = before
  ELSE /\ owed' = Turned(FullPage(s), redraws) \ {"settings", "precision"}
       /\ shown' = TRUE

-----------------------------------------------------------------------------
(* A turn begins: sensor, browsers, redraws                                 *)

NoHold == [on |-> "none", age |-> 0, st |-> "idle", left |-> FALSE]
Nothing == [page |-> "none", op |-> "none"]
Closed == [open |-> FALSE, released |-> FALSE, restored |-> FALSE, prev |-> "none"]

Init ==
  /\ at = "turn" /\ touch = NoTouch /\ screens = {} /\ ui_mode = "select" /\ active = "none"
  /\ wifi = Closed /\ maint = Closed /\ swallow = {} /\ drag = "none" /\ hold = NoHold
  /\ arm = "none" /\ pair = {} /\ owed = {} /\ shown = TRUE /\ asleep = FALSE
  /\ config = "idle" /\ maintenance = "idle" /\ did = Nothing
  /\ SettingsInit

WifiActive == config \in {"approval", "applying"}

(* What setConfigurationBusy says, before the browsers are served           *)
ConfigBusy == maintenance # "idle" \/ maint.open \/ (~WifiActive /\ wifi.open)

(* A countdown may begin over the page of a Wi-Fi change.                   *)
MaintenanceBusy_NoWifi == settings.pending # {} \/ maint.open

(* ApplicationMaintenanceBackend::busy                                      *)
MaintenanceBusy ==
  settings.pending # {} \/ maint.open \/ WifiActive \/ wifi.open

(* What the rest of the device may do to the panel within one turn          *)
Quiet == UNCHANGED <<config, maintenance, settings>>

Proposed ==
  /\ config = "idle" /\ ~ConfigBusy /\ (Settled \/ settings.pending # {})
  /\ config' = "approval" /\ UNCHANGED <<maintenance, settings>>

(* The proposal expires or is cancelled; the worker succeeds or fails.      *)
ConfigMoves ==
  /\ \/ config = "approval" /\ config' = "idle"
     \/ config = "applying" /\ config' \in {"idle", "failed"}
  /\ UNCHANGED <<maintenance, settings>>

MaintenanceMoves ==
  /\ \/ maintenance = "idle" /\ ~MaintenanceBusy /\ maintenance' = "countdown"
        /\ settings' = CancelPreview(settings)
     \/ maintenance = "countdown" /\ maintenance' \in {"idle", "committed"} /\ UNCHANGED settings
  /\ UNCHANGED config

SettingsMove ==
  /\ maintenance # "committed" /\ (Screen = "settings" \/ ~Settled)
  /\ hold.on = "none" /\ touch'.on \in {"none"} \union Unsettling
  /\ settings' \in Edited(settings)
  /\ UNCHANGED <<config, maintenance>>

(* A bound: one of these in a turn, or a change of the scene                *)
Others(changed) ==
  \/ Quiet /\ (changed => maintenance # "committed")
  \/ ~changed /\ (Proposed \/ ConfigMoves \/ MaintenanceMoves \/ SettingsMove)

(* The revision of the settings has changed: the Settings page compares it. *)
Revised(s, t) == <<s.level, s.saved>> # <<t.level, t.saved>>

(* serviceControllerChanges, of a browser's command or of an older one: the *)
(* pages of Settings and of a preset's options show nothing of the scene.   *)
MayService ==
  maintenance' = "idle" /\ ~maint.open /\ config' \notin {"approval", "applying"} /\ ~wifi.open

ServiceControllerChanges(changed) ==
  LET revised == Revised(settings, settings')
      redraws == owed \union (IF changed THEN {"controller"} ELSE {})
                      \union (IF revised THEN {"revision"} ELSE {})
      before == shown /\ ~(changed /\ Screen \notin {"settings", "options"})
                      /\ ~(revised /\ Screen = "settings")
  IN  \/ owed' = redraws /\ shown' = before
      \/ /\ "controller" \in redraws /\ MayService
         /\ IF Screen \in {"settings", "options"}
            THEN owed' = redraws \ {"controller"} /\ shown' = before
            ELSE Drawn(Screen, redraws \ {"controller"}, FALSE, before)

BeginTurn ==
  /\ at = "turn" /\ at' = "page"
  /\ \E time \in 0 .. (IF (Pressed /\ Timed) \/ hold.on # "none" THEN Held ELSE 0) :
       /\ Sampled(time)
       /\ hold' = [hold EXCEPT !.age = IF hold.on = "none" THEN 0 ELSE Older(@, time)]
  /\ \E changed \in BOOLEAN : Others(changed) /\ ServiceControllerChanges(changed)
  /\ did' = Nothing
  /\ UNCHANGED <<screens, ui_mode, active, wifi, maint, swallow, drag, arm, pair, asleep>>

-----------------------------------------------------------------------------
(* The page in charge takes its turn                                        *)

Turn(page) == at = "page" /\ InCharge(Begun) = page /\ at' = "turn"
Did(page, op) == did' = [page |-> page, op |-> op]
DidNothing == did' = Nothing
On(page, control) ==
  Touched /\ control \in (IF touch.home = page THEN {touch.on} ELSE Controls(page))

HeldFor(button) == hold.on = button /\ hold.st = "armed" /\ hold.age = Held
(* A press does not start the time of a hold that was left behind.          *)
HoldBegins_Stale(button) ==
  [on |-> button, age |-> IF hold.on = button THEN hold.age ELSE 0, st |-> "armed", left |-> FALSE]
HoldBegins(button) == [on |-> button, age |-> 0, st |-> "armed", left |-> FALSE]

(* executeLocal first performs the browsers' commands that still wait, and  *)
(* those leave a redraw behind.                                             *)
Drained(drained) == IF drained THEN owed \union {"controller"} ELSE owed

-----------------------------------------------------------------------------
(* The pages that come before all others                                    *)

Opened == [open |-> TRUE, released |-> ~Touched, restored |-> FALSE, prev |-> active]
Watched(page) == [page EXCEPT !.released = @ \/ ~Touched]

TakesOver(name) ==
  /\ drag' = IF drag \in {"fader", "slider"} THEN "none" ELSE drag
  /\ pair' = {}
  /\ arm' = IF arm \in {"restart", "poweroff"} THEN "none" ELSE arm
  /\ active' = name
  /\ owed' = Turned(name, owed)
  /\ hold' = [hold EXCEPT !.left = (hold.on # "none")]       (* it is not ended *)
  /\ UNCHANGED shown

(* restoreWifiPage, restoreMaintenancePage                                  *)
MayRestore(page, tone) == page.restored \/ ~tone
Restored_AtOnce(page, tone) == IF MayRestore(page, tone) THEN Closed ELSE page
Restored(page, tone) ==
  IF ~MayRestore(page, tone) THEN page
  ELSE IF Touched THEN [page EXCEPT !.restored = TRUE]
  ELSE Closed
Redrawn(page, tone) ==
  IF page.restored \/ tone THEN UNCHANGED <<active, owed, shown>>
  ELSE active' = page.prev /\ owed' = owed \intersect {"revision"} /\ shown' = TRUE

NoGesture == UNCHANGED <<drag, pair, arm>>
Unpainted == UNCHANGED <<active, owed, shown>>

WifiOpens ==
  /\ Turn("wifi") /\ config # "idle" /\ ~wifi.open
  /\ wifi' = Opened /\ TakesOver("wifi") /\ DidNothing
  /\ asleep' = FALSE /\ UNCHANGED <<touch, screens, ui_mode, maint, swallow, others>>

WifiRestores ==
  /\ Turn("wifi") /\ config = "idle"
  /\ \E tone \in BOOLEAN : wifi' = Restored(wifi, tone) /\ Redrawn(wifi, tone)
  /\ NoGesture /\ DidNothing
  /\ asleep' = FALSE /\ UNCHANGED <<touch, screens, ui_mode, maint, swallow, hold, others>>

(* OK, CANCEL and CLOSE; an approval may come too late or not be taken.     *)
WifiOperation(op) ==
  \/ op = "cancel" /\ config = "approval" /\ config' = "idle"
  \/ op = "ok" /\ config = "approval" /\ config' \in {"applying", "failed", "idle"}
  \/ op = "close" /\ config = "failed" /\ config' = "idle"

WifiTouched ==
  /\ Turn("wifi") /\ wifi.open /\ wifi.released /\ Begun
  /\ \E op \in {"ok", "cancel", "close"} :
       On("wifi", op) /\ WifiOperation(op) /\ Did("wifi", op)
  /\ \E tone \in BOOLEAN :
       IF config' = "idle" THEN wifi' = Restored(wifi, tone) /\ Redrawn(wifi, tone)
       ELSE UNCHANGED wifi /\ Unpainted
  /\ NoGesture
  /\ asleep' = FALSE
  /\ UNCHANGED <<touch, screens, ui_mode, maint, swallow, hold, maintenance, settings>>

WifiWaits ==
  /\ Turn("wifi") /\ config # "idle" /\ wifi.open
  /\ wifi' = Watched(wifi)
  /\ NoGesture /\ Unpainted /\ DidNothing
  /\ asleep' = FALSE /\ UNCHANGED <<touch, screens, ui_mode, maint, swallow, hold, others>>

MaintenanceOpens ==
  /\ Turn("maintenance") /\ maintenance # "idle" /\ ~maint.open
  /\ maint' = Opened /\ TakesOver("maintenance") /\ DidNothing
  /\ asleep' = FALSE /\ UNCHANGED <<touch, screens, ui_mode, wifi, swallow, others>>

MaintenanceRestores ==
  /\ Turn("maintenance") /\ maintenance = "idle"
  /\ \E tone \in BOOLEAN : maint' = Restored(maint, tone) /\ Redrawn(maint, tone)
  /\ NoGesture /\ DidNothing
  /\ asleep' = FALSE /\ UNCHANGED <<touch, screens, ui_mode, wifi, swallow, hold, others>>

MaintenanceTouched ==
  /\ Turn("maintenance") /\ maint.open /\ maint.released /\ Begun
  /\ maintenance = "countdown" /\ On("maintenance", "cancel")
  /\ maintenance' = "idle" /\ Did("maintenance", "cancel")
  /\ \E tone \in BOOLEAN : maint' = Restored(maint, tone) /\ Redrawn(maint, tone)
  /\ NoGesture
  /\ asleep' = FALSE
  /\ UNCHANGED <<touch, screens, ui_mode, wifi, swallow, hold, config, settings>>

MaintenanceWaits ==
  /\ Turn("maintenance") /\ maintenance # "idle" /\ maint.open
  /\ maint' = Watched(maint)
  /\ NoGesture /\ Unpainted /\ DidNothing
  /\ asleep' = FALSE /\ UNCHANGED <<touch, screens, ui_mode, wifi, swallow, hold, others>>

(* The touch that wakes the display is consumed up to its release.          *)
Wakes ==
  /\ Turn("asleep")
  /\ asleep' = FALSE
  /\ swallow' = IF Touched THEN swallow \union {"wake"} ELSE swallow \ {"wake"}
  /\ NoGesture /\ Unpainted /\ DidNothing
  /\ UNCHANGED <<touch, screens, ui_mode, wifi, maint, hold, others>>

-----------------------------------------------------------------------------
(* The pages of the sender itself                                           *)

Own(page) ==
  /\ Turn(page)
  /\ asleep' \in {asleep} \union (IF Begun \/ ~Settled THEN {} ELSE {TRUE})     (* auto-off *)
  /\ UNCHANGED <<wifi, maint, config>>

Tapped(page, control) == Clicked /\ On(page, control)

(* A gesture that is consumed to its end on the page                        *)
Consumes(page, name) ==
  /\ Own(page) /\ name \in swallow
  /\ swallow' = IF Touched THEN swallow ELSE swallow \ {name}
  /\ DidNothing /\ UNCHANGED <<touch, screens, ui_mode, active, drag, hold, arm, maintenance, settings>>

-----------------------------------------------------------------------------
(* The main page                                                            *)

MainFrame == UNCHANGED <<maintenance, settings, pair>>
MainStays == UNCHANGED <<screens, active, hold>> /\ MainFrame

MainConsumes ==
  Consumes("main", "main") /\ UNCHANGED <<pair, owed, shown>>

(* The command of a control, applyMainCommand: older commands of browsers   *)
(* come first, and what they changed is drawn later.                        *)
MainCommand(op) ==
  \E drained \in BOOLEAN :
    /\ Did("main", op) /\ owed' = Drained(drained) /\ shown' = (shown /\ ~drained)

(* captured_fader_touch: a fader follows the finger that took it, only.     *)
FaderMoves ==
  /\ Own("main") /\ drag = "fader" /\ Pressed
  /\ MainCommand("fader")
  /\ MainStays /\ UNCHANGED <<touch, ui_mode, swallow, drag, arm>>

(* That finger is lifted. Another may be on the panel: it is consumed.      *)
FaderLost ==
  /\ Own("main") /\ drag = "fader"
  /\ drag' = "none"
  /\ \/ ~Pressed /\ UNCHANGED <<touch, swallow>>
     \/ swallow' = swallow \union {"main"}
        /\ touch' = [st |-> "down", home |-> "left", on |-> "none", age |-> 0, moved |-> FALSE]
  /\ DidNothing /\ MainStays /\ UNCHANGED <<ui_mode, arm, owed, shown>>

MainTurn == Own("main") /\ "main" \notin swallow /\ drag # "fader"

(* A tap in the list opens the value of a channel or returns from it; a     *)
(* flick of the list returns, too.                                          *)
ListTouched ==
  /\ MainTurn /\ Touched /\ On("main", "list")
  /\ IF Clicked
     THEN Did("main", "select") /\ ui_mode' \in {"select", "value"} /\ shown' = TRUE
     ELSE /\ DidNothing
          /\ ui_mode' \in {ui_mode} \union (IF touch.moved THEN {"select"} ELSE {})
          /\ shown' = (shown \/ ui_mode' # ui_mode)
  /\ MainStays /\ UNCHANGED <<touch, swallow, drag, arm, owed>>

(* resetPrecisionState is part of opening a page.                           *)
OpensSettings ==
  /\ MainTurn /\ ui_mode = "select" /\ Tapped("main", "settings")
  /\ screens' = {"settings"} /\ active' = "settings"
  /\ swallow' = swallow \ {"precision"} /\ drag' = "none" /\ arm' = "none" /\ hold' = NoHold
  /\ Did("main", "settings")
  /\ \E tone \in BOOLEAN : Drawn("settings", owed, tone, FALSE)
  /\ MainFrame /\ UNCHANGED <<touch, ui_mode>>

OpensPresets ==
  /\ MainTurn /\ ui_mode = "select" /\ Tapped("main", "preset")
  /\ screens' = {"preset"} /\ active' = "preset"
  /\ swallow' = swallow \ {"precision", "options"} /\ drag' = "none" /\ pair' = {} /\ hold' = NoHold
  /\ Did("main", "preset")
  /\ Drawn("grid", owed, FALSE, FALSE)
  /\ UNCHANGED <<touch, ui_mode, arm, maintenance, settings>>

(* handleBlackoutTap: the second of two taps toggles.                       *)
BlackoutTapped ==
  /\ MainTurn /\ ui_mode = "select" /\ Tapped("main", "blackout")
  /\ \/ arm' = "blackout" /\ DidNothing /\ UNCHANGED <<owed, shown>>
     \/ arm = "blackout" /\ arm' = "none" /\ MainCommand("blackout")
  /\ MainStays /\ UNCHANGED <<touch, ui_mode, swallow, drag>>

OpensPrecision ==
  /\ MainTurn /\ ui_mode = "value" /\ Tapped("main", "edit")
  /\ screens' = {"precision"} /\ active' = "precision"
  /\ swallow' = swallow \union {"precision"} /\ drag' = "none"
  /\ Did("main", "edit")
  /\ \E tone \in BOOLEAN : Drawn("precision", owed, tone, FALSE)
  /\ MainFrame /\ UNCHANGED <<touch, ui_mode, hold, arm>>

FaderTaken ==
  /\ MainTurn /\ ui_mode = "value" /\ Begun /\ On("main", "fader")
  /\ drag' = "fader" /\ MainCommand("fader")
  /\ MainStays /\ UNCHANGED <<touch, ui_mode, swallow, arm>>

(* The row of buttons below the display: another channel or another value,  *)
(* and the mode.                                                            *)
ButtonPressed ==
  /\ MainTurn /\ Touched /\ On("main", "else")
  /\ \/ ui_mode' \in {"select", "value"} /\ shown' = TRUE /\ owed' = owed /\ Did("main", "button")
     \/ ui_mode = "value" /\ ui_mode' = ui_mode /\ MainCommand("button")
  /\ MainStays /\ UNCHANGED <<touch, swallow, drag, arm>>

(* Without a tap, and where there is no control. An armed tap may expire.   *)
MainRests ==
  /\ MainTurn
  /\ Clicked => On("main", "else")
  /\ ~(ui_mode = "value" /\ Begun /\ On("main", "fader"))
  /\ arm' \in {arm} \union (IF ui_mode = "select" THEN {"none"} ELSE {})
  /\ DidNothing /\ MainStays /\ UNCHANGED <<touch, ui_mode, swallow, drag, owed, shown>>

-----------------------------------------------------------------------------
(* The Settings page                                                        *)

(* The end of its turn: the edits are stored when the finger is lifted, and *)
(* the page is drawn if any of it has changed.                              *)
Stored(s) == settings' \in IF Touched THEN {s} ELSE CommitPending(s)

Refreshed(changed) ==
  LET due == changed \/ owed \intersect {"settings", "revision"} # {} \/ Revised(settings, settings')
  IN  IF due THEN \E tone \in BOOLEAN : Drawn("settings", owed \ {"revision"}, tone, FALSE)
      ELSE UNCHANGED <<owed, shown>>

SettingsTurn == Own("settings") /\ UNCHANGED <<touch, ui_mode, swallow, pair>>
SettingsStay == UNCHANGED <<screens, active>>

PowerHeld == hold.on = "power"
PowerBegins == ~PowerHeld /\ Begun /\ On("settings", "power")

(* handleWifiPowerTouch: the button is dead while the radio is changing.    *)
PowerTouched ==
  /\ SettingsTurn /\ (PowerHeld \/ PowerBegins)
  /\ \/ PowerBegins /\ hold' \in {HoldBegins("power"), [HoldBegins("power") EXCEPT !.st = "cancelled"]}
        /\ drag' = "none" /\ DidNothing
     \/ PowerHeld /\ ~Pressed /\ hold' = NoHold /\ drag' = drag /\ DidNothing
     \/ PowerHeld /\ Pressed /\ drag' = drag
        /\ IF touch.moved \/ ~On("settings", "power")
           THEN DidNothing /\ hold' = [hold EXCEPT !.st = IF @ = "armed" THEN "cancelled" ELSE @]
           ELSE IF HeldFor("power") THEN Did("settings", "power") /\ hold' = [hold EXCEPT !.st = "done"]
           ELSE DidNothing /\ hold' = hold
  /\ Stored(settings) /\ Refreshed(hold' # hold)
  /\ SettingsStay /\ UNCHANGED <<arm, maintenance>>

(* handleWifiResetTouch                                                     *)
ResetHeld == hold.on = "reset"
ResetBegins == ~PowerHeld /\ Begun /\ On("settings", "reset")

ResetTouched ==
  /\ SettingsTurn /\ ~PowerBegins /\ (ResetHeld \/ ResetBegins)
  /\ \/ ResetBegins /\ hold' = HoldBegins("reset") /\ drag' = "none" /\ DidNothing
     \/ ~ResetBegins /\ ~Touched /\ hold' = NoHold /\ drag' = drag /\ DidNothing
     \/ ~ResetBegins /\ Touched /\ drag' = drag
        /\ IF touch.moved \/ ~On("settings", "reset")
           THEN DidNothing /\ hold' = [hold EXCEPT !.st = IF @ = "armed" THEN "cancelled" ELSE @]
           ELSE IF HeldFor("reset") THEN Did("settings", "reset") /\ hold' = [hold EXCEPT !.st = "done"]
           ELSE DidNothing /\ hold' = hold
  /\ Stored(settings) /\ Refreshed(hold' # hold)
  /\ SettingsStay /\ UNCHANGED <<arm, maintenance>>

NoWifiHold == ~PowerHeld /\ ~ResetHeld

(* The second of two taps restarts, if nothing else is going on.            *)
RestartTapped ==
  /\ SettingsTurn /\ NoWifiHold /\ Tapped("settings", "restart")
  /\ Stored(settings)
  /\ \/ arm' = "restart" /\ DidNothing /\ UNCHANGED maintenance /\ Refreshed(TRUE)
     \/ /\ arm = "restart" /\ arm' = "none" /\ Did("settings", "restart") /\ Refreshed(FALSE)
        /\ maintenance' \in {maintenance} \union (IF MaintenanceBusy THEN {} ELSE {"committed"})
  /\ SettingsStay /\ UNCHANGED <<drag, hold>>

(* ... or powers off, which nothing holds up.                               *)
PowersOff ==
  /\ at = "page" /\ InCharge(Begun) = "settings"
  /\ NoWifiHold /\ Tapped("settings", "poweroff") /\ arm = "poweroff"
  /\ at' = "off" /\ Did("settings", "poweroff")
  /\ UNCHANGED <<touch, panel, others>>

PowerOffTapped ==
  /\ SettingsTurn /\ NoWifiHold /\ Tapped("settings", "poweroff")
  /\ arm' = "poweroff" /\ DidNothing
  /\ Stored(settings) /\ Refreshed(TRUE)
  /\ SettingsStay /\ UNCHANGED <<drag, hold, maintenance>>

ClosesSettings ==
  /\ SettingsTurn /\ NoWifiHold /\ Tapped("settings", "back")
  /\ screens' = {} /\ active' = "none" /\ drag' = "none" /\ arm' = "none" /\ Did("settings", "back")
  /\ owed' = Turned("none", owed) \ {"revision"} /\ shown' = TRUE
  /\ UNCHANGED <<hold, maintenance, settings>>

(* The press and the direction of the drag                                  *)
Grabbed ==
  IF Begun THEN IF On("settings", "level") THEN {"pending"} ELSE {"scroll"}
  ELSE IF Touched /\ touch.moved /\ drag = "pending" THEN {"level", "scroll"}
  ELSE {drag}

(* A slider follows the finger, a tap sets it; what is set is not stored.   *)
LevelSet ==
  /\ SettingsTurn /\ NoWifiHold /\ Touched
  /\ \E grabbed \in Grabbed :
       \/ grabbed = "level" /\ drag' = grabbed
       \/ grabbed = "pending" /\ Clicked /\ drag' = "none"
  /\ \E k \in Keys, v \in Levels :
       \E s \in (IF settings.level[k] = v THEN {settings} ELSE SetLevel(settings, k, v, FALSE)) : Stored(s)
  /\ Did("settings", "level") /\ Refreshed(FALSE)
  /\ SettingsStay /\ UNCHANGED <<hold, arm, maintenance>>

(* No touch, a scroll, or a press that may yet become a drag                *)
SettingsRest ==
  /\ SettingsTurn /\ NoWifiHold /\ ~PowerBegins /\ ~ResetBegins
  /\ Clicked => \E control \in {"level", "else"} : On("settings", control)
  /\ \E grabbed \in Grabbed :
       /\ ~(grabbed = "level" /\ Touched) /\ ~(grabbed = "pending" /\ Clicked)
       /\ drag' = IF Touched THEN grabbed ELSE "none"
  /\ arm' \in {arm, "none"}
  /\ DidNothing /\ Stored(settings)
  /\ \E scrolled \in BOOLEAN : Refreshed(scrolled \/ arm' # arm)
  /\ SettingsStay /\ UNCHANGED <<hold, maintenance>>

-----------------------------------------------------------------------------
(* The value of a channel, and its keypad                                   *)

ValuePage(page) == Own(page) /\ UNCHANGED <<touch, ui_mode, hold, arm, pair, maintenance, settings>>
ValueTurn(page) == ValuePage(page) /\ "precision" \notin swallow

(* A redraw that is due is made at the end of the turn.                     *)
Repainted(page) ==
  IF "precision" \in owed THEN \E tone \in BOOLEAN : Drawn(page, owed, tone, shown)
  ELSE UNCHANGED <<owed, shown>>

ValueConsumes ==
  \E page \in {"precision", "keypad"} :
    Consumes(page, "precision") /\ UNCHANGED pair /\ Repainted(page)

(* A command, and the page drawn with what it and older commands did        *)
ValueCommand(page, after, op) ==
  /\ Did(page, op)
  /\ \E drained, tone \in BOOLEAN : Drawn(after, Drained(drained), tone, FALSE)

KeypadCloses ==
  /\ ValueTurn("keypad")
  /\ \/ Tapped("keypad", "back") /\ Did("keypad", "back") /\ \E tone \in BOOLEAN : Drawn("precision", owed, tone, FALSE)
     \/ Tapped("keypad", "ok") /\ ValueCommand("keypad", "precision", "ok")
  /\ screens' = screens \ {"keypad"} /\ active' = "precision"
  /\ swallow' = swallow \union {"precision"} /\ UNCHANGED drag

(* A digit, CLR, or a value out of range                                    *)
KeypadRests ==
  /\ ValueTurn("keypad") /\ ~Tapped("keypad", "back")
  /\ \/ Clicked /\ \E tone \in BOOLEAN : Drawn("keypad", owed, tone, shown)
     \/ Repainted("keypad")
  /\ DidNothing /\ UNCHANGED <<screens, active, swallow, drag>>

(* + and - are where the finger is, wherever it came down.                  *)
ValueAdjusted ==
  /\ ValueTurn("precision") /\ Touched /\ (On("precision", "adjust") \/ touch.moved)
  /\ drag' = IF Begun /\ On("precision", "slider") THEN "slider" ELSE drag
  /\ ValueCommand("precision", "precision", "adjust")
  /\ UNCHANGED <<screens, active, swallow>>

ValueSlides ==
  /\ ValueTurn("precision") /\ Touched
  /\ drag = "slider" \/ (Begun /\ On("precision", "slider"))
  /\ drag' = "slider"
  /\ ValueCommand("precision", "precision", "slider")
  /\ UNCHANGED <<screens, active, swallow>>

OpensKeypad ==
  /\ ValueTurn("precision") /\ Tapped("precision", "value")
  /\ screens' = screens \union {"keypad"} /\ active' = "keypad"
  /\ swallow' = swallow \union {"precision"} /\ UNCHANGED drag
  /\ Did("precision", "value")
  /\ \E tone \in BOOLEAN : Drawn("keypad", owed, tone, FALSE)

ClosesPrecision ==
  /\ ValueTurn("precision") /\ Tapped("precision", "back")
  /\ screens' = {} /\ active' = "none" /\ drag' = "none"
  /\ swallow' = (swallow \ {"precision"}) \union {"main"}
  /\ Did("precision", "back")
  /\ Drawn("main", owed, FALSE, FALSE)

(* Also a tap that chooses the step                                         *)
PrecisionRests ==
  /\ ValueTurn("precision")
  /\ Clicked => On("precision", "adjust") \/ On("precision", "slider")
  /\ ~(Begun /\ On("precision", "slider")) /\ ~(Begun /\ On("precision", "adjust"))
  /\ drag' = IF Touched THEN drag ELSE "none"
  /\ \/ Clicked /\ \E tone \in BOOLEAN : Drawn("precision", owed, tone, shown)
     \/ Repainted("precision")
  /\ DidNothing /\ UNCHANGED <<screens, active, swallow>>

-----------------------------------------------------------------------------
(* The presets: the grid and the options of a slot                          *)

PresetPage(page) == Own(page) /\ UNCHANGED <<touch, arm, drag, maintenance, settings>>
Painted(redraws) == owed' = redraws /\ shown' = TRUE
PresetCommand(page, op) == Did(page, op) /\ \E drained \in BOOLEAN : Painted(Drained(drained))

(* PresetDoubleTap: the pairs it may be left with, with whether the tap is  *)
(* the second of a pair. A tap ends where and soon after it began.          *)
Pairs ==
  LET onSlot == On("grid", "slot")
      begun == IF ~Begun THEN pair
               ELSE IF onSlot THEN pair \union {"tracking"} ELSE {}
  IN  IF "copy" \in screens THEN {<<{}, FALSE>>}
      ELSE IF "tracking" \notin begun THEN {<<begun, FALSE>>}
      ELSE {<<{}, FALSE>>}
           \union (IF Pressed THEN {<<begun, FALSE>>} ELSE {})
           \union (IF Clicked THEN {<<{"candidate"}, FALSE>>} ELSE {})
           \union (IF Clicked /\ "candidate" \in begun THEN {<<{}, TRUE>>} ELSE {})

GridTurn == PresetPage("grid")
GridStays == UNCHANGED <<screens, active, ui_mode, swallow>>

HoldEnds(page, button) == ~Begun /\ Touched /\ On(page, button) /\ HeldFor(button)

(* What the two holds of the grid become: a finger that came down elsewhere *)
(* cancels them. How far it then moves does not count.                      *)
GridHold ==
  IF Begun /\ On("grid", "slot") /\ "copy" \notin screens THEN HoldBegins("slot")
  ELSE IF Begun /\ On("grid", "save") THEN HoldBegins("save")
  ELSE IF Touched /\ hold.on # "none" /\ On("grid", hold.on) THEN hold
  ELSE NoHold

(* A slot held for long: its options, if it holds a preset, and the rest of *)
(* the gesture is consumed.                                                 *)
SlotHeld ==
  /\ GridTurn /\ "copy" \notin screens /\ HoldEnds("grid", "slot")
  /\ hold' = NoHold /\ Did("grid", "slot") /\ Painted(owed)
  /\ \E next \in Pairs : pair' = next[1]
  /\ \/ /\ screens' = screens \union {"options"} /\ swallow' = swallow \union {"options"}
        /\ UNCHANGED <<active, ui_mode>>
     \/ GridStays

SaveHeld ==
  /\ GridTurn /\ HoldEnds("grid", "save")
  /\ hold' = [hold EXCEPT !.st = "done"] /\ PresetCommand("grid", "save")
  /\ \E next \in Pairs : pair' = next[1]
  /\ GridStays

GridHolds == ~HoldEnds("grid", "slot") /\ ~HoldEnds("grid", "save") /\ hold' = GridHold

(* A tap on a slot selects it; copies to it; or, the second time, loads it. *)
SlotTapped ==
  /\ GridTurn /\ GridHolds /\ Tapped("grid", "slot")
  /\ \E next \in Pairs :
       /\ pair' = next[1]
       /\ IF "copy" \in screens
          THEN /\ screens' \in {screens, screens \ {"copy"}}
               /\ PresetCommand("grid", "copy")
          ELSE /\ screens' = screens
               /\ IF next[2] THEN PresetCommand("grid", "load") ELSE Did("grid", "select") /\ Painted(owed)
  /\ UNCHANGED <<active, ui_mode, swallow>>

LoadTapped ==
  /\ GridTurn /\ GridHolds /\ Tapped("grid", "load")
  /\ \E next \in Pairs : pair' = next[1]
  /\ PresetCommand("grid", "load") /\ GridStays

CancelsCopy ==
  /\ GridTurn /\ GridHolds /\ Tapped("grid", "back") /\ "copy" \in screens
  /\ screens' = screens \ {"copy"} /\ pair' = {}
  /\ Did("grid", "back") /\ Painted(owed)
  /\ UNCHANGED <<active, ui_mode, swallow>>

ClosesPresets ==
  /\ GridTurn /\ GridHolds /\ Tapped("grid", "back") /\ "copy" \notin screens
  /\ screens' = {} /\ active' = "none" /\ ui_mode' = "select" /\ pair' = {}
  /\ swallow' = swallow \ {"options"}
  /\ Did("grid", "back") /\ Painted(Turned("none", owed))

GridRests ==
  /\ GridTurn /\ GridHolds
  /\ Clicked => On("grid", "save")
  /\ \E next \in Pairs : pair' = next[1]
  /\ DidNothing /\ GridStays
  /\ \/ hold' # hold /\ Painted(owed)
     \/ UNCHANGED <<owed, shown>>

OptionsConsume ==
  Consumes("options", "options") /\ pair' = {} /\ UNCHANGED <<owed, shown>>

OptionsTurn == PresetPage("options") /\ "options" \notin swallow /\ pair' = {} /\ UNCHANGED <<active, ui_mode, swallow>>

ClearHeld ==
  /\ OptionsTurn /\ HoldEnds("options", "clear")
  /\ hold' = NoHold /\ screens' = screens \ {"options"}
  /\ PresetCommand("options", "clear")

ClearHolds ==
  /\ ~HoldEnds("options", "clear")
  /\ hold' = IF Begun /\ On("options", "clear") THEN HoldBegins("clear")
             ELSE IF Touched /\ hold.on = "clear" /\ On("options", "clear") THEN hold
             ELSE NoHold

CopyTapped ==
  /\ OptionsTurn /\ ClearHolds /\ Tapped("options", "copy")
  /\ screens' = (screens \ {"options"}) \union {"copy"}
  /\ Did("options", "copy") /\ Painted(owed)

ClosesOptions ==
  /\ OptionsTurn /\ Tapped("options", "back")
  /\ hold' = NoHold /\ screens' = screens \ {"options"}
  /\ Did("options", "back") /\ Painted(owed)

OptionsRest ==
  /\ OptionsTurn /\ ClearHolds
  /\ Clicked => On("options", "clear")
  /\ DidNothing /\ UNCHANGED screens
  /\ \/ hold' # hold /\ Painted(owed)
     \/ UNCHANGED <<owed, shown>>

-----------------------------------------------------------------------------
(* After a restart, or when it is switched on again                         *)
Boots ==
  /\ at = "off" \/ (at = "turn" /\ maintenance = "committed")
  /\ at' = "turn" /\ touch' = NoTouch /\ screens' = {} /\ ui_mode' = "select" /\ active' = "none"
  /\ wifi' = Closed /\ maint' = Closed /\ swallow' = {} /\ drag' = "none" /\ hold' = NoHold
  /\ arm' = "none" /\ pair' = {} /\ owed' = {} /\ shown' = TRUE /\ asleep' = FALSE
  /\ config' = "idle" /\ maintenance' = "idle" /\ did' = Nothing
  /\ settings' = Loaded(settings.flash)

MainPage ==
  \/ MainConsumes \/ FaderMoves \/ FaderLost \/ ListTouched \/ OpensSettings \/ OpensPresets
  \/ BlackoutTapped \/ OpensPrecision \/ FaderTaken \/ ButtonPressed \/ MainRests
SettingsPage ==
  \/ PowerTouched \/ ResetTouched \/ RestartTapped \/ PowersOff \/ PowerOffTapped \/ ClosesSettings
  \/ LevelSet \/ SettingsRest
ValuePages ==
  \/ ValueConsumes \/ KeypadCloses \/ KeypadRests \/ ValueAdjusted \/ ValueSlides \/ OpensKeypad
  \/ ClosesPrecision \/ PrecisionRests
PresetPages ==
  \/ SlotHeld \/ SaveHeld \/ SlotTapped \/ LoadTapped \/ CancelsCopy \/ ClosesPresets \/ GridRests
  \/ OptionsConsume \/ ClearHeld \/ CopyTapped \/ ClosesOptions \/ OptionsRest
FirstPages ==
  \/ WifiOpens \/ WifiRestores \/ WifiTouched \/ WifiWaits
  \/ MaintenanceOpens \/ MaintenanceRestores \/ MaintenanceTouched \/ MaintenanceWaits \/ Wakes

Next == BeginTurn \/ FirstPages \/ MainPage \/ SettingsPage \/ ValuePages \/ PresetPages \/ Boots

Spec == Init /\ [][Next]_vars

-----------------------------------------------------------------------------
Overlaid == maintenance # "idle" \/ maint.open \/ WifiActive \/ wifi.open

(* A gesture operates only the page on which it began: the release of a     *)
(* press that opened, closed, covered or woke a page does nothing there.    *)
GestureAtHome == did.op # "none" => touch.home = did.page

(* What is protected by a hold is done for one press, which began on that   *)
(* control and has lasted a full hold: no time of an earlier press counts.  *)
(* A slot, SAVE and CLEAR look only at where the finger came down, so one   *)
(* that slides away completes them all the same, whatever the comments in   *)
(* handlePresetSlotLongPress, ..ClearHold and ..SaveHold say. The reset of  *)
(* the credentials and the Wi-Fi power button are cancelled by a slide, and *)
(* power is not switched once the finger is lifted. Its hold alone outlives *)
(* a page that takes over (left), and then a press that begins in the very  *)
(* next turn completes it at once: nothing is said of its time there.       *)
HoldIsContinuous ==
  /\ did.op \in {"slot", "save", "clear", "reset", "power"} =>
       touch.home = did.page /\ touch.on = did.op
  /\ did.op \in {"slot", "save", "clear", "reset"} => touch.age = Held
  /\ did.op \in {"reset", "power"} => ~touch.moved
  /\ did.op = "power" => Pressed /\ (touch.age = Held \/ hold.left)

(* The page in charge shows the present scene and settings, or a redraw of  *)
(* it is owed: none is lost to a tone, a browser or another page.           *)
ScreenCurrent ==
  at = "turn" /\ ~Overlaid
    => \/ shown
       \/ owed \intersect {"controller", "settings", "precision"} # {}
       \/ "revision" \in owed /\ Screen = "settings"

(* The two pages that come before all others are never open together, and   *)
(* the canvas belongs to the page in charge: also after they have closed.   *)
PageOwned ==
  at = "turn" =>
    /\ ~(maint.open /\ wifi.open)
    /\ IF maint.open /\ ~maint.restored THEN active = "maintenance"
       ELSE IF wifi.open /\ ~wifi.restored THEN active = "wifi"
       ELSE active = FullPage(Screen)

(* The type invariant.                                                      *)
TypeOK ==
  /\ at \in {"turn", "page", "off"}
  /\ touch.st \in {"none", "begin", "down", "click", "end"} /\ touch.age \in 0 .. Held
  /\ touch.home \in Pages \union {"none", "left"}
  /\ \/ screens \subseteq {"settings"} \/ screens \subseteq {"precision", "keypad"}
     \/ screens \subseteq {"preset", "options", "copy"}
  /\ ui_mode \in {"select", "value"}
  /\ drag \in {"none", "fader", "slider", "pending", "scroll", "level"}
  /\ hold.on \in {"none", "power", "reset", "slot", "save", "clear"} /\ hold.age \in 0 .. Held
  /\ hold.left \in BOOLEAN
  /\ arm \in {"none", "blackout", "restart", "poweroff"}
  /\ owed \subseteq {"controller", "settings", "precision", "revision"}
  /\ swallow \subseteq {"main", "precision", "options", "wake"}
  /\ {shown, asleep} \subseteq BOOLEAN
  /\ maintenance \in {"idle", "countdown", "committed"}

(* The type invariant, and the canvas of the page in charge.                *)
PagesSound == TypeOK /\ PageOwned
=============================================================================
