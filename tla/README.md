# Verification of the M5Stack CoreS3 SE DMX controller

TLA+ models of the controller's firmware, model-checked with TLC on small instances, and theorems
about them that TLAPS checks for every value of the constants. Paths below are relative to the
root of the repository.

## 1. The system

The device sends (or receives) DMX512 from a touch panel and from browsers connected to its own
Wi-Fi access point. Four actors run concurrently:

- the **owner task**, Arduino's `loop()` (`src/src.cpp:740-944`): it owns the scene, the presets,
  the command queue and every call into the DMX driver. In each turn it polls the transport, then
  maintenance, then the browsers' inbox, then the command queue, then the page shown;
- the **UART interrupt handler** of the patched `esp_dmx` library, which feeds the frame under way;
- the **HTTP task** of ESP-IDF, which runs the WebSocket sessions and the work items queued to it;
- the **network worker**, which owns the radio and the credentials and wakes every 20 ms.

Two more act without a schedule: the UART, which shifts slots out while locks are held, and the
power, which may go at any time.

### Components

| Component | Source | State | Operations | Correct when |
|---|---|---|---|---|
| Transmitter | `patches/esp_dmx_v202/*`, `scripts/esp_dmx_tx_patch.py` | phase, result, attempt, slots queued, two packet buffers, UART registers | interrupt handler, poll, start, cancel, write, change of mode | COMPLETE means the whole packet left the line; frames follow breaks; the right interrupt is armed; every attempt ends |
| DmxTransport | `src/dmx_transport.*` | latest packet, barrier ring, five generation counters, retry state, mode wanted | `stage`, `requestSender`, `poll`, `serviceTx`, `receiverReady` | barriers reach the line once, in order, before anything newer; bounded retries; the port can be left |
| Preset storage | `include/preset_archive_store.h`, `src/preset_store.h` | two banks and a selector in NVS | load, save, erase, replace | whole collections only, true answers, through power cuts |
| DmxController | `src/dmx_controller.*` | working packet, blackout and its snapshot, provenance, preset revision, staged archive | channel edits, blackout, load/save/copy/clear, export and import, reset | blackout restores its entry; provenance is true; an import overwrites nothing newer |
| CommandDispatcher | `src/command_dispatcher.*` | FIFO of 32 commands, sender active or not | `submit`, `process`, `executeLocal` | scene and line agree; nothing is half applied; the queue moves |
| DeviceMaintenance | `include/device_maintenance.h`, `include/maintenance_transport.h` | phase, countdown, zero frames sent | request, cancel, local, poll | a restart happens on a dark, released line, or is given up in time |
| Wi-Fi credential transaction | `include/wifi_credential_transaction.h` | the record and an undo journal in NVS | execute, recover | no interrupted change survives a boot; the verdict is true |
| Wi-Fi configuration authority | `include/wifi_configuration.h` | proposal, proposer, expiry, what is shown | propose, approve, cancel, dismiss, poll | what is shown is what the radio has; an approved change ends |
| Device settings | `include/device_settings.h` | brightness, timeout, volume; what flash is known to hold; a preview and its owner | set, preview, commit, cancel | what is shown as saved is what the next boot finds |
| WebSocket bridge | `src/websocket_bridge.cpp` | 4 clients with outboxes of 8, an inbox of 16, one command in flight | open, close, receive, ownerPoll, completed | every request answered once, to its asker; a browser shows what was announced; archive sessions keep their owner |
| Network lifecycle | `src/network_service.cpp` | phase, power intent, the job, sessions, stations | launch, requestEnabled, worker, work items | nothing reused after a failed teardown; no stale work item or list; a request settles |
| Touch user interface | `src/view_sender.h` | page shown, overlays, holds, armed taps, redraws owed | one turn of the page in charge | a gesture works on its own page only; holds are held; no redraw is lost; the canvas has one owner |
| Web client | `web/src/js/*` | command queue, mirrored state | connect, send, apply events | resynchronises after any loss |

HTTP policy, the wire formats, the archive format, the SoftAP policy, the drawing code, the
diagnostics and the build scripts are stateless, decide nothing, or run on the host; they and the
web client are listed with the reason in `PROJECT.json`.

### How they interact

```
panel --executeLocal--+                                 +--> PresetStore --> NVS
                      v                                 |
browser -> bridge -> CommandDispatcher -> DmxController-+
                      | admission, publication
                      v
DeviceMaintenance -> DmxTransport -> driver calls -> transmitter <- interrupt, UART
                                      (shared under the port lock)

browser -> bridge -> WifiConfiguration -> network worker -> credential transaction -> NVS, radio
```

Hard behaviours, all listed with their lines under `hazards` in `PROJECT.json`: the UART's latch
between two register reads of a routine that holds the lock; statuses polled, then used after the
driver has moved; barriers across retries and mode changes; wrap-around of attempt and generation
numbers; failing calls and power cuts inside the two NVS protocols; commands still queued when a
restart is committed to; a restart's deadline against a stuck line; a browser that is dropped
and replaced while its request is in flight; work items of the HTTP task that outlive the job they
belong to; a gesture, a hold or a redraw that outlives its page.

## 2. The modules

```
MCDmxTx ---- DmxTx ------- implements ---> DmxDriver
                                              ^ EXTENDS
MCDmxTransport ------------------------- DmxTransport --- implements ---> TransportStaging
                                              ^ EXTENDS                        ^ INSTANCE
MCDeviceMaintenance ------------------- DeviceMaintenance                      |
MCCommandDispatcher ----------------------------------------------- CommandDispatcher
                                                                               | INSTANCE
MCDmxController -- DmxController --- implements -----------------------> LiveScene
MCPresetStore ---- PresetStore ----- implements ---> PresetRegister
MCWifiCredentials - WifiCredentials
MCWebSocketBridge - WebSocketBridge
MCNetworkService -- NetworkService -- EXTENDS --> WifiConfiguration
MCSenderView ------ SenderView ------ EXTENDS --> DeviceSettings
```

Every module writes on the same levels as the code: an action is one call (or one step between
two points where somebody else can act), and `map` in `PROJECT.json` gives the lines of each
definition. History variables (`frame`, `line`, `owed`, `entered`, `dark`, `owes`, `hold.left`, ...) only
record what happened and never guard an action. `X_Something` next to a definition `X` is a
plausible bug in it: exchanging the two makes a property fail, as the list of mutants records.

**DmxTx** is the patched transmitter. `tx` is `dmx_tx_state_t`, `uart` the registers, `lock`
and `pc` who holds the port lock and where in its routine. Each read of a register is a step, so
the UART (`UartShift`, `UartIdle`) and the clock move between any two of them, also under the lock.
The fill is `FillCheck`, `FillWrite`, `FillAfter`; the poll `PollDone`, `PollAdvance`; starting is
split where the code releases the lock to copy the packet (`StartDecide`, `StartCommit`).
Abstractions: the FIFO and the shift register are one queue; TX_DONE latches with the last slot;
the time read at the start of a poll is not stale within it; the frame size asked for is always
the full frame; the RS-485 clash flag, receiving and driver deletion are left out.

**DmxDriver** is what this promises its owner: write, start, set mode, and attempts that end by
themselves, complete or aborted. The reasons an attempt fails for are one.

**DmxTransport** adds `DmxTransport` on top of it. The driver moves between any two of its calls
(`DriverMoves`), so each call of `poll` and `serviceTx` is a step with `pc` naming the next one.
`MayRefuse` says which driver calls may fail for no known reason: the interface allows it. The
ring is a sequence; `GenMax` plays UINT64_MAX; consecutive failures saturate at `MaxFailed`, where
the code stops; the time of the next retry is a Boolean.

**TransportStaging** is what stagers see of it: `canStage` is truthful, the last packet staged is
the one kept on the line, the ring is bounded and emptied by leaving. It takes generations as
inexhaustible; close to 2^64 the code accepts less.

**PresetStore** goes down to the key-value calls of a publication: erase, commit, write, commit,
read back, select, commit, resolve. `view` is what calls read now, `maybe` what a boot may find. A
call can fail before or after its effect; a blob can be stored wrong. NVS is taken to keep the
order of writes. CRC and layout are `valid()` or not (`Bad`). Saving what is stored already writes
nothing and answers `"same"` (the code returns success without a commit).
**PresetRegister** is the atomic register with answers ok, failed and uncertain.

**DmxController** has one action per operation, since each runs to its end in the owner task.
Packets are taken whole: `SetChannels` stands for the three ways of editing channels, whose
arithmetic is not modelled. Storage answers follow `PresetRegister`. The contents of a discarded
archive are not tracked; `TokenMax` and `RevisionMax` bound the two counters.

**LiveScene** is what remains for those who watch the live packet: presets, provenance and
archives are forgotten, a load may bring any packet.

**CommandDispatcher** composes the two abstract contracts as the sender's view wires them:
`Admitted` is `admitDmx`, `Publishes` and `Apply` are `apply`, `EnterSender` and `SetupEnds` are
`view_sender_t::setup` around its `executeLocal`. Setup happens once a boot, since `loop` of the
sender's view never returns; `MaintenanceCommits` is `setSenderActive(false)` after a restart was
committed to, and `MaintenanceStages` what DeviceMaintenance then does to the transport. `process`
executes commands one by one; each is a step, with `pc` keeping the rest of the task out.
`InFlight` is how many remote commands the queue's producer keeps in it: the bridge keeps 1
(`in_flight_`), the class would take 32; the theorems hold for any number up to `QueueCapacity`.
Tickets and result statuses are in the bridge's model, payload checks are left out; an import is
one of `Presets`, which may be refused.

**DeviceMaintenance** extends DmxTransport, unabstracted, with the owner's loop (`turn`: poll,
maintain, application), `DeviceMaintenance` and `MaintenanceTransport`. A restart needs three zero
frames staged as barriers, one after the other, each seen completed, and then a released port.
Time is `due`. Requests refused because something else is busy are steps that change nothing. The
original power-off sequence is external: it may return, which the code answers with `failed`. The
scene changes only while no maintenance is active, as `loop()` has it. `AppGens` bounds the packets
the application stages meanwhile.

**WifiCredentials** is the undo journal around a change of `ap1`, with `prepare` at the next boot
and a factory reset. A store call and its verifying read are one step (one task uses these
records). Calls fail before or after their effect, reads fail, a write can store something wrong
and report success; an NVS blob write is all or nothing to a power cut. The device is set up
already at `Init`. Wi-Fi may be turned on again without a restart after a change whose rollback
failed, as `requestEnabled` allows. Two histories keep track of it: `resumed` says that this has
happened, `unowed` is what a boot may come back with because a change was then staged over a
journal that named another record.

**WebSocketBridge** is `Bridge` between the HTTP task and the owner task. The lock protects the
queues only, so a call of the owner is the list `todo` of its lock sections still to come, and the
HTTP task opens, closes, receives and sends between any two of them. `Announces` is the start of
`ownerPoll` (topics, mode, presets), `Handling` its one request, `Completed` the dispatcher's
callback. A session carries two histories of the browser behind it: the answers it waits for and
what is on its screen once it has read its outbox. A slot is used again by the next browser with a
new generation. The three topics, the dispatcher's verdicts and the scene change as they like.
JSON, the sending in slices and the diagnostics are left out: an event leaves its outbox or its
session is dropped.

**WifiConfiguration** maps the state of the authority to its next state, one operator per call.
**NetworkService** is everybody who calls it: the browsers, the panel, the owner's poll, and the
worker's job. `pc` is the worker's place in `runNetwork` and `wifiChange`; each driver call may
fail; `held` is what is acquired. A change of credentials is cut where the code waits or calls:
stage, retire, restart, probe, promote, and back. The HTTP task runs work items in the order in
which they were queued, `Retires` and `Retired` being the two lock sections of `wifiRetire` around
its sends; the recheck and the closing of the sessions are one step, because the HTTP task is not
preempted by the worker. A work item stays queued past the worker's deadline, for nothing removes
it. The power intent is written between two steps (`PowerRequested`, `PowerWritten`), with the
worker going on meanwhile. A hold that switches the power is taken to be shorter than a change of
phase it did not see (`Target`). Stations are one station; its events are delivered late. What the
journal goes through is WifiCredentials; here it succeeds or fails. The sweep of idle sessions only
appears as a step that may fail to be queued.

**DeviceSettings** is the engine of the three settings: what is in force, what is owed to flash,
what flash is known to hold, and a browser's preview with what it took the place of. A write may
fail before or after its effect; writes of several keys touch different records, so `Commits` is one
set of outcomes whatever their order. **SenderView** is the panel, in the turns of `loop()`: a turn
begins with the sensor, the browsers' commands and the redraws they cause (`BeginTurn`), then the
page in charge takes the touch. There is one action per thing a page may do with it. `at` separates
the two halves, since a browser's change falls between the sample and its use. A touch is where it
came down, on which page (`home`), for how long, and whether it moved; a page that gets a touch
begun elsewhere may find any of its controls under the finger. Time is counted in whole holds: a
second of SAVE is one step of the clock that a turn may take or not. `hold.left` is a history: another
page has taken over since the hold began. Tones start and end in any
turn, first taps expire in any turn. `did` and `shown` are histories: what the step did for the
finger, and whether the page underneath shows the present scene and settings (the highlight of an
armed button, the countdown's seconds and the battery are not part of that). The two holds of the
Wi-Fi buttons exclude one another and are one record with the others; positions, scrolling, the
keypad's digits and drawing are left out.

## 3. The runs

| Run | Question | Bounds |
|---|---|---|
| `tx` | Is a completed frame whole, framed, armed, ended; does the driver's contract hold? | frames of 3 slots over a FIFO of 2, 1 tick a frame, attempts modulo 3 |
| `transport` | Barriers, counters, retries, mode changes, call order; does the staging contract hold? | 3 generations with wrap-around, ring of 2, 2 failures, every driver call may be refused |
| `transport_live` | Does every barrier and every request to leave get an end? | 2 generations, ring of 2, refused starts |
| `store` | Is a publication atomic and its answer true? | 3 collections, both banks |
| `controller` | Provenance, blackout, imports; does the scene's contract hold? | 2 presets, 2 packets, one preset revision beyond the first, 1 token |
| `dispatcher` | Do scene and line agree, does anything queued outlive a restart's commitment, does the queue move? | 2 packets, queue of 3, budget 1, ring of 2, 2 in flight |
| `maintenance` | Is a restart dark and quiet, or given up? | 4 generations, 1 staged by the application, ring of 2, refused starts |
| `wifi` | What remains of a change's promises through failures, power cuts and Wi-Fi turned on again? | 2 custom records and the factory one |
| `bridge` | Who is answered, who is told what, whose archive session is it? | 2 slots, inbox of 1, outboxes of 2, 1 request of a browser at a time, 2 generations, 1 change of the scene and topics, 2 archive sessions |
| `network` | Does the worker settle, conclude, release before it acquires again; are items and lists current? | 2 records, 1 session, 2 changes, 1 station event under way |
| `panel` | What may a gesture do, is the page shown current, whose canvas is it, what is stored? | 1 setting of 2 values, 1 browser, a hold is 1 unit of time, one event from outside in a turn |
| `wifi_twice` | Does the journal's promise hold of every change? It does not (section 6) | as `wifi` |

Why these bounds suffice for the cases of interest. *tx*: three slots over a FIFO of two force a
second fill, which is where fills and the latch race; attempts modulo 3 wrap. *transport*: a ring
of 2 gets full, drops on leaving, and holds a newer barrier behind the one in flight; three
generations wrap while old ones are completed. *store*: alternating between the two banks needs
three publications, which an unbounded number of operations allows. *controller*: two presets allow
overwriting the loaded one or the other. *dispatcher*: two edges fill the ring, and a third
command waits. *maintenance*: three zero frames plus one packet of the application, as a barrier
or not, before them. *wifi*: two candidates distinguish the interrupted change from the one before
it. *bridge*: two browsers are one that asks and one that replaces or listens; an outbox of 2
overflows within one poll; one change is enough for a snapshot to be older than an announcement;
both browsers may begin an archive session, so that one import can complete when the other's session
could be there; the first also sends its chunks and commits, the second sends commands and asks for
a topic; the generations allow either to be replaced once. *network*: two changes are a job and a
newer one that an old item can be taken for; one station is enough for a list that is older than an
event. *panel*: the settings are independent but for the one preview, so one of two values can be
changed, previewed, taken back and fail to be stored. `Settled` and `Unsettling` keep the edits of
settings apart from gestures that do not touch them; `Timed` and `Followed` tell time and movement
where a page asks for them.

`CHECK_DEADLOCK FALSE` is said in `dispatcher` and `maintenance`, since after a restart was
committed to, or executed, the system really stops; in `bridge` and `network` because their bounded
numbers of sessions, changes and events run out.

**Fairness.** *tx*: whoever holds the lock goes on, the owner finishes a start it began and
polls, and time passes; nothing is assumed of the UART or the interrupt. *transport_live*: the
owner polls and services in every turn of `loop()`, the driver's attempts end (that is
`AttemptEnds`), the retry time comes. *dispatcher*: `loop()` calls `process` in every turn (strong,
since other owner calls come between turns), calls run to their end, and the transport carries
barriers until it stops, which is `BarrierResolved`. `QueueMoves` claims nothing once the
transport has stopped: with a full ring, a blackout edge and all behind it are then held until
the device restarts. *maintenance*: the loop goes round and the deadline comes; the driver may stand
still for ever, since `CommitmentEnds` must not depend on it. *network*: the scheduler runs worker,
HTTP task and owner again and again, and a write to flash ends. Nothing is assumed of the browsers,
the panel, the radio or any call's success.

## 4. What the properties say

- *DmxTx*: `CompleteMeansWhole`, `FrameFollowsBreak`, `InterruptArmed`, `AttemptEnds`,
  `ImplementsDriver`.
- *DmxTransport*: `Bookkeeping` (types, `HealthOrdered`: the counters maintenance compares never
  overtake each other, `RetryBudget`), `RingIsOwed` (no barrier is lost or sent twice),
  `CompletedMeansCarried`, `BarriersFirst`, `DriverBelieved` (`ReceiverReadyTrue`, and
  `CallsInOrder`: no stale status leads to a call out of order), `BarrierResolved`, `SenderLeaves`,
  `ImplementsStaging`.
- *PresetStore*: `ImplementsRegister`, which implies `Recoverable` (both are proved).
- *DmxController*: `Provenance`, `BlackoutRestores` (a step that leaves blackout puts the packet of
  its entry back to work, whatever was edited, loaded, saved or imported meanwhile; only the sender's
  reset leaves it otherwise), `ImportOverwritesNothing`, `ImplementsScene`.
- *CommandDispatcher*: `OutputIsScene` (`SceneIsStaged`, `NeverTornApart`), `CommitmentIsDark` (once a
  restart is committed to, a blackout edge that waited for the ring, and all behind it, change nothing,
  and only zeros are staged), `QueueMoves`.
- *DeviceMaintenance*: `RestartSafe` (types, `RestartDark`, `RestartQuiet`), `CommitmentEnds`.
- *WifiCredentials*: `NothingLost`, `VerdictTrue`, `RadioSound` (types, `ScreenIsRadio`).
  `NeverPromoted` is what the header promises, and false (section 6). `NothingLost` is what remains
  true: a boot may also come back with the record that a change found when it was staged over a journal
  still owed (`unowed`), but never with that change's own candidate. Both allow two cases: once the
  erasure of the journal has been asked for and failed, the candidate may come back, and a second fault
  in the rollback after that may leave no valid record. After Wi-Fi was turned on again following a
  failed rollback (`resumed`), and until a restart or a change that is done, `VerdictTrue` speaks of
  "done" only and `ScreenIsRadio` says nothing.
- *WebSocketBridge*: `EveryRequestAnswered` (no session waits for an answer that is not under way,
  and gets none that it did not ask for), `BrowsersServed` (limits, and `BrowsersInformed`: a
  browser that has read its events shows what was last announced), `SessionUndisturbed` (an archive
  session is moved on or ended by a request of its own browser, handled or completing, or by the poll
  that finds it over; without `in_flight_` a late import would end its successor's).
- *NetworkService*: `NothingReused`, `RetirementIsCurrent`, `StationsTrue`, `SnapshotSound`
  (types, and `SnapshotTrue`: the authority shows the credentials that the access point was given),
  `PowerSettles`, `ChangeConcluded`. The last leaves out a change that was *abandoned* (section 7).
- *SenderView*: `GestureAtHome`, `HoldIsContinuous` (section 7), `ScreenCurrent`, `PagesSound`
  (types, and `PageOwned`: the canvas belongs to the page in charge); *DeviceSettings*:
  `SavedIsStored`, checked with the panel and a browser as its callers.

Type invariants are checked as part of the property named above where one is, and proved for
every module that section 5 names.

## 5. What is proved

For every value of the constants that satisfies the modules' assumptions:

- **DmxTxProofs**. `IInv` = `TypeOK` and `Control` (who may be where under the lock, and which
  interrupts are on between routines), `Accounting` (slots out plus slots in the FIFO are the slots
  queued; a FIFO that ran dry in mid-frame has latched TX_DONE, which nobody clears before it is
  looked at), `Framing` (a port ready to send finished its frame in this mode or owes a break) and
  `Outcome`. `CompleteMeansWhole` is not inductive: it needs `Accounting`, which in turn needs to
  know which routine runs. Theorems: `Inductive`, `TypeCorrect`, `CompletionIsSound`,
  `FramingIsSound`, `ArmingIsSound`, and `TxImplementsDriver`, step by step from the same
  invariant.
- **ControllerAndStoreProofs**. The store's `StoreIInv` = `TypeOK`, `Recoverable`, `Aside` (until the
  selector is written, the work is on the other bank) and `Selecting` (what the steps around the one
  visible write know). Theorems: `StoreInductive`, `StoreTypeCorrect`, `AlwaysRecoverable`,
  `StoreImplementsRegister`; in the refinement only the selector's write takes effect, and `ok` is
  answered only after its commit. The controller's `IInv` = `ControllerTypeOK`, `Provenance`,
  `Snapshot` (during blackout, what it saved is what was there at its entry) and `Staged` (a preset
  changed since the staging has moved the revision past the archive's base). `BlackoutRestores` is
  proved of the step that leaves blackout, from `Snapshot`. Theorems: `ControllerInductive`,
  `ControllerTypeCorrect`, `ProvenanceIsTrue`, `ExitRestoresEntry`, `ImportIsConditional`, `ControllerImplementsScene`.
- **CommandDispatcherProofs**. `IInv` = `DispatcherTypeOK`, `Modes` (an active sender is wanted by
  the transport and no restart is committed; outside sender mode the ring is empty), `Synced`,
  `NothingBefore` (nothing is queued before the sender is set up, so setup's reset finds room in the
  ring and nothing of the queue gets ahead of it) and `SetupDark`. Theorems: `DispatcherInductive`,
  `DispatcherTypeCorrect`, `StagedIsScene`, `AdmissionSuffices` and with them `ChangesReachTheLine`;
  `QueuedCommandsStayDark`, by which step may follow a commitment.
- **DmxTransportProofs**. `IInv` = `TypeOK`, `Following` (a port that is not ready works on the
  attempt the transport follows, and neither has left the other behind), `Calling` (what a poll saw
  of the driver still holds at the call that rests on it, however the driver has moved since),
  `Counted`, `Ring` (generations ascend, an attempt under no barrier is older than every barrier
  in the ring, a port that is to receive owes nothing), `Paying` (the ring is what is owed, or the
  line has just carried its head), `CompletedMeansCarried` and `Budget`. None of the five checked
  invariants is inductive: `RingIsOwed` needs `Paying`, which needs `PlainOlder` inside `Ring` to
  know that a completion does not pay for a barrier it did not carry; the retry budget needs to
  count the lost attempt that no poll has seen yet. Theorems: `TransportInductive`, `BooksAreKept`,
  `NoBarrierIsLost`, `CompletionIsTrue`, `PollsAreNotStale`, `OldestOwedGoesFirst`, and
  `StagingIsImplemented`, so that what CommandDispatcherProofs shows over `TransportStaging` holds
  over this transport.
- The second half of **DmxTransportProofs** is the restart (DeviceMaintenance). `TransportSteps`
  shows that a step of the maintenance is a step of the transport or a stutter of it, so the
  transport's `IInv` is used as it stands. On top: `Placed` (how far the turn is), `Dimmed` (from the first zero frame on nothing
  else is staged, in the ring, or started, so the history `dark` is never set back) and `Quiet`.
  Theorems: `MaintenanceInductive`, `RestartIsSafe`.
- **WifiCredentialsProofs**. `IInv` = `TypeOK`, `Owed`, `AtRest` (what is stored while no change is
  under way), `Told`, and what is known in the boot (`Booting`), in a rollback (`Undoing`), before
  the journal is certain (`Staging`) and after (`Executing`). The store is seen through `maybe`, the
  contents a boot may find: `Alone` says that a power cut changes nothing, `Settled` that it changes
  nothing that matters. Theorems: `CredentialsInductive`, `NoChangeIsHalfDone`, `VerdictsAreTrue`,
  `RadioRunsOnARecord`. They hold of all that the code allows, Wi-Fi turned on again after a failed
  rollback included: a boot then returns one of `Returns` = `owes \cup unowed`, and what the
  properties exempt they exempt by the histories of section 2. `NeverPromoted`, which knows no
  `unowed`, is false (section 6).
- **WebSocketBridgeProofs**. `IInv` = `Types` (with `SectionOK`: an answer is the last section of its
  call, and goes to the generation that asked) and `Distinct`, `Pending`, `EveryRequestAnswered`,
  `TellsTrue`, `Informed`, `Caches`, `ImportOwned`. `EveryRequestAnswered` counts, for each session,
  its requests in the inbox, in flight and in the sections still to come against the answers it waits
  for. It is not inductive by itself: slots are used again, so it needs `Distinct` (no two sessions
  share a generation) and `Pending` (a request on its way names the slot of its session if that is
  there still, and the request queued by an opening is alone and precedes the others). The proof has
  the outcome of the owner's turn as a whole (`OwnerOutcome`), of a lock section (`PublishOne`) and of
  the HTTP task (`HttpOutcome`), and shows each part of the invariant for the three of them.
  `BrowsersServed` speaks only of a browser when nothing is left to be told; `Informed` says of any
  moment that what a session follows it shows already or a section still to come tells it, `TellsTrue`
  that such a section tells what is last announced, and a channel's event, useful only on the scene
  before it, comes first and finds that scene on every screen; `Caches` that the presets announced are
  the stored ones unless they are to be read again. `SessionUndisturbed` needs `ImportOwned`: the import
  in flight is of the archive session there is, or there is none. Theorems: `BridgeInductive`,
  `EveryRequestIsAnswered`, `BrowsersAreServed`, `SessionIsUndisturbed`. The run has two browsers, an inbox of
  1, outboxes of 2, two archive sessions and one change; the theorems have any of these.
- **NetworkServiceProofs**. `IInv` = `Typed` and three parts that meet nowhere else: `Layered` (what
  the worker holds at each of its steps, and that a fault leaves it at rest), `Heard` (what will be
  believed of the station once its events are delivered; a list still to be applied is not older
  than what was heard) and `Transacted` (a busy job is the one the authority applies, until its
  verdict), with `SnapshotTrue`. `SnapshotTrue` needs `Transacted` for the moment of the promotion,
  which changes the credentials while the authority still shows the old ones; `StationsTrue` needs
  the order in which the teardown releases radio and handler. Theorems: `NetworkInductive`,
  `AcquiredInOrder`, `RetiredForTheChange`, `StationsAreCounted`, `SnapshotsAreSound`.
- **SenderViewProofs**, the panel together with its settings. `IInv` has seven parts.
  `Sound(settings)`: what flash is relied upon to hold it does hold; a preview was begun when nothing
  was owed to flash, and the value it took the place of is in flash if it was saved. `Typed`.
  `Covering`: each of the two pages that come first remembers the page it covers, and opens in the
  turn in which it is due, so they keep one another out. `Gestures`: a finger that is down is at
  home on the page in charge, or the rest of its gesture is consumed there, or it has outlasted
  the hold of CLEAR and can no longer be a tap. `Holding`: a hold is never older than the press on
  its button, and one that was left behind is dropped before another press can reach that button.
  `Powered`: as long as no other page has taken over, the Settings page follows the press on the Wi-Fi
  power button in every turn, so that hold is not older than its press either.
  `Shown`: what is not drawn is owed, to the page that will look for it. The checked invariants are
  not inductive: `GestureAtHome` and `HoldIsContinuous` only speak of a step that acts, and
  `ScreenCurrent` only of a panel that no other page covers, while what it will find beneath has
  been decided long before. Each part has a lemma for each kind of page and for the
  beginning of a turn. Theorems: `PanelInductive`, `SettingsSaved`, `PagesAreSound`,
  `GesturesAtHome`, `HoldsAreContinuous`, `ScreenStaysCurrent`. The run has one setting of two values
  and one browser; the theorems have any.

The assumptions are those the modules name: `TxAssumption`, `TransportAssumption` and the like give
the constants their kind, `BridgeAssumption` numbers the slots and lets an outbox hold at least the
two events of a greeting, `CredentialsAssumption` says that a damaged or absent record is no record,
`NetworkAssumption` that the credentials in flash are credentials, and `SettingsAssumption` that
there is a setting and a value, and that no value is the mark of what is not known.

**Only model-checked**: liveness (`AttemptEnds`, `BarrierResolved`, `SenderLeaves`, `QueueMoves`,
`CommitmentEnds`, `PowerSettles`, `ChangeConcluded`), since the prover handles neither fairness nor
ENABLED. Every invariant, every action property and every refinement that a passing run checks is
stated by a theorem.

## 6. Finding

`wifi_twice`: `include/wifi_credential_transaction.h:5-6` says "One durable undo journal. Until
journal erasure commits, boot restores the exact previous ap1 bytes [...]. Never promotes an
interrupted candidate." `stage` (lines 54-59) overwrites a journal that is still owed. If a change
fails after `ap1` was written and its rollback fails too, the journal is what saves the old record
at the next boot, as the comment says. But the failed rollback leaves Wi-Fi down, the operator can
turn it on again from the panel and begin another change: its journal names the unpromoted candidate
as the previous record, and a boot then restores that. The run checks `NeverPromoted`, the promise as
the header makes it; `wifi` checks `NothingLost`, which says what is true of all changes.

## 7. What the models found besides, what is not modelled, and the plan

Modelling turned up behaviour that contradicts no document well enough to be a finding, or that is
harmless; the models contain it as it is.

- *Abandoned changes* (`src/network_service.cpp:594-599`, `808-810`, `878-892`). The worker looks at
  the job only inside its loop, but `begin` takes one whenever the phase is READY. A change approved
  after the worker's last look, with the power being switched off in the same moment or the loop
  being left for a failure, stays queued: the authority then remains in its applying phase, every
  further proposal is refused, and the panel keeps the page of the change, until the next boot.
  `ChangeConcluded` without its exception `Abandoned` is violated by exactly these behaviours.
- Generation numbers of jobs are not told apart once nobody asks for them any more; `wifiRetire`
  clears `sweep_pending` although another sweep may be queued. Both are harmless.
- Holds (`src/view_sender.h:3821-4216`). SAVE, CLEAR and the long press of a slot test where the
  finger *came down* (`tp.base_x`), which does not change while it is down. The branches below the
  comments "Finger moved away from the original slot." (3846), "Sliding away cancels the destructive
  action." (3952) and "Moving the finger away cancels the pending save." (4142) are therefore not taken
  for a finger that slides away: the hold completes all the same. They, like the reset of the Wi-Fi
  credentials, may also complete with the sample in which the finger is lifted. `HoldIsContinuous` says
  what remains true: one press, begun on that control, for the whole time; only the reset and the power
  button of Wi-Fi are cancelled by a slide (`~touch.moved`). There is no run that shows the three
  comments violated: a touch of the model keeps the control it came down on and whether it moved, and
  not how far, so it does not tell a finger that moved within the button from one that left it.
- The hold of the Wi-Fi power button (`2448-2481`) is not ended when another page takes over. If the
  finger is lifted there, a fresh press in the very turn after that page has closed completes the hold
  at once. `HoldIsContinuous` exempts exactly this case, `hold.left`, from the full time, and holds it
  to the rest: that press is down on that button and has not moved.
- The sender's view is never left: its `loop` always returns true, and so does the receiver's. The code
  that would follow (`close`, back to the choice of the mode in `src.cpp`) is not reached, and the
  models have no action for it.
- Power Off by two taps does not ask whether a setting is still owed to flash (`1967-1993`); the
  setting is then lost, which `SavedIsStored` allows, because it was not shown as saved.

Not modelled: see section 1 and `components`. HTTP requests and pages, the wire formats and the
archive format are parsing and formatting without state; the web client would be a model of its own
against `WebSocketBridge`'s events; `src/view_receiver.h` only reads and draws; `src/logo_sender.h`
is a bitmap; the diagnostics observe and decide nothing. Of the transmitter, receiving and
driver deletion are left out, of the network service pings, idle limits and memory limits, of the
panel everything that is geometry or drawing.

What is left: of the safety properties nothing, and the seven liveness properties would need a prover
that handles fairness. Next models: the web client against `WebSocketBridge`'s events, and the
receiving side of the transmitter.
