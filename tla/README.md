# A TLA+ model of gigaset_elements_emulator

The repository replaces the cloud of Gigaset elements, which was switched off,
by a local gateway. A base station keeps talking HTTPS to "the cloud"; the
gateway (`src/gigaset_gateway/gigaset_gateway.py`, below `gg`) answers it,
publishes the end nodes to Home Assistant over MQTT, and sends commands back
through a Lua library, `gwctl`, that it makes the base load. Beside it are Lua
libraries for sensors, and tools that read and write a base's flash over UART
and put the image together that is written.

The code has few complicated algorithms and many actors: a thread per HTTPS
connection, paho's MQTT thread, several base stations, sleeping sensors,
retained documents on a broker, state files, and processes that can die at any
line. What can go wrong is in the order of steps. So the modules are state
machines, one per protocol of the program, and the properties are about what
several actors can do to each other.

## 1. The system

| Part | State it keeps | Operations | Talks to | Hard because of |
|---|---|---|---|---|
| Command queue (`gg` 2527-2807, 534-561) | `control_poll_queues`, `mqtt_control_requests`, `handled_control_ids`, `base_keys_seen`, `device_base`; `gigaset_command_state.json` | enqueue from MQTT, read the request file, route, pop on `/gwctl`, remember, save | base (gwctl polls), Home Assistant, state file | two locks, three kinds of threads, a poll that destroys what it reads, crashes |
| State files (`gg` 909-945, 2653-2673) | a file and the `.tmp` beside it | `atomic_json_write` | every module that saves | all writers share one `.tmp`; crashes |
| CRE library, reload and event commands (`gg` 2333-2512, 2675-2690, 2811-2941) | `control_serial`, `manifest_digests`, `local_address`, `control_commands_by_peer`, `pending_commands`, `sent_command_ids`; manifests, gwctl files, the command file | write the library, enter it, compare digests, ask for a reload; read the command file, choose, send and mark a command | base (events long poll), `run.sh` | no lock for the first half, runs in every connection, caches in the base |
| End-node registry and base identity (`gg` 2693-2750, 2974-3089, 1156-1420, 1928-1965, 2308-2327) | `state`, `device_base`, `base_keys_seen`, `announced`, `announced_bases`, the replay flag | record, replay, forget, delete, choose a setpoint, rename a base, reconnect | base (events), broker (retained documents) | publishes after the lock is released; one flag for all replays; a second base renames the first |
| Base controls (`gg` 388-391, 519-536, 1196-1298, 1440-1510, 3006-3089) | `alarm_modes`, `seeded_modes`, registry; `PAIR_TIMER` and `batch` in gwctl | choose a mode, pair, stop, acknowledge; reports of the base | Home Assistant, base | optimistic values, stops that were meant for another window, lost commands |
| Sensor calibration (`cre/ws02-16.lua`, `cre/ds02-134.lua`, `cre/um01-9.lua`, gwctl's `endnode`) | `state[devId]`, the marker `/tmp/gwarm.<devId>` | answer calreq, button, caldone, cal1started to cal2done; order a command or a step | sensor, user, gwctl | a sensor that sleeps, two memories of one intent, reloads, two steps that must be in two positions |
| Recovery tools (`tools/gigaset_uart_flash.py`, `_dump.py`, `repack_jffs2_4k.py`, `build_identity_preserving_image.py`) | place in the dialogue, port speed, dump file, image | load a loader, send an image, receive a dump, repack nodes into blocks, compose an image | ROM, loaders, operator | lost, damaged and late bytes; one-byte checksums; power loss; edges of blocks; the identity of the base is in its flash only |
| HTTPS parsing, TLS and certificate signing, base inventory and manifest upload, DNS, NTP, gwquiet, the rest of `run.sh`, extraction and build helpers | see `PROJECT.json`, `components` | | | input and output; section 7 |

What makes each part correct:

* queue: a request is executed once, by the base it is meant for, in the order
  given, and gets there;
* state files: never unreadable, never going back on what was saved, whoever else
  saves meanwhile;
* reload: a base that does not run the manifest on disk is told so, and none is made
  to reload for nothing; a cached library never changes under its name;
* registry: Home Assistant shows exactly what the gateway knows, under the base
  it belongs to; a button press is heard once;
* base controls: mode and alarm shown are those of the base; a window closes,
  and only for the node it was open for;
* calibration: never without the user's word, never in a position other than the
  one the word was given for; and it happens at last;
* recovery: nothing of a wrong checksum is used, what is confirmed by a fresh dump is
  right, no interruption is the end, repacking loses and moves no node, and the base
  stays itself.

`PROJECT.json` lists the hazards line by line, each with the properties that
would catch it, or with the reason why none does.

## 2. The modules

Names follow the source. An action is the code between two points at which
another actor can come in: a released lock, a write to a file, a publish, an
answer. Every module states its constants' assumptions in a named `ASSUME`; a
constant that switches an interleaving or a fault on is described with it.

Where threads race, some of what one would like to hold does not. The modules do not
switch such races off. They record in history variables the steps that spoil a
property, as narrowly as they can be told, and the property excepts what these name:
`met` and `doubt` in StateFile, `raced`, `taken` and `lost` in CreReload, `crossed`,
`missed`, `mixed` and `exposed` in DeviceRegistry, `moved` in SensorCalibration, `lost`,
`hidden` and `overtaken` in BaseControls. So a run says: this holds whatever
interleaves, but for these races; section 5 shows that each exception is needed. No
action looks at a history. A definition whose comment says "Mutant of X" is X with a plausible error; no
specification uses it, and it serves to see that the properties notice.

**ControlQueue** (with **MCControlQueue**). A connection thread is a /gwctl poll
(`client` is a base) or an event long poll (`client` is None). `PollBegin` is
`receive_request` up to the refresh; `RefreshReads` is
`_refresh_control_requests` under `command_lock` up to the first request;
`Enqueue`, `Mark`, `Save` its loop body and its end; `RefreshRaises` the
exception that an unreadable file or a refused entry makes of it; `Pop` and
`Send` the answer. `Learn`, `DeviceMoves`, `RecordBuild`, `RecordWrite` are the
other threads that save the same file, whose document is put together before it
is written. `Crash` is death and `Gateway.__init__`. A request is its id;
`DeviceOf`, `HintOf` and `Invalid` say what else routing and
`normalize_control_request` look at.

**BaseMailbox** is the abstract channel: requests are submitted, decided once
for a set of bases, owed to each, handed over in order or lost. ControlQueue
implements it under the mapping at the end of that module: owed is the answer
being sent followed by the queue.

**StateFile** is `atomic_json_write` at the level of inodes: open truncates the
shared `.tmp`, a write goes to the inode that was opened, a rename moves it. It is one
of two files: `gigaset_state.json`, whose changes and saves are one section of
`Gateway.lock` (`See`, `Forget`), or `gigaset_command_state.json`, where the ids are
remembered under `command_lock` (`Remember`) and the routes are saved by `record()`
under no lock. The document of the second is put together in two steps: `sorted(...)`
copies the ids at once (`Build`), the routes are read as they are written (`Write`).

**CreReload** (with **MCCreReload**, the entries of the command file) has
`__init__` (thread `Main`) and `note_local_address` in connection threads run the
same steps, `LibraryCheck`, `LibraryWrite`, `LibrarySave`, `LibraryCompare`,
`LibraryPatch`, `DigestCheck`, with any of them in between those of another thread.
Then `Peek`, `Send`, `MarkRead`, `MarkWrite` are the events long poll, the last two
being the list that `_mark_event_command` reads and replaces; `Hangup` is a connection
that ends. An entry of the command file (`Enter`) is refused (`Bad`) or has a `Target`,
the base that saw its device last; `Loaded` and `Matches` are
`_refresh_event_commands` and `_matches_peer`. `Restart`, possible between any two
steps, includes what `run.sh` does to the manifests. Two steps are coarser than the
code: `LibraryPatch` writes all manifests that need it and asks for their reloads at
once, and `DigestCheck` loads, compares, saves and asks at once.

**DeviceRegistry** (with **MCDeviceRegistry**, its symmetry): `Post`, `Rename`,
`Base`, `Update`, `Save`, `Publish` are `record()`; `GroupStart`, `ReplayOne`,
`ReplayEnd` the replay, at a base's first request, at each MQTT connection
(`Snapshot`), or after a base changed its key (`Retire`); `Choose` is a setpoint
from Home Assistant, `Forget` and the kind `deleted` go through `RemoveDevice`; `Assign`
is the moment `self.mqtt` is there, which paho's thread may be ahead of. Handlers of
different threads interleave at every step, the connection to the broker breaks
(`Drop`) and the gateway restarts at any of them. A device's events are a sequence, in
the order of their dictionary, one entry per sink (`Put`), sorted by name when saved
(`Sorted`); `Carries` says which topics an event of each kind is shown on. A base's key
is `base_id` while it is the only one, and its address otherwise (`BaseName`). A
discovery document has the number of the gateway start that wrote it, as the gateway
may have been updated in between, and the key of the base it names. Event numbers stand
for values, so that an old value is told from a new one. Coarser than the code:
`publish_event` is one step, document and values together, and `Rename` saves and
retires in one.

**BaseControls** is one base. `ChooseMode` and `QueueMode` are the two halves of the
mode branch of `_on_message` (shown, then queued); `PressStart` and `PressOther` the
buttons, at any moment and with nodes the gateway has not heard of yet; `Poll`, `Run`,
`PairTimer`, `Reload` are gwctl; `Announce` to `Answer` are `record()`. Its channel is
what BaseMailbox promises, so ControlQueue justifies it.

**SensorCalibration** is one sensor of either make (the libraries keep their
state per sensor): `CalDone`, `SendArmed`, `Button`, `CalReq`, `Ignore`,
`Measure` are the branches of the library's handler, `Endnode` and `CloudEvent`
those of gwctl. `Order` is any button Home Assistant has for the type, at any time
(`Buttons`), as the gateway accepts it: a ws02's `cal` and `recal`, a um01's `cfgclose`,
`cal2` and `recal`. Orders may overtake each other, as they come through two sources
and two channels. The window moves at any time too. The sensor has one event under way
at a time. What a um01 does on `recal` nobody has found out, so it forgets or does not.

**UartTools** has both tools. `RomRead`, `ProgRead`, `DumpRead` are what a tool
does with what it reads; `RomReceive`, `ProgReceive`, `Program`, `SendDump` the
chip; `Disturb`, `PowerLoss`, `Interrupt` the world; `Retry` the operator that
the tools' texts describe. `Program` may fail and still be reported as done: the
programmer compares its buffer with itself (`gigaset_uart_flash.py:19-20`,
`docs/RECOVERY.md:76-80`).

**Jffs2** is `repack_jffs2_4k.py` as an operator: `Layout` places node after node
with the tool's own arithmetic on offsets, `Valid` is its `validate`, and
`Nodes`, `Cuttable` and `ExactRun` say without it what an image holds and what
could be laid out. **Recovery** composes both with the operator of
`docs/RECOVERY.md`: dump (`Keep`), put a tree together (`MakeTree`), `Repack`,
`Build` an image from it, the firmware of a donor and the identity in the dump,
write it, dump again and `Compare`.

Theorems are in modules of their own: **ControlQueue_proofs**,
**StateFile_proofs**, **CreReload_proofs**, **DeviceRegistry_proofs**,
**SensorCalibration_proofs**, **BaseControls_proofs** and **Recovery_proofs**, and
**Recursion** has the lemmas by which recursive functions are reasoned about
(section 6).

External, modelled from how the code uses it: the base (it posts reports again
until they are answered, one at a time, confirms every mode command, and starts
in the `last_intrusion_mode` it is served), the sensor (as the documents and the
libraries' comments describe it), the broker, POSIX files,
the chip.

## 3. The runs

All pass, but for those marked *violation*, which are the findings of section 5.

| Run | Question | Instance and bounds | States |
|---|---|---|---|
| `queue_safe` | Which requests may a base get, in which order, how often? | 2 threads, 2 bases, 1 other saver, 2 file requests for one base and 1 MQTT request for any; 2 faults of crash, failed save, lost answer; threads symmetric | 5.2 M |
| `queue_live` | Is every request delivered? Is the channel the mailbox? | 2 threads, 1 base, an end node that moves, 1 good and 1 refused file request, 1 MQTT request; 1 unreadable file or failed save | 117 k |
| `queue_twice` | *violation*: is each request executed once, as the README says? | 1 base may poll again before its last poll is answered; 1 crash | |
| `state_safe` | Is a file whole, is it what a restart goes back to, does it never go back? | both files; 2 writers, 3 inodes, 1 id and 1 route or device, 2 crashes or failed writes | 2.6 M |
| `state_shared` | *violation*: does a remembered id survive a restart, as the comment at `gg` 2238 says? | the same, 1 crash | |
| `reload_safe` | Do cached names stay true, are reloads asked for only when due, and always then? | 1 base, 2 threads at once, 2 addresses, 2 serials, a changed user part, 1 restart, lost answers, 1 entry of the command file; threads and addresses symmetric | 3.7 M |
| `registry` | Does Home Assistant show what is known, and where it belongs? | 1 device, 2 bases, a connection thread and paho's at every step, kinds `state`, `inst` and `button`, 2 events and setpoints, 1 restart or broken connection, with and without `base_id`; bases symmetric | 6.3 M |
| `registry_shown` | *violation*: is the last of what is known shown, and nothing of a device that is not? | 1 base, kinds `state` and `report`, 3 events, no fault | |
| `calibration` | Only on the user's word, in the position confirmed, at last? | 2 positions, a ws02 or a um01, 2 superfluous orders, each command once on its way in each moment, 1 superfluous move, 1 reload, 4 words of the user counted | 102 k |
| `calibration_press` | *violation*: does the press after `cal_reset` calibrate, as DOCS.md says? | a ws02, 1 order, a user who presses once after it | |
| `base_controls` | Mode, alarm and window as above? | 1 node, paired long ago or not, 2 modes, 2 kinds of alarm, 2 presses, 2 changes at the base, 2 faults of crash, lost poll and CRE reload | 4.0 M |
| `recovery` | Loader and image right, success true, file systems whole, identity kept, recovery possible? | 3 ROM attempts, 4 faults; checksums a plain byte and one equal to PROG_ACK; blocks of 40 bytes, nodes of 12, 13, 16 and 28, up to 5 of them, regions of 120 bytes, sizes of 8, 120, 130 and 136 | 316 k |

Why these bounds: two of a kind (threads, bases, positions) is where two of
them first collide; a second request for one base is where order and overtaking
begin; two faults are a crash and a failure of what recovers from it. Two
events tell an old value from a new one, and one before a removal from one after it;
three are what an old value in two sinks takes. Two presses are one window that is
closed and one that must not be. Two serials are one that is forgotten in a crash and
given again. Of the words of the user four are counted: that many can be open at once.

One event loop of the registry has more in it than one run can hold, so `registry` has
one connection thread beside paho's, which is two replays, two removals, or a replay and
a post at once. Two connection threads were checked by hand, with the same
configuration changed in its constants, with one base (1.8 to 4.2 million states) and with
two bases and one event (2.2 million), and two faults with kinds `state` and `button` (20
million states): no property failed. The theorems of section 6 are for any number of
all of them. `AttachedToBase`, which is no theorem, rests on these runs.

In the recovery run four faults exceed the ROM's three attempts, and the sums are
chosen so that a checksum may be taken for a signal (`ImageSum = "PACK"`); damage
always makes of a byte one that is none of the signals nor a sum. A block of 40
bytes has room for 28 behind its cleanmarker: one node fills it to the last byte
(28), one goes in beside another (12, 16) or does not, one needs padding (13), and
one is as long as a cleanmarker without being one (12). Three blocks and up to
five nodes give a layout that fits, one that would fit another way, one that
cannot fit; 130 and 136 are sizes of no whole number of blocks, one with no room
for a cleanmarker in what is left and one with; in 8 bytes there is none at all.

`CHECK_DEADLOCK FALSE` is in `reload_safe`, `registry`, `registry_shown` and
`base_controls`, where the bounds on addresses, events and presses stop the world, and
in `recovery`, where the operator is done.

## 4. Fairness

* ControlQueue: `gwctl` arms its timer before it does anything else, so a base
  polls again and again: strong fairness of each base's polls (any thread may
  serve one). A thread that runs goes on (weak). A thread that waits for
  `command_lock` gets it in the end (strong): between two refreshes of one base
  lies a network round trip, so the lock is not taken without a gap. Nothing is
  assumed of new requests, moves, or other savers. `RequestDelivered` promises
  nothing once a refused entry is in the file.
* SensorCalibration: the base handles what it is sent and gwctl polls; the sensor
  sends its request until it is calibrated, and a um01 stores what it has begun;
  the user goes on: presses the button of a ws02 again and again (`Keen`), orders the
  steps of a um01 again if nothing comes of one, and moves it in between. Where the user
  presses once, `calibration_press` shows what is missing.
* BaseControls: only gwctl's timer for the pairing window. That this suffices is
  the point: the window closes with the gateway dead.
* Recovery: a tool reads and times out, the chip answers, the operator keeps the
  dump, tries again, dumps and compares. The line, the power and interruptions
  are not fair, only bounded; nor is it promised that an image gets built:
  `Recoverable` begins with one.

## 5. What the runs found

Disagreements of the code with its own documentation (`findings`):

1. `queue_twice`: a request is put into a poll queue (`gg` 2792-2795) before its
   id is saved (2796-2798); a poll whose own refresh is over can take and send it
   in between, and a crash there makes the next run execute it again. README.md
   says each is executed once.
2. `state_shared`: `gigaset_command_state.json` is saved by threads with no common
   lock, which share one `.tmp` (`gg` 917). One of them truncates what another is
   about to rename, the process dies, and the ids that a save had stored are gone. The
   comment at 2238-2240 says they must survive a restart, as otherwise every request
   in the file is executed again.
3. `registry_shown`, its shorter trace: `record` publishes (`gg` 3078) and the replay
   publishes (2325-2327) after the lock was released. A device deleted or forgotten in
   between comes back on the broker, and an old value may end over a newer one.
   `remove_device` (1929) promises to remove every trace.
4. `registry_shown`, its other cause: a replay publishes a device's stored events in
   the order of their dictionary (`gg` 1379), which after a restart is that of their
   names. A thermostat's `state` and `report` share the topic `setpoint`, so the older
   may come last and stays until the next report. `announce_known` (1371) promises the
   last known state. The property is the conjunction of `LastIsShown` and
   `NothingIsLeft`; the run with `NothingIsLeft` or `LastIsShown` alone shows what the
   race does to each, and with `OrderIsKept`, which excepts the race, what the order does.
5. `calibration_press`: DOCS.md:241-243 says of the press after `cal_reset` that it
   wakes the sensor and confirms its position, and that the library answers with
   `cal`. The press is the sensor's next event, so it takes the marker, delivers
   `recal` and is used up (ws02-16.lua:110-127). It takes a second press.
6. The same run, as README.md:363-364 and `gg` 275-277 say that the libraries answer
   `calreq` with `cal` by themselves, and `docs/UM01_FIRMWARE.md:171-176` shows it in a
   log of an older library (ws02-15). The libraries at hand never do (ws02-16.lua:140-165,
   ds02-134.lua:102-128), on purpose, as their comments, DOCS.md:233-236 and the
   changelog say. `OnlyOnWord` and `AsConfirmed` follow the libraries: `CalReqAnswered`,
   the library as README.md has it, breaks `AsConfirmed`.

And what the properties depend on. Each line is a constant or an exception changed in
the passing run, and what TLC then finds violated:

| Run | Changed | Violated | Why |
|---|---|---|---|
| `queue_live` | property `MqttDelivered`, `Invalid = {f1}` | `MqttDelivered` | a refused entry of the file aborts the whole refresh (2774), MQTT requests with it |
| `queue_safe`, `queue_live` | `Overlap = TRUE` | `InOrder`, `ImplementsMailbox` | two answers to one base are sent after the lock of the queue is released (2523, 3508), so the later may arrive first |
| `queue_live` | `Faults` with `"crash"` | `ImplementsMailbox` | what is decided and owed is only in memory, its id perhaps on disk |
| `state_safe` | without `Doubtful` | `FileReadable`, `RestartRestores`, `FileAdvances` | two saves of `gigaset_command_state.json` at once (918, 2663) |
| `reload_safe` | without `raced` | `CachedStaysTrue` | a thread enters in a manifest a serial that another has counted up and not yet written or saved (2352, 2358) |
| `reload_safe` | without `taken` | `AskedOnlyIfChanged` | between the new manifest (2370) and the comparison of digests (2510) another thread takes the order away or gives it as well, so it is given again |
| `reload_safe` | without `lost` | `ReloadOwed` | the digest of a base first heard after `__init__` is saved, and nobody told (2510-2512); an order is lost with the connection, in a restart, or between the read and the write of `_mark_event_command` (2487, 2935) |
| `registry` | without `crossed` | `NoGhost`, `ValueIsCurrent` | published after the lock was released (3075, 3078) |
| `registry` | without `missed` | `NoGhost`, `KnownIsAnnounced`, `ValueIsCurrent` | a crash between the save and the removal (3075); announced in memory, lost on the wire (1394); `on_connect` before `self.mqtt` is assigned (1164, 2326) |
| `registry` | without `mixed` | `AttachedToBase` | a key is retired while another thread still names it |
| `registry` | without `exposed` | `HeardOnce` | one replay flag for all threads (1363, 1377) |
| `registry` | presses during a replay | `PressIsHeard` | the same flag: the press is silenced |
| `registry` | all topics for `OwnTopic`, kinds `state` and `report`, 3 events | `ValueIsCurrent` | the order of the dictionary (1379) |
| `registry` | `Kind` with `"press"` or `"tp"`, topic `pressure` not excepted | `NoGhost` | a topic `STATE_TOPICS` (158) does not list |
| `registry` | `Reconfigure = TRUE` | `AttachedToBase` | a replay names the key a base is about to have (2701), and a second base comes first |
| `base_controls` | without `overtaken` | `ClosesNoLater` | a press before the stop is queued (3061, 3078, 3088) |
| `base_controls` | without `hidden` | `AlarmIsShown` | a mode clears the sensor for every kind of alarm (1500), and the end of one alarm clears another |
| `base_controls` | without `lost` | `ModeIsShown` | a lost mode command leaves the guess standing until the next report |
| `base_controls` | `TimersLast = FALSE` | `WindowCloses` | if a CRE reload ends gwctl's timers, nothing else closes the window |
| `calibration` | `Keen = FALSE` | `GetsCalibrated` | the press that wakes a ws02 may be used up by the marker (ws02-16.lua:110) |
| `calibration` | without `moved` | `AsConfirmed` | a window moved before an order has arrived |
| `recovery` | `LoaderSum = "STX"`, `"ACK"` or `"x"` | `ChecksumFits` | a byte left in the port's buffer by a failed attempt (flash.py:122), or a damaged one, is taken for the checksum |
| `recovery` | `RefusesOnlyMisfits` without `ExactRun` | `RefusesOnlyMisfits` | nodes that fill a block to the last byte (repack_jffs2_4k.py:60) |

Smaller observations, against which the project states nothing:

* a second order, or a move, while the first order is on its way: the sensor stores the
  position it is in when the command arrives, which for a ws02 the code accepts as the
  user's word (`moved` in SensorCalibration);
* `Hangs` in UartTools: after a lost ACK the ROM's STX, read at the wrong speed,
  restart the wait for `PROG_STX` each time (flash.py:151-153), so `Recoverable`
  has the operator stop the tool;
* nodes that fill a block to the last byte make `repack_jffs2_4k.py` leave the
  next block without a cleanmarker; its own validation then refuses an image it
  could have laid out. A size of no whole number of blocks may give an image
  longer than asked for, which `build_identity_preserving_image.py` refuses;
* from the moment the command file exists, the entries of the configuration's
  `event_commands` are no longer looked at (`gg` 2800-2809);
* after a base changed its key, the mode saved for it is still under the old one
  (`gg` 3006-3010, 2745) until it reports its mode again.

## 6. What is proved

By TLAPS, for every value of the constants that the module's named `ASSUME` and
the last column allow: any number of threads, bases, devices, requests, presses,
faults and restarts.

| Theorem | States | Module | If |
|---|---|---|---|
| `TypeCorrect` | `Spec => []TypeOK` | `ControlQueue_proofs` | |
| `NeverQueuedAgain` | `Spec => SavedNeverQueuedAgain` | `ControlQueue_proofs` | |
| `PlacedRemembered` | `Spec => []PlacedIsRemembered` | `ControlQueue_proofs` | |
| `DeliveredOnce` | `Spec => []AtMostOnceIfSaved` | `ControlQueue_proofs` | |
| `NothingStrays` | `Spec => []NoStrayRequest` | `ControlQueue_proofs` | |
| `DeliveredInOrder` | `Spec => []InOrder` | `ControlQueue_proofs` | no base polls before its last poll is answered |
| `MailboxImplemented` | `Spec => ImplementsMailbox` | `ControlQueue_proofs` | the same; no crash |
| `FileTyped` | `Spec => []TypeOK` | `StateFile_proofs` | |
| `AlwaysReadable` | `Spec => []FileReadable` | `StateFile_proofs` | |
| `SavedIsKnown` | `Spec => RestartRestores` | `StateFile_proofs` | |
| `NeverBack` | `Spec => FileAdvances` | `StateFile_proofs` | |
| `TypesHold` | `Spec => []TypeOK` | `CreReload_proofs` | |
| `NamesStayTrue` | `Spec => []CachedStaysTrue` | `CreReload_proofs` | |
| `AsksHaveReason` | `Spec => AskedOnlyIfChanged` | `CreReload_proofs` | |
| `NoneForgotten` | `Spec => []ReloadOwed` | `CreReload_proofs` | |
| `TypesHold` | `Spec => []TypeOK` | `DeviceRegistry_proofs` | |
| `NothingStays` | `Spec => []NoGhost` | `DeviceRegistry_proofs` | |
| `EveryDeviceAnnounced` | `Spec => []KnownIsAnnounced` | `DeviceRegistry_proofs` | |
| `LastEventShown` | `Spec => []ValueIsCurrent` | `DeviceRegistry_proofs` | |
| `NoneHeardAgain` | `Spec => []HeardOnce` | `DeviceRegistry_proofs` | |
| `EveryPressHeard` | `Spec => PressIsHeard` | `DeviceRegistry_proofs` | |
| `TypeCorrect` | `Spec => []TypeOK` | `SensorCalibration_proofs` | `CountsEnough` |
| `NeverWithoutWord` | `Spec => OnlyOnWord` | `SensorCalibration_proofs` | `CountsEnough` |
| `WhereConfirmed` | `Spec => AsConfirmed` | `SensorCalibration_proofs` | `CountsEnough` |
| `TypeCorrect` | `Spec => []TypeOK` | `BaseControls_proofs` | |
| `ModeShown` | `Spec => []ModeIsShown` | `BaseControls_proofs` | |
| `AlarmShown` | `Spec => []AlarmIsShown` | `BaseControls_proofs` | |
| `ClosesNoneLater` | `Spec => []ClosesNoLater` | `BaseControls_proofs` | |
| `IdentityIsKept` | `Spec => []IdentityKept` | `Recovery_proofs` | |
| `DumpsAreReal` | `Spec => []DumpIsReal` | `Recovery_proofs` | |
| `TypesHold` | `Spec => []TypeOK` | `Recovery_proofs` | |
| `ChecksumsFit` | `Spec => []ChecksumFits` | `Recovery_proofs` | `SumsDistinct` |
| `SuccessesAreReal` | `Spec => []SuccessIsReal` | `Recovery_proofs` | `SumsDistinct` |
| `NodesSurvive` | `Spec => []RoundTrip` | `Recovery_proofs` | |
| `OnlyMisfitsRefused` | `Spec => []RefusesOnlyMisfits` | `Recovery_proofs` | |

The conditions on ControlQueue are those that section 5 shows to be needed.
`CountsEnough` keeps the count of the user's words from being cut off while it matters;
`SumsDistinct` is explained below. All other theorems leave every interleaving and every
fault of the module on. What a race may spoil is in the property itself, as the exception
that its history names (section 2), so they say of the races in the code that no others
do harm, and of each what it can do at most.

`DeliveredOnce` is the part of "each request is executed once" that the code
does guarantee; `queue_twice` is the part it does not.

The argument for ControlQueue. None of its properties is inductive. They speak of what bases received and
of the disk, and the code decides by its memory, in a refresh that several
threads want to run. `CoreInv` (theorem `CoreInvariance`) is `TypeOK` with

* `LockInv`: a thread in the refresh's loop is the one that holds
  `command_lock`, so `batch` and `pos` are its own;
* `ClientInv`: only a poll, which has a base, gets to the pop;
* `BatchInv`: `pos` is within the batch in the loop and behind it afterwards,
  there is no batch without the lock, and before the save all its ids are
  remembered;
* `DiskInv`: the ids on disk, and those in every document about to be written,
  are ids in memory, so a slower saver can make the file older but never puts
  there what memory does not know.

`Enqueue` adds only an id outside `handled`, hence not on disk, and every other
step leaves each queue as it is or empties it (`OnlyNewEnqueued`); that is
`NeverQueuedAgain`. For what a base receives more invariants are needed:

* `SourceInv`: a request is once in the file, once among the MQTT requests,
  whose ids are fresh, and so once in a batch;
* `PlacedIsRemembered`: an id that is in a queue, in an answer or at a base is
  in `handled`, or is one a crash caught unsaved, or has had its turn in this
  batch. With `SourceInv`, the id whose turn it is and that is not in `handled`
  is then nowhere yet;
* `OnceInv`: for each base, what it got, the answers on their way to it and its
  queue hold each id once, apart from those a crash caught unsaved. A pop and
  a send move ids between the three, only `Enqueue` adds one, which is nowhere
  yet. `OnceInv` implies `AtMostOnceIfSaved`;
* `RouteInv`: an id that names no device is at a base its hint allows, and at
  one only; `AtStep` says that only `Enqueue` takes a request to a base, which
  then is one of `Targets`, a set of at most one base for such an id;
* `TurnInv`: what has been taken from a source came first in it. That is so of the
  memory and the batch, against what is still to be read, of the memory against
  the rest of the batch, and of the disk and each document on its way to it
  against the file, which is all a crash leaves. A refused entry keeps this true,
  as it holds up the whole file;
* `OrderInv`: what a base got, its answer on the way and its queue are in order, in
  this sequence. `ServedAlone` says that there is one such answer; if polls overlap
  there are two, and the later may arrive first.

`MailboxSimulation` is the step simulation of `BaseMailbox`. A request is open as
long as it is in the file, among those of MQTT or in the batch and neither
remembered nor enqueued; `Enqueue` decides on it, for the bases of `Targets`, or is
no step if the id is remembered; `Send` hands over or loses all of an answer at
once, or is no step if that is empty. All else is no step: to read the sources, to
remember and save, to begin a poll, and a pop, which moves requests from the
second part of what is owed to the first.

Every invariant is proved action by action. `IdsAppend`, `IdsConcat`,
`IdsInSet`, `IdsEmpty` and `OnceAppend`, `OnceConcat`, `OnceMore`, `OnceEmpty`
are facts on sequences, `DocumentsTyped` on the saved document.

The argument for StateFile. `FileInv` is its `TypeOK` with four parts. `MeetInv`: two
saves that are under way together have met. `LockInv`: of `gigaset_state.json` at most
one save is under way, so none ever meets another. `WriterInv`: the document of a writer
that met none is the state in memory, and its inode is the temporary file's, empty before
the write and that document after it. `PathInv`: unless saves that met leave the file in
doubt, it holds what was stored last, whole, it is not the temporary file, and nobody
writes to it. A writer that opened the `.tmp` of another may still write to the file after
the rename, so doubt ends only with the rename of a save that met no other.

The argument for CreReload. `Typed`, which gives `TypeOK`, says (`Fits`) what a thread
has at hand at each step: an address to write, a command that is sent and is to be
marked, the queue without it. A name that is reused would have to be a serial that some
base has seen and the next start does not know. So `SettledInv`: the serial in memory is
never behind the saved one; and one that a manifest names, or a base has downloaded, is
settled, which is to say written and saved, unless a thread entered one that another had
only counted up (`raced`). `NameInv` is that and the property.

For `AsksHaveReason` and `NoneForgotten`, `LockInv` has what `command_lock` gives: one
thread at a time puts a list in the place of a queue, the list is not longer, and digests
and keys are on disk as in memory. `AskInv` then says of each base that the manifest asked
for last is not a newer one (`Behind`), and that there is no reason left to ask for the same
again (`Reasons`): nobody is about to enter the library it names, and if its digest differs
and its queue is empty it was last asked for another manifest, but for the bases whose order
another thread took away (`taken`). `OwedInv` says that a base which does not run the manifest on
disk was told, has an order waiting, or is due (`Owed`): its digest differs, its
queue is empty, and a thread is on its way to the comparison. That a new manifest always
differs is the other half of `OwedInv`, by which no digest is ahead of its manifest. The
places where an order is lost are what `lost` names.

The argument for DeviceRegistry. `Form`, which gives `TypeOK`, is kept by every step
whatever overlaps. Its parts that are not types are `Dict` (a device has one entry per
sink, which `PutDict` and `SortedDict` keep) and `HasJob` (a thread that updates, saves or
publishes has a device at hand, and the number of its event if it shows one), which is
what `record()` hands from step to step without looking again.

Presses need two invariants. `SilentInv`: the flag `replaying` is up only while a replay
runs, and what a replay has before it while the flag is down was exposed as another one
ended; that is `EveryPressHeard`. `HeardInv`: the number of an event is one thread's, and
a press is not heard before that thread publishes it, nor more than once unless exposed;
that is `NoneHeardAgain`.

The other three are about each device by itself, and that is how they are proved, as any
number of threads interleave. `Due` is what a thread is still to publish of a device,
`Going` that it is to remove it. `DeviceInv` is

* `GoneInv`: a device that is not known is about to be removed, by a thread that is the
  only one to have it at hand, or nothing of it is left and nobody has it at hand;
  `BackInv`: if it is known again before that, it is among the `crossed`;
* `OwnerInv`, `DocInv`, `AnnouncedInv`: a known device has a base, which is why a replay
  has something of it; it was announced, or a thread has it at hand, or a connection is
  still to be replayed to; and what was announced has the document of this run, unless that
  was lost (`missed`);
* `LatestInv`, `StoredInv`, `DueInv`: what is stored of a device, and what any thread is to
  publish of it, is the last of the topics it is shown on, so it does not matter in which
  order threads and replays come to it. Here two sinks that share a topic would break
  it (`OwnTopic`), and so would a thread that has an older event at hand (`crossed`);
* `HeldInv`, `ShownInv`: a topic that is behind has its event stored, and somebody is to
  publish it, or there is no broker and the next connection will.

`TodoInv` and `SavedInv` say that a replay plays of a device what is of that device, and
that the file has of it what memory has, in whatever order. Each action is then one of a
few things to a device, with a lemma for each: it has nothing to do with it (`Aside`),
loads it for a replay (`Loads`) or cuts that off (`Loses`), publishes an event of it
(`Tells`) or its removal (`Removes`), receives an event (`Receives`), deletes it
(`Deletes`), has a setpoint for it (`Chosen`), or is a restart (`Restarted`).

The argument for SensorCalibration. `WindowInv` counts: the user has asked at least as
often as there are orders on their way, markers and presses that may still calibrate a
ws02; `caldone` voids the last two, as it removes the marker. `UniversalInv` does so for a
um01, where the marker and the step that has begun are one order, sent twice. That the
second copy is voided by `caldone` is the heart of both. `PlaceInv`: while an order or a
press is open and the window was not moved since, it is in the position confirmed.
`CountsEnough` is `MaxWords >= 2 * MaxQueue + 2`: two commands, each `MaxQueue` times on
its way, a marker and a press.

The argument for BaseControls. What is shown follows the reports in the outbox of
the base, so each invariant says something of the newest report of its sort and
of the state after the last. `ModeInv`: the newest mode report is the mode the
base is in; once none is left, the saved mode is right, and the shown one too
unless a choice is on its way or lost. `AlarmInv`: the newest report that tells of an alarm
is a start just when there is one that no end of another has hidden, and after the last such
report the sensor shows that. `StopInv`: a node that the gateway has not heard of has paired
after the last press, unless a press has overtaken it; and a stop queued for a node
stands before every command that opens a later window.

The argument for Recovery. `LineTyped` and `TaskInv` say which tool is running
with which loader; only the flash tool's loader writes. `DumpInv`: a dump on its
way is what the flash holds, or damaged; a complete one is not damaged, as the
tool compares its length and sum. `StageInv`: until an image is built the flash is
as it was, so the dump that is kept is the base's own, and so is what the image
takes from it. `IdentityInv` is `LineInv`, which is the first three, and `StageInv`;
`DumpIsReal` follows too. `ToolTyped`,
`ChipTyped` (no loader or image on its way is anything but the one sent, or a
damaged one) and `DeskTyped` complete it to `TypeInv`, which gives `TypeOK`.

`ChecksumFits` is a property of the chip, but the chip runs whatever is acknowledged:
it holds because the tool acknowledges only what fits, and the difficulty is that
the byte the tool reads may be old, and may be there twice. `PlaceInv` says where one
end can be while the other is at each of its places. `RomInv`: an answer to a loader
in the buffer is the last thing the ROM has said apart from STX, and until it is read
(`Answered`) the chip is at `romack` with the loader this answer belongs to, or has
left it for good, as at most one header is sent and no loader. That the ROM says STX
only into an almost empty line (`SendStx`) is used here. `LoadedInv` and `ImageInv` follow
`send_image` step by step, where one message is on its way at a time; `EndInv` is what
is left when a tool stops. Both carry `Written`, that an image of a fitting checksum was
erased for and written, well or not, which is all that a PROG_COM says; that the flash holds
it follows from nothing but the comparison with a fresh dump, and so `SuccessIsReal` has it. `SumsDistinct` says that the loader's checksum is neither STX,
ACK, NAK nor the byte noise is read as, and the image's is not that byte. The tools do
not check it, and it is needed: with `LoaderSum = "STX"` an old byte of the ROM
is taken for the checksum (section 5), with `"x"` a damaged one is. The types need no such
condition, nor does the dump, which has a hash.

`TreeInv` says of the files of the operator that a source is a cleanmarker and the nodes of
a tree, and what was repacked is `Repacked` of it; the rest of the argument is about that
operator. `LayoutOf` takes its recursion apart: a layout is the last state of a run that
begins with `Start`, and by `PlacedOf` each node is refused or goes into the block at hand
(`Fitted`), opens one behind a cleanmarker (`Opened`) or begins one without (`Crowded`), as
the block before it is full to the last byte. `NodesSurvive` follows from `Kept`, which holds
after k nodes: the blocks hold these and nothing else, in order; the last is not overfull; and
if every block has its cleanmarker, they end within an image of whole blocks. That is all
`Valid` has to see to: it refuses the layouts with a `Crowded` block, and its sums of padded
lengths bound those of the bytes copied. For `OnlyMisfitsRefused` `Packed` relates a layout to cuts
that would do: before the node its last block begins with, there are as many cuts as blocks
before it, as a node that does not go in has a cut between it and that one. So the blocks
never outnumber the runs, and none is `Crowded` unless a run fills it. `Packed` also says that
the bytes and the padded bytes of the last block are the same until the last node, which is why
`validate` agrees. Both rest on what `mkfs.jffs2` makes (`Trees`): all nodes but the last are padded.

Recursive definitions are reasoned about with **Recursion**: `NatSet` and `UpTo` are
induction with a set in the place of a predicate, from the least element that a well-founded
order gives (`LeastNat`), and `Recursion` says that a first value and a step define a
function, which is what a recursive function has to be shown to be. Jffs2 defines its sums and
layouts as such functions, and `FlattenOf` unfolds `FlattenSeq` in the same way.

Every invariant and action property of the runs that pass is a theorem, but for
`AttachedToBase`, which is only model-checked. So is liveness under fairness, which is out of
the prover's reach (`RequestDelivered`, `GetsCalibrated`, `WindowCloses`, `Recoverable`).

## 7. Not modelled, and the plan

Left out on purpose: wording and format of MQTT documents, parsing of HTTP and
payloads (the arithmetic of the thermostats' values included), TLS and the signing
of certificates, logging. Also:

* DNS and NTP answer one packet at a time without state. Of NTP it is worth
  knowing that seconds since 1900 no longer fit four bytes from 2036 on
  (`gg` 3608), where `to_bytes` raises;
* that an order to reload, or a command of the command file, reaches its base at last is
  not checked: threads, restarts and lost answers come at any step of CreReload, and each
  may lose one (section 5). `ReloadOwed` is what holds in their face;
* base inventory and manifest upload write a file once, for the next start;
* the identities of a base from certificates and rule reports (`base_ids`) only
  name further keys to retire;
* the gwquiet library replaces two logging functions;
* the extraction tools, the certificate and build helpers run once by hand, and
  so does what an operator copies into the tree of a file system;
* a JFFS2 image is one that mkfs.jffs2 has made: the refusals of foreign input
  are left out.

What a component leaves out is in its note in `PROJECT.json`.

The order of the work was: the command queue, as every control goes through it; the state
file it rests on; the reload that brings gwctl to the base, with the event
commands; then what the user sees (registry, base controls), what the sensors do,
and the tools up to the whole recovery.
What would come next is breadth: the refusals of `repack_jffs2_4k.py` for foreign input, and the
base inventory.
