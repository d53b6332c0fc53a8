# NEVOS in TLA+

NEVOS is the firmware of a desk robot (C, FreeRTOS on an ESP32-S3, and a host
build with SDL) and the companion daemon it talks to over Wi-Fi (Rust). This
directory models the parts of it whose correctness depends on order: what
several tasks do to one structure, what is lost when a queue is full, what a
power cut leaves behind. Paths below are relative to the repository.

Contents: [the system](#1-the-system), [plan](#2-plan),
[the models](#3-the-models), [runs](#4-runs), [bounds](#5-bounds),
[fairness](#6-fairness), [proofs](#7-proofs), [what the code does not
promise](#8-disagreements), [not modelled](#9-not-modelled).

## 1. The system

Three tasks run on the device (`targets/esp32s3/main/main.c`): `nev_ui`, which
draws, runs the shell and drains every subscription of its services; `nev_net`,
which owns Wi-Fi and the link to the daemon; and `nev_sys`, which sweeps the bus
for overflows and the blob pool for leaks. The host build
(`targets/host/main.c`) does it all in one loop. They meet in five places: the
event bus, the blob pool, the settings store, the bridge's scratch buffer and
the static state of a few services.

| component | state | operations | talks to | what makes it correct |
|---|---|---|---|---|
| **Event bus** `nev_kernel/src/nev_bus.c` | subscriber slots: ring, counting semaphore, mask, policy, counters; the sequence number | subscribe, publish (coalesce, evict, refuse), receive, flush, overflow sweep, init, deinit | called by every task; retains and releases blobs; gives semaphores after it has unlocked | no wakeup lost or invented; a reference per queued event; order; losses counted |
| **Blob pool** `nev_kernel/src/nev_blob.c` | per class a free list under a lock; per block an atomic count and a stamp | alloc, retain, release, stale sweep | publishers, the bus, receivers | counts exact, a block in one place, nothing lost |
| **Settings store** `nev_kernel/src/nev_store.c` | values and dirty flags in RAM, a store-wide dirty flag, the debounce stamp | init, set, tick, commit, factory reset, deinit | backend (`host/nev_store_file.c`, `esp32s3/nev_store_nvs.c`), ticked by `sys_service.c`, set by apps and by the bridge | nothing pending is forgotten; a reboot finds what was committed |
| **System service** `sys_service.c` | last second, last heap report | tick | store, blob sweep, memory-pressure events | (through the store) |
| **Shell** `nev_appkit/src/shell.c` | three live app slots with last use; the foreground app; a modal; the setting that names the last app | launch, resume, suspend, close, go home, evict, back on a button's release, memory pressure | calls app hooks synchronously; drains one coalescing subscription | the foreground app is never evicted; at most one app is active; a failed launch leaves home |
| **Push to talk** `talk_core.c`, `apps/common/talk.c` | gesture phase, start time; one static for whichever app attached last | attach, detach, down, up, tick | audio service, agent and notes apps, bridge state | the microphone is open only while somebody holds it, and never longer than `max_ms` |
| **Audio service** `audio_service.c` | session id, kind, recording flag, chunk sequence | start, stop, mark, tick, emit | blob pool, bus, board codec | chunks numbered in order; what is lost is noticed |
| **Agent, notes, meeting apps** `apps/productivity/*` | the conversation or the transcript, what each is waiting for | hooks, answers and transcripts from the bus | push to talk, audio, bridge | one reply at a time; a meeting ends by hand |
| **Input and power** `input_service.c`, `power_core.c`, `power_service.c` | debounce, swallow flag; phase, last activity, charger | poll, tick, activity | bus, display, persona, shell | a press that wakes the device does nothing else; phases and what is told of them agree |
| **Wi-Fi** `net_core.c`, `net_service.c` | state, attempts, backoff, credentials | configure, driver event, tick | board, settings | retries are spaced; saved credentials are tried |
| **Firmware update** `ota_core.c`, `ota_service.c` | state, offer, bytes and digest so far | offer, begin, write, finish, abort | bridge, flash | nothing but the offered image is ever ready |
| **Bridge** `nev_bridge.c` | state, token, backoff, timers, scratch buffer, ring of audio to send | start, stop, poll, ask, forget, message handlers | socket, store, bus, daemon | a token that was granted is kept; a dead link is noticed |
| **WebSocket** `nev_ws.c` | socket state, a receive and a send buffer | open, poll, send, close | bridge | frames whole both ways |
| **mDNS** `nev_mdns.c` | socket, queries sent: forty at most | start, poll, stop | bridge | leads to a daemon and to nothing else |
| **CBOR, protocol codec** `nev_cbor.c`, `nev_proto.c`, `cbor.rs`, `generated.rs` | a cursor | generated from the schema | both sides | one side reads what the other writes, whatever their versions |
| **Daemon: sessions, pairing, state** `session.rs`, `pairing.rs`, `state.rs`, `server.rs` | session state; pending code with deadline and attempts; devices; captures; turns in flight | frame, pairing result, transcript, enter code, unpair | UI, device, store | nothing before pairing; a code is used once; a capture is filed once |
| **Daemon: answers** `nevos-agent` | conversation, a task per turn, the model's stream | ask, push, abort | session, model server | the newest question wins; done means done |
| **Daemon: records** `nevos-store` | notes, transcripts and recordings as files | save, delete, purge | session, control page | nothing is kept where the user cannot see it |
| **Daemon: transcription** `nevos-stt` | none | run an external program | session | — |
| **Persona** `persona_core.c`, `persona.c` | mood, resting mood, hold deadline | set mood, tick, map events to moods | bus; it is set up only in the simulator's persona screen (`--persona`), which runs neither shell nor apps, and elsewhere returns at once | a held mood gives way to the resting one |
| **Focus app** `focus_app.c` | state, seconds left | start, pause, choose, tick | store, sound; the moods it sets reach no face | the timer is never short |
| **Sound** `sound_core.c`, `sound_service.c` | cue and sample, what the board has not taken | play, tick | bus, board | a cue has no hole |
| **Game engine, games** `game.c`, `apps/games/*` | run, score, best; each game's board | input, update | shell, store | the best stays; each game's own rules |
| **Display, theme, UI kit, faces** | LVGL objects | draw | LVGL | visual |
| **Wi-Fi, link, settings, clock apps** | what is on screen | hooks, factory reset | store, bridge, net, audio | (through the services) |
| **Boards, ports, hashes** `nev_board`, `nev_port`, `nev_sha*.c` | drivers; mutex, semaphore, task, time | — | everything | a counting semaphore counts |

The hard behaviours, each listed at its line under `hazards` in `PROJECT.json`:

* *Interleaving.* The bus gives semaphores outside its lock; the blob pool's
  count is atomic but its list is locked and its stale sweep is neither; the
  store takes no lock at all although `nev_ui` and `nev_net` both use it; the
  bridge encodes a question on `nev_ui` into the buffer `nev_net` sends from.
* *Losing things.* Rings of eight to sixteen events, evicted from the oldest;
  an app that waits for an event may wait for one that was evicted; the final
  chunk of a capture may be the one dropped.
* *Crashes.* Power may go between the staging of two settings, between a pairing
  granted by the daemon and the token stored by the device, between a recording
  written and the record that names it. Any of these writes may also fail, and some
  failures are looked at by nobody.
* *Life cycles.* Apps are suspended, resumed and evicted while the microphone,
  a question or a recording they started goes on.
* *Two ends.* A connection that dies may tell neither end; the daemon then holds a
  stale session beside the new one, and everything that belongs to a device —
  its listing, its pairing code, its entry in `devices.json` — is shared by both.
* *Cutting.* TCP cuts frames, chunks and lines anywhere, the socket takes part of
  what is sent, the board part of a cue.
* *Giving up.* A search ends after forty queries, a board of tiles after sixty-four
  draws.
* *Time.* Unsigned milliseconds that wrap, with 0 doubling as "not set".

## 2. Plan

In the order in which they were written, the most important behaviour first:

1. `Mailbox`, `EventBus`, `BlobPool`, `Store` — what the three tasks share — and
   the proofs of the bus and of the pool.
2. `AppLife`, `Shell` and its proofs — what is on screen and what stays alive.
3. `Capture` — the microphone and the apps that open it, over the life cycles
   that AppLife allows.
4. `Link` — the device's end of the connection and the daemon's, pairing, and both
   disks, over connections that die unnoticed.
5. Twenty parts that share no variable with one another or with the above, each a
   module of its own. Fifteen take their parameters from `Services`: `Power`, `Wifi`,
   `Ota`, `Sound`, `Game`; `Stream`, `Records`, `Replies`; `Persona`, `Focus`, `Snake`,
   `Match`, `Runner`, `Breakout`, `Reflex`. Five are formats of bytes and take theirs from
   `Bytes`: `Frames`, `Body`, `Codec`, `Names`, `Discovery`. Both are proved about.

What remains: a proof of `MessagesAgree`, the codec's property, whose every message is
a walk over sixteen shapes of fields; `nev_bridge_ask`'s shared scratch buffer, byte by
byte, as a part beside Frames.

Every module that is proved about takes its parameters as constants with named
assumptions and has no recursive operator. A violating run is there only where
the code contradicts its own words.

## 3. The models

### EventBus, with Mailbox as what it promises

`EventBus.tla` is `nev_bus.c` and the tasks around it. A critical section of the
bus lock is one step; everything the code does outside it is a step of its own.

| code | model |
|---|---|
| `s_subs[i].in_use`, `.ring`/`.head`/`.tail`/`.count`, `.sem`, the counters | `inUse`, `ring` (a sequence, oldest first), `sem`, `stats` |
| `s_seq`, `s_ready` | `seq`, `ready` |
| a blob's reference count | `refs`: 0 is "on the free list" |
| a publisher between `nev_blob_alloc`, `nev_bus_publish`, its gives and `nev_blob_release` | `outbox`, `toSignal`, `owned` |
| the local snapshot of `nev_bus_report_overflows` | `reports` |
| a receiver between `nev_sem_take` and the lock, and while it handles the event | `taken`, `hand` |
| `enqueue()` | `Replaces`, `Refuses`, `Evicts`, `Queues` and what each does: `Enqueue`, `Counted`, `Displaced`, `Recounted`, `Signalled` |
| `nev_bus_publish`, its gives | `Publish`, then one `Signal` per subscriber whose ring grew |
| `nev_bus_recv` | `Take`, `Pop`; `Handle` is the caller's release |
| `nev_bus_report_overflows` | `Sweep` (under the lock), `Report` (one publish each, outside it) |
| `nev_bus_subscribe`, `_deinit` with `_flush`, `_init` | `Subscribe`, `Deinit`, `BusInit` |

`offered`, `popped` and `last` are history: they record what was published to a
subscriber and what it was handed, so that losses and order can be stated.

`Mailbox.tla` is the abstract specification: per subscriber a bounded box, no
semaphores, no counts. A box loses an event only when full and only the one its
policy names; what is in a box whose reader keeps reading is handed over.
`ImplementsMailbox` says that the bus, its fairness included, is such a set of
boxes: the whole apparatus of gives after the unlock never strands an event.

### BlobPool

`BlobPool.tla` is `nev_blob.c` with every load, store and critical section a
step. A *reference* is a thing somebody holds: `pc` says where it is in its life
(popped off the list, count stored, held; for the last one, stamp cleared,
pushed back) and `blk` which block it names. `sweep` is the local state of
`nev_blob_check_stale`, which takes no lock and reads the clock once. `born` and
`alarm` are history. EventBus uses the pool through its promise only: a count
per blob, zero when free.

### Store

`Store.tla` is `nev_store.c` over both backends: `val`, `dirty` are `s_slot`,
`sDirty` and `since` the store's own flag and stamp, `staged` the backend's copy
that a flush makes durable, `disk` what a reboot finds. `job` says where each
task is inside a call. The steps are those another task could see half done:
set, mark the slot, mark the store; in a commit, each save, each clearing of a
flag, the flush, the lowering of the store's flag. A file is replaced by a
rename, NVS by `nvs_commit`: both lose everything unflushed, except that NVS may
have kept part of it. Saves, flushes and resets may fail at every call; power may
go between any two steps. A value is a number, or for a text its length: numbers are
clamped to their range, a text that is too long is refused, and one that is shorter than
its row in the table says is taken as it is (`Settable`, `Held`).
`sets` bounds the model; `calm`, `recent` and `resetFailed` are history.

### Shell, with AppLife as what it promises

`Shell.tla` is `nev_appkit/src/shell.c`, with the modal of `ui_kit.c` and what
settings does with it. Everything runs on `nev_ui`; `phase` says where in its
frame: events drained from the bus, then the tick of the app in front, then one
touch reported by LVGL.

| code | model |
|---|---|
| `s_live[]`, `s_foreground`, `s_now_ms`, `s_ready`, `s_bridge_up` | `live`, `fg` (0 for -1), `now`, `ready`, `bridgeUp` |
| `LV_OBJ_FLAG_HIDDEN` of `s_home`; `s_modal != NULL` | `grid`; `modal` |
| `NEV_SET_LAST_APP` | `lastApp` |
| `suspend_foreground`, `evict_one` | `Suspended`, `Victim` |
| `nev_shell_launch` | `ShowWarm` (the app is live) and `StartFresh` (it is not; `ok` is what `on_launch` returns), reached by `Resume`, `Start` and `Boot` |
| `nev_shell_go_home` | `GoHome`, reached by `Back` (a button's release) and `Swipe` |
| modal opened, dismissed, confirmed; a factory reset that works or fails | `OpenModal`, `CloseModal`, `ConfirmModal`, `ResetFails` |
| `nev_shell_tick` | `Frame` (the time), `Back`, `BridgeEvent`, `MemPressure` (the events), `AppTick` |

`order` is history: the suspended apps in the order they left the front. What
opens a screen is a tile of the grid, dead while an app that needs the daemon
has no link, or a row of the app in front (`Opens`). Hooks run inside these
steps; no shipped app's hook calls back into the shell.

`AppLife.tla` is what `docs/app-lifecycle.md` says: one app in front, some warm
behind it, the least recently used closed for room. It knows neither stamps nor
slots; `ImplementsAppLife` maps `Foreground` and `order` to it.

### Capture

`Capture.tla` is the microphone: `talk_core.c` and `talk.c` (`talk`: the gesture,
its age, its owner), `audio_service.c` (`mic`: what it captures, not whose), and
what agent, notes and meeting do in their hooks, buttons and events. `front` and
`warm` move as AppLife lets them, and the shell has been shown to implement
AppLife; the hooks run in the step that opens, suspends or closes an app. A frame
is events, then the tick of the app in front, then a touch, which reads the clock
for itself (`late`) — that is why a stamp may lie ahead of the frame's time.
`pending` is the captures whose transcript may still come, `answering` the turns
whose replies are still on their way, whatever has happened to the link or to the
app since. The factory reset of the settings app (`FactoryReset`) stops whatever
records, tells the gesture nothing, and goes home if the erase worked.

### Link

`Link.tla` holds both ends of the connection.

| code | model |
|---|---|
| `s_bridge.state`, socket, `.token`, `.code`; `queries_sent` of the search and whether an answer is there | `dev` |
| `NEV_SET_PAIR_TOKEN` in RAM and in flash; a commit that did not bring it there | `flash.set`, `flash.saved`, `flash.missed` |
| `on_pair_result`: the token noted and set; then the commit, whose return is ignored, and READY | `OnPairResult`, which leaves `dev` in state "keeping", and `Keeps`; power may go between them |
| the search (`nev_mdns.c`): a query, the next, an answer that is due to a query or to none | `Search`, `AsksAgain`, `Found`, `FoundGone`; `Overhears` |
| a TCP connection; what each end has sent and the other not yet read | `wire[s]`: `open`, `up`, `down`; `cut` if it delivers no more and says so to nobody |
| one turn of `handle`'s select loop (`server.rs`) and `session.rs` | `OnHello`, `OnPair`, `OnGrant`, `PairTimeout`, `Ends` of `ses[s]` |
| `touch` | `TouchRead`, `TouchWrite`: the only read and write of `devices.json` that another thread can come between |
| `pairing.rs`: the code, attempts, lockout; `devices.json`; the listing | `pending`, `failed`, `locked`; `known`; `listed` |
| the user at the control page | `ReadsCode`, `UserEnters` (a code that may be old by now), `Unpair` |
| faults | `Cut`, `Reboot`, `Restart`, `Forget`: at most `MaxUpset` in a behaviour |

Two slots are enough for a stale connection beside a new one; a slot is used
again once both ends have let go of it.

### The parts of Services and the formats of Bytes

Each is a module with variables of its own, declared where the code declares its
state, with one action per operation. They share nothing, so a product of them
would say no more than each alone: a behaviour is one of one part, the `subject`, or of
one `format`, while the variables of the others stay `Unused`, or `Absent`. `Services` is
the fifteen parts and `Bytes` the five formats, for any parameters; each says in
`Parameters` what it asks of its own. `MCServices` is a small instance of both: its
behaviours are those of either, with the other at rest. `Services` and `Bytes` name a
constant or a variable anew where two of theirs have one name (`Names` has `Known`, which is
`WrittenNames` in `Bytes`).

| module | code | what is in it, and what its property says |
|---|---|---|
| `Power` | `input_service.c`, `power_core.c`, `power_service.c` | the two polls and the tick of a frame over panel, contacts and charger that may change between any two reads. `InputAgrees`: touches and buttons on the bus pair up, whatever was swallowed; the persona dozes and the backlight is out exactly while the policy sleeps |
| `Wifi` | `net_core.c`, `net_service.c`, `wifi_app.c` | the state machine with its cached word on whether there are credentials, a radio that reports any status at any time and is polled for edges, credentials written one setting after the other, forgotten, or reset. `WifiAgrees`: UP and DOWN alternate and tell the truth; nothing is online that had no address since the radio was last seen down; saved credentials are tried, and the cached word is wrong only while a notice waits |
| `Ota` | `ota_core.c`, `ota_service.c`, `nev_bridge.c` | offers through a ring of two, and the download's calls in any order. `UpdateIsSound`: ready means the offered bytes, newer, no larger than the partition |
| `Stream` | `audio_service.c`, `nev_bridge.c`, `session.rs`, `server.rs` | chunks through blob, ring, link, session and capture task, any of which may lose them; the events of starting and stopping take places in the same ring; a connection's writer may end before its reader. `SpeechArrives`: holes between the chunks that the daemon puts together are reported, the live indicator counts and goes dark, a meeting is left unfiled only when nothing can be written to its device any more |
| `Replies` | `server.rs`, `state.rs`, `ollama.rs`, `nevos-agent` | a task per question, aborted by the next but only at its next await; a piece of text may take several messages. `RepliesAreSound`: messages in order and none left out, done means all that the model's server sent, and once a newer reply has begun an older one sends at most what is left of one piece |
| `Records` | `nevos-store`, `server.rs` | saves, deletes and purges, a file operation a step, any of which may fail or be the last. `RecordsAreKept`: no recording without a record, nothing deleted comes back, but for what a purge raced with and what a failed operation left (`raced`, `failed`) |
| `Frames` | `nev_ws.c` | upgrade, frames cut anywhere, partial sends, control frames. `FramesArrive` |
| `Body` | `http.rs` | chunked, counted and unbounded bodies, cut anywhere. `BodyArrives`: the lines of the body, whole and once, however it is cut |
| `Codec` | `nev_cbor.c`, `cbor.rs`, `nev_proto.c`, `generated.rs` | all sixteen messages, field by field, between ends of any two versions, and frames of a stranger. `CodecAgrees`: both understand the fields they share, nothing is written past the buffer (`RoomToSend`: it takes the largest message) or read past the end |
| `Names`, `Discovery` | `nev_mdns.c` | names over every packet of five bytes of an alphabet; records in any order. `NamesAreRead`: a name ends where its own bytes do, wherever its pointers lead. `DaemonIsFound`: a daemon, at its own port and address |
| `Persona` | `persona_core.c`, `persona.c` | moods held across the wrap of the clock. `HeldMoodEnds`: reactions end |
| `Focus` | `focus_app.c` | the timer, paused, left, looked at late, and across the wrap. `TimerIsNeverShort` |
| `Sound` | `sound_core.c`, `sound_service.c` | `NoHoleInACue` |
| `Game` | `game.c`, `settings_app.c` | runs, fixed steps, hitches, a factory reset under an open game. `GameAgrees`: the best stays unless it was reset, one record a run, no spiral |
| `Snake`, `Match`, `Runner`, `Breakout`, `Reflex` | `apps/games/*` | the rules: no reversal however fast one swipes; never a dead board after any cascade, but where drawing one was given up; one jump a landing; bricks that add up; rounds that mashing cannot earn |

`Codec` works in a small number system: a byte is a number below `Radix`, a major
type times `Ais` plus an argument, arguments up to `Inline` written in the byte
itself and larger ones in as many digits as `Widths` says. With 256, 32, 24 and
1, 2, 4, 8 it is CBOR; the run takes 80, 10, 4 and 1, 2, 3, 4, with which the
strings of the schema still need heads of one, two and three bytes. An array, a text
and a list of the same length differ only by their major type, as in the code.

## 4. Runs

| run | asks | answer |
|---|---|---|
| `event_bus` | two publishing tasks, a subscriber that coalesces and evicts, one that refuses, the overflow sweep, blobs in flight, late subscription, shutdown and restart | `TokensMatchRing`: count, gives on their way and tokens taken add up to the ring's count at every step. `RefsExact`: a blob's count is exactly who holds it. `OrderKept`: no reordering beyond coalescing's own. `LossAccounted`: each matching publish was delivered, is queued, or is counted. `ImplementsMailbox` |
| `publish_order` | is a publisher's order kept for every subscriber? | no: see section 8 |
| `blob_pool` | two classes, three references racing through alloc, retain and release, a sweep between any two of their steps | `RefsCounted`, `OnePlace` and `Recycled`: neither assertion of the code can fail, no block is handed out twice, a block whose last reference has gone comes back |
| `blob_stale` | does the sweep warn only of blobs held too long? | no: see section 8 |
| `store` | one task, either backend, failures anywhere, power cuts anywhere, any content found at boot | `PendingNoticed`, `CleanMeansSaved`, `CommittedSurvives`, `Debounced`, `WrittenBack` |
| `shell` | four apps (one needs the daemon, one may fail to open, one leads to another), three slots, every order of touches, buttons, pressure and reboots | `OneInFront`: an app holds one slot, and who is not suspended is in front. `SomethingShows`: never a blank screen, no modal without its app. `ComesBackToFront`: the setting never names an app the user has left. `ImplementsAppLife`: evictions are least recently used |
| `capture` | three apps, two of which hold to talk, two kept alive; presses of every length, captures discarded or sent, a link that breaks, replies that come late | `OwnerIsLive`: no callback into a closed app. `CeilingInFront`: a held button has a ceiling. `OneReplyAtATime`. `OnlyALaunchOrphans`, `MeetingEndsByHand`: who can end or strand a capture, the factory reset included, and who cannot |
| `link` | two connections, two codes, two faults anywhere, one user, searches of two queries | `ReadyAgrees`: a device that shows itself connected was let in. `SurvivesReboot`: the token it shows is on flash, unless the commit there was failed. `ListedIsLive`: a device listed has a live session. `PairingSticks`: no answer for an older code or connection takes a pairing away. `ComesBack`: after the faults, it reconnects |
| `link_search` | does the search go on until the caller decides that there is no daemon? | no: see section 8 |
| `services` | the twenty parts, each at limits it runs over | the properties of section 3: `DeviceAgrees` (Power, Wifi, Ota, Sound, Game), `SpeechArrives` (Stream), `DaemonAgrees` (Records, Replies), `DeskAgrees` (Persona, Focus and the games), `BytesArrive` (Frames, Body, Names, Discovery), `MessagesAgree` (Codec); `TypeOK` |
| `replies_cut` | does a reply that was cut off look cut off? | no: see section 8 |
| `store_tasks` | the same store used by two tasks, as the device does | a change is forgotten: see section 8 |

Deadlock is checked in the passing runs but two. In `link` a device may be left
waiting for good (section 8 and `ComesBack`), and in `services` a message is
decoded, a name read and a body consumed, and that is the end; both say
`CHECK_DEADLOCK FALSE`.

Every property of a passing run has a mutant in `PROJECT.json`: a small plausible
mistake in one definition, which the run then catches. In `services`, where one
property covers several parts, all parts but `Wifi`, `Records` and `Focus` have a mutant of
their own beside the definition it spoils (`Follow` and `FollowLast`, say), of which
`PROJECT.json` names one for each property.

## 5. Bounds

* `event_bus`: depths 2 and 1, so that both rings overflow; two blobs, so that
  the pool runs out while one is queued and one handled; publishing stops once
  three events have been stamped (`MaxSeq`), reports and publishes already begun
  still complete. Three are enough for fill, coalesce and evict at one ring, and
  for a report that itself overflows the subscriber it reports on. What only
  happens with longer runs is covered by the proofs.
* `blob_pool`: two blocks of one class and one of another, three references (two
  can race to release one block while a third allocates), the clock at 0 and 1.
  `blob_stale` needs the clock to pass `MaxAge`, hence 3; both take `Wrap` = 8,
  larger than any real difference, smaller than a wrapped one.
* `store`: a number and a text, values below, in and above the range, two changes
  or resets (`MaxSets`) — one in front of and one during a commit —, the clock
  modulo 4 with ticks of 2, so that it wraps and passes through 0, which the code
  gives a second meaning.
* `shell`: three slots as in the code (`NEV_SHELL_MAX_LIVE`) and one app more, so
  that every launch of the fourth evicts; six clock readings (`MaxNow` = 5), each
  with any number of events and one touch: enough to fill the slots, evict, come
  back and evict again. The proof has no such bound. The clock does not wrap
  (49 days): a wrapped stamp would be taken for an old one.
* `capture`: times in units of 60 ms; a frame is two of them, arming takes three,
  the least speech three, the ceiling six, so that each limit is met, just missed
  and passed in the middle of a frame. Two turns: one reply may be late while the
  next is asked for. Room for two of three apps, so that one is closed for room.
* `link`: two slots, two codes, two tokens, lockout after two wrong entries, two
  queries a search (`MaxQueries`), two faults (`MaxUpset`; a query the network loses is
  one). With one fault no stale session could meet a restart; the hazards of section 1
  need at most two. `link_search` takes one of each and two queries.
* `services`: every ring, buffer and bound is small enough to run over: a ring of
  two, which a capture's two events fill; an utterance of one chunk; two captures, of
  which the first has at most two full chunks and the second one (`MaxSeq`); two
  questions of two pieces of one or two messages each (`MaxParts`), remembered in a
  conversation of two; a receive buffer one byte shorter than the longest frame, names of
  three characters, packets whose pointers jump once more than is allowed, two queries a
  search, a board of 2 × 2 tiles in four colours with runs of two, so that a board can be
  dead, a snake that fills its length, a clock that wraps at 8 (`MsWrap`) or 16.
  `Codec` takes the schema's own limits, with the least and the most of every field
  and one byte more than it holds, into a buffer of 24 bytes, too small for most
  messages, and one of 4300, the code's. What arrives from outside is enumerated in
  `MCServices` (`MCOffers`, `MCInbound`, `MCResponses`, `MCStreams`, `MCMessages`, `MCStrange`,
  `MCPackets`, `MCKnown`, `MCAnswered`).

## 6. Fairness

* The bus: a publisher past the unlock gives its semaphores (it waits for no
  one), and every main loop goes on draining its subscription (`nev_ui`'s frame
  loop and `nev_net`'s poll loop never block elsewhere). Nothing is assumed of
  publishers starting anything.
* The pool: a task inside alloc or release runs on. Nobody has to release.
* The store: a call that has begun runs on, the loop keeps ticking, and a backend
  asked again and again succeeds in the end — strong fairness of `Save` and of
  `Flush`, which is what a retry is for. Without it (a full flash) the store
  stays dirty for ever, and says so.
* The link: `nev_net` polls the bridge every 20 ms (`WF_vars(Bridge)`), so a dead
  link is noticed, the next attempt is made, and a search asks as long as it has
  queries left; a daemon that runs answers a query unless the network loses it, which
  is one of the faults. Nothing has to come unasked (`Overhears` is not in `Bridge`), so
  `ComesBack` starts from a search only while it has queries left or an answer. A
  connection's task runs when its socket, a grant or a timer wakes it, so it reads what
  has come and ends when it is over. Nothing is assumed of the user, of a cut
  connection's data, or of the daemon's 90 s limit on silent connections coming before
  the device's own: `ComesBack` holds though the stale sessions stay.
* Everything else is safety.

## 7. Proofs

TLAPS checks the theorems of eight modules, for all values of the constants that
the named assumptions allow. No bound of section 5 is used but where a model's own
guard states it as a constant of any size (`MaxSeq`, `MaxUpset`, `MaxSets`).

| module | theorems | assumptions, and why the code has them |
|---|---|---|
| `EventBusProofs` | `BusTypeCorrect`, `TokensNeverDrift`, `OrderSurvivesOverflow`, `LossesAreCounted`, `CountsWhoHolds`, `BusIsMailboxes` | `BusAssumption`, `NoEventAssumption`: finite slots, tasks and blobs, depths between 1 and `NEV_BUS_MAX_DEPTH`, a policy each, as `nev_bus_subscribe` insists |
| `BlobPoolProofs` | `PoolTypeCorrect`, `CountsAreExact`, `PoolIsSound` | `PoolAssumption`: finite blocks and references, a class per block |
| `StoreProofs` | `TypeCorrect`, `SlidersAreOneWrite`; with one task `ChangesAreNoticed`, `CleanIsSaved`, `PowerLossIsSafe` | `StoreAssumption`: the order in which a commit goes lists every key, every default lies in its range and no text's length is below 0, as in the table of `nev_store.c`; what a caller passes is a number and `Missing` is none |
| `ShellProofs` | `ShellTypeCorrect`, `OnlyOneInFront`, `ScreenNeverBlank`, `RebootComesBack`, `ShellImplementsAppLife` | `ShellAssumption`: a slot at least, no app called `NoApp`; `RowsOpen`: no app leads to one that can fail, as with the rows of the settings app |
| `CaptureProofs` | `TypeCorrect`, `CallbackIsLive`, `CeilingHolds`, `RepliesAreWhole`, `OnlyALaunch`, `RecordingLasts` | `CaptureAssumption`: the agent talks and meeting does not; arming and the least speech end before the ceiling, and the ceiling before the clock wraps, as in `nev_ptt_defaults` |
| `LinkProofs` | `TypeCorrect`, `LetIn`, `TokenIsOnFlash`, `PresenceIsTrue`, `PairingHolds` | `LinkAssumption`: slots are numbers other than `NoSlot`, codes are not `NoCode`, a wrong entry and a query at least are allowed |
| `ServicesProofs` | `TypeCorrect`, `DeviceIsAgreed`, `SpeechIsKept`, `DaemonKeepsFaith`, `DeskIsAgreed` | `ServicesAssumption`: the `Parameters` of every part, such as a snake no longer than the grid has room for (72 on 20 × 20) and a reflex floor below its ceiling |
| `BytesProofs` | `BytesAreWhole` | `BytesAssumption`: the `Parameters` of Frames, Body, Names and Discovery, such as a receive buffer that takes a header, and names that are written having no empty label and none of 64 bytes or more |

Three theorems of the store have one more hypothesis, `Tasks = {me}`. It cannot be
dropped: with two tasks, as on the device, the first is false, and the run
`store_tasks` shows the steps (section 8). The host has one.

The arguments, and what the invariants needed to become inductive:

* *Bus.* `TypeOK`, the token equation and `LossAccounted`, with two strengthenings.
  `Settled`: a task with gives outstanding is not about to publish (so `toSignal` is
  overwritten only when empty), only slots in use have tokens, events, gives or
  receivers. `Ordered`: `OrderKept` with every queued number bounded by `seq` and
  with what a coalescing subscriber has been handed; without the bound an append
  could not be shown to be the newest. What `enqueue` does to a ring is four lemmas,
  one per outcome.
* *References.* `Bound` adds `RefsExact` and `HandFree` (a receiver that is about to
  pop holds nothing). Who holds a blob is counted by *places*, a pair of slot and
  position for each: a publish makes places and takes some, a pop moves every place
  of a ring by one. `MovedCount` counts a set of places after such a move by a
  bijection, so that the number of holders changes by exactly what the step does to
  the count.
* *Mailboxes.* `BusIsMailboxes` is the safety part of `ImplementsMailbox`: a publish
  posts to every matching box what `enqueue` leaves there (`MB!Posted`), a pop hands
  over, and every other step stutters.
* *Pool.* `TypeOK`, `RefsCounted` and `OnePlace` with `Named`: a reference names a
  block exactly while it is somewhere in its life. The free list is a stack without
  repetition; the sweep disturbs stamps only.
* *Store.* With one task, `Alone`: a dirty slot is noticed but for the moment before
  the store is marked (`Noticed`); what the call in hand has done so far holds of the
  settings behind it (`Passed`); the backend has been given every clean slot
  (`Given`); a clean store is saved (`Saved`); and nothing is held anywhere that was
  not in use since the last commit (`Recent`). `Debounced` needs no such hypothesis,
  only `Waited`: a change whose time has been noted has seen a tick since.
* *Shell.* The four properties together, with `Clean` (nothing is left over while
  the shell is down). That `evict_one` finds a victim, and the right one, is
  `VictimFound`, from the well-foundedness of the naturals.
* *AppLife.* `Ranked`: `order` names the apps of the other slots along rising stamps.
  `Aged`: whoever may be suspended next was used after all of them — true because
  every frame has a time of its own and only one app steps back in it, which is what
  the order of the steps in a frame is for. Then the victim is the head of `order`
  (`VictimIsFirst`), and counting (`RoomLeft`) shows that a slot is free exactly when
  AppLife has room.
* *Capture.* The four invariants of the run are inductive together. The work is in
  the stamps: `ElapsedIs` says what an unsigned difference makes of one that lies a
  reading ahead of the frame's time.
* *Link.* `SurvivesReboot` speaks of two variables of the device; to prove it one has
  to know what is on the wire. `OneSocket` and `Stored` say what the device keeps: the
  token in RAM is the one set in the store, and that one is on flash or known to have
  been missed, but while the device is keeping one it has not committed yet. `Line` says
  of every connection that a session is new until it has read the one greeting and the
  greeting names the token the device has (`GreetedOnce`), that an acceptance is said
  alone and of a token that the last commit dealt with (`AcceptedAlone`), that the answer
  to a pairing follows the request for one and a token comes last (`InOrder`), and that
  both ends agree (`Agrees`, on a wire that is whole). `Accounted`: every token issued is
  the one in `devices.json` or is known to be gone.
* *Services.* `ServicesInv` is one invariant per part, of which the subject's holds.
  *Wifi*, *Match*, *Runner* and *Persona* are inductive as they are. *Ota*: what stands
  offered has been judged. *Power*: what is swallowed is a finger that is down.
  *Records*: what each save and each purge has yet to do, it does to a record nobody else
  has touched (`Saved`, `Purged`). *Game*, *Sound*: the run's best, and the samples that
  wait, follow from where they began. *Stream*: captures are in their order in the ring,
  each with its end there, still to come or lost (`RingInv`), on every wire (`WireInv`)
  and from one to the other (`LinkInv`); a meeting that is still open is the one its
  connection is in, or one whose end was lost (`TaskInv`), and a connection that has not
  begun has no task. *Replies*: what a task took, what waits and what was sent add up, to
  the message (`TurnInv`, `Told`); a message follows the one before it (`InOrder`); after a
  newer reply has begun an older one sends the rest of a piece or its end, and then looks
  whether it is still the newest (`SentInv`). *Focus*: the timer's mark follows the clock
  by whole seconds, across its wrap (`Timed`). *Snake*: the head is the neck moved one on,
  and each queued turn is no reversal of the one in front of it; that there is a free cell
  for food is counted. *Breakout*: the bricks that stand are as many as `left` says.
  *Reflex*: a counted round took the floor at least, and the score's bound over all rounds
  is a least counterexample (`LeastNatural`), not an induction.
* *Bytes.* `BytesInv`, again one invariant per format. What a whole sequence of frames,
  lines or labels comes to is a fold in the properties; the proofs know it by its values
  step by step (`Joined`, and for the decoders `Sizes`, `ChunksOf`, `LinesAt`), and that such
  a function exists and is the only one is a least counterexample once more. *Frames*:
  what is left to read and what was read are together what was sent, from some frame on
  (`Left`, `From`, `Arrived`), and what is queued goes out frame by frame (`Fronts`). *Body*:
  what is in the decoder's buffer and on the way is the stream from some place on
  (`Placed`, `Yet`), and the lines so far are those of what was decoded (`Splits`). *Names*:
  up to its first pointer the cursor is where the name's own bytes lead (`Walking`), and
  of a name that lies there so many labels are behind it (`InPlace`). *Discovery*: all
  that has been parsed comes from a record that went before (`ServiceIs`, `AddressIs`), and
  of answers about one daemon nothing else has been taken (`OneDaemon`).

Only model-checked, and why:

* All liveness — `Recycled`, `WrittenBack`, `ComesBack`, the fairness part of
  `ImplementsMailbox` —, which like ENABLED this prover cannot reason about.
* `MessagesAgree`. What a decoder makes of a message is a fold over its fields and each
  field's bytes; that it is right for every schema and every length has not been proved.
  The run takes every message of the schema, at its limits, and the frames of a stranger.

The proved modules compute with functions and with the folds of the community modules
and have no RECURSIVE operator.

## 8. Disagreements

Five places where the program does not do what its own text says; each is a run
that ends in a counterexample.

* `publish_order` — `docs/event-bus.md:208` guarantees that "for any single
  publishing task P and any single subscriber S, events published by P are
  delivered to S in publish order". Coalescing overwrites in place
  (`nev_bus.c:170`): publish a snapshot, a token, a newer snapshot, and the newer
  snapshot arrives before the token. `OrderKept` is what does hold.
* `blob_stale` — `nev_blob.h:71`: "Warn about any blob held longer than
  max_age_ms". The sweep reads the clock once and each stamp later
  (`nev_blob.c:210`); a block allocated in between has a stamp in its future, the
  difference wraps, and a block a millisecond old is reported as leaked.
* `store_tasks` — `nev_store_commit` lowers the store's dirty flag after its loop
  (`nev_store.c:231`) without looking whether a slot was marked meanwhile. On the
  device `nev_ui` commits from its tick while `nev_net` stores a pairing token:
  the token stays unwritten in a store that says it is clean, nev_net's own commit
  finds nothing to do, and no tick ever looks again. `nev_store.h:122` promises to
  "write back pending changes once they have settled". With one task, as on the
  host, `PendingNoticed` holds.
* `replies_cut` — `ollama.rs:246`: "a reply cut off by a dead server should not look
  complete". `request_lines` (`http.rs:327`) takes the end of the connection for the
  end of the body, whatever the framing said, and returns `Ok`; the device gets
  `AgentDone` without an error and the conversation remembers half a reply.
* `link_search` — `nev_mdns.c:17` stops after forty queries: "a minute of trying, then
  the caller decides". The caller does not: `nev_mdns_poll` says "not yet" for ever after
  (`nev_mdns.c:305`), and `nev_bridge_poll` goes on waiting for as long as the network
  stays (`nev_bridge.c:567`). A device whose daemon is started two minutes later finds it
  only if the daemon announces itself.

Other things met while modelling, which the properties state around (each says
what it excepts) or which no property speaks of:

* *Capture.* Launching notes over a talking agent resets the one gesture and leaves
  the microphone open (`OnlyALaunchOrphans`). A gesture suspended while it believes
  it talks can stop a meeting's recording (`MeetingEndsByHand`). A held button's
  ceiling is applied by the tick of the app in front only, so a talk suspended with
  the button down may outlast it. The agent, suspended while its answer comes,
  goes on waiting. A factory reset stops the microphone under a gesture that is not told
  (`settings_app.c:64`).
* *Settings.* The range of a text bounds its length (`nev_store.h:34`), but only its upper
  end is looked at: a device name, of at least one character by the table, may be set to
  none (`nev_store.h:53`). `TypeCorrect` of the store says what does hold (`Held`).
* *Store.* The return of the commit that keeps a granted token is ignored
  (`nev_bridge.c:302`): the screen says it worked, and the token waits for the store's
  next try. A factory reset whose erase fails leaves defaults in RAM and the old values
  on flash.
* *Link.* The silence limit is applied only when READY (`nev_bridge.c:628`): a
  device whose daemon vanishes while it is CONNECTING or PAIRING stays so. A token
  stored by the daemon whose grant is not delivered means pairing again, against
  `state.rs:123`. `touch` can write over a pairing or an unpairing (`server.rs:334`).
  A connection that stops delivering is dropped after 90 s, while its code lives for
  180. `nev_bridge_forget` runs on `nev_ui` without a lock while `nev_net` polls; the model
  takes it whole, between two polls.
* *Updates.* `nev_bridge.c:136` expects ota_core to reject an offer whose digest has
  the wrong length; it is announced, and fails only when the download is finished.
* *Wi-Fi.* "New credentials clear the backoff" (`net_core.c:49`) only in IDLE. An address
  taken back while the association lasts goes unnoticed (`net_core.c:58`).
* *Speech.* A meeting is promised to be kept if its device goes (`server.rs:287`), but a
  task that cannot show its partial, because the connection's writer has ended, returns
  with nothing filed (`server.rs:433`). Chunks lost before the first that arrives, or
  dropped where an utterance is over-long, are reported by nobody (`session.rs:398`,
  `:433`).
* *Records.* A recording that could not be removed stays when the record that named it
  goes (`lib.rs:196`), and so does one whose record could not be saved (`server.rs:472`,
  `:556`).
* *Replies.* A piece of over 384 bytes goes out as several messages with no look at the
  newest question between them (`server.rs:588`), so a stale reply may add the rest of one.
* *Discovery.* The first address of a packet is kept, whosever it is
  (`nev_mdns.c:231`), against "whichever order they arrive in".
* *Codec.* Both ends step over 64-bit floats and a list in fields appended by a newer
  peer, which `docs/protocol.md:71` has "refused outright".
* *Games.* A run broken off after it had beaten the best loses it; a buffered jump
  keeps its grace, so a second jump in the air is possible. A factory
  reset leaves a suspended game the best it has (`settings_app.c:67`). Filling a board
  "cannot fail and needs no retry bound" (`match_core.c:136`), but a tile is drawn sixteen
  times at most and a dead board sixty-four, and then stays as it is.
* *Face.* "The face concentrates for as long as the timer runs" (`focus_app.c:103`), in no
  program: where the focus app runs the persona is not set up (`persona.c:78`).

## 9. Not modelled

* Drawing, layout, faces, themes and LVGL; board drivers and the simulator's
  stand-ins; SHA-1 and SHA-256 (a digest is the thing digested); the transcriber,
  an external program; the schema generator. They keep no state that the rest
  depends on the order of, and have known-answer or golden tests of their own.
* `nev_bridge_ask` and `nev_bridge_mark` encode on `nev_ui` into the buffer that
  `nev_net` sends from. Without a lock what goes out is any mixture of two
  messages; modelling it says no more than that.
* UTF-8, JSON, the words of prompts and replies, WebSocket masks, HTTP and upgrade
  headers beyond the fields that decide, certificate and route handling of the
  control page.
* Positions: of the ball, the paddle and drops, of the runner and its obstacles,
  of a face's gaze. Where they decide, the outcome is a choice.
* The text format of the settings file and the NVS namespace are abstracted to "key
  holds a value or is missing". The bus's per-event flags other than coalescing and
  the blob flag, log lines and statistics nobody reads back (`high_water`,
  `s_alloc_failures`) are left out. Waiting with a timeout in `nev_bus_recv` is a
  step that may be taken later; a timeout that expires changes nothing.
