# A TLA+ model of cubegarden

cubegarden is the firmware of battery-powered light cubes (directory `src/` of the
repository, a Kinetis K22 with ChibiOS) and of the master badge that manages them
(`src-heart/`). The two share most of their files. In what follows `baton.c` means
`src/baton.c`, and the badge's version is written `src-heart/baton.c`.

This directory holds TLA+ modules for the parts of the firmware in which threads,
interrupts, radio packets and losses of power meet, the TLC configurations that check
them, and proofs for TLAPS.

## 1. The system

### Threads and interrupts of a cube

| thread | priority | runs |
|---|---|---|
| Events | NORMALPRIO + 16 | every event handler, those of radio packets included (`orchard-events.c`, `orchard-app.c`) |
| Orchard App | NORMALPRIO + 10 | the running application |
| BatonManager | NORMALPRIO + 1 | `baton_thread` |
| shell | NORMALPRIO + 1 | the shell commands |
| effects | NORMALPRIO - 6 | the light patterns, Whackamole among them |
| interrupts, virtual timers | - | `radioInterrupt`, `run_ping`, `run_chargecheck`, ... |

A handler runs to its end unless it sleeps or waits for a mutex; then everything of
lower priority can run in the middle of it. ChibiOS assertions are compiled in and stop
the system; the watchdog then resets it.

### Components

| component | state it keeps | operations | meets | hard about it | what makes it correct |
|---|---|---|---|---|---|
| storage (`storage.c`, `flash.c`) | the flash sectors | `storageGetData`, `storagePatchData` | genes, userconfig, audit log, from several threads | power cuts in any flash operation, no lock | a patch is atomic, no other block is harmed, no assertion |
| audit log (`test-audit.c`) | block 2 | append, update | storage | two patches for one append, pointers into the flash | the log has what was recorded, once |
| userconfig (`userconfig.c`) | RAM cache, block 1 | setters, `configLazyFlush`, `configStart` | storage, everyone | torn flush, no flush at power-down | what was flushed survives, defaults are only used on a blank block |
| baton (`baton.c`, `fx/fx-wmole.c`) | `BatonState`, `maxActualCubes` | `passBaton`, `handleRadioBaton`, `baton_thread` | radio, effects, other cubes | lost and late packets, three threads without a lock | one baton; every pass ends |
| radio (`radio.c`) | `mode`, `thread`, mutex | `radioSend`, `radio_unload_packet`, interrupt | all senders, all packet handlers | one interrupt line with two meanings | nobody waits for ever, no packet waits for ever |
| address (`address.c`, `src-heart/address.c`) | radio address, counter | request, answer | radio, userconfig | lost answers, loss of power before a flush | no address twice |
| effects (`led.c`, `fx/`) | `fx_index`, `fx_previndex`, `shift`, the stop handshake | select, temporary effects, draw, stop and start | baton, time, charge check, shell, tests | indices and brightness changed by three threads, two flags | tests and effects never drive the LEDs together, temporary effects end |
| charge check and ship mode (`orchard-app.c:612-707`, `charger.c`, `main.c:108-144`) | `stashed_shift`, `last_voltage` | once a second | watchdog, radio, userconfig, effects | order of stash and restore; all in one handler | a low battery brings the safety pattern; the watchdog is fed only while the event thread runs |
| network time (`time.c`) | `offsetMs` | `broadcastTime`, `handleRadioTime` | effect loop | jumps at any point of the loop | cubes show the same frame |
| friends (`src-heart/orchard-app.c:85-343`) | table of records | ping, add, clean up, clear | radio, ping timer | random intervals, lost pings | who is near is kept for a while and noticed again, who has gone is forgotten |
| application lifecycle (`src-heart/orchard-app.c:696-1121`) | `instance`, the application's thread, launcher timer | run, end, restart | events, keys, interrupt | nothing guards `instance` | one thread, a request is carried out, an application always comes up |
| sex protocol, genes (`orchard-app.c`, `genes.c`) | the gene block | request, acknowledge, recombine | radio, storage | pointers into the flash kept over a sleep | genes stay well-formed |
| pattern arithmetic (`orchard-math.c`) | - | saturating, gray-code | effects | width of bytes | equals its reference definition |
| forwarded commands, paging, triggers | - | run a command, set an effect | events | the shell's commands in the event thread | - |
| sensors, shell, screens, badge applications | | | | I/O | - |
| ChibiOS, uGFX, C90TFS, libfixmath | | | | external | - |

`PROJECT.json` lists the same components with what is modelled of each, and the hazards
of this code with the line where each bites.

## 2. The modules

| module | models | checked by | proofs |
|---|---|---|---|
| `Storage` | the block store, one step per flash operation | `StorageCrash`, `StorageRace` (through `MCStorage`) | `StorageProofs` |
| `BlockStore` | what the store promises | refined by `Storage` | `StorageProofs` |
| `Clients` | audit log and configuration on the sectors of `Storage` | `AuditPower` (`MCClients`) | `ClientsProofs` |
| `Baton` | the baton protocol among N cubes and Whackamole | `BatonIdle`, `BatonStuck` (`MCBaton`) | `BatonProofs` |
| `Token` | what the hand-over of the baton promises | refined by `Baton` (`BatonIdle`) | `BatonProofs` |
| `MasterBaton` | those cubes and the badge, which makes new batons | `MasterGame` (`MCMasterBaton`) | `BatonProofs` |
| `Radio` | one transceiver shared by threads, with the watchdog | `RadioShared` (`MCRadio`) | `RadioProofs` |
| `Address` | badge and cubes: addresses, counters, configuration in flash | `AddressReuse` (`MCAddress`) | `AddressProofs` |
| `Effects` | which effect a cube shows, how bright, and the stop handshake | `EffectsSafe` (`MCEffects`) | `EffectsProofs` |
| `Sync` | network time and the frame loop | `SyncJump` (`MCSync`) | `SyncProofs` |
| `Friends` | pings, credits and the list of friends | `FriendsNear` (`MCFriends`) | `OrchardProofs` |
| `Apps` | application thread, its restart, the launcher timer | `AppSwitch` (`MCApps`) | `OrchardProofs` |

`Clients` takes the sectors and the choice of the sector to recycle from `Storage`
(`INSTANCE Storage`), and `Storage` implements `BlockStore` (the property
`ImplementsBlockStore`), as `Baton` implements `Token` (`HandsOver`). `OrchardProofs` has the theorems about the two
modules of the badge's `orchard-app.c`, and so `Apps` calls its specification `AppsSpec`. The other modules meet in what they abstract of each other: a
lost or late packet in `Baton`, `Address`, `Sync` and `Friends` is what `Radio` may do to one; the
flush of `Address` that is done, not done or torn is the one that `Clients` and `Storage` show to
be possible; the change of the effect in `Baton` is the selection of `Effects`.

Operators whose comment begins with "Mutant" are plausible mistakes in the code; each
property was seen to fail with one of them put in the place of the definition that follows.

### Storage and BlockStore

`flash` is the array of sectors: signature, block and journal number of the header, and
the data words. `op[t]` is the activation of `storagePatchData` in thread `t`, with its
local variables and the place it has reached. Every call of `flashErase` and
`flashProgram` is a step, because each holds `chSysLock`; so is every scan of the sectors.
`PowerCut` may come at any time during a patch, and inside a `flashProgram` it leaves a prefix of the
words. The block field of a header that was cut short is 0xFFFFFFFF, with which
`find_empty_sector` indexes its arrays out of bounds (`storage.c:65`): the word it finds
there is a nondeterministic choice (`garbage`). `Erase` is atomic: a power cut inside a
sector erase is not modelled. Journal numbers count down from `Youngest`.

`BlockStore` is the caller's view for one caller: a patch takes effect in one step
(`Commit`), or is refused when the journal number is used up, and a power cut
leaves the block being patched old, new, or new up to some word and then blank (or old,
if it was patched in place). `ImplementsBlockStore` shows that `Storage` does that;
the block stored is the old copy while the new one is being written. The torn outcome is
no defect of the model: the new header is valid before the words are there, so after a power cut the
half-written copy is the block, and `configStart` or `geneStart` replaces it by defaults
when its signature is blank. So the loss of the block that is being moved is permitted here, and no property
of the project rules it out.

`StorageCrash` uses four sectors and two blocks (the firmware eight, or sixteen, and three):
the assumption `Cardinality(Blocks) + 1 < SectorCount` is what the proof needs, the spare
sector and one header that was cut short, and four sectors for two blocks is the tightest
case. Two data words give a
prefix, a patched word and a suffix in turn; `Youngest` = 2 reaches the journal overflow.

`StorageRace` lets the shell (`name`) and the event thread (the handler of a sex acknowledgement)
patch the gene block, from a store in which every block has its sector. The event thread preempts
the shell anywhere; the shell runs while the event thread waits for events, and while it sleeps
the millisecond that each flash operation takes to slow the clock down (`flash.c:24`). The handler goes on to its
patch only if the name it finds is the packet's (`orchard-app.c:500`), so not from a sector that is
still blank. In the run's trace the event thread has written the header of the new sector and sleeps;
the shell finds the new, still blank copy and decides to program it in place; the event
thread wakes and programs it; the shell's `flashProgram` refuses and `storage.c:173` asserts. Nothing about
storage is claimed for two callers.

### Clients

Two users of the store that do not know of each other. The audit log is appended to in two patches
(`test-audit.c:175`, `:180`), with pointers into the flash kept from before the first; the
configuration is a cache in RAM that the charge check flushes when it differs. Here a
`storagePatchData` is one step (`Return`), or a power cut in the middle of it (`Torn`): that
these are all the outcomes is what `StorageCrash` shows. `Begun` has those of a header cut short: the sector is
erased, has a signature but no block, or has both and still the blank journal number, which makes it the oldest copy. `patch` is the patch under way, `shell` the
`auditUpdate` under way with its pointer `log`. `last` and `saved` record what was last written
and not cut since; only the properties read them.

- `AuditTruth`: after any power cut, the log has for each test the result that was last
  recorded. Between the two patches of an append it may not: the entry is there, the count
  is not, and the next append overwrites it, which is as well. Only a cut within a
  relocation of the log itself may take entries away (`last` is then "unknown").
- `OneEntry`: a cut never leaves two entries of one test.
- `SettingsKept`: a flushed setting is there at the next boot.

Two entries, two tests, four sectors, two power cuts; the log may be relocated four times, the
configuration twice. That is enough for a cut between the two patches, one in the relocation of either
block, and a recycled sector of the other. The flush of the
event thread may come between the two patches of an append. If it takes the sector the pointer still shows
(`~Valid`: the first entry of a log moves it to another sector, so does an append after a torn entry),
`newCount = log->entry_count + 1` (`test-audit.c:179`) reads a word of another block. The shell then is in
"stale", from which only a loss of power leads, and nothing is claimed about the log it would write. The check for space (`test-audit.c:164`) compares with `BLOCK_SIZE`, which
counts the header of the sector: at a full log it lets one more entry pass than there is room for.
The shell then is in "overrun", where the assertion of `storagePatchData` fires. From these two the model does not go on,
so the run does not check for deadlock.

### Baton

Per cube: `state`, `to`, `retry`, `uses` are the fields of `BatonState`; `max` is
`maxActualCubes`; `inbox` the one packet the radio can hold; `acks` the rest of the train
of acknowledgements in which `sendBatonAck` keeps the event thread; `th` the places of the
baton thread and of the effects thread. A check of the state, the assignment of a new one and the packet
are separate steps. The event thread preempts the other two (`Preempted`). `Tick` is
100 ms of time: the cooldown (500 ms), `BATON_PASS_WAIT` (200 ms) and the retry interval
are lower bounds, and an acknowledgement train takes less than one tick. Packets are
broadcast and may be lost by any cube; `Losses` bounds how many deliveries are, and a
packet that meets a full inbox is one of them, except during an acknowledgement train.

- `BatonIdle`: N = 3, one baton, no game. With `Losses` = AckDup - 1 = 2 there always is
  exactly one baton (`OneBaton`). The bound is tight: with 3 losses the acknowledgements
  of a hand-over can all be lost, and its retry makes a second baton. The real cooldown of 5
  ticks and wait of 2, `BATON_MAX_AUTORETRIES` 4 and three acknowledgements are used. `maxActualCubes` is 4, so
  that a pass may go to nobody and is given up after its retries. `HandsOver` says that the baton moves as the
  token of `Token` does: the cube it is offered to takes it and no other one, and an offer is not made to another
  address before, unless nobody has the first. `Bearer` maps the states of the cubes to the token: it is with the
  cube that holds the baton, and with the one that passes it on while nobody holds it. So the stretch in which the
  passer has not heard yet that it was taken is a stutter of `Token`.
- `BatonStuck`: that every pass ends, whatever the effects do (`AllPassesEnd`), is violated; see the findings.

Two more facts that a reader of `baton.c` meets in the model: `passBaton` checks
`maxActualCubes` (`:143`) and reads it again (`:164`), and a `baton_maxcube` packet of 1 in between, at cube
1, leaves no address to draw, so that its loop never ends; and a pass for another cube changes nothing
(`:84-91`), though `baton.h:62-64` says that it resets the state.

Fairness: strong for each of the three threads and for `Tick`. The scheduler runs each
thread between the sleeps of the others, and those sleep in every loop; strong, because the event
thread and the channel take turns being busy. `rand()` need not be fair: in the liveness
runs every address drawn is that of a cube.

Not modelled: the increment and specified strategies, `retryBatonPass` and
`abortBatonPass`, none of which the firmware calls; the `fx` value and the timers of the
game (whacking the mole may happen any time); `announce_time` (a beacon may be sent any time).

### MasterBaton

Among themselves the cubes do lose batons: when the beacons of two holders cross, each clears
the other (`baton.c:79`); a beacon that was decided on before the baton was passed on (`:189`) clears the new
holder; a player that leaves Whackamole in the middle of a pass never repeats it. Only the master badge makes a new
baton, and `MasterBaton` is `Baton` with the badge added: the variable `badge`, which is "off" in the runs of `Baton`
alone. Its `pc` is the place in `baton_new_random`, with the packets still to be sent there (`more`) and the sleep
(`ticks`), `passing` is `baton_passing_g`, `silence` the time since `last_ping_g`.
`baton_new_random` announces the number of cubes (`SendMaxCube`), claims the baton so that every cube gives its own
up (`SendClear`), waits 200 ms, and passes to a cube drawn at random (`Draw`) until it hears an acknowledgement
(`SendNewPass`, `Awake`). Whackamole of the badge calls it after 30 seconds without a beacon, the B key at any
time. The badge may miss any packet of a cube (`Overhear`). `Losses` counts those the cubes miss.

- `MasterGame`: two cubes play, both with a baton, and the key may be pressed at
  any moment. `Restored`: time and again there is one holder and no pass under way. So in this instance a second baton
  disappears, a baton that the beacons cleared is replaced, and every pass ends. The counters are cut down (one
  announcement, two beacons, two passes, one acknowledgement) because the fairness of eight processes over a hundred
  thousand states takes minutes; pause and cooldown are a tick each (200 and 500 ms in the code), and `Losses` is
  0: a cube misses only what comes during its acknowledgement. With one loss and one pass the property holds too
  (116,380 states). The run does not check for deadlock, since no key need be pressed. Changes of the effect are
  in `BatonStuck` only (`SwitchNext`).

The model shows one more way to two batons, without the loss of a packet: a cube whose cooldown began before the badge's beacons cleared it
and which then is given the new baton passes it on at once. The badge hears that pass, which sets
`baton_passing_g` again (`src-heart/baton.c:103`), and repeats its own. In a game the beacons of the holders put an end to that
(`Restored`); among cubes that do not play there is none.

Fairness: as in `Baton`, strong for the badge too. A key is never needed.

Left out: the A key, which only clears the batons; the key and Whackamole making a baton at
the same time; `baton_holder_g`, on which it depends whether a beacon clears `baton_passing_g` (both are
possible in `HearBeacon`).

### Radio

`mode`, `ref` and `owner` are `radio->mode`, `radio->thread` and the mutex; `chip`, `dio`,
`ready` and `fifo` are the transceiver: its mode, what drives the line DIO0, a received
packet with a good CRC, the packet to be sent. `radioSend` is one action per step that another thread or the
interrupt can observe, `Interrupt` the handler of a rising edge, part of the step that causes it.
Whether a received packet survives the turn to transmission is nondeterministic.
`Unload` is `radio_unload_packet`, which takes no mutex and may drain a FIFO a sender has
just loaded. `WdogPing`, `Pump`, `Period` and `Reset` are the watchdog: fed at the head of
`handle_chargecheck_timeout` (`orchard-app.c:621`), which then needs the mutex for the
"pump" (`:702`). The comment there says the pump is "now gone"; without it the event thread would
go on feeding the watchdog after a lost wake-up, and nothing would ever free the radio
(the mutant of `Released`).

`RadioShared` has two senders besides the event thread. `WokenWhenSent` and `NeverDeaf`
are the two sides of the shared interrupt; `Released` says that the mutex is always given
back. The interrupt that comes between loading the FIFO and the suspend (`radio.c:726-732`)
is lost; `Released` then holds by the watchdog's reset. Fairness: weak
for each running thread, for the end of a transmission, for the watchdog's clock and its
bite; strong for the once-a-second timer, whose event thread may be busy at any one moment. A
reset while everything works is allowed, which only adds behaviours.

### Address

The badge's `counter` and `kept` (in flash), the request its radio holds, the answer it is
`serving`; per cube `radio` (`radio->address`), `cfg`, `saved` (in flash), the answer
`heard`, the `setting` the shell has written to the radio but not yet to the configuration,
and `power`. `handleAddressRequest` is three steps, since it sleeps before it sends, and
the shell may set the counter in between. A power cut leaves a flush done, not done, or
torn, as `Storage` shows to be possible: then the boot uses the defaults, or a blank byte.
`floor` is the smallest number a cube was set to, or the counter went back to, by the operator or a loss of power,
and `OnlyRecentReused` says that two cubes share no address below it.
`Upsets` bounds the settings of the operator and losses of power in a run (three).
The default address of a cube is the last assignable one, as in the firmware
(253); a cube that is handed it believes it has none.

`AddressReuse` uses two cubes that are alike (symmetry; all of its properties are invariants), three assignable addresses and a blank byte of 5, in
place of 253 and 255. `ShipMode`, the switch held for two seconds (`main.c:131-142`), loses what was not flushed yet, though
`userconfig.h:41` asks for a flush on power-down; the address is then handed out anew.

### Effects

`index`, `prev`, `shift`, `off`, `exit` are `fx_index`, `fx_previndex`, `shift`, `ledsOff` and
`ledExitRequest`; `age` is the time since `fx_starttime`; `th` the places of the shell (which is
the main thread at boot) and of the effects thread, each with the effect and the brightness it holds in
a local variable. The event thread preempts both, so its handlers are cut only where they sleep: `Select` is one
step, and the charge check two. `ChargeCheck` reads the gauge and dims or restores; then the charger is asked again
over I2C, which sleeps and lets the others run, and `ChargeCheckLimit` compares with the thresholds. What the charger
answers in the chain of conditions (`orchard-app.c:658-686`) is one reading. `volts` keeps the gauge's reading of a
check under way, and while there is one the event thread does nothing else.
The effects thread runs only while the shell sleeps (`Runs`). `draw_pattern` is cut where
it reads `fx_index` again: the effect it draws, the check for expiry and the assignment
`fx_index = fx_previndex` may each meet another index. The `bright` command is cut between what it reads, the level
or the charger, and what it assigns (`Bright`, `BrightSet`). Two patterns set the brightness to full and back, the
strobe always (`fx-strobe.c:23`, `:44`) and Whackamole when it sparkles (`fx-wmole.c:215-235`); whether it does is a
free choice in `Show`, as the game is not modelled here. `Level` joins the three thresholds of the battery's
voltage into one. Layers, colours and what the effects draw are left out, and so are the keys with which an
application changes effect and brightness (`app-default.c:363-376`, `app-launcher.c:182`).

- `StopSafe` (`led.c:78`, `:728-736`, `:811`): while a test drives the LEDs there is no effects thread,
  and the next one does not meet the request that was meant for the one before.
- `LitAgain`: after the last request the cube has an effects thread for ever.
- `TempEnds`: a temporary effect ends. The exception, that the effect to go back to is itself a temporary one, is
  a race of `effectsSetTempPattern`, which looks at `fx_index` twice (`led.c:572`, `:575`): it
  saves a temporary effect when the event thread selects one in between, and the cube then never leaves it.
- `SafetyMode`: a battery that stays below the safety threshold brings the safety pattern
  and a limited brightness for good, whatever expires, is restored or is stashed meanwhile.

The run has three effects: Whackamole, which is persistent and the one a cube starts with here, the safety pattern, and the
strobe, which is temporary (`PAGE_DISPLAY_MS`) and stashes the brightness. The battery is full or
below the safety threshold (`Volts`): a weak one sets the same variables in the same places, and no property is about it.
One level for `bright`, the brightest, is the one that the limits have to correct.
`Requests` = 2 allows a selection or a level during a test, or two tests; `LongAgo` = 2 is one more than a
temporary effect lasts. Fairness: the charge check comes once a second, the clock goes on, and
a thread that does not sleep goes on whenever no other preempts it (weak). One assumption is strong,
`SF_vars(StartFound)`: `effectsStart` adds the new index to a pointer that has moved already
(`led.c:787-788`) and may read behind the table, where any word may be; it is assumed that
the search does not meet non-zero words for ever.

### Sync

`err`, `lag` and `drift` are the corrected clock against the master's clock, `last_time` and the frame
counter; clocks go on for ever, differences do not, and the 32-bit wrap is left out. A time packet
(`Receive`) may come at any point of the loop of `effects_thread`, which reads the clock up to four times in a round: each
reading is a step of its own (`Check`, `Adjust` and `Recount` for a major adjustment, `Frame`), and so is `Draw`. A test
stops the effects and starts them anew. `time_slop`, which the `slop` command of the shell sets, is 0, its initial value.

- `KeepsLocked`: once the frame counter fits `last_time` only a restart takes it away, or a time packet that comes
  between the two readings of a major adjustment (`led.c:703`, `:704`): then `last_time` is set on the clock before the
  packet and the counter on the one after it, and nothing mends it before the next major adjustment. TLC finds the
  property violated without this exception.
- `JumpSyncs`: a big step brings the loop into step with the master, for good unless the effects
  are stopped: `effectsStart` sets `last_time` but not the frame counter (`led.c:792`, `:692`), so that
  a cube is behind by the length of the test until the next big step.

`Redraw` = 3 and `Major` = 2 (35 and 10 in the firmware), clocks that are far ahead, far behind or a
little off (by up to `Skew`). Packets may all be lost: no fairness for `Broadcast`. `Start` is strongly fair since tests end.

### Friends

The badge's `credit` per name, `cleanup_state`, silent mode; `due` is when each of the others pings next. The
intervals are real, in whole seconds, and so are the credits (4 and 12). An interval is
`PING_MIN_INTERVAL + rand() % PING_RAND_INTERVAL` (`src-heart/orchard-app.c:767`, `:1097`), and `rand()` is signed
(`orchard-math.c:108`), so it is 3001 to 6999 ms long and not 5 to 7 seconds. All of it runs in the event
thread but `friendClear`, which holds the mutex, so each handler is one step.

A credit is taken every other own ping, 6 seconds apart at least, while a friend's pings may be 7 seconds apart: a friend who
stays near can lose more credits than it gains, and be dropped even if no ping is lost. So what the comment in
`handle_ping_timeout` says, that friends nearby "build up credit over time" (`src-heart/orchard-app.c:148-149`), is true
on the average only, and the properties say what is certain:

- `NearKept`: who is near and has a record keeps it for `Grace` = 9 pings heard, with one ping lost among them, whatever the phases of
  the two timers are. `since` counts the pings heard since the record was added.
- `Noticed`: who stays near alone is on the list time and again, however full it was.
- `Forgotten`: who has gone, and everyone in silent mode, is forgotten, and no late ping brings it back.

Two names and room for one record reach the full list. `Moves` = 3 arrivals, departures and changes of
mode. Fairness: weak for the timers and for the arrival of pings that are not lost.

### Apps

`pc` is the place of the application's thread; `thr`, `term`, `evt`, `ended` are `instance.thr`, its
termination flag and the two events; `engaged` and `armed` are the launcher timer. The thread is
cut at each access to what it shares (`Decide` reads `next_app`, `ClearNext` clears it, `ResetTimer` and `Exit`), as
the event thread (`Release`, `Create`, `Poke`) and the timer's interrupt (`RunLauncher`) come in between.
`RunLauncher` with `thr` NULL, possible between `Release` and `Create`, writes through a null pointer:
`Fault`, and the watchdog resets the badge. `Run` is the launcher's `orchardAppRun`, `RunTest` that of the shell's `test`
command (`cmd-test.c:38`), which may come whatever runs. `orchardAppExit` is not modelled: nothing calls it.

- `NoAssert`: "App thread still running" (`orchard-app.c:1111`) never fires.
- `Switches`: a request made while an application runs ends it, and chooses the application asked for,
  unless another is asked for. A request between `Decide` and `ClearNext` is lost, and one after it is carried over to the next end.
- `ComesUp`: an application always comes up again, even after a fault.

`Presses` = 6 changes of the key or test commands are enough for a timer that is set in each of the windows. The run may
stop when nobody presses a key or types. Fairness: all threads run.

## 3. Findings

Runs marked `violation` in `PROJECT.json`, each with its counterexample:

1. `StorageRace`: the shell's patch of the gene block enters while the event thread's sleeps in a flash
   operation, finds the new sector still blank, and ends in the assertion "Low level
   programming error in storagePatchData".
2. `BatonStuck`: Whackamole passes without a retry interval and promises to retry itself
   (`fx-wmole.c:137`). If the effect is changed while the pass is under way (the battery's
   safety pattern, a trigger, a page), nobody retries: the cube passes until a beacon reaches it, one of the badge's when it makes a new baton.

What else was met while modelling is noted with the modules above and among the hazards of `PROJECT.json`.

## 4. Proofs

All proofs are checked by TLAPS 1.4.5 with Z3, Zenon and LS4. Each has the same form: an
inductive invariant `IInv`, one lemma per action, and the theorems from it.

- `StorageProofs`, for one caller (`Threads = {t}`) and any number of sectors, blocks
  and words that satisfies `StorageAssumption`. `TypeCorrect`, `NeverAsserts`,
  `NeverLosesNewest`. `NoAssert` is not inductive: that the range to be programmed is blank
  depends on what the steps before did, and that a sector can be given up depends on
  how many signed sectors there are. The invariant therefore says, for each place in
  `storagePatchData`, what the destination holds, that the source is a newest copy and
  another sector than the destination, that no two copies of a block are equally new, and
  that not every sector is taken (a pigeonhole argument on headers and blocks).
  `KeepsPromise` is the refinement of `BlockStore`. It needs one more invariant (`CopyInv`): the copy being
  patched is the newest until the header of its successor is written, and the words written to the successor so
  far are those of the new contents. Each step of `Storage` then is a step of `BlockStore` or changes nothing there: the header
  is the point from which the new copy is the block, the last word is the commit, and a power cut in between
  leaves the prefix that `BlockStore` allows.
- `ClientsProofs`, for any number of sectors, entries, tests, settings, relocations and power cuts: `TypeCorrect`,
  `LogIsTrue`, `NoTwoEntries`, `FlushedSettingKept`. The invariant has two layers. On the flash (`FlashOK`) no two copies of a
  block are equally new; every step replaces one sector that is not a current copy, or changes the data of a
  current one, and so leaves the other block alone (`MoveStep`, `InPlaceStep`, `BlankStep`, `CreatedStep`). That
  `find_empty_sector` gives up only such sectors is the lemma `EmptyIsOutdated` of `StorageProofs`, taken over by
  `INSTANCE`. On the contents, the log is fresh or well formed (`LogOK`), which every prefix of it is too
  (`PrefixIsOK`), because the result of an entry comes before its name; what `auditUpdate` has written but not counted changes
  none of the entries (`EntryAside`); and at the count the entry is where the pointer of before says, as long as
  that sector still is a copy of the log (`Appended` in `ShellInv`).
- `RadioProofs`, for any set of senders: `TypeCorrect`, `SleepsUntilSent`, `HearsAgain`. The
  invariant says which values mode, transceiver and line have at each place of `radioSend`,
  and at rest, and that the line is never up unnoticed.
- `AddressProofs`, for any set of cubes, range of addresses, settings and number of
  upsets: `TypeCorrect`, `NoReuse`. The invariant counts an address in a packet as held by the cube it is for
  (`Held`), and says that what is held below `floor` is below the counter, or is the address being
  handed out, held by its cube only (`Behind`), and by one cube only (`Single`).

- `EffectsProofs`, for any table of effects, levels and requests: `TypeCorrect`, `StopIsSafe`. `StopSafe` needs to know
  that the shell draws only while there is no effects thread and that each thread keeps to its part
  of the program (`Alone`), and `TypeOK` that what the shell is about to select is an effect (`Chosen`).
- `SyncProofs`, for any redraw interval, latency and clocks: `StaysLocked`, `TypeCorrect`. What a step adds to the clock it
  adds to `lag` and `drift` alike; a major adjustment sets one after the other, and what comes between them is the exception
  of `KeepsLocked`. The bounds of `TypeOK` need the differences to the
  master's clock, which a time packet does not change (`Near`): `lag` stays within a major adjustment and two late packets, while
  each restart may take `drift` farther by a `Fall`, unless a major adjustment comes.
- `BatonProofs`, for any number of cubes, losses, retries and acknowledgements. `TypeCorrect`, `SwitchTypeCorrect`
  and `MasterTypeCorrect` are the types of `Baton`, with changes of the effect, and of `MasterBaton`; they need to
  know which thread may be at which place with how many retries (`Within`), and what is left of each loop of the
  badge (`Loops`). `AlwaysOneBaton` (`OneBaton`) and `HandsOverToken` (`HandsOver`) are about cubes that hand one
  baton around (`Reliable`): `Losses` < `AckDup`, `Losses` <= `MaxRetries`, a cooldown of at least four ticks, a
  wait of at least one, nobody at Whackamole. The firmware has three acknowledgements, four retries, five ticks and
  two. The bounds on the losses are sharp: TLC finds `OneBaton` violated beyond either. The
  delays are what the proof needs, not the least ones: on three cubes TLC finds a cooldown of two ticks enough, one of one
  tick too short, and the wait dispensable. The invariant (`One`) has three phases.
  `Kept(h)`: one cube has the baton, and what is left of its hand-over (resends of the cube it came from, answers,
  packets in an inbox) is gone when the baton is four ticks old, which is before it may be passed on. `Offered(p)`: one cube
  passes the baton and nobody holds it; each of the packets that its addressee does not have was paid for with a loss
  (`Missed`), so that the retries cannot run out unless the address is nobody's. `Taken(p, d)`: the addressee holds it and the
  passer does not know; more acknowledgements are to come than may be lost, and meanwhile at most one more resend is
  due (`Answered`). There is one lemma for each phase and thread, and one for a tick. `KeptNext`, `OfferedNext` and `TakenNext` say
  which phase follows which, and the refinement follows from that (`StepsOn`).
- `OrchardProofs`, about `Friends` and `Apps`. `TypeCorrect` for any number of others, and `KeepsNear`, under the assumption `Enough`:
  the initial credits are worth more time than the lost pings and the next one may take, and what each of `Grace` pings may
  come later than the clean-up whose credit it makes good (`Slack`): 997 ms in the firmware. The invariant is a
  balance: the credits of a friend who is near are worth at least the time until its next pings are sure
  to come, those already lost included (`Worth`, `Owed`), less what the pings heard so far have cost (`Drain`). With the
  firmware's intervals and credits a new friend is sure to be kept for seventeen pings heard if none is lost, for ten if one is, for three
  if two are; with three lost nothing is sure. For any set of applications: `AppsTypeCorrect`, `NeverAsserts`. The
  invariant says at which places of the thread the pointer is set, the events are pending and a request is recorded.

The assumptions are the named `ASSUME`s of the modules; TLC evaluates them in every run. `KeepsNear` states
its own (`Enough`), which the constants of `FriendsNear` satisfy, and so do `AlwaysOneBaton` and `HandsOverToken`
(`Reliable`, which those of `BatonIdle` satisfy). `ClientsAssumption` says that the erased word
0xFFFFFFFF is no signature, test, result or count of entries, and that there are at least four sectors; the
proofs use nothing else of the values. Each `IInv` was checked by TLC, as an invariant of the run of its module, before it was proved.

Every invariant and every action property that a passing run checks is a theorem, and so are both refinements. Only
model-checked is liveness (`Restored`, `Released`, `LitAgain`, `TempEnds`, `SafetyMode`, `JumpSyncs`, `Noticed`,
`Forgotten`, `Switches`, `ComesUp`): liveness under fairness and ENABLED are beyond the prover. `NoAssert` of
`StorageRace` and `AllPassesEnd` do not hold, see the findings.

## 5. Not modelled

- Failures of the flash controller (`F_ERR_LOWLEVEL`, `F_ERR_U_MARGIN`), power cuts inside
  a sector erase, the range and alignment assertions of `storagePatchData`.
- The registers of the radio that set frequency, power and encoding; the table of handlers.
- What a packet contains beyond what its handler looks at; text, layout and colours.
- The arithmetic of genes and patterns: sequential, on bytes, and decided better by a unit test
  over its inputs. The sex protocol as such; its write to the storage is in `StorageRace`.
- Forwarded commands as a caller of their own: they run the shell's commands in the event thread, where two tests
  could run at once.
- Sensors, screens, the vendor's flash driver and libraries, ChibiOS itself.

Of the repository's C lines by far the most are none of its own: the register headers of the vendor's flash
driver (`src/C90TFS/include`, several hundred thousand lines for microcontrollers of which the firmware uses one),
the tables of `libfixmath`, and vendor code for sensors (`gyro.c`, `vl531x`). They hold no state that a
model could say anything about. What the models translate is nearly all code of the firmware
in which threads, interrupts, packets or losses of power meet.

## 6. Plan

1. The A key and two callers of `baton_new_random` at once; the shell's `baton` commands.
2. In `Clients`, patches of the two callers that interleave inside `storagePatchData`.
3. One baton among cubes with a badge that makes a new one (`MasterBaton`), for which the second baton described there
   would have to be ruled out or counted.
4. Compositions: radio and baton (a lost wake-up in the middle of a pass), `Sync` with two cubes.
