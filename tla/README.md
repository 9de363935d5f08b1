# Verification of the MTK-LBS vehicle terminal

MTK-LBS is the firmware of a vehicle tracker: it reports its position over GPRS
to a monitoring platform (protocol JT/T 808), stores what it cannot send, takes
commands by platform, SMS, phone call and a serial screen, and raises alarms. This directory
holds TLA+ models of it, the TLC runs that check them, and TLAPS proofs.

The program is **single-threaded**: timer functions (`oa_timer_start`), delayed
calls (`oa_evshed_start`) and SDK callbacks run to completion, one after the other.
Nothing preempts a handler but the interrupts of the mixing drum (module `Drum`); what makes the program hard is
the order in which handlers run, answers that are late, lost or of another message, operations that
fail half-way, and restarts (watchdog, command, power) between two file operations.

## 1. Inventory

| Component (files in `src/src`) | State | Operations | What is hard, what must hold |
|---|---|---|---|
| Blind-report store (`oa_blinddata.c`) | a data file of 10001 slots; a manage file with the write index, the read index and the overflow flag | store a report; every 250 ms take one and send it, write it back if the send falls short; delete all | record and index are two writes: restart and failure between them; wrap of both indices. No waiting report is lost or overwritten but the oldest of a full store |
| Socket (`oa_soc.c`) | `g_soc_context`: state, can_connect, is_blocksend, transmit ring in no-init RAM | connect, send, close, release timer, notifications | asynchronous and synchronous connects, blocked, short and failed sends, errors; can always connect again, and not too early |
| Platform link (`oa_app.c`, receive half of `oa_soc.c`) | `dev_running` (next step, status, switch, what is being done), `timeout_var`, the retransmission counter | step machine, acknowledgement timer, heartbeat, answers | acknowledgements that do not say what they end, stale timers, several requests at once; ONLINE must mean logged in, and the link must heal |
| Device control (`oa_dev_control.c`) | - | reset, factory setting, reconnect, re-register, turn off, another server | each changes the state of the link from outside |
| Watchdog (`oa_wdt.c`) | two counters | restart after 25 min OFFLINE or 5 min without SIM | the last resort of the link |
| Authentication code, use lock, odometer (`oa_platform.c`, `oa_use_lock.c`) | three files, `now_use_lock` | save, read, delete, lock, unlock; add, set and clear the kilometres | a write that fails leaves a file that exists and is useless, or an unlocking undone; the odometer must lose no more than a restart costs |
| Protocol (`oa_jt808.c`) | `sProtclHandl` (numbers, last message), alarm words | build, number, escape, parse, answer, set and get parameters | number match and wrap, framing of a byte stream that TCP cuts anywhere, tables of parameters; an acknowledgement must end the wait for its message and no other |
| Reports and alarms (`oa_alarm.c`, `oa_gps.c`, `GPS.c`) | alarm words, counters of seconds, the last position | overspeed, fatigue, parking, too long a day, receiver; periodic, immediate or stored report | counters of different widths that are reset in many places; an alarm must come in time and be true, and alarms must not stop the reports |
| Parameters (`oa_dev_params.c`, `oa_setting.c`) | `dev_now_params`, its file, the file of the device number | load, save, factory setting, backup of the device number | order of file operations, damaged files; what was set is what is stored and read; the link must follow a changed server or identity |
| SMS commands (`oa_sms.c`, `oa_lbs2mtk.c`) | the parsed command | set, enquire, act | a command acts on a link in any state |
| SMS and AT drivers (`oa_sms-p.c`, `oa_at-p.c`, `oa_at.c`) | command list on the heap, current command, its timer, the two message lists | create, submit, time out, parse answers and prompts, send and receive machines | timeout against a late answer, answers that do not say what they answer, freed commands, a full heap, a port that refuses |
| Areas (`oa_area.c`, `Area_Judge.c`) | three files of 24 items; per item the last status, a count of seconds, and whether it raised the alarm | set, change, delete by message; expire; judge all items each second | two items of one id, messages that stop half-way, one alarm bit with many owners |
| Dispatch screen (`SchedulScrn.c`, `app_SScrntask.c`) | none that is alive: the queues stand inside `#if 0` | answer a packet | see section 6 |
| Serial ports, sensors (`oa_uart.c`, `oa_fuel_sensor.c`, `oa_hw.c`) | debounce counters, fuel table, samples, the first value of a stop; drum counters shared with an interrupt | sample, debounce, convert, compare | bouncing pins, an interrupt between a read and a write, thresholds, a table with equal points and open ends; stolen fuel must be told of, unless the platform has masked it |
| Board support (`oa_rtc.c`, `oa_debug.c`, ...) | - | - | no control of their own, not modelled |

**How they interact.** A position or alarm goes to `handle_alarm_status`, which builds a frame
and sends it or, while the link is OFFLINE, retransmitting or blocked, stores it (blind store).
Frames go through `escape_copy_to_send` into the transmit ring and by `oa_soc_send_req` to the
socket. Bytes that come in go through `JT808_recv_analysis` (which may stop the acknowledgement
timer or call a request handler) and then `oa_soc_gprs_recv` (which moves `dev_running`).
`dev_running` and `timeout_var` are written by eight files; the watchdog reads them. The files in
flash survive a restart, everything else does not.

The hazards this leads to, each with its line and the properties that cover it, are listed in
`PROJECT.json` under "hazards".

## 2. Plan

| Step | Modules | What for |
|---|---|---|
| A (done) | `BlindQueue` <- `BlindData` | the store as a bounded queue; refinement, proved |
| B (done) | `Soc`, `PlatLink`, `PlatLinkLive` | the link to the platform under faults and commands; its safety proved |
| C (done) | `ByteQueue` <- `TxRing` | the ring of bytes in no-init RAM implements a queue that drops its oldest bytes; refinement, proved |
| D (done) | `Frame`, `Exchange` | framing, escaping and checksum over a byte stream; numbers, acknowledgements and retransmission with a ring that overflows and an uplink that fails; safety proved |
| E (done) | `AtQueue`, `SmsQueue` | the AT commands, their timeouts, and the SMS machines over them; safety proved |
| F (done) | `AreaFile`, `AreaAlarm` | what messages leave in an area file; the overspeed alarm and its owners; proved |
| G (done) | `DriveAlarms`, `DriveHistory` | fatigue, parking, day, overspeed and receiver alarms, and the periodic report; proved |
| H (done) | `VehicleInputs`, `Drum`, `Fuel`, `Mileage`, `Vehicle` | ignition, key, drum, fuel and odometer; proved |
| I (done) | `ParamTables`, `DevParams` | parameters by platform and SMS, their files, what they ask of the link; proved |
| J (done) | `BlindFiles` | creation of the directory and the two files of the store, deletion, restarts between; proved |
| K | `Delivery` | composes store, ring, numbers and timer: which reports can be lost or sent twice |

Abstract specifications: the two queues of A and C, as refinements. Where an observer was enough to state a promise (how
long the vehicle was driven, what a message should leave in force, what was measured, how long a pin kept its level), the observer
is written beside the model and compared with it.

## 3. Modules

### BlindQueue, BlindData, BlindFiles, MCBlindData

`BlindData` has the data file (`data`), the three fields of the manage file, and `pc` and `buf`
for the handler that is running. A handler is cut where two file operations meet, because only
there an error return or a restart can leave something half done: `WriteSlot`/`WriteBack` (the
record is in its slot), then `SaveWriteIndex`; `ReadSlot`, then `SaveReadIndex`, then `SendDone` or
`WriteBack`. `GiveUp` is an error or a restart at any of these places, `SpoilSlot` a
write that fails or is cut by the power. `del_blinddata` empties everything. What the sender
finds in the link (ONLINE, not retransmitting) is left open: `ReadSlot` may happen or not.

`BlindQueue` is what the store promises: a bounded first-in first-out queue with one report on its
way in. Two liberties of the code are part of the promise because the code takes them: a full queue's
oldest report is overwritten before the new one is committed, and the oldest is also given up when exactly one place
is left and the writer has wrapped (`index >= read_index` after the increment). The refinement
mapping reads the queue out of the file: the slots from `read_index` on, `Count` of them.

`BlindFiles` is about whether the files exist. Every write and read of a report, and the 250 ms task itself, goes
through `has_blinddata_dir`: a file outside the directory says whether the directory exists (`conf`), is created with FALSE, and set to TRUE
after the directory was made; any failure deletes it. `has_blinddata_manage_1file` creates the manage file. Each file
operation is an action, `pc` says which comes next, and `Interrupted` is its failure or a restart before it. `del_blinddata` has a step for each
file. How the file system answers the creation of a directory that exists is not in the repository: `dirAgain` is either. What
the files hold is reduced to whether reports wait and whether the data file has them.

`MCBlindData` runs both; a behaviour is about the one or the other (`part`).

### Soc, PlatLink, PlatLinkLive

Whichever timer or callback calls into `oa_soc.c` runs the call to its end, often several in a row.
So `Soc` describes the calls as operators on a connection record; each gives the
set of its outcomes under the faults that may happen. The record holds what the device knows
(`g_soc_context`), what is in the ring, and on the other side of the network the
session the platform has for the device and the frames on the wire. A frame is its kind and a
flag `last` that says whether its number is still `DevSeqId - 1`, which is all that the match of an
acknowledgement looks at.

`PlatLink` has one action for each case of `oa_app_plat_link`, each timer function, each socket
notification, each kind of answer and each request.

| Action | Code |
|---|---|
| `PlatSocInit`, `PlatReconn`, `PlatDevReg`, `PlatDevLogin`, `PlatDevUnreg`, `PlatPoll` | `oa_app_plat_link` |
| `TimeoutIdle`, `TimeoutExpires` | `oa_app_timeout` |
| `oa_app_main` | its later runs: the use lock, and the start of the tasks once it is open |
| `Heartbeat`, `ReportLocation`, `SendBlind` | `oa_app_plat_data`, `handle_alarm_status`, `oa_app_blinddata` |
| `ConnectDone`, `ConnectFails`, `WriteReady`, `SocketError`, `RemoteClose` | `oa_soc_notify_ind_user_callback` |
| `RegisterAck`, `CommonAckOk`, `CommonAckRefused`, `NoAnswer` | `JT808_recv_analysis`, `oa_soc_gprs_recv` |
| `PlatQuery` ... `SmsUnlockReconnect` | `JT808_ServReq_handle`, `oa_dev_control.c`, `dev_action_handle`, the end of the SMS handlers |
| `ReleaseOver`, `Watchdog` | `oa_soc_can_reconnect_again`, `oa_app_online_offline` |

The constants `Faults` and `Commands` say what may go wrong and what may be asked for:

| Fault | Meaning |
|---|---|
| block, short, send | a send blocks, is cut short, fails |
| close | `oa_soc_close` fails |
| sync, connect | a connect succeeds at once; it fails at once, or no socket can be had |
| error | a read or write error is notified |
| silent | the connection dies and nobody is told |
| lost, reject | an answer is lost; the platform refuses |
| sim | no SIM card for five minutes |
| file | a write of the authentication code fails, or a deletion of a factory setting |
| lock | an operation on the file of the use lock fails |

Abstractions: time (a timer that is armed may fire at any moment; the tenfold counter of the poll
and the lengths of Tn are gone), the contents of frames, the address of the server, and which of the
platform's answers belongs to which server. A failed delivery of a report to the blind store is not
seen here. The ring counts frames, so that dropping its oldest bytes drops a frame;
`TxRing` keeps the bytes. `ftp_update` is not modelled.

The use lock is `locked` (`now_use_lock`), its file, and `running`: whether `oa_app_main` has found the device unlocked and
started the tasks. A start reads the file, and while the device is locked `oa_app_main` comes back every two seconds and reads it again.
`oa_app_plat_link` and `oa_app_timeout` run from the start and look at `locked` themselves. So between an unlocking SMS and the next run of `oa_app_main` the
link already connects while heartbeat, watchdog and stored reports wait; and an unlocking whose write failed (`use_unlock` has
cleared `now_use_lock` by then) is undone by that run, which may find a socket open. A locked device whose connection is closed keeps its status
and its step, and forgets that it was to connect anew (`RemoteClose`). A file that cannot be opened leaves the device locked.

`PlatLinkLive` adds the moment from which nothing disturbs the device any more (`BecomeCalm`) and
fairness.

### ByteQueue, TxRing, MCTxRing

`TxRing` is the `oa_buffer` in the RAM that a restart does not initialize (`buf`, `len`, `offset`) and the bytes
last handed to the socket (`out`). Each call of `oa_soc.c` is one action, because nothing can come between two
statements of it: `oa_write_buffer_force_noinit` with its two copy loops, `oa_soc_send_req` as far as it touches the
ring (`SendTakes` for a send that succeeds or fails, both of which take the bytes out; `SendBlocks` for one that
leaves them), `oa_soc_init_fast`. `Copy` says for each place of the buffer which byte a loop leaves
there, if any. The offset may rest at `MaxLength`, one past the buffer, as in the code.

`ByteQueue` is the promise: a first-in first-out queue of bytes that takes every frame and gives up exactly as many
of its oldest bytes as the frame needs. The refinement mapping is the code's own query, of all `len` bytes.
`FramesQueued` says in addition that the frame which arrives in the queue is the one that was written: a refinement
only asks for some frame.

### AreaFile, MCAreaFile

One of the three files of `oa_area.c`; the code of the three kinds is the same text on three item types, and the map
points at different copies. `slot` holds the items, `present` and `size` say whether the file exists and how long it came out.
A message is handled without a pause, but each of its writes is a step, because a restart or an error may fall
between them: `option` and `todo` are what is left of it, `answer` is the status that goes back to the platform.

| Action | Code |
|---|---|
| `SetAreas`, `RefuseAreas`, `SetNothing` | `set_round_area` and its copies: a message taken, refused, or empty |
| `EraseForUpdate` | the first area of an update in `SaveAreaData`; the rest is an "add" |
| `WriteArea`, `NoRoom`, `BadPolygon`, `WriteFails` | the outcomes of `write_*_area_data`, with the creation of the file and the second try of an "alter" |
| `DelAreas`, `RefuseIds`, `DelArea`, `DelAllAreas`, `DelFails` | `del_area_message`, `DelAreaData`, `del_area_data` |
| `Expire` | the deletion inside `*_area_inout_judge` |
| `DeleteFile`, `Restart` | `del_areadata`; a restart at any item of an erasure or of a new file |

Abstractions: everything an item says beside its id and validity is one value; the write of one item is atomic.
`MCAreaFile` adds `goal`, what the message being handled should leave in force: `Replaced` and `Removed` say it of a whole
message without a loop (of the areas with an id the last counts).

### AreaAlarm, MCAreaAlarm, MCAreaHistory

The overspeed half of `oa_app_gps` and the whole of `oa_app_area`, two timers of one task that share the bit
`ALARM_OVER_SPEED`. Each keeps its own note of having raised it: `overspeed_no_area` (`noArea`), and one bit per item
(`owner`, which stands for `os_circle_var`, `os_rect_var` and `os_poly_var`). A round of `oa_app_area` judges the items one by one (`next`); nothing
comes between. Whether the vehicle is inside, outside, or the time of the area does not apply
is chosen at each judgement; geometry and `CompareTime` are behind that choice. `CircleOverspeed`, `RectOverspeed` and `PolyOverspeed` are
apart because the rectangle's conditions differ. `MCAreaHistory` remembers how long each item found the vehicle too fast and in which areas it has been.

Abstractions: the loops for reports and for overspeed over the items of a kind are one loop; the report (`report`) stands
for `area_alarm_addition_var`, the bit `ALARM_ENTER_AREA` and the SMS; the first 15 s, and ticks without a
fix, change nothing and are no step; a restart falls between two rounds. The handling of a report by
`handle_alarm_status` beyond the mask is `ReportLocation` of `PlatLink`.

`MCAreas` puts `AreaAlarm` and `MCAreaHistory` into one run; a behaviour is about the one or the other (`part`).

### Frame, Exchange, MCExchange

`Frame` has the conversions as recursive functions: `Seal` (checksum, escape, flags) and `FrameOf` (what
`JT808_recv_analysis` makes of the bytes of one read). A byte has 3 bits: 0 to 3 stand for themselves, 4 to 7 for 0x7c to 0x7f, so
the flag, the escape byte and the two bytes that follow an escape are there, and the exclusive or of two bytes
is a byte of the model again. Numbers and identifiers are one byte.

`Exchange` has both directions. Upwards: `DevReq2ServPackag_build` numbers, seals and puts a frame into the ring (`escape_copy_to_send`, with the
overrun that drops the oldest bytes), `oa_soc_send_req` takes bytes out and carries them or not, `Reconnect` begins a new stream
while the ring stays as it is; the platform cuts the stream at its flags. Downwards: the platform says messages and acknowledgements
(`Say`, `Acknowledge`), and a read takes any number of the bytes that have arrived (`JT808_recv_analysis(n)`), because TCP keeps no borders.
`Heartbeat`, `SendAgain` and `GiveUp` are the senders beside it and the timer. `PLAT_COMMON` and `REGISTERED` are
the two cases that can end the wait, `JT808_ServReq_handle` answers the rest with the status its handler gives. The two cases copy their
answer without looking at the length of the body: of one that is too short they read what lies behind it, any byte (`Told`).
Abstractions: the length and the telephone number in the head, the texts of the bodies; a scenario has either a rough uplink and a
platform that says nothing, or a platform that speaks (`rough`), since nothing the platform says changes what the uplink does to frames.

### AtQueue, SmsQueue, MCQueues

The driver is one record `w`: heap, command list, current command, its timer, the two message lists, and on the
other side what the modem has been sent and not answered. A handler runs to its end, and a call may go several ways (a
full heap, a port that refuses), so `AtQueue` has each function of `oa_at-p.c` as an operator from a state to the set of states it may leave.
`SmsQueue` has the actions:

| Action | Code |
|---|---|
| `oa_sms_initial_by_at_cmd`, `oa_sms_handler`, `oa_sms_pend_sms`, `DeleteAllMessages` | the timer functions and requests of `oa_sms-p.c` |
| `MessageAnnounced` | `+CMTI` |
| `oa_at_cmd_timeout_callback` | the timer of the current command |
| `FinalAnswer`, `TwoAnswers`, `Prompt`, `NoAnswer` | the lines and the prompt of the modem; an answer may be late, missing, or come in one piece with the next |

`MCQueues` runs it beside `TxRing`; the two share no state.

### ParamTables, DevParams

`ParamTables` holds, as functions from identifier or keyword to a member of `DEVICE_PARAMS`, the cases of the five switch statements that write, read, set, show and
answer parameters. `DevParams` has memory, file, the file of the device number, and of the link what parameters touch: the server of the connection, the next step,
the "needs a reconnection" bit, whether the platform has registered the device. `PlatformSets` is a whole message of the platform
(`ParaConvertandSet` item by item, the save, the answer, what is asked of the link), `oa_app_sms` a whole message of commands, each saved before the next is read;
`oa_app_main` is a start (`dev_params_init`, `restore_devid`), `factory_set` the deletion of the files with its early end,
`PlatSocInit`, `PlatReconn`, `Registered` and `ConnectionLost` the steps of the link that use what was asked.
Abstractions: a value is a number of two small bytes (a province has its bytes swapped by one path and not by another); a file holds a whole block, a short one or nothing; the
lock commands are in `PlatLink`.

### DriveAlarms, DriveHistory, VehicleInputs, Drum, Fuel, Mileage, Vehicle

`DriveAlarms` is the run of `oa_app_gps` every second, part after part as operators on one record (`Located`, `DayDrive`, `Overspeed`, `Parking`, `Fatigue`,
`Periodic`), with what the receiver has told: nothing (`NoData`), a position, no position, something else. `DriveHistory` sets a clock beside it
that only watches the vehicle, and compares. `VehicleInputs` is the debounce of ignition and key in `acc_status_detect`; `Drum` the counter of the drum
at the end of the same function, cut where the interrupt of a contact can come between two statements (`Read`, `Add`, `Test`, `Stop`, `Clear` against `Edge`); `Fuel` the samples, the table
and the two theft alarms, with an observer of each stop; `Mileage` the distance of every second, what `oa_app_gps` collects of it, and
the file with each failure of `mile_stat_init`, `mile_stat_set_value`, `clear_miles` and `mile_stat_add`.

The odometer's observer has two numbers beside what was measured. `excess` is by how much file and rest together exceed what was measured since the file was set. `dropped` is
what restarts have cost since then: `IntvlDistanc` is a static variable, so `mile_stat_init` finds it 0, and what it held leaves `excess` and enters `dropped`.
Only an operation that sets the file, or loses it, makes both 0 (`Forget`).

The fuel's detectors are two copies of one text, `Watch`. Whether the platform has masked `ALARM_OIL_ERR` is chosen at each check; a masked alarm is told
to nobody and the count begins anew. `Restart` loses samples, first values and counts, which are static variables; the table is a file. `Judge` may also find the table missing
or unreadable and gives no value then. `look4_oil_vol` is a set: behind the last point it takes the next entry for a point, whatever is in it; a division by zero, and an entry behind the array, give any
value of `Strays`. The observer (`Seen`, `Later`) counts seconds for the converter and uploads for the sensor at the serial port. Its clock of a level that is too low begins anew with a value that is masked or that could not be had. Volumes of a table are below 16384,
so that the products of `look4_oil_vol` fit into 32 bits; the table comes whole, not in its two packets.

`Vehicle` instantiates them for TLC, one part at a time: each takes the speed and the ignition as inputs of its own.
Abstractions: seconds are runs; the distance formula is a number of half steps; the cap of the speed by `MAX_SPEED`, and the bit of an overspeed that an area
has raised, which is in `AreaAlarm`.

## 4. Runs

| Run | Shows | Bounds |
|---|---|---|
| `BlindData` | after any failure, restart or deletion the second use of the store finds its files (`FilesInv`); the store's safety properties, its refinement of `BlindQueue`, and that the oldest waiting report always leaves | 4 slots, 2 reports: each index wraps with the other in every position. The files have no bound |
| `Queues` | the ring: indices stay in the buffer, it implements `ByteQueue` and queues the very frame. The commands: nobody is called with a freed command, one command per message being sent, an answer ends its own command as long as none timed out, a message being sent comes to an end | 4 bytes of 2 values, frames of 1 to 3 bytes, sends of 3: a write meets every offset and every filling. 3 places on the heap, 2 commands unanswered at the modem, 1 to set it up, 2 messages to send, 1 received |
| `PlatLink` | the awaited message keeps the last number, a closed connection can be opened again, none too early | ring of 1 frame, 1 retransmission, 2 refusals; all faults but connect and lock, all commands but the two unlocking ones |
| `PlatLinkLive` | ONLINE is connected and logged in with nothing left to do; the device recovers | the same sizes; faults block, short, send, sync, connect, silent, lost, reject; the commands of a user who unlocks, unlocks and changes the server, and resets; the device is locked at first or not |
| `AreaFile` | without "add" and with a flash that works, one item per id, deletions delete, the answer 0 is true; and with all options and failures no write costs another area | 2 items, 3 ids, 2 descriptions, messages of up to 3 areas and 2 ids: a full file, holes on either side, an id twice in a message, an update larger than the file |
| `AreaAlarm` | one owner of the alarm; the owner lets go once the vehicle is slow; the alarm comes after exactly the duration | a circle and a polygon, 3 speeds (below, at and above the limits); a circle and a rectangle, masked and not, bytes of 4 values, a duration of 1, histories up to 4 rounds |
| `Exchange` | only what was said is done and acknowledged, frames that were sent whole arrive, what a wait ends by, when a message is sent again although its acknowledgement came | 3 frames up, the numbers 6, 7, 0: the wrap; 3 messages down; a body with a flag in it; a ring of 16 bytes that overflows, sends of 9 that cut frames; 1 reconnection |
| `DevParams` | memory and file agree, a damaged file is replaced, what is set is read and shown, server and identity are followed | 2 messages of up to 2 items or commands; an address and a city, an address and the device number; 2 values, one of which is its own swap; every failure. The tables are checked for every identifier and keyword |
| `Vehicle` | alarms of the drive in time and true, reports go on, an overspeed is told once; inputs are heard; the drum; stolen fuel is told of within the check time unless masked, and an alarm is about a loss and not earlier; the odometer misses what restarts cost and nothing else | thresholds of 1 to 3 runs, different from each other, so that each counter passes its own while the others are below and above theirs; a byte of 5 values, above the threshold of the day; four fuel tables of 4 entries: rising, falling with a point twice and an entry left behind the last, ending in measure 0, and with more points than entries; means of 2 samples, checks after 1 mean and after 2 uploads; gaps of up to 4 seconds on both sides of `DISTANCE_FRQ`, restarts that cost up to 11 half steps, the most that is ever collected while the file works |
| `PlatLinkConnectFail`, `AreaAlarmEnds`, `ExchangeUnknown` | three disagreements of code and comments | one fault; one circle; as `Exchange` |

One retransmission and two refusals already make both counters reach their limits and be reset; a ring of one
frame already has the case "something is left in it" that makes the sends look short, and a frame pushed out by
the next one. `Queues` and `Exchange` end in states where every bound is used up, so deadlock is not looked for there.

**Fairness.** `BlindData`: a handler that has begun ends (weak fairness); the 250 ms timer finds the link up and the
store idle again and again (strong fairness of `ReadSlot`), and restarts do not hit the same place every time (strong
fairness of `SaveReadIndex`). `PlatLinkLive`: the timer functions re-arm themselves at their end, `oa_app_main` every two seconds while the device is locked, the SDK reports a
connect it began, a close, and a socket it can write to again, a calm platform answers, positions are due again and again; all of
these are weak. `TimeoutExpires` is strong, because a stored report switches the timer off (`oa_blinddata.c:680`)
and stored reports run out. The watchdog's 25 minutes are long against
everything else, so that in a calm it acts only if nothing else can (`PatientWatchdog`). `AreaAlarm`: both timers
start themselves again and the position is fixed again and again (strong, because a round of the one disables the other
while it lasts), and a round that has begun ends. `Queues`: the handler of every second starts itself again, an armed timer fires, and the
modem is set up once there is a SIM card (weak); nothing is assumed of the modem.

**What the store's files taught us.** Two states keep the store closed until the files are deleted (`Stuck`). A first write of the manage file
that fails or is cut leaves it too short; it is refused by every later use, and unlike the file beside the directory it is not deleted. And a directory
that outlives `conf` (a read error of `conf`, or a deletion that stopped, is enough) is created again, which a file system may refuse. `clr_log` by SMS, or a factory
setting, gets out of both. A deletion that stops between the data file and the manage file leaves indices that point at reports which are gone (`cut`).

**What the link model taught us.** Without the watchdog the link does not heal: an acknowledgement timer that gives up
while `plat_status` is OFFLINE calls `just_reconn`, which leaves the socket open and replaces the pending login by a
reconnection that does nothing on an open socket. The watchdog restarts the device 25 minutes later, and with it `Recovers` holds.
`Recovers`, `OnlineIsLoggedIn` and `OnlineIsSettled` are not claimed for read and write errors (`plat_status` stays ONLINE, the device reconnects without
a login, every frame is refused, each refusal stops the timer, and the watchdog sees nothing wrong) and for a
re-registration whose answer is lost (the unregistration is refused for ever). After such an error ONLINE no longer
means connected, which is why `PlatLinkLive` leaves it out. The proof of `OnlineIsLoggedIn` showed one more exception: the frame of an unregistration that is still in the ring or on the
wire may be answered after the login that follows it, and the device is then ONLINE without a session. A close that fails keeps ONLINE with a reconnection scheduled. A device that is locked again while its socket is open, because the write of its unlocking failed,
keeps ONLINE when the connection is closed; so the fault "lock" is excluded from these three as well. It is in no TLC run, for the size of the state space, but in the proofs of `LinkInv`, `WaitsBeforeReconnect` and `ReleaseArmed`. And a code that is deleted while a login is on its way is not
followed by a registration, because the acknowledgement of that login clears what was scheduled.

**What the area models taught us.** The loops that write and delete rely on the first item with an id being the one in
force (`FirstIsOnly`). Updates and "alter" messages keep that up through restarts and expiries; an "add"
breaks it as soon as a deletion has left a hole, because it takes the hole before it has looked for the id, which is why the
run and the theorems about exact writes and deletions exclude it. With a flash that fails, an "alter" that is tried again
as an "add" breaks it too; `OthersStay` is what remains. `AnswerTrue` is about messages that were worked on to their end:
a deletion of too many ids, or one that fails, is answered with 0 as well.

In a rectangle, the branch that resets the count of a slow vehicle stands under a condition that it is fast
(`oa_area.c:1414`): seconds that lie apart add up, and the first half of `RaisedAfterDuration` leaves rectangles out. A duration
of 255 s is never exceeded by a byte, and the second half of `RaisedAfterDuration` is about shorter ones. The last status belongs to the item: an area
that replaces another may be reported as left although the vehicle was never in it.

**What the exchange taught us.** `ISPrtclServMsg` (`oa_jt808.h:257`) ends in `|| CUTOFF_OIL_POWER` without a comparison, so it accepts every identifier: the remains of two frames in one
read may pass the checksum as a message of no known kind and are answered with "not supported". Of whole frames that come in one read the first is carried
out with a longer body (their checksums cancel), and the others are swallowed with the acknowledgements they may be. The
number is compared in `int` with `DevSeqId - 1`: the frame numbered 0xffff is never found acknowledged, nor is one after which another frame was numbered, and
both are sent again. A registration's answer is compared by its number alone. A read that is a single flag makes a length of -1 in `JT808_dataChg`, which the model refuses; a
frame longer than `DATA_MAX_LEN` overruns a local array before its length is looked at, which is not modelled. Removing an area is always answered with 0.

**What the queues taught us.** An answer does not say which command it answers; after a timeout a late one ends the next command (`OwnAnswer` holds until something has
timed out). A port that refuses leaves a command that nobody submits again, and a full heap leaves `g_current_sms` set for ever: `SendEnds` excludes both. Of two answers in one piece the
second is compared with a command that the first has freed.

**What the parameters taught us.** A message has one `plat_paraset`: an address or a port followed by a plate or a province forgets the connection it asked
for, against the comment at `oa_jt808.c:892`, and the other order forgets the registration. The province is compared with its bytes swapped, so the same province registers anew each time. An
identifier that is never set is answered with 0, one that cannot be read repeats the value before it, and `eOverspeedtime` falls
through to the time of driving: these are the exceptions in `SetThenRead`. A write that fails at the very first start leaves zeros in memory, which a later save makes permanent;
a read error deletes the file. `factory_set` stops at the first file it cannot delete, and the device goes on without a restart.

**What the vehicle taught us.** A masked alarm still counts as raised in its run and so delays the periodic report; a masked alarm of the day does so every run until midnight, which is why `ReportsGoOn` leaves it out. `day_drive` is a
byte and never reaches a threshold of 256 or more, the default of 57600 s included. `AlarmsInTime` says both: below the size of the byte the alarm comes in time, and from there on it never comes. The run
has a threshold below; the other side is proved. Counters stand still while there is no position. The debounce counts of one level are not reset by samples of the other. An edge of the drum between the
read and the write of `tz_times++` is lost, and a turning drum may be called stopped until the next turns. Each value of the fuel check is a mean of 121 s, so the "5min" of its comments
(`oa_fuel_sensor.h:39`, `oa_fuel_sensor.c:269`) are about ten hours; of the sensor at the serial port (`oa_uart.c:323`), which is told a value every 15 s, they are five minutes. `AlarmIsLate` states it: no alarm comes before the check time
in seconds, and `LossIsTold` that an unmasked one comes by then. A zero distance of two points of the table, and a value beyond the last, give a volume that the table does not say; `TableIsFollowed` speaks of values between two points.
The odometer adds whole units and takes off the three that made it write, so after failed writes or a long gap it counts twice, and a failing close deletes its file. A restart costs what was
collected and not written, less than `UPDATE_DISTANC` while the file works. Nothing else is ever missing (`MilesNotLost`), and while the file works and no second is longer than a unit, file and rest are exact but for that
(`MilesExact`).

**Findings.** The three runs that end in a violation are in `PROJECT.json` under "findings", beside the check time of the fuel that `Vehicle` shows: a connect that fails at
once blocks all later ones until the watchdog; an area left at a speed above the device's limit leaves the alarm SET for ever;
a message of no known identifier is handled and answered.

## 5. Proofs

`BlindData_proofs` proves, for every size of the file and every set of reports,
`TypeOK`, `IndexOrder` and `UnreadWritten`. The inductive invariant adds two facts: what `pc` says of `buf`, and
that the slot of a record being committed holds it. The argument for `UnreadWritten` is that each index
update adds at most the slot just written to the unread slots (lemmas `SaveWriteIndexUnread`, `SaveReadIndexUnread`).
It goes on to `Spec => Store!Spec` and `WaitingUntouched`. A step of the file maps to one
step of the queue: the lemmas `CountGrows`, `CountStays` and `CountShrinks` say how the number of unread reports changes
when an index moves, with the wrap of either; `SlotWritten` says which item of the queue a written slot is.
Its third part is about the files themselves, `FilesInv`. The invariant adds which operation may stand before which file
operation (`AtWork`), what each has found or made before it is reached (`Found`), that only a cut deletion separates reports from their
indices (`Cutting`), and what one and two undisturbed uses have mended (`Calming`).

Assumptions: `DataNumMax` is a positive number, and the markers are different from reports and from each other
(`DataNumMaxAssumption`, `DistinctAssumption`).

`Queues_proofs`, over `MCQueues`, has the ring and the commands. Of the ring it proves `TypeOK`, `Spec => Fifo!Spec` and `FramesQueued` for a buffer of any size and frames of any length. The
invariant adds that the bytes to be sent have been written (`UnsentWritten`). `FromOffset` and `FromEnd` say how far
a byte of the queue is from where each copy loop begins; with them `CopiedByte` tells for each place which
loop wrote it last, and `WrittenByte` reads the result from the new offset: the old bytes from the cut on, then the
frame. That and `LeftByte`, its counterpart for a send, are compared with the queue byte by byte.
The assumption is `RingAssumption`: a frame fits the buffer, and twice the buffer's size fits a `oa_uint16`. The size is the
SDK's; the 500k less 50k that a comment names are 2048 once they are an `oa_uint16`, which satisfies it.

Of the commands it proves `SmsInv` and `OwnAnswer`, for a heap of any size, any number of messages, and a modem that answers what and when it likes. A
handler calls the functions of `AtQueue` one after the other, so again the invariant is stated of a record: `Whole(v, x)`, where `x` is the place of a command
that has left the list and is still in memory. Its parts: list and heap agree but for `x` (`Listed`), the timer is the current command's
(`Timed`), the one command of a message is that of the message being sent and of its present step (`Sending`), and while no command has timed out the modem has at most the current one to answer (`Lone`).
`OwnAnswer` follows because an answer that takes a message from the list answers the command of `Lone`, which by `Sending` is that message's.
The assumptions, which `MCQueues` makes, are `AtAssumption` and `SetupAssumption` (the bound on how often the modem is set up is between 1 and 4: the four commands that may do so).

`AreaFile_proofs` proves `TypeOK` and `OthersStay` for every option and every failure, and `FirstIsOnly`, `WriteExact` and
`DeleteExact` under the condition `Careful` (no "add" from the platform, no flash errors), for a file of any size and any
messages. The inductive invariant adds to `FirstIsOnly` that a missing file has no items, and `AddPrefix`: while an update, which is an
"add" once it has erased the file, writes its areas, the valid items come first, so the first invalid item is reached only
after every valid one was compared with the id.
`AnswersAreTrue` is about a message as a whole, of any length. Its invariant `Aimed` says that what is left of the message, applied to what is in force now, still
leads to `goal`; a write or deletion shortens both ends by the same item (`ReplacedFirst`, `RemovedFirst`), and when nothing is left
the two are equal. The assumption is `AreaFileAssumption` (at least one item; 0 is an id, since a new item is all zeros).

`AreaAlarm_proofs` proves the types and `OneOwner` for any number of areas of any kind, the latter while the alarm is not masked; the
assumption is `AreaAlarmAssumption`. The invariant is inductive as it stands: whoever raises the alarm finds it RESET. Over `MCAreaHistory`, of which the run has an instance, it proves `RaisedAfterDuration` for any areas, durations and masks
(`AlarmKeepsDuration`), if the histories count beyond every duration and no duration is the largest a byte holds (`CountsFit`). The invariant `Counted`
puts the count of an item between its two histories: it is at least the number of rounds that passed in silence, and, but for a rectangle, at most the number of
rounds on end in which the vehicle was too fast.

`PlatLink_proofs` proves, for a ring of any length, any limits, and every set of faults and commands, `LinkInv` (with `AwaitedIsLast`) and
`WaitsBeforeReconnect`, and `ReleaseArmed` as long as no connect fails at once. Handlers call the operators of `Soc` one
after the other, so the invariant is stated of a connection record: `Sound(c)` holds before and after every such call (lemmas `CopyNumbers` to the close), and
each action is a chain of them. To it come the types of the three groups of variables and `AwaitedIsLast`, which needs that every frame built
while an acknowledgement is awaited is an answer or the awaited message again.

Its second part proves `OnlineIsLoggedIn` and `OnlineIsSettled` under `Undisturbed` (no socket errors, no failing close, no failing file of the lock, no re-registration, no other code by command, and a factory setting only if its deletions succeed). The
invariant adds `Activated` (a locked device has no socket, and one that was just unlocked has the tasks running or an unlocked file for `oa_app_main` to find: `RestartActivates`, `MainActivates`, `UnlockActivates`), `Carried` (the platform has a session only with a connected socket, frames are on the wire only in a session, no unregistration is under way) and
`Logged` (what ONLINE implies, and what must hold of the steps while it is not reached).

`DevParams_proofs` proves all four properties of `DevParams`, for any set of identifiers, keywords and values, messages of any number of items and every failure.
The invariant adds `Persisted` and `Steady` (how a whole file comes back). `SetThenAnswered` is a fact about the tables and is proved of each
pair of them. A message is a loop over its items, a recursive function over its length. What such a loop keeps is proved by a least counterexample: the
steps at which it fails are a set of numbers, this set has a least member (`LeastNatural`), and the step before it kept it (`StaysIn`, `Iteration`). For the
platform's message that is `Told` (as long as nothing is asked of the link, server and identity are the old ones), for an SMS `Heard` (whatever a command changed and the link depends on
is among the actions collected).

`Vehicle_proofs` proves everything `Vehicle` states, for every threshold but those that `ReportsGoOn` needs:

- the drum: `Counted` (the code counts no more edges than there were) and `Timed` (the runs it counts are no more than the runs
  without an edge, with one more for the read that an interrupt may have made stale);
- the inputs: while a pin keeps its level the count of that level is at least as long, and the key's likewise;
- the odometer: `Odometer`, that the excess of file and rest, with what restarts have cost added, is never negative, and zero while `regular`; the write threshold is
  what makes the subtraction exact, and what bounds the loss of a restart;
- the drive: one lemma per part of the run says what it does to its own counter and flag and that it leaves those of the other parts alone (`FatigueDone`,
  `ParkingDone`, `OverspeedDone`, `DayDriveDone`, `PeriodicDone`); `PositionDone` chains them. The invariant `Noted` compares each counter with the clock:
  what is counted was driven (`TiredNoted`), and what an unmasked alarm has not been raised for is still counted. The rest is noted exactly until it is long enough, then nothing is left
  to compare. For the day (`DayNoted`) the count is one behind at most below the size of the byte; from there on the count never reaches the threshold and the alarm is never on. `Honest` carries "told only if it happened" through a run in which several reports may be built.

- the reports: `ReportsGoOn` holds if the overspeed lasts at least one run, driving and parking at least two, and the period is at least one (`Spaced`). Any other
  alarm that is raised puts the periodic report off by one run; `Once`, `Twice` and `Thrice` say what the counters of the
  alarms are after as many runs on end with an alarm, and after three no counter can be full. Each of the four bounds is needed (with any of them one lower, TLC
  finds `ReportsGoOn` violated), and the code's defaults (`oa_dev_params.c:78`: 30, 10, 14400 and 57600 s) meet them;
- the fuel: `Watching` compares what the detector of a sensor remembers with what the observer saw of this stop: it knows the first
  volume, and the seconds the observer has seen of the stop, and of a level too low, are bounded below and above by its count and the samples of the present mean, whichever checks were masked; it says alarm only when the loss is there. What a table says is proved for tables of any length:
  the first point a value does not pass is the one the loop finds (`PointFound`), and the integer division between two points stays between their
  volumes (`Between`, `WholeMean`, `VolumeOnLine`), which are 16-bit words.

The assumptions of `Vehicle_proofs` are those of the instantiated modules: thresholds are natural numbers, `Byte`, `ParkTime`, `Unit`, `Update` and `MaxTotal` positive.

`Exchange_proofs` proves of `Exchange` what does not depend on the bytes that messages are made of (of the 8 of `Byte`), for bodies of any length, any number of messages, a ring and
sends of any size and reads that cut the stream anywhere. There are five layers:

- **the conversions.** The library's induction theorems take an operator, so `AllNumbers` states induction for a set of numbers, from the well-foundedness of their order, and
  every recursive function is reasoned about through a set ("the numbers for which ... is right"). `Running` says that a function which gives each place from the one before
  exists; with it `XOR_Check` (`Checks`), `FlattenSeq` (`PutTogether`) and `Unescape` (`ReadFrom`) are known by what they satisfy at each place. `EscapeReads` and `UnescapeReads`:
  what is escaped has no flag and is read back; `CheckCancels`: the check of a frame, its own check and two flags cancel; `SealIsOpened` and
  `TwoAreOpenedAsOne` follow, and with them `FirstIsOpened`, an action property (`FirstOpened`);
- **the order.** `InOrder` says that each byte of the stream and of the ring behind it has a place in a frame that was sent, and that frames and places only go up. What
  is taken out of such a sequence is such a sequence (`PickedInOrder`), which covers a send that fails, an overrun of the ring and a new connection in one lemma, and a new frame behind it keeps it
  (`FrameInOrder`);
- **what is found.** If all bytes of a frame are in the stream, their places are all the places there are (an injection between sets of the same size), so they follow each other without a gap, and the
  flags at both ends enclose exactly the escaped frame: the platform finds it (`WholeIsFound`). The invariant `IInv` holds the types, `InOrder`, and that what can be found in the stream has been
  found; `WholeFramesReach` is `WholeFramesArrive`.

- **where a read may begin.** What is opened must begin with a flag, and a flag stands in the bytes to come in two places only: where a frame of the platform begins, or where one ends,
  followed by the next or by nothing (`Bordered`; reads take beginnings off, `BorderedRest`, and the platform puts frames behind, `BorderedSeal`). A read from a beginning gives the identifier, the
  number and at least the body of that frame, or nothing (`UnescapeBegins`, `OpenBegins`). One from an end takes the next flag for the identifier, as the code takes `0x7e` for its high byte, and no
  message of the protocol has that (`KnownIsFramed`). So whatever bytes make the check of the remains right, only what was said is done. `OnlySaid` is `ExchangeInv`;
- **what ends a wait.** The other direction needs the same of the uplink: without faults its stream is whole frames of the device and the platform finds nothing else in it (`Streams`,
  `FoundAreFramed`), so what it acknowledges was sent. `Numbers` says that frames are numbered one after the other and that the numbers do not come round, which makes a number name its frame
  (`NumbersDiffer`); `Waiting`, that what is awaited was sent under its number, and that the last frame is the awaited one if it is of its kind; `Answers`, that acknowledgements name frames that were
  sent, and that what is acknowledged is awaited on only when `DevSeqId - 1` cannot find it. None of these is inductive alone: their conjunction with `IInv` and `OnlySaidIsDone` is (`AInv`, `AStep`), and
  TLC finds it true of the bytes of the run. `WaitEnds` and `SentAgain` are `WaitEndsByItsAck` and `SentAgainIfUnknown`. A read is taken for an acknowledgement in one lemma, `AckKeeps`: if the number is that of the frame
  before the next, the frame named is the last one, and `Waiting` makes it the awaited one; this is why a registration may be acknowledged by its number alone.

Its assumption is `ExchangeAssumption`: numbers, identifiers and bodies are of bytes, the ring and a send have room for a byte, the requests of the platform are none of its two answers (an
acknowledgement is the action `Acknowledge`), and the device sends at most 7 frames, one fewer than there are numbers: in the code, no acknowledgement is 65535 frames late. What `WaitEnds` and `SentAgain` say
rests on that last bound, for a number that comes round names two frames.

**Only model-checked.** All liveness (the prover has no fairness): `HeadLeaves`, `Recovers`, `SendEnds`, `OwnersLetGo`. `OthersStayOnErrors` is only checked too,
which is `OthersStay` of an instance; for the module itself it is `WritesCostNoOther`. In the same way `RaisedAfterDuration` is checked of the instance in `Areas` and proved of the module, by `AlarmKeepsDuration`.

## 6. Not modelled

- **Errors of the setting files** of `oa_setting.c`, and writes in place that the power cuts in the middle of a parameter block
  or of the manage file.
- **From the report to its delivery** as one model; step K. `PlatLink` has the choice between sending and storing, `BlindData` the store, `TxRing` and `Exchange` the bytes.
- **Dispatch screen** (`SchedulScrn.c`, `app_SScrntask.c`): the queues, acknowledgements and retries of the ported code stand inside `#if 0`. What is left answers each packet at once and keeps nothing between packets; its
  commands go through `sched_scrn_ana_4trans` into the handlers of an SMS, which `DevParams` has. Its two-packet import of a fuel table is left out.
- **Board support**: clock access, hardware tests, debug output and the declarations of the SDK have no control of their own.
- **Parsing of texts and encodings**: NMEA sentences, PDUs and the texts of SMS, the layouts of protocol bodies; geometry of areas and the distance formula; the receive buffers of the serial ports.
  The models start where these have said what they found.
- **`ftp_update`** and the restart marker, which hand over to the firmware loader.
- **Between the parts of `Vehicle`** nothing is coupled: both fuel sensors write `fuel_volume`, the screen's power pin is also a drum contact (`gpio 5`), and `oa_app_fuel` is never started.
