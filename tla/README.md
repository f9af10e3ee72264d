# Verification of the MTC drivers

This directory holds TLA+ models of the drivers in
`src/src/drivers/misc/mtc/`: the kernel side of an Android car radio on the
RK3188. A microcontroller (the MCU) owns the ignition, the gear, the keys and
the video switch; the drivers turn what it says into work on a handful of
queues, and Android talks to them through ioctls and a virtual serial port.

The interesting part is not any one function but the meeting of four kernel
threads with each other, with the MCU and with Android. That is what is
modelled. `TLC` checks the models on small instances, `tlapm` checks the proofs
in the eight `_proofs` modules for every value of the constants.

Paths below are relative to `src/src/drivers/misc/mtc/`.

## 1. Inventory

### The threads

| thread | queue and lock | file | what it does |
|---|---|---|---|
| `capture_work` | `cap_wq`, `back_cmd_lock` | backview.c | gives the video decoder, the overlay plane and the MCU's video channel to one of four users |
| `capture_check_work` | `cap_wq` (delayed work) | backview.c | looks at the video signal while the decoder runs |
| `car_work` | `car_wq`, `car_cmd_lock` | car.c | power sessions, gear, boot, keys |
| `audio_work` | its own queue, `audio->lock` | audio_card_glue.c | sound channel, codec power, the AJX outside source |
| `car_ioctl` | caller's thread, `car_io_lock` | car.c | the commands of Android |
| MCU link | interrupt and work, `car_lock` | car.c | a handshake over three lines; `process_mcu_command` at its end |
| DVD, keys, radio, TV | their own queues | dvd.c, keys.c, radio_tef6606.c, tv.c | see below |

Every work queue is created single-threaded, and every handler holds its lock
from the first to the last line, so the items of one queue never overlap. What
does overlap is a handler with the handlers of the other queues.

### Components

**Capture queue (backview.c).** State: who wants the screen (`cam_state`,
`cam_signal`, `reserved_11`, `reserved_13`), which picture each wants
(`sta_view`, `video_mode`, `reserved_8`, `reserved_9`), the decoder (`_gap1b[0]`
of the device), the delayed check, the two layers, what was last sent to the MCU
and to Android. Operations: items 46 to 66 of `capture_work`; the calls
`camera_start`, `camera_stop`, `video_Channel`, `vs_send`. Hard: eleven places
start or stop the one decoder, each with its own guard; the delayed check is
taken back with `del_timer_sync`, which misses a check that its timer has
queued already; messages are dropped until Android is up. Correct when: the
decoder runs exactly for those who want it, the picture is that of the most
important user, Android and the MCU know it, and the screen is always given
back.

**Car work queue (car.c).** State: `power_refcnt`, `power_on`, `rpt_power`,
`call_active`, `video_src_ready`, `mcu_cmd_state`. Operations: the items of
`car_work`, queued by `process_mcu_command`, by the ioctls and by audio.
Interacts with every other queue. Hard: it flushes `cap_wq`, is flushed by
`audio_work`, waits for an ioctl, and reads flags that `capture_work` has yet to
change. Correct when: nobody waits for ever, sessions are counted, the last word
of the MCU about the gear wins.

**Sound work queue (audio_card_glue.c).** State: `audio_active`, the codec; who
holds the sound (`ajx_active`, `ch_status`, `ch_sel_mode`, `audio_ch`,
`audio_ch2`); mute, the two gaps of a new channel (`gap11`), the mute pin, the
power of tuner and drive; and what the sound chip was told last, which the
driver keeps nowhere. Operations: the items of `audio_work`, the ioctls that
queue an item, flush the queue and then ask for the gap to be ended. Hard:
`audio_active()` and `audio_deactive()` are called by this thread and by
`car_work`, test a flag, sleep, and set it, and no lock covers both callers;
channels, outside source, announcements, voice control and power begin and end
in any order, each with its own idea of whom to give the sound to; the level is
written by some items and not by others. Correct when: the chip plays who holds
the sound at the level the state calls for, a source that nobody wants is off,
the pin is always released and a gap never loses what is to end it.

**MCU link (`arm_send`, `arm_rev` and their helpers, car.c:320-955).** Three
lines (CLK, DIN, DOUT), 250 ms time limits measured in microseconds of the
second only, a send that gives way to a receive. In this tree the interrupt
handler is a placeholder (car.c:238), a received word keeps its low byte
(car.c:747), a sent word repeats its top bit (car.c:507) and a sent byte lacks its
last one (car.c:844). State: the two lines
of the host, the place in the handshake, what the call returns. Hard: CLK
changes its owner within a call, every poll may run out of time with the lines
in any state, and all threads wait for `car_lock` meanwhile. Correct when: a call
that ends leaves the lines free, the host never takes its own level for the
answer of the MCU, a success has had every answer it needs, what it was to send
has been sent, and the lock comes free again.

**Ioctls (`car_ioctl`, `car_ioctl_get`).** A parser of `name=value` strings; the
calls that queue work or clear a flag others wait for belong to the models.

**DVD drive (dvd.c).** Two work queues (one of which is never created: both are
stored in `dvd_wq`), an interrupt that is switched off and on from the
interrupt, the receiving work, power off and power on, and a bit-by-bit link.

**Virtual serial port (vs.c).** State: `vs_rx`, the lock of the port, the tty it
is attached to. Operations: `vs_send` and `vs_send_raw`, called by every thread
above; `vs_startup` and `vs_stop_rx`, called by the serial core when an
application opens and closes the port. Hard: the drivers hold the lock and the
closing does not take it; `vs_rx` is read before each byte and may be stale when
the byte is put; the flip every 16 bytes and the one at the end exclude each
other; the port is allocated and not cleared. Correct when: frames stay whole,
each is passed on at its end, and the lock is given back on every way out.

**Keys (keys.c), radio (radio_tef6606.c), TV (tv.c), codec (codec.c), displays
(lcd.c).** Debounce counters and timers; a tuner driver; I2C requests; register
writes; two layers and a segment display.

**Everything else in the repository** (frame buffer, HDMI and TV encoders, the
WiFi driver, board files, scripts and reports) is vendor code or tooling and is
not modelled. `PROJECT.json` lists each part with its reason.

### What is hard to test here

`PROJECT.json` "hazards" lists it line by line. In short: items of one thread
that are decided by flags another thread changes later (car.c:2109, car.c:1119);
flushes across queues (audio_card_glue.c:1559); waits for an answer that may not
come (car.c:1098); a byte that counts sessions and starts at what was on the
stack (car.c:5784); a timer that fires between the two halves of a restart
(backview.c:1748); long sequences of legal items over one shared decoder or one
sound chip; a mute pin set in one branch and released in another
(audio_card_glue.c:1144); a port that is closed and opened again between two bytes
of one frame (vs.c:418); and a handshake in which each of a hundred polls may be
the one that fails (car.c:536, car.c:856).

## 2. The modules and how they follow the code

| module | models | used by |
|---|---|---|
| `VideoArbiter` | the promise: four users, one picture, fixed priority | refined by `Backview` |
| `Backview` | `capture_work`, the delayed check, the calls they make | instantiated by `CarWork` |
| `CarWork` | `process_mcu_command`, `car_work`, `audio_work`, the ioctls, with `Backview` as the fourth thread | |
| `AudioChannel` | `audio_work` as the one who decides what is heard, `Audio_EnterChannel`, AJX, announcements, the gap of a new channel | |
| `McuLink` | `arm_send`, `arm_send_multi` and all they call, the three lines | |
| `VsPort` | `vs_send`, `vs_send_raw`, `vs_startup`, `vs_stop_rx` on one port, with the serial core around them | |
| `MCBackview`, `MCCarWork`, `MCAudioChannel`, `MCMcuLink`, `MCVsPort` | the sets of requests of the runs | the `.cfg` files |
| `Backview_proofs`, `AudioChannel_proofs`, `McuLink_proofs`, `VsPort_proofs` | the theorems about one component | |
| `CarWork_proofs`, `CarGear_proofs` | the theorems about the composition: sound and sessions; types and the end of reverse gear | extended by the two below |
| `CarCapture_proofs` | `CarWork` implements `Backview`, and what follows from that; instantiates `Backview_proofs` | |
| `CarReverse_proofs` | reverse gear shows the camera | |

Variables have the names of `struct mtc_car_status`. Where the source only has
an offset the model has a name: `streaming` is `_gap1b[0]` of
`mtc_backview_dev` and `av_seen` is `_gap2[3]`. `gear` is a history variable:
the MCU's last word about reverse gear (`either` after the ignition went off,
which ends the camera whatever the gear is).

**Backview.** One action per item, named for it and commented with its number;
the whole handler is in it, with the call of `video_Channel` at the point where
the code makes it (it reads what the item has stored by then). `camera_start`
and `camera_stop` keep exactly two things: whether the decoder runs, and where
the delayed check is (`off`, its `timer` runs, or `queued` behind other items).
Since the check does not share an order with the items that the model would have
to keep, it may run between any two of them, which allows more orders than the
queue does. The four bytes sent to the MCU are reduced to the source they
select, the AV mode and, for the reversing camera, its input.

**CarWork.** A thread that sleeps, flushes or waits in the middle of an item has
a place (`carpc`, `audpc`, `iopc`) and one action for each part between two such
points. `flush_workqueue` of a single-threaded queue is modelled by its effect
here: it returns when the item that was queued before it is gone from the queue
and its thread has finished it. The two waits for Android end when it answers or
when their count of sleeps has run out, so the model lets them end at any time.
`car_work` starts after `car_probe` has set `car_ready`, which it does when the
camera it queued at boot has been handled.

**AudioChannel.** `CarWork` asks how `audio_work` meets the other threads and
knows of it only what switches the sound on and off; `AudioChannel` asks what is
heard and knows of the other threads only what they queue and the two flags they
write (`power_refcnt`, `ch_status`). One action per item. `Audio_EnterChannel` is
five operators, one for each way through it: the return at once, `Note` while
somebody holds the sound, `Rename` on a board that has Bluetooth and SYS on one
input, the `Switch` proper and the `SpeechChannel` of the voice control; `Switch`
ends after the long sleep in an action of its own (`LeaveOld`), because the
ioctls and the power move on meanwhile. A handler is split also where it waits
for `car_wq` (the session of AJX, `ajx` and `end`) and where the chip is told and
the flag follows (`ta`). `chip`, `lvl` and `pin` are what the hardware was told
last. `Audio_SetVolume(0)` is reduced to which of its formulas it evaluates (audio_card_glue.c:293-395):
that of the outside source (`ajx`), of SYS (`sys`), of an announcement (`ta`) or
of a channel (`on`), the last two with a gap or without (`ta_gap`, `gap`); `reset` is what the power leaves.
`Audio_FadeOut` ends its loop at the first `Audio_SetVolume` that does not return
0, and that function returns its argument (audio_card_glue.c:457, 464, 503), so a
mute leaves step 5 of the formula it found (`faded`) and only customer AM is told
60 (`out`): `FadedOut`. What silences a muted unit is `MTC_CMD_SET_MUTE`. `tainted` is a history variable that names
two things no text of the repository settles: a power cycle that an outside
source, an announcement or the voice control outlives (`route`), and tuner or
drive running into a power cycle or the voice control (`sources`). The properties
about them say nothing until the power has been switched on again without one.
`mute_pin_latch` is set nowhere, and `ch_mode` stays 0 because nothing queues
item 13, so neither is a variable.

**McuLink.** One action per poll of the code. A poll that sees what it waits for
goes on and one that does not may give up; that it may do so at once covers every
length of the time limit, the microseconds of car.c:340 included. CLK has two
sides: `clk` is `In` or the level the host drives, `mclk` what the MCU would have
it, `Clk` what `getPin` reads. `sent` and `data` count the bits that the MCU has
taken. The MCU moves its lines in any way at any time, so that no assumption
about its firmware is made. A word that comes in on a collision ends in
`arm_rev_ack` for every value: `arm_rev` keeps its low byte, and
`process_mcu_command` acknowledges what it does not know. The calls `arm_send`
and `arm_send_multi` share their first part and are told apart by a field of the
call; `res` of an `arm_send` is what it throws away.

**VsPort.** One action per access to something shared: the look at `vs_rx` at the
door, the lock, the look at `vs_rx` before a byte, the byte, the flip, the unlock.
The two functions differ in how they make their bytes and share all the rest, so
one set of actions stands for both; only `vs_send_raw` can have a frame of no
bytes, where `flip_buf` was never set (`Nothing`). A byte is who wrote it, its
place and the length of its frame; payload and checksum are left out. `port` is
where the serial core is: `uart_open` gives the port a tty and then calls
`vs_startup`, `uart_close` calls `vs_stop_rx` and then drops the tty. Core and tty
are not in this repository and are modelled from how vs.c uses them: a flip passes
on what the tty holds, and a closed port has no tty. A driver that has read `vs_rx`
and is overtaken by a whole closing follows a NULL pointer (`Oops`); that is in the
model, and the other properties hold around it. `line`, `late` and `early` are
history: what this tty was given, how many bytes came after the port was stopped,
and whether bytes came before it was started.

Phone calls are the one kind of session that `CarWork` leaves out. Item 13 of
`audio_work` opens and closes them with the items 29 and 30, as AJX does, but no
driver of this tree queues it: `av_phone` queues `AUDIO_WORK_PHONE`, and that is
0xA (shared.h:284), which `audio_work` takes for the balance. Should the constant
be corrected, item 13 belongs into `CarWork` and `SessionsCounted` has to count
it.

Assumptions of the models, all of them about what surrounds this code:

- The MCU's commands arrive as whole 16 bit words. The receiving code in this
  tree does not achieve that (above): its work is never queued, so `McuLink` has
  a receiving half only inside a collision, and `CarWork` is not composed with it.
- The port to Android is open once `call_active` is set.
- `car_probe` has found the MCU. It returns early otherwise.
- The queue that a thread of the model appends to never refuses: `work_queue`
  items are allocated without a limit, and a failed allocation is not checked.
  `QMax` limits what comes from outside only.

## 3. The runs

| run | what it asks | constants |
|---|---|---|
| `Backview` | Does the screen always follow the four users, and does the queue implement `VideoArbiter`? | all items, one waiting at a time, front view and T132B on |
| `BackviewLive` | Is the end of reverse gear reached, does Android learn of the camera, does the check come round? | seven items, two waiting |
| `CarPower` | Do the two threads that switch the sound ever meet? Is more counted than there are sessions? | power, outside source, boot; `power_refcnt` starts at 0, 1 or 255 |
| `CarGear` | Is the camera on when all is served and the gear is in reverse? | one camera input, power and ignition, boot |
| `CarApps` | Do the other threads keep to what `Backview` assumes? Does a gear that was left ever leave the camera on? | MCU, both camera inputs, ioctls, item 54 |
| `CarLive` | Does every flush and every wait end? Does power off reach the sound? | power, also in reverse gear, ignition, end of reverse gear, source, boot, camera at boot, channels, the end of a capture, item 54 |
| `AudioChannel` | Is what is heard always what holds the sound, at the right level? Are sources, pin and gap cleaned up on every path? | five channels, all items, two delayed items, a board with a shared input and a popping radio, a customer with fades |
| `AudioAjx` | Does `ajx_active` say that the outside channel is heard, as car.h has it? (No.) | two channels, outside source, power |
| `McuLink` | Are the lines left free, does a success have all its answers, does the lock come free? | eight calls of all shapes, words the driver sends, 0 to 3 bytes |
| `McuSent` | Does the MCU get the 16 bits of a command and the 8 bits of a byte? (Neither.) | one call with one byte |
| `VsPort` | Do frames stay whole and arrive when the port is closed and opened meanwhile? Does the lock come free? | two drivers; frames of 0, 16 and 17 bytes |
| `CarPowerOnMirrors` | Is `power_on` the mirror of `power_refcnt` that car.h says it is? (No.) | as `CarPower` |

**Why the bounds are enough.** The items of one queue are handled one at a time
and each looks only at the flags, so a longer `cap_wq` adds orders of items, and
with `QMax = 1` every order is already possible: the next request may be any
item at every step. What needs a second place is a request that waits *behind*
another (an item that must be reached, and a flag that is read while an item that
will change it is still queued); `BackviewLive`, `CarPower` and `CarGear` have `QMax = 2`
(`ReverseLeft` is checked with one place in each queue and proved for any number). `QMax` bounds arrivals from outside;
what the threads queue for each other comes on top. `CapMax` bounds only the
instance of `Backview` inside `CarWork`; `QueueAssumption` asks for
`CapMax >= 5 * QMax`, the runs have it equal (5 and 10), and `CapqBounded` proves
that the queue never needs more. `PowerOnMirrors`
aside, every safety property of the table is checked in a run where what it is
about happens: the mutants in `PROJECT.json` break each of them by one plausible
bug.

`CarLive` asks how threads wait for each other and not how items wait, so one place
in each queue will do: what the threads queue themselves comes on top, and with it
every thread can be waiting at once. Its requests are chosen so that every flush
and wait of the code happens: `car_work` for `cap_wq` at power off and at ignition
off (`flush43`, `flush45`), with a camera to end, that of the boot or of a power on
in reverse gear (F201 with 0), and with a camera signal to end (item 54);
`audio_work` for `car_wq` (the source comes, F014); the ioctl for `audio_wq`
(`av_channel_enter`) and for `cap_wq` (`ctl_capture_off`). All of them can be under
way in one state. Of calls that wait in the same way it has one: the end of an AJX
session waits as its beginning does, `ctl_capture_on` as `ctl_capture_off`, F204
puts the same item on `car_wq` as the boot has on `cap_wq`. `FrontView` and `T132B`,
which change what is shown and not who waits, are off.

`AudioChannel` has the channels that `audio_work` tells apart (IPOD and DVR are
as LINE, and LINE is the outside source there), one request of each item, and a
queue of one: as above, a longer queue adds no order of items, and nothing but the
flush of the ioctl looks at what is queued. Items of timers and of the handlers
themselves come on top of `QMax`. With `TimersMax = 2` a channel is entered
and its ioctl finishes while the item 26 of an earlier one is still delayed: the
older item ends the gap of the newer channel early, and the newer finds none.
`GapWatched` is proved for any number of timers and any length of the queue, so
that it covers an item 26 that is queued behind a switch as well.
`McuLink` has a call for every way through the two functions, and the counts 0 to
3 show the first, a middle and the last byte.

`VsPort` has two drivers, since a third only waits longer for the same lock, and the
two lengths next to the flip of the sixteenth byte: 16 bytes end with that flip,
17 need one more, and their first bytes are those of a shorter frame that is cut.
`LineMax = 17` lets a call begin on an empty line only; two that began together
still follow each other on it.

`QMax = 2` suffices for the wrap of the count as well: `CarPower` starts from
255, the value from which one more session would wrap. `SessionsCounted` says
nothing until the power has been switched once, because the value `car_probe`
leaves is not a count.

**The sets of requests** follow the senders in the code: item 54 is handled by
`capture_work` and queued by no driver of this tree, so `Backview` and `CarApps`
include it, `CarLive` has it for its flush, and the other runs do without.

**The findings.** car.h:82 calls `ajx_active` the flag that the outside channel is
active. An outside source that is there when the power goes off and on again
keeps the flag, while `audio_active` has set the chip to SYS; since item 22 is
ignored while the flag is set, the source is not heard until it goes and comes
again. `ChipFollows` is stated for power cycles that no such holder outlives.

car.c:507 tests the top bit of the command word for each of its 16 bits; nothing
shifts the word. car.c:844 ends the loop over the bits of a byte after seven of
them, although its messages name it `arm_send_8bits`, its last round is told apart
by `bit_pos != 7` (car.c:885) and the update sends eight. `McuSent` shows both in
one trace of `arm_send_multi(0x9023, 1, ..)`: it ends with success, 16 ones taken
for the word and 7 bits for the byte. `CommandArrives` is the conjunction of
`WordSent` and `BytesSent`; either alone is violated in that state. The other
properties of `McuLink` do not depend on the values of the bits, and
`NoEarlySuccess` says only that no round of a loop was skipped: how much one round
sends is the finding's subject.

car.h:78 says that `power_on` mirrors `power_refcnt`. Items 29
and 30 (car.c:985-1010) change the count for the AJX channel and leave
`power_on` alone; TLC shows an outside source that is connected when Android
boots: the count is 1 and `power_on` is 0.

**What is deliberately not claimed.** With both camera inputs `ReverseShown`
fails: F205 queues the end of the camera, F207 reads `reserved_10`, still set,
and queues a switch of inputs (item 57), which is ignored because item 59 came
first; the gear is in reverse and the camera is off. A car has one input wired,
nothing in the repository promises more, and so `CarGear` states the property
for one input, `CarApps` states the other half for both, and the hazard at
car.c:2109 records the rest. In the same way an AJX session that is open when
the power goes off takes the count of the next power on with it (car.c:1087);
`SessionsCounted` bounds the count from above only. An announcement that
`audio_work` is just taking when `power_soft_off` clears `ch_status` outlives the
power; `ChipFollows` excludes it by `tainted`. And an opening of the serial port
may begin in the middle of a frame: a driver that looked at `vs_rx` before the
closing goes on into the next tty. `FramesWhole` therefore says nothing of the
first byte of an opening; Android finds the next start byte.

## 4. Fairness

`BackviewLive`, `CarLive`, `McuLink` and `VsPort` assume weak
fairness of the threads and nothing else. A work queue of the kernel runs its items as long as there are some, the
timer of a delayed work fires, a flush whose condition holds returns, and a
thread that sleeps wakes up. There is no fairness for the MCU, for Android or
for applications: they may be silent for ever, and the waits that depend on them
end by their count (car.c:1095-1105). In `McuLink` fairness is that of the thread
that polls: it is not suspended for ever, and each poll but those of the firmware
update (car.c:915, car.c:925) has a step whatever the MCU does. `LinkReturns` names
the two exceptions it found: the update, and an MCU that collides with every
attempt (car.c:465). In `VsPort` the thread that
has the lock is run; who gets it next is open, so `PortReturns` does not promise it
to a given driver. `ThreadsReturn` says of each of the three threads
that it is idle again and again, which is the same as that whatever it waits in
ends. Strong fairness is used nowhere: a thread
whose next step is possible keeps it possible until it is taken.

## 5. The proofs

`Backview_proofs` holds for every set of requests, every queue length and both
decoders; the only assumption is `BackviewAssumption` (requests are legal items,
the bound is positive). The inductive invariant is `TypeOK /\ ScreenInv`.
`ScreenInv` is the five safety properties and three more facts that the items
rely on without testing them:

- `AvHasMode`: an AV capture is wanted only in a mode with a picture. Without it
  the two ways an item decides who gets the decoder next (`reserved_13` alone,
  or together with `video_mode`) could differ, and `StreamsOnDemand` is not
  inductive.
- `SignalYields`: the camera ended the signal. Item 59 hands the decoder on
  without looking at `cam_signal`.
- `ChannelKnown`: stronger than `ChannelCurrent`, it also covers an AV mode that
  is selected and not yet captured, because item 48 starts the decoder without
  sending the channel again.

Each item is one lemma. Most follow one of three patterns, each a lemma itself:
the decoder goes to a given user, the channel is sent again, or nothing the
invariant speaks of changes. `AndroidTold` has an invariant of its own (`ToldInv`),
since what was told is settled only when no item 58 waits. `CameraKeepsScreen` and
the refinement of `VideoArbiter` follow from the invariant, step by step.

`CarWork_proofs` proves that the two threads never switch the sound together,
that the codec follows its flag and that the count of sessions never exceeds
those that are open. The argument
is one fact about three places (`Awaited`): an item 29 or 30 is in `car_wq`, or
`car_work` is inside its second half, only while `audio_work` stands at the
flush that waits for it. From it `NoOverlap` follows because a thread in a flush
is not in `audio_active`; `CodecInv` adds what the codec is while a thread is
inside; `CountInv` counts an item 29 or 30 in flight as the session it will
begin or end, which is what makes the bound inductive. The only assumption is
`CarAssumption`: arguments are bytes, a capture is one of an AV mode (the ioctl
handler passes no other), and applications and keys never queue the items 56 and
59, which car.c alone does (car.c:1013, 1080 and 5796; car.c:1025 and 1120).

`CarGear_proofs` proves the types of the composition (`CarTypes`) and that a gear
that was left never leaves the camera on (`GearLeft`), for both camera inputs and
any mixture of other requests. `ReverseLeft` speaks of empty queues only; `GearInv`
says where the end of the camera is before: the last camera item of `car_wq` is
an end (34), or no start (31, or 42 in reverse) is left in `car_wq`, `car_work` is
not between the two halves of such a 42, and either the last camera item of
`cap_wq` is an end (59) or no start (56) is left there and the camera is off.
Four lemmas about appending to a queue and taking from it carry this through all
steps: what is appended is no start, an end that is taken from one queue is
appended to the other, and of the items of `capture_work` only 56 puts the camera
on (`CameraSwitch`).

`CarCapture_proofs` proves that the composition implements `Backview`
(`CaptureRefines`): the other threads are to `capture_work` no more than the
requests and events `Backview` allows. The steps map one to one, `BootComplete` of
`CarWork` to that of `Backview` the first time and to a mere request after that.
What has to be shown is that `Backview` would not have refused: it bounds its
queue, while the threads append to `cap_wq` without asking. The bound follows from
a weight, `Load`, that no step of a thread raises: an item of `cap_wq` or `audq`
weighs 1, one of `carq` 3, which is the most that item can put on `cap_wq` or
`audq` in all its steps, and `StillToQueue` is what `car_work` has left to queue
in the middle of one. Without a correction the items 29 and 30 would break it,
since an item of `audio_work` turns into one of those at three times its weight;
they queue nothing, and `Awaited` of `CarWork_proofs` says that `car_wq` holds at
most one of them, so `SessionItems` takes it out. What comes from outside finds
every queue below `QMax`, which gives `5 * QMax`. The bound on arrivals is the
model's; that work is handed on and never multiplied is the code's.

The channels that `audio_work` reports are those Android asked for (`Entered`), so
that they too are legal requests. With that `Backview_proofs` is instantiated with
the requests and the bound of `CarWork` (`BP`), its assumption is proved
(`RequestsLegal`), and its theorems hold of the four threads together: the six
safety invariants (`CarKeepsPromises`), `CameraKeepsScreen` (`CarKeepsScreen`) and
the refinement of `VideoArbiter` (`CarArbitrates`).

`CarReverse_proofs` proves the other half of the gear (`GearShown`): reverse gear
shows the camera once the queues are empty. It does not hold for two camera inputs
(section 3), so the theorem has the hypothesis `OneInput(s)`: neither the boot nor
a word of the MCU asks for an input other than `s`. Everything else is open: the
other words of the MCU, the ioctls, the requests of applications, the lengths of
the queues. `InInv` is the mirror image of `GearInv`: the last camera item of
`car_wq` is a start (31, or 42 in reverse) with no end (34, 45) behind it, or no end
is left there and the start is between the halves of item 42, or the last of
`cap_wq`, or done. To make it inductive one must know that `process_mcu_command`
queues a start and not the switch 32, and that is a fact about flags of two threads
(`InputInv`): `reserved_10` is set only after the MCU asked for a camera, and the
input it asked for was `s`, so the second test of car.c:2109 succeeds where the
first fails. Two lemmas carry both invariants through the steps that
have nothing to do with the camera (`KeptStep`) and through `car_work` taking any
item (`TakenStep`); what remains is one lemma for the MCU, one for the second half
of item 42 and one for `capture_work`.

`AudioChannel_proofs` holds for every set of channels and requests and both kinds
of board, from `AudioAssumption` (channels and items are in the range of the
code). `IInv` carries each of five properties through the handlers that are
split. `TaInv`: an announcement about to take the sound finds it free, unmuted,
and FM told to the chip. `SwitchInv`: nobody holds the sound in the middle of a
switch, although the power thread may touch the flags. `SourceInv`: a tuner or
drive that is on is wanted or is the one about to be left. `PinInv`: the pin is
set only in the middle of a switch whose second half will release it, which is
the fact about the two distant branches. `SpeechInv` says that the voice control
is always noted in `tainted`. There is one lemma per action, and lemmas for what
they share: items that only queue, the sound being switched on, and the ways
through `Audio_EnterChannel`. `GapWatched` has an invariant of its own (`GapInv`):
while an item 0 or 1 is queued, or a switch is under way, its ioctl is still in
the flush (`Looks`), so that whoever makes a gap is still to be followed by
`audio_channel_switch_unmute`, which leaves a timer or an item 26 if it finds one.

`McuLink_proofs` holds for every set of calls, with any number of bytes, from
`LinkAssumption`. `IInv` says for each place of the code who has CLK (`ClkInv`),
what DOUT is at (`DoutInv`), and how much of the command (`CmdInv`) and of its data
(`DataInv`: `data = LoopBits * pos + k`) has passed; that is what makes
`NoEarlySuccess` inductive. Since the MCU may do anything, the invariant speaks of
the host's side of the lines only.

`VsPort_proofs` holds for every set of drivers, every set of frame lengths and
every bound, from `VsAssumption`. `IInv` follows the last byte of the line. Inside a
frame it is the one before the holder's (`WithinInv`); between two frames
(`SeamInv`) either the frame has ended and was passed on, or it was cut, and then
nobody stands between the look at `vs_rx` and the byte until the port is started
again. That last part is also why only one byte can be late (`LateInv`).

Model-checked only: liveness, which is out of the prover's reach
(`BackStopServed`, `CameraAnnounced`, `SignalWatched`, `ThreadsReturn`,
`OffServed`, `LinkReturns`, `PortReturns`), and the three properties
that the runs refute. Every safety property that holds is proved.

## 6. What is not modelled, and the plan

Left out inside the modelled parts: the UV calibration (items 50 and 51), the
report of the video signal (command 158), the backlight (its functions are empty
in this tree), registers and delays, the items of `car_work` that only press
keys, beep, blink or report (35, 36, 44, 67, 68, 70), restart (72, 73) and
Parrot (74). Of `audio_work`: balance, equaliser, the loudness itself, the mixing
with navigation and camera (items 6, 8, 10 to 12, 14 and 15), the microphone, and
item 13 with the phone modes. Of the link: the values of received bits, the
lengths of the time limits, `mcu_isr_cb` and `mtc_car_work`, which nothing reaches.

The map covers a small share of the repository's lines because most of it is
vendor code: the WiFi driver alone has 170,000 lines, the boot logo 32,000, and
frame buffer, encoders, sound and board files most of the rest. Of the drivers
this project is about, backview.c, audio_card_glue.c and the threads and the link
of car.c are modelled as far as they keep state that other parts rely on; the
long rest of car.c is the comparison of strings in `car_ioctl`.

Of vs.c the way from Android to the drivers is left out: `vs_work` loops over
fields the decompiler has misnamed (vs.c:184-222) and passes on nothing.

dvd.c cannot be modelled as it stands. Its receiving queue is never created
(`dvd_probe` stores both queues in `dvd_wq`, dvd.c:1149 and 1176), so the first
interrupt queues on nothing (dvd.c:208), and the bodies of two works are missing
(dvd.c:617, 913). How often the interrupt is switched off and on across `dvd_isr`,
`rev_work` and the power is worth a module once they are there.

Next, in this order:

1. Keys (with item 69, which subtracts the time from itself) and radio as far as
   the source is readable code.
2. Pure functions: `get_token_int`, `check_customer`, `mtcWipeCheck`, time
   limits modulo one second, each against a reference definition.

Theorems to add to the present modules: an abstract specification of the sound
(who holds it, at which level, in steps that are not split) that `AudioChannel`
implements, and one of the serial port (a line of whole frames, cut only by a
closing) that `VsPort` implements; their invariants are proved already.

## 7. Running it

    tlc -config Backview.cfg MCBackview.tla
    tlc -config CarPower.cfg MCCarWork.tla
    tlc -config AudioChannel.cfg MCAudioChannel.tla
    tlc -config McuLink.cfg MCMcuLink.tla
    tlc -config VsPort.cfg MCVsPort.tla
    tlapm Backview_proofs.tla
    tlapm CarWork_proofs.tla
    tlapm CarGear_proofs.tla
    tlapm CarCapture_proofs.tla
    tlapm CarReverse_proofs.tla
    tlapm AudioChannel_proofs.tla
    tlapm McuLink_proofs.tla
    tlapm VsPort_proofs.tla

With two workers `CarLive` takes about three minutes, `AudioChannel` about one and
a half, each other run less than one.
