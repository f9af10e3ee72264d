------------------------------ MODULE CarWork ------------------------------
(***************************************************************************)
(* The work queue of car.c and the threads it works with.                  *)
(*                                                                         *)
(* process_mcu_command and the ioctl handler queue items on car_wq; its    *)
(* single thread, car_work, starts and ends the power sessions, hands the  *)
(* camera to capture_work (Backview) and the sound to audio_work.  The     *)
(* threads wait for each other: audio_work flushes car_wq after queueing   *)
(* the items 29 and 30, car_work flushes cap_wq, the ioctl handler flushes *)
(* audio_wq and cap_wq, and car_work waits for an ioctl of Android.        *)
(*                                                                         *)
(* The commands are those the MCU sends, delivered as 16 bit words.  Left  *)
(* out: items that only press keys, beep, blink or report (35, 36, 44, 67, *)
(* 68, 70), the restart of the system (72, 73), the Parrot boot (74), and  *)
(* of audio_work the items that do not touch power, channel or AJX.  Phone *)
(* calls (item 13) would open sessions as AJX does, but nobody queues that *)
(* item: av_phone queues AUDIO_WORK_PHONE, which is 10, the balance.       *)
(***************************************************************************)
EXTENDS Integers, Sequences

CONSTANTS
    McuCommands,    \* what the MCU may send: [cmd, arg]
    Ioctls,         \* what Android may ask for: [call, arg]
    AppRequests,    \* items that applications and keys queue on cap_wq
    QMax,           \* a queue of this length gets nothing from outside
    CapMax,         \* bound on cap_wq in the specification of Backview
    FrontView, T132B,   \* as in Backview
    BootSessions,   \* power_refcnt after car_probe, which may leave it unset
    BootInputs      \* camera inputs car_probe may find in reverse gear

VARIABLES
    \* Backview
    capq, cam_state, cam_signal, reserved_11, reserved_13, sta_view,
    video_mode, reserved_8, reserved_9, reserved_10, radar_val, call_active,
    mcu_cmd_state, av_seen, streaming, check, fb0, fb1, channel, told,
    \* car_wq and its thread
    carq,           \* items waiting, oldest first
    carpc,          \* where car_work stands
    power_refcnt,   \* power sessions, one byte
    power_on,       \* one byte too; car_probe gives both the same value
    rpt_power,      \* set: car_work waits for the answer of Android
    video_src_ready, rpt_boot_android,
    gear,           \* history: the MCU's last word on reverse gear
    \* audio_wq and its thread
    audq, audpc,
    ajx_active,     \* the AJX channel (an outside source) holds a session
    audio_active,   \* the flag audio->audio_active
    codec,          \* the codec is powered
    \* the ioctl handler
    iopc

\* What the threads of this module and the applications queue on cap_wq: the
\* channels that Android enters and the captures it asks for, and items with a
\* fixed argument.
ArgsOf(calls) == {r.arg : r \in {i \in Ioctls : i.call \in calls}}
CapRequests ==
    AppRequests \cup
    [cmd : {46}, arg : {1, 255} \cup ArgsOf({"av_channel_enter"})] \cup
    [cmd : {47, 55, 57, 59, 60}, arg : {0}] \cup
    [cmd : {48, 49}, arg : ArgsOf({"ctl_capture_on", "ctl_capture_off"})] \cup
    [cmd : {56}, arg : {0, 232}] \cup [cmd : {58}, arg : {208}]

B == INSTANCE Backview WITH Requests <- CapRequests, QMax <- CapMax

\* The items 56 and 59 are those of this module, and a capture is one of an AV
\* mode.
ASSUME CarAssumption ==
    /\ \A m \in McuCommands : m.arg \in 0..255
    /\ \A r \in Ioctls :
          /\ r.arg \in 0..255
          /\ r.call \in {"ctl_capture_on", "ctl_capture_off"}
                => r.arg \in B!AvModes
    /\ AppRequests \subseteq B!Items
    /\ \A r \in AppRequests : r.cmd \notin {56, 59}
    /\ BootSessions \subseteq 0..255
    /\ BootInputs \subseteq {5, 6}
    /\ FrontView \in BOOLEAN /\ T132B \in BOOLEAN

\* Five items on cap_wq for each place of a queue: none more can be there
\* (theorem CapqBounded of CarCapture_proofs).
ASSUME QueueAssumption == QMax \in Nat \ {0} /\ CapMax \in Nat /\ CapMax >= 5 * QMax

source   == <<video_src_ready, rpt_boot_android>>
sessions == <<power_refcnt, power_on>>
sound    == <<ajx_active, audio_active, codec>>
camera   == <<cam_state, cam_signal, reserved_11, reserved_13, sta_view,
              video_mode, reserved_8, reserved_9, reserved_10, radar_val,
              av_seen, streaming, check, fb0, fb1, channel, told>>
mcu      == <<mcu_cmd_state, gear>>
queues   == <<carq, audq, capq>>
threads  == <<carpc, audpc, iopc>>
vars     == <<camera, mcu, queues, threads, sessions, rpt_power, source,
              sound, call_active>>

Item(c, a)   == [cmd |-> c, arg |-> a]
Waits(q, cs) == \E i \in DOMAIN q : q[i].cmd \in cs

\* Room for what comes from outside; what the threads themselves queue is never
\* refused, as in the code.
Room == Len(carq) < QMax /\ Len(audq) < QMax /\ Len(capq) < QMax

-----------------------------------------------------------------------------
(* process_mcu_command, on the thread of the MCU link.                     *)

Queue(c, a, input, g) ==
    carq' = Append(carq, Item(c, a)) /\ mcu_cmd_state' = input /\ gear' = g

\* 0xF204 and 0xF207: reverse gear, with the camera on input s.  While Android
\* shows the camera (reserved_10) another input is only a switch.
ReverseSwitching(s) == Queue(IF reserved_10 THEN 32 ELSE 31, 0, s, "in")
Reverse(s) ==
    Queue(IF ~reserved_10 \/ mcu_cmd_state = s THEN 31 ELSE 32, 0, s, "in")

\* 0xF205: reverse gear left.
LeaveIfTold ==
    IF reserved_10 THEN Queue(34, 0, mcu_cmd_state, "out")
                   ELSE gear' = "out" /\ UNCHANGED <<carq, mcu_cmd_state>>
Leave == Queue(34, 0, mcu_cmd_state, "out")

\* 0xF201 with 0 is power on in reverse gear.
process_mcu_command(m) ==
    /\ Room
    /\ \/ m.cmd = "F200" /\ Queue(43, 0, mcu_cmd_state, gear)
       \/ m.cmd = "F201" /\ m.arg = 0 /\ Queue(42, 0, 5, "in")
       \/ m.cmd = "F201" /\ m.arg # 0 /\ Queue(42, m.arg, mcu_cmd_state, gear)
       \/ m.cmd = "F202" /\ Queue(45, 0, mcu_cmd_state, "either")
       \/ m.cmd = "F204" /\ Reverse(5)
       \/ m.cmd = "F205" /\ Leave
       \/ m.cmd = "F206" /\ Queue(33, 0, mcu_cmd_state, gear)
       \/ m.cmd = "F207" /\ Reverse(6)
       \/ m.cmd = "F210" /\ Queue(42, 0, 6, "in")
       \/ m.cmd = "F014" /\ Queue(69, m.arg, mcu_cmd_state, gear)
    /\ UNCHANGED <<camera, audq, capq, threads, sessions, rpt_power, source,
                   sound, call_active>>

-----------------------------------------------------------------------------
(* audio_active and audio_deactive, run by the thread that stands at pc.   *)
(* Both test the flag first; audio_active sets it after the codec is up,   *)
(* audio_deactive clears it before the codec goes down.                    *)

ActiveBegins == codec' = (codec \/ ~audio_active)
AtActive     == IF audio_active THEN "idle" ELSE "on"
ActiveEnds   == audio_active' = TRUE /\ UNCHANGED <<ajx_active, codec>>

DeactiveBegins == audio_active' = FALSE
AtDeactive     == IF audio_active THEN "off" ELSE "idle"
DeactiveEnds   == codec' = FALSE /\ UNCHANGED <<ajx_active, audio_active>>

-----------------------------------------------------------------------------
(* car_work.                                                               *)

\* car_probe sets car_ready when capture_work is done with the camera it queued
\* at boot, the only item 56 with the argument 1; car_work waits for it.
car_ready == \A i \in DOMAIN capq : capq[i] # Item(56, 1)
Start(c)  == /\ carpc = "idle" /\ car_ready
             /\ carq # <<>> /\ Head(carq).cmd = c
             /\ carq' = Tail(carq)
Goto(to) == carpc' = to /\ UNCHANGED <<audpc, iopc>>
capture_add_work_first(c, a) == capq' = <<Item(c, a)>> \o capq
capture_add_work(c, a) == capq' = Append(capq, Item(c, a))
audio_add_work(c)      == audq' = Append(audq, Item(c, 0))

\* 29 and 30: a session of the AJX channel begins and ends.
OneLessAlways == power_refcnt - 1
OneLess == IF power_refcnt = 0 THEN 0 ELSE power_refcnt - 1

SessionBegins ==
    /\ Start(29)
    /\ power_refcnt' = (power_refcnt + 1) % 256
    /\ IF power_refcnt' # 0
          THEN ActiveBegins /\ Goto(AtActive)
          ELSE UNCHANGED codec /\ Goto("idle")
    /\ UNCHANGED <<camera, mcu, audq, capq, power_on, rpt_power, source,
                   ajx_active, audio_active, call_active>>

SessionEnds ==
    /\ Start(30)
    /\ power_refcnt' = OneLess
    /\ IF power_refcnt = 1
          THEN DeactiveBegins /\ Goto(AtDeactive)
          ELSE UNCHANGED audio_active /\ Goto("idle")
    /\ UNCHANGED <<camera, mcu, audq, capq, power_on, rpt_power, source,
                   ajx_active, codec, call_active>>

CarActiveEnds ==
    /\ carpc \in {"on", "off"}
    /\ IF carpc = "on" THEN ActiveEnds ELSE DeactiveEnds
    /\ Goto("idle")
    /\ UNCHANGED <<camera, mcu, queues, sessions, rpt_power, source,
                   call_active>>

\* 31 to 34: the camera commands, handed on to capture_work.
CaptureOf == [c \in 31..34 |-> CASE c = 31 -> 56 [] c = 32 -> 57
                                 [] c = 33 -> 60 [] c = 34 -> 59]
CameraItem ==
    /\ \E c \in DOMAIN CaptureOf : Start(c) /\ capture_add_work(CaptureOf[c], 0)
    /\ UNCHANGED <<camera, mcu, audq, threads, sessions, rpt_power, source,
                   sound, call_active>>

\* 37: Android is up.
BootComplete ==
    /\ Start(37)
    /\ call_active' = TRUE
    /\ IF power_refcnt # 0 THEN audio_add_work(20) ELSE UNCHANGED audq
    /\ capture_add_work(58, 208)
    /\ UNCHANGED <<camera, mcu, threads, sessions, rpt_power, source, sound>>

\* 38: Android began to boot.
BootAndroid ==
    /\ Start(38)
    /\ IF video_src_ready THEN audio_add_work(22) ELSE UNCHANGED audq
    /\ UNCHANGED <<camera, mcu, capq, threads, sessions, rpt_power, source,
                   sound, call_active>>

\* 42: power on; then the camera, if the gear is in reverse.
PowerOn ==
    /\ Start(42)
    /\ power_refcnt' = 1 /\ power_on' = 1
    /\ IF call_active THEN audio_add_work(20) /\ capture_add_work(46, 1)
                      ELSE UNCHANGED audq /\ capture_add_work(47, 0)
    /\ Goto(IF Head(carq).arg = 0 THEN "back" ELSE "idle")
    /\ UNCHANGED <<camera, mcu, rpt_power, source, sound, call_active>>

PowerOnBack ==
    /\ carpc = "back"
    /\ capture_add_work(56, 232)
    /\ Goto("idle")
    /\ UNCHANGED <<camera, mcu, carq, audq, sessions, rpt_power, source,
                   sound, call_active>>

\* 43: power off.  The camera signal is ended first, then Android is asked to
\* finish and given two seconds.
PowerOff ==
    /\ Start(43)
    /\ power_refcnt' = 0
    /\ IF cam_signal THEN capture_add_work(55, 0) ELSE UNCHANGED capq
    /\ Goto(IF cam_signal THEN "flush43" ELSE "ask43")
    /\ UNCHANGED <<camera, mcu, audq, power_on, rpt_power, source, sound,
                   call_active>>

\* 45: the ignition is off; here the camera is ended too.
AccOff ==
    /\ Start(45)
    /\ IF cam_state THEN capture_add_work(59, 0)
       ELSE IF cam_signal THEN capture_add_work(55, 0)
       ELSE UNCHANGED capq
    /\ Goto(IF cam_state \/ cam_signal THEN "flush45" ELSE "ask45")
    /\ UNCHANGED <<camera, mcu, audq, sessions, rpt_power, source, sound,
                   call_active>>

\* flush_workqueue(cap_wq) returns when the item queued before it is done.
CarFlushed ==
    /\ carpc \in {"flush43", "flush45"}
    /\ ~Waits(capq, {55, 59})
    /\ Goto(IF carpc = "flush43" THEN "ask43" ELSE "ask45")
    /\ UNCHANGED <<camera, mcu, queues, sessions, rpt_power, source, sound,
                   call_active>>

AskAndroid ==
    /\ \/ /\ carpc = "ask43"
          /\ IF call_active THEN rpt_power' = TRUE /\ Goto("wait")
                            ELSE UNCHANGED rpt_power /\ Goto("soft")
          /\ UNCHANGED power_refcnt
       \/ /\ carpc = "ask45"
          /\ IF power_refcnt # 0
                THEN power_refcnt' = 0 /\ rpt_power' = TRUE /\ Goto("wait")
                ELSE UNCHANGED <<power_refcnt, rpt_power>> /\ Goto("soft")
    /\ UNCHANGED <<camera, mcu, queues, power_on, source, sound, call_active>>

\* Either wait ends when Android has cleared rpt_power, or at any time because
\* the count of sleeps has run out.
WaitEndsOnAnswer == ~rpt_power
WaitEnds         == TRUE
Waited ==
    /\ carpc \in {"wait", "wait2"}
    /\ WaitEnds
    /\ Goto(IF carpc = "wait" THEN "soft" ELSE "idle")
    /\ UNCHANGED <<camera, mcu, queues, sessions, rpt_power, source, sound,
                   call_active>>

\* power_soft_off; the second wait follows.
power_soft_off_silent ==
    /\ power_refcnt' = 0 /\ power_on' = 0
    /\ UNCHANGED audq
    /\ capture_add_work(IF call_active THEN 46 ELSE 47,
                        IF call_active THEN 255 ELSE 0)
power_soft_off ==
    /\ power_refcnt' = 0 /\ power_on' = 0
    /\ IF call_active THEN audio_add_work(21) /\ capture_add_work(46, 255)
                      ELSE UNCHANGED audq /\ capture_add_work(47, 0)
SoftOff ==
    /\ carpc = "soft"
    /\ power_soft_off
    /\ Goto("wait2")
    /\ UNCHANGED <<camera, mcu, carq, rpt_power, source, sound, call_active>>

\* 69: of the keys, the two that say whether the outside source is there.
SourceKey ==
    /\ Start(69)
    /\ video_src_ready' = (Head(carq).arg = 96)
    /\ IF rpt_boot_android THEN audio_add_work(IF video_src_ready' THEN 22 ELSE 23)
                           ELSE UNCHANGED audq
    /\ UNCHANGED <<camera, mcu, capq, threads, sessions, rpt_power,
                   rpt_boot_android, sound, call_active>>

car_work ==
    \/ SessionBegins \/ SessionEnds \/ CarActiveEnds \/ CameraItem
    \/ BootComplete \/ BootAndroid \/ PowerOn \/ PowerOnBack \/ PowerOff
    \/ AccOff \/ CarFlushed \/ AskAndroid \/ Waited \/ SoftOff \/ SourceKey

-----------------------------------------------------------------------------
(* audio_work, under audio->lock.                                          *)

AudioTake(c) == /\ audpc = "idle" /\ audq # <<>> /\ Head(audq).cmd = c
                /\ audq' = Tail(audq)
AudioGoto(to)      == audpc' = to /\ UNCHANGED <<carpc, iopc>>
car_add_work(c) == carq' = Append(carq, Item(c, 0))

\* 0: Audio_EnterChannel, which tells capture_work unless it returns early;
\* while AJX holds the sound it always does.
AudioEnter ==
    /\ AudioTake(0)
    /\ \/ audio_active /\ ~ajx_active /\ capture_add_work(46, Head(audq).arg)
       \/ UNCHANGED capq
    /\ UNCHANGED <<camera, mcu, carq, threads, sessions, rpt_power, source,
                   sound, call_active>>

\* 20 and 21.
AudioOn ==
    /\ AudioTake(20)
    /\ ActiveBegins /\ AudioGoto(AtActive)
    /\ UNCHANGED <<camera, mcu, carq, capq, sessions, rpt_power, source,
                   ajx_active, audio_active, call_active>>
AudioOff ==
    /\ AudioTake(21)
    /\ DeactiveBegins /\ AudioGoto(AtDeactive)
    /\ UNCHANGED <<camera, mcu, carq, capq, sessions, rpt_power, source,
                   ajx_active, codec, call_active>>
AudioActiveEnds ==
    /\ audpc \in {"on", "off"}
    /\ IF audpc = "on" THEN ActiveEnds ELSE DeactiveEnds
    /\ AudioGoto("idle")
    /\ UNCHANGED <<camera, mcu, queues, sessions, rpt_power, source,
                   call_active>>

\* 22 and 23: the AJX channel takes the sound and gives it back.
AjxForgotten == FALSE
AjxHeld      == ajx_active
AjxOn ==
    /\ AudioTake(22)
    /\ IF AjxHeld THEN UNCHANGED carq /\ AudioGoto("idle")
                  ELSE car_add_work(29) /\ AudioGoto("begin")
    /\ UNCHANGED <<camera, mcu, capq, sessions, rpt_power, source, sound,
                   call_active>>
AjxOff ==
    /\ AudioTake(23)
    /\ ajx_active' = FALSE
    /\ IF ajx_active THEN car_add_work(30) /\ AudioGoto("end")
                     ELSE UNCHANGED carq /\ AudioGoto("idle")
    /\ UNCHANGED <<camera, mcu, capq, sessions, rpt_power, source,
                   audio_active, codec, call_active>>

\* flush_workqueue(car_wq) returns when the item queued before it is done.
FlushedAtOnce == TRUE
Flushed       == ~Waits(carq, {29, 30}) /\ carpc \notin {"on", "off"}
AjxFlushed ==
    /\ audpc \in {"begin", "end"}
    /\ Flushed
    /\ ajx_active' = (audpc = "begin")
    /\ AudioGoto("idle")
    /\ UNCHANGED <<camera, mcu, queues, sessions, rpt_power, source,
                   audio_active, codec, call_active>>

audio_work == \/ AudioEnter \/ AudioOn \/ AudioOff \/ AudioActiveEnds
              \/ AjxOn \/ AjxOff \/ AjxFlushed

-----------------------------------------------------------------------------
(* The ioctl handler, one call at a time under car_io_lock.                *)

IoGoto(to) == iopc' = to /\ UNCHANGED <<carpc, audpc>>

\* rpt_power false: the answer car_work waits for.
Answer ==
    /\ rpt_power' = FALSE
    /\ UNCHANGED <<queues, rpt_boot_android, threads>>
\* rpt_boot_android true, rpt_boot_complete with rpt_logo_complete.
ReportBoot(c) ==
    /\ carq' = Append(carq, Item(c, 0))
    /\ rpt_boot_android' = (rpt_boot_android \/ c = 38)
    /\ UNCHANGED <<audq, capq, rpt_power, threads>>
\* av_channel_enter, which flushes audio_wq.
av_channel_enter(ch) ==
    /\ audq' = Append(audq, Item(0, ch))
    /\ IoGoto("audio")
    /\ UNCHANGED <<carq, capq, rpt_power, rpt_boot_android>>
\* ctl_capture_on (48) and ctl_capture_off (49), which flush cap_wq.
ctl_capture(c, ch) ==
    /\ capture_add_work(c, ch)
    /\ IoGoto("capture")
    /\ UNCHANGED <<carq, audq, rpt_power, rpt_boot_android>>

car_ioctl(r) ==
    /\ iopc = "idle"
    /\ \/ r.call = "rpt_power" /\ Answer
       \/ /\ Room
          /\ \/ r.call = "rpt_boot_android" /\ ReportBoot(38)
             \/ r.call = "rpt_boot_complete" /\ ReportBoot(37)
             \/ r.call = "av_channel_enter" /\ av_channel_enter(r.arg)
             \/ r.call = "ctl_capture_on" /\ ctl_capture(48, r.arg)
             \/ r.call = "ctl_capture_off" /\ ctl_capture(49, r.arg)
    /\ UNCHANGED <<camera, mcu, sessions, video_src_ready, sound, call_active>>

IoctlReturns ==
    /\ \/ iopc = "audio" /\ ~Waits(audq, {0})
       \/ iopc = "capture" /\ ~Waits(capq, {48, 49})
    /\ IoGoto("idle")
    /\ UNCHANGED <<camera, mcu, queues, sessions, rpt_power, source, sound,
                   call_active>>

-----------------------------------------------------------------------------
(* capture_work and its requests, as in Backview.                          *)

Others == <<carq, audq, threads, sessions, rpt_power, source, sound, gear>>

AppRequest(r) == /\ Room /\ capture_add_work(r.cmd, r.arg)
                 /\ UNCHANGED <<camera, mcu_cmd_state, call_active, Others>>
capture_work  == B!capture_work /\ UNCHANGED Others
CaptureCheck  == (B!CheckTimer \/ B!capture_check_work) /\ UNCHANGED Others

-----------------------------------------------------------------------------
\* car_probe: power_refcnt is that of the boot, or what was on the stack.
Init ==
    /\ B!Init /\ mcu_cmd_state \in {0} \cup BootInputs
    /\ gear = IF mcu_cmd_state = 0 THEN "out" ELSE "in"
    /\ carq = <<>> /\ audq = <<>>
    /\ carpc = "idle" /\ audpc = "idle" /\ iopc = "idle"
    /\ power_refcnt \in BootSessions
    /\ power_on = power_refcnt
    /\ rpt_power = FALSE
    /\ video_src_ready = FALSE /\ rpt_boot_android = FALSE
    /\ ajx_active = FALSE /\ audio_active = FALSE /\ codec = FALSE

Next ==
    \/ \E m \in McuCommands : process_mcu_command(m)
    \/ \E r \in Ioctls : car_ioctl(r)
    \/ IoctlReturns
    \/ \E r \in AppRequests : AppRequest(r)
    \/ car_work
    \/ audio_work
    \/ capture_work
    \/ CaptureCheck

Spec == Init /\ [][Next]_vars

\* The three work queues are served, and a flush that may return does.
Fairness == /\ WF_vars(car_work) /\ WF_vars(audio_work)
            /\ WF_vars(capture_work) /\ WF_vars(IoctlReturns)
FairSpec == Spec /\ Fairness

-----------------------------------------------------------------------------
(* Properties.                                                             *)

Quiet == carq = <<>> /\ carpc = "idle" /\ capq = <<>>

\* Every variable of this module stays in its range, and every thread stands at
\* a place of its own.
TypeOK ==
    /\ B!TypeOK
    /\ carq \in Seq([cmd : {29, 30, 37, 38, 42, 43, 45, 69} \cup 31..34,
                     arg : 0..255])
    /\ audq \in Seq([cmd : {0} \cup 20..23, arg : 0..255])
    /\ carpc \in {"idle", "on", "off", "back", "flush43", "flush45", "ask43",
                  "ask45", "wait", "soft", "wait2"}
    /\ audpc \in {"idle", "on", "off", "begin", "end"}
    /\ iopc \in {"idle", "audio", "capture"}
    /\ power_refcnt \in 0..255 /\ power_on \in 0..255
    /\ {rpt_power, video_src_ready, rpt_boot_android, ajx_active, audio_active,
        codec} \subseteq BOOLEAN
    /\ gear \in {"in", "out", "either"}

\* car_work and audio_work both switch the sound on and off, with no lock in
\* common and with sleeps between the test of the flag and the codec: they never
\* do it at the same time, because only audio_work queues the items 29 and 30
\* and then waits for them.
NoOverlap == ~(carpc \in {"on", "off"} /\ audpc \in {"on", "off"})

\* Whenever no thread is inside audio_active or audio_deactive, the codec is
\* powered if and only if the flag says so.
CodecFollowsFlag ==
    carpc \notin {"on", "off"} /\ audpc \notin {"on", "off"}
        => codec = audio_active

\* Once the power was switched (power_on is 0 or 1, no matter what car_probe
\* left in it), power_refcnt is never more than the power of the car and the AJX
\* channel account for, however often and in whatever order they are reported:
\* no item adds a session that nobody ends, and the byte never wraps to 0.  An
\* upper bound only: it may be less, for power off puts it to 0 in a session.
AjxSession == ajx_active \/ audpc \in {"begin", "end"}
SessionsCounted ==
    power_on \in {0, 1} => power_refcnt <= (IF AjxSession THEN 2 ELSE 1)

\* When nothing is pending and the MCU's last word was that reverse gear is
\* engaged, the camera is on: no item that ran in between has lost it.
ReverseShown == Quiet /\ gear = "in" => cam_state

\* When nothing is pending and the MCU's last word was that reverse gear was
\* left, the camera is off.
ReverseLeft == Quiet /\ gear = "out" => ~cam_state

\* car.h says that power_on mirrors power_refcnt.
PowerOnMirrors == Quiet => (power_on # 0) = (power_refcnt # 0)

\* What car_work, the ioctls and the applications do to the capture queue is
\* what Backview assumes of its requests.
BackviewSpec == B!Spec

\* Whatever flush or wait a thread is in, it returns: no cycle of flushes, and
\* no answer of Android is needed.
ThreadsReturn == /\ []<>(carpc = "idle")
                 /\ []<>(audpc = "idle")
                 /\ []<>(iopc = "idle")

\* Power off reaches the sound: once Android is up, it is switched off after
\* car_work began to switch the power off, whatever audio_work is doing.
OffServed == carpc = "soft" /\ call_active ~> ~audio_active
=============================================================================
