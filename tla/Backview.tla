------------------------------ MODULE Backview ------------------------------
(***************************************************************************)
(* The capture work queue of backview.c.                                   *)
(*                                                                         *)
(* One video decoder and one overlay plane (fb1) are shared by four users: *)
(* the reversing camera (cam_state), the camera signal (cam_signal), the   *)
(* camera view asked for by an application (reserved_11) and the capture   *)
(* of an AV source (reserved_13, with video_mode).  Every request is an    *)
(* item of the single-threaded queue cap_wq, handled by capture_work under *)
(* back_cmd_lock, so one action below is one whole item.                   *)
(*                                                                         *)
(* The names are those of struct mtc_car_status; streaming is              *)
(* mtc_backview_dev._gap1b[0] and av_seen is _gap2[3].  Left out: register *)
(* tables, UV calibration (items 50 and 51), the signal report (vs command *)
(* 158) and the backlight, whose functions are empty in this tree.         *)
(***************************************************************************)
EXTENDS Integers, Sequences

CONSTANTS
    Requests,   \* the items other drivers may queue
    QMax,       \* bound on the number of items waiting in cap_wq
    FrontView,  \* config_data.cfg_frontview
    T132B       \* TRUE: the T132B decoder answers, FALSE: the ADV7181D

AvModes  == {2, 3, 5, 7}          \* DVD, LINE, DTV, DVR
Commands == {46, 47, 48, 49, 52, 53, 54, 55, 56, 57, 58, 59, 60, 61, 64, 66}

\* The argument of a capture is one of the AV modes and that of a view a camera
\* (the ioctl handler of car.c passes no others).
Items == {r \in [cmd : Commands, arg : 0..255] :
             /\ r.cmd \in {48, 49} => r.arg \in AvModes
             /\ r.cmd = 52 => r.arg \in {0, 1}}

ASSUME BackviewAssumption ==
    /\ Requests \subseteq Items
    /\ QMax \in Nat \ {0}
    /\ FrontView \in BOOLEAN
    /\ T132B \in BOOLEAN

VARIABLES
    capq,           \* items waiting in cap_wq, oldest first
    cam_state, cam_signal, reserved_11, reserved_13,    \* the four users
    sta_view,       \* which camera the application's view wants (1: front)
    video_mode,     \* the AV source selected by audio (0: none, 255: off)
    reserved_8, reserved_9,   \* the camera shown is the front one
    reserved_10,    \* Android was told that the camera is on
    radar_val,      \* an argument other than 0 came with the camera
    call_active,    \* Android reported its boot complete
    mcu_cmd_state,  \* camera input asked for by the MCU (0, 5 or 6)
    av_seen,        \* an AV source was selected once
    streaming,      \* camera_start done, camera_stop not yet
    check,          \* the delayed work capture_dwork
    fb0, fb1,       \* layer of Android, overlay of the camera: enabled
    channel,        \* the video channel last sent to the MCU
    told            \* the last camera message accepted for Android

demand == <<cam_state, cam_signal, reserved_11, reserved_13>>
select == <<sta_view, video_mode, reserved_8, reserved_9, radar_val>>
device == <<streaming, check, channel>>
report == <<reserved_10, told>>
boot   == <<call_active, mcu_cmd_state, av_seen>>
vars   == <<capq, demand, select, device, report, boot, fb0, fb1>>

-----------------------------------------------------------------------------
(* Calls made by the items.                                                *)

\* (backview_status_u32() & 0xFF00FF00): cam_signal or reserved_11 is set.
IdleWithoutView == ~cam_state /\ ~cam_signal
Idle == ~cam_state /\ ~cam_signal /\ ~reserved_11

\* camera_stop does nothing when the decoder is stopped already.
\* del_timer_sync cannot take back a check that was queued by its timer.
camera_stop ==
    /\ streaming' = FALSE
    /\ check' = IF streaming /\ check = "timer" THEN "off" ELSE check

\* camera_start first stops a running decoder; queue_delayed_work leaves a
\* work alone that is pending.
camera_start ==
    /\ streaming' = TRUE
    /\ check' = IF check = "queued" THEN "queued" ELSE "timer"

\* rk_direct_fb_open(rk_get_fb(0), 1): the layer of Android is switched on.
ShowAndroidIfUp == fb0' = (fb0 \/ call_active)
ShowAndroid == fb0' = TRUE

\* The source video_Channel selects for given users.
SourceOfViewFirst(state, signal, view, front, sta) ==
    IF view THEN IF FrontView /\ sta = 1 THEN "front" ELSE "rear"
    ELSE IF state THEN IF FrontView /\ front THEN "front" ELSE "reverse"
    ELSE IF signal THEN "rear"
    ELSE "av"
SourceOf(state, signal, view, front, sta) ==
    IF state THEN IF FrontView /\ front THEN "front" ELSE "reverse"
    ELSE IF signal THEN "rear"
    ELSE IF view THEN IF FrontView /\ sta = 1 THEN "front" ELSE "rear"
    ELSE "av"

\* The four bytes of command 0x900A, as far as the screen can tell them apart.
ChannelOf(src, mode, input) ==
    [src |-> src, mode |-> mode, input |-> IF src = "reverse" THEN input ELSE 0]

\* video_Channel: computed from the values the item has stored so far.
video_Channel_early ==
    channel' = ChannelOf(SourceOf(cam_state, cam_signal, reserved_11,
                                  reserved_9, sta_view),
                         video_mode, mcu_cmd_state)
video_Channel ==
    channel' = ChannelOf(SourceOf(cam_state', cam_signal', reserved_11',
                                  reserved_9', sta_view'),
                         video_mode', mcu_cmd_state)

\* vs_send drops a message until Android is up.
vs_send(msg) == told' = IF call_active THEN msg ELSE told

\* A camera message and the flag that goes with it, once Android is up.
TellUp(msg, flag) ==
    IF call_active THEN told' = msg /\ reserved_10' = flag
                   ELSE UNCHANGED report

\* capture_work takes the oldest item.
TakeNewest(c) ==
    /\ capq # <<>> /\ capq[Len(capq)].cmd = c
    /\ capq' = SubSeq(capq, 1, Len(capq) - 1)
Take(c) == capq # <<>> /\ Head(capq).cmd = c /\ capq' = Tail(capq)
Arg     == Head(capq).arg
Skip    == UNCHANGED <<demand, select, device, report, boot, fb0, fb1>>

-----------------------------------------------------------------------------
(* Requests and events from outside.                                       *)

capture_add_work(r) ==
    /\ Len(capq) < QMax
    /\ capq' = Append(capq, r)
    /\ UNCHANGED <<demand, select, device, report, boot, fb0, fb1>>

\* process_mcu_command stores the camera input before it queues the item.
McuInput(s) ==
    /\ mcu_cmd_state' = s
    /\ UNCHANGED <<capq, demand, select, device, report, call_active,
                   av_seen, fb0, fb1>>

\* car_work, item 37: Android is up and item 58 tells it about the camera.
BootUntold ==
    /\ ~call_active
    /\ call_active' = TRUE
    /\ UNCHANGED <<capq, demand, select, device, report, mcu_cmd_state, av_seen,
                   fb0, fb1>>
BootComplete ==
    /\ ~call_active
    /\ Len(capq) < QMax
    /\ call_active' = TRUE
    /\ capq' = Append(capq, [cmd |-> 58, arg |-> 208])
    /\ UNCHANGED <<demand, select, device, report, mcu_cmd_state, av_seen,
                   fb0, fb1>>

\* The timer of capture_dwork fires: the work is queued on cap_wq.  It is not
\* kept in capq but may run between any two items, which allows every order.
CheckTimer ==
    /\ check = "timer"
    /\ check' = "queued"
    /\ UNCHANGED <<capq, demand, select, streaming, channel, report, boot,
                   fb0, fb1>>

capture_check_once ==
    /\ check = "queued"
    /\ check' = "off"
    /\ UNCHANGED <<capq, demand, select, streaming, channel, report, boot,
                   fb0, fb1>>
capture_check_work ==
    /\ check = "queued"
    /\ check' = IF streaming THEN "timer" ELSE "off"
    /\ UNCHANGED <<capq, demand, select, streaming, channel, report, boot,
                   fb0, fb1>>

-----------------------------------------------------------------------------
(* The items of capture_work.                                              *)

\* The AV modes that video_Channel knows; every other channel has no picture.
AnyMode(channel_) == channel_
ModeOf(channel_) == IF channel_ \in AvModes \cup {255} THEN channel_ ELSE 0

\* 46: audio entered a channel; a capture that runs is ended.
ChannelEnter ==
    /\ Take(46)
    /\ av_seen' = TRUE
    /\ reserved_13' = (reserved_13 /\ video_mode = 0)
    /\ IF video_mode # 0 /\ reserved_13 /\ Idle
          THEN fb1' = FALSE /\ camera_stop
          ELSE UNCHANGED <<fb1, streaming, check>>
    /\ video_mode' = ModeOf(Arg)
    /\ UNCHANGED <<cam_state, cam_signal, reserved_11, sta_view, reserved_8,
                   reserved_9, radar_val, report, call_active, mcu_cmd_state,
                   fb0>>
    /\ video_Channel

\* 47: refresh the channel once an AV source has been selected.
ChannelRefresh ==
    /\ Take(47)
    /\ UNCHANGED <<demand, select, streaming, check, report, boot, fb0, fb1>>
    /\ IF av_seen THEN video_Channel ELSE UNCHANGED channel

\* 48: start the capture of the selected AV source.
CaptureOn ==
    /\ Take(48)
    /\ IF video_mode = Arg /\ ~reserved_13
          THEN /\ reserved_13' = TRUE
               /\ IF Idle THEN camera_start /\ fb1' = TRUE
                          ELSE UNCHANGED <<streaming, check, fb1>>
          ELSE UNCHANGED <<reserved_13, streaming, check, fb1>>
    /\ UNCHANGED <<cam_state, cam_signal, reserved_11, select, channel,
                   report, boot, fb0>>

\* 49: end it.
CaptureOff ==
    /\ Take(49)
    /\ IF video_mode = Arg /\ reserved_13
          THEN /\ reserved_13' = FALSE
               /\ IF Idle THEN fb1' = FALSE /\ camera_stop
                          ELSE UNCHANGED <<streaming, check, fb1>>
          ELSE UNCHANGED <<reserved_13, streaming, check, fb1>>
    /\ UNCHANGED <<cam_state, cam_signal, reserved_11, select, channel,
                   report, boot, fb0>>

\* 52: an application opens the camera view, or changes which camera it sees.
ViewOn ==
    /\ Take(52)
    /\ reserved_11' = TRUE
    /\ IF reserved_11
          THEN IF ~cam_state /\ ~cam_signal /\ sta_view # Arg
                  THEN /\ sta_view' = Arg
                       /\ UNCHANGED <<cam_state, cam_signal, reserved_9,
                                      video_mode>>
                       /\ video_Channel /\ camera_start /\ fb1' = TRUE
                  ELSE UNCHANGED <<sta_view, cam_state, cam_signal,
                                   reserved_9, video_mode, device, fb1>>
          ELSE /\ sta_view' = Arg
               /\ UNCHANGED <<cam_state, cam_signal, reserved_9, video_mode>>
               /\ IF ~cam_state /\ ~cam_signal
                     THEN video_Channel /\ camera_start /\ fb1' = TRUE
                     ELSE UNCHANGED <<device, fb1>>
    /\ UNCHANGED <<reserved_13, reserved_8, radar_val, report, boot, fb0>>

\* LABEL_57: the AV capture gets the decoder back, if it still wants it.
ResumeHidden(wanted) ==
    IF wanted THEN camera_start /\ fb1' = FALSE
              ELSE camera_stop /\ fb1' = FALSE
Resume(wanted) ==
    IF wanted THEN camera_start /\ fb1' = TRUE
              ELSE camera_stop /\ fb1' = FALSE

\* 53: the application closes the view.
ViewOff ==
    /\ Take(53)
    /\ reserved_11' = FALSE
    /\ UNCHANGED <<cam_state, cam_signal, reserved_13, select>>
    /\ IF reserved_11 /\ ~cam_state /\ ~cam_signal
          THEN video_Channel /\ Resume(video_mode # 0 /\ reserved_13)
          ELSE UNCHANGED <<device, fb1>>
    /\ UNCHANGED <<report, boot, fb0>>

\* 54: the camera signal takes the screen.
SignalOn ==
    /\ Take(54)
    /\ UNCHANGED <<cam_state, reserved_11, reserved_13, select>>
    /\ IF ~cam_state /\ ~cam_signal
          THEN /\ cam_signal' = TRUE
               /\ video_Channel /\ camera_start
               /\ fb1' = TRUE /\ fb0' = FALSE
          ELSE UNCHANGED <<cam_signal, device, fb0, fb1>>
    /\ UNCHANGED <<report, boot>>

\* 55: the camera signal leaves the screen.
SignalOff ==
    /\ Take(55)
    /\ UNCHANGED <<cam_state, reserved_11, reserved_13, select>>
    /\ IF ~cam_state /\ cam_signal
          THEN /\ cam_signal' = FALSE
               /\ ShowAndroid
               /\ video_Channel
               /\ Resume(reserved_11 \/ (video_mode # 0 /\ reserved_13))
          ELSE UNCHANGED <<cam_signal, device, fb0, fb1>>
    /\ UNCHANGED <<report, boot>>

\* 56: reverse gear engaged; also turns the front camera back to the rear.
BackStart ==
    /\ Take(56)
    /\ IF cam_state /\ (~reserved_8 \/ ~reserved_9)
          THEN Skip
          ELSE /\ cam_state' = TRUE /\ cam_signal' = FALSE
               /\ reserved_9' = FALSE /\ reserved_8' = FALSE
               /\ radar_val' = (Arg # 0)
               /\ IF cam_state THEN UNCHANGED report ELSE TellUp("start", TRUE)
               /\ fb0' = IF ~cam_state /\ (~call_active \/ Arg # 0)
                            THEN FALSE ELSE fb0
               /\ fb1' = TRUE
               /\ UNCHANGED <<reserved_11, reserved_13, sta_view, video_mode,
                              boot>>
               /\ video_Channel /\ camera_start

\* 57: the MCU asks for the other camera input while the camera is on.
BackSwitch ==
    /\ Take(57)
    /\ UNCHANGED <<demand, select, boot, fb0>>
    /\ IF cam_state
          THEN /\ TellUp("start", TRUE)
               /\ video_Channel /\ camera_start /\ fb1' = TRUE
          ELSE UNCHANGED <<report, device, fb1>>

\* 58: tell Android about a camera that was on before it was up.
BackTell ==
    /\ Take(58)
    /\ IF cam_state
          THEN radar_val' = (Arg # 0) /\ vs_send("start") /\ reserved_10' = TRUE
          ELSE UNCHANGED <<radar_val, report>>
    /\ UNCHANGED <<demand, sta_view, video_mode, reserved_8, reserved_9,
                   device, boot, fb0, fb1>>

\* 59: reverse gear left; the decoder goes to whoever still wants it.
BackStop ==
    /\ Take(59)
    /\ IF cam_state
          THEN /\ reserved_8' = FALSE
               /\ cam_state' = FALSE
               /\ TellUp("stop", FALSE)
               /\ ShowAndroid
               /\ UNCHANGED <<cam_signal, reserved_11, reserved_13, sta_view,
                              video_mode, reserved_9, radar_val>>
               /\ video_Channel
               /\ Resume(reserved_11 \/ (video_mode # 0 /\ reserved_13))
          ELSE UNCHANGED <<demand, select, device, report, fb0, fb1>>
    /\ UNCHANGED boot

\* 60: the MCU asks for the front camera while the camera is on.
FrontStart ==
    /\ Take(60)
    /\ IF cam_state /\ ~reserved_8
          THEN /\ reserved_9' = TRUE /\ reserved_8' = TRUE
               /\ UNCHANGED <<demand, sta_view, video_mode, radar_val>>
               /\ video_Channel /\ camera_start /\ fb1' = TRUE
          ELSE UNCHANGED <<demand, select, device, fb1>>
    /\ UNCHANGED <<report, boot, fb0>>

\* 61: the TV standard changed; the signal check starts over.
Recheck ==
    /\ Take(61)
    /\ check' = IF /\ reserved_13 /\ Idle /\ T132B
                   /\ video_mode \in {3, 5, 7} /\ check # "queued"
                   THEN "timer" ELSE check
    /\ UNCHANGED <<demand, select, streaming, channel, report, boot, fb0, fb1>>

\* 64: the application draws the radar over the camera.
RadarShow ==
    /\ Take(64)
    /\ IF cam_state THEN radar_val' = FALSE /\ ShowAndroid
                    ELSE UNCHANGED <<radar_val, fb0>>
    /\ UNCHANGED <<demand, sta_view, video_mode, reserved_8, reserved_9,
                   device, report, boot, fb1>>

\* 66: a key toggles between the front and the rear camera.
FrontToggle ==
    /\ Take(66)
    /\ IF cam_state
          THEN /\ reserved_9' = ~reserved_9
               /\ vs_send(IF reserved_9 THEN "start" ELSE "front")
               /\ reserved_10' = TRUE
               /\ UNCHANGED <<demand, sta_view, video_mode>>
               /\ video_Channel /\ camera_start
          ELSE UNCHANGED <<demand, sta_view, video_mode, reserved_9, report,
                           device>>
    /\ UNCHANGED <<reserved_8, radar_val, boot, fb0, fb1>>

capture_work ==
    \/ ChannelEnter \/ ChannelRefresh \/ CaptureOn \/ CaptureOff
    \/ ViewOn \/ ViewOff \/ SignalOn \/ SignalOff
    \/ BackStart \/ BackSwitch \/ BackTell \/ BackStop
    \/ FrontStart \/ Recheck \/ RadarShow \/ FrontToggle

-----------------------------------------------------------------------------
\* car_probe: the MCU may report at boot that reverse gear is engaged.
Init ==
    /\ \/ capq = <<>> /\ video_mode = 0 /\ mcu_cmd_state = 0
       \/ /\ capq = <<[cmd |-> 56, arg |-> 1]>>
          /\ video_mode = 255
          /\ mcu_cmd_state \in {5, 6}
    /\ cam_state = FALSE /\ cam_signal = FALSE
    /\ reserved_11 = FALSE /\ reserved_13 = FALSE
    /\ sta_view = 1
    /\ reserved_8 = FALSE /\ reserved_9 = FALSE /\ reserved_10 = FALSE
    /\ radar_val = FALSE /\ call_active = FALSE
    /\ av_seen = FALSE
    /\ streaming = FALSE /\ check = "off"
    /\ fb0 = TRUE /\ fb1 = FALSE
    /\ channel = [src |-> "av", mode |-> 0, input |-> 0]
    /\ told = "stop"

Next ==
    \/ \E r \in Requests : capture_add_work(r)
    \/ \E s \in {5, 6} : McuInput(s)
    \/ BootComplete
    \/ CheckTimer
    \/ capture_check_work
    \/ capture_work

Spec == Init /\ [][Next]_vars

\* cap_wq runs its items and the timer of the check fires.
Fairness == WF_vars(capture_work) /\ WF_vars(CheckTimer) /\
            WF_vars(capture_check_work)
FairSpec == Spec /\ Fairness

-----------------------------------------------------------------------------
(* Properties.                                                             *)

Channels == [src : {"front", "reverse", "rear", "av"},
             mode : AvModes \cup {0, 255}, input : {0, 5, 6}]

QueueOK  == capq \in Seq(Items)
DemandOK == /\ cam_state \in BOOLEAN /\ cam_signal \in BOOLEAN
            /\ reserved_11 \in BOOLEAN /\ reserved_13 \in BOOLEAN
SelectOK == /\ sta_view \in {0, 1}
            /\ video_mode \in AvModes \cup {0, 255}
            /\ reserved_8 \in BOOLEAN /\ reserved_9 \in BOOLEAN
            /\ radar_val \in BOOLEAN
DeviceOK == /\ streaming \in BOOLEAN
            /\ check \in {"off", "timer", "queued"}
            /\ channel \in Channels
ReportOK == reserved_10 \in BOOLEAN /\ told \in {"start", "front", "stop"}
BootOK   == /\ call_active \in BOOLEAN /\ av_seen \in BOOLEAN
            /\ mcu_cmd_state \in {0, 5, 6}
LayerOK  == fb0 \in BOOLEAN /\ fb1 \in BOOLEAN

\* Every variable stays in its range, and the queue holds legal items only.
TypeOK == /\ QueueOK /\ DemandOK /\ SelectOK /\ DeviceOK /\ ReportOK
          /\ BootOK /\ LayerOK

\* The decoder runs exactly while one of its four users wants it: capture_work
\* starts and stops it from eleven places, each guarded by other flags.
StreamsOnDemand ==
    streaming = (cam_state \/ cam_signal \/ reserved_11 \/ reserved_13)

\* The overlay plane is enabled exactly while the decoder runs: no frozen last
\* picture stays on the screen, no camera runs unseen.
OverlayFollowsStream == fb1 = streaming

\* While the decoder runs, the delayed work that watches the video signal is
\* pending: the restarts by camera_stop and camera_start never lose it.
CheckNeverLost == streaming => check # "off"

\* While the decoder runs, the channel the MCU was last told is the one of the
\* user with the highest priority: items that store a flag without calling
\* video_Channel never leave another source on the screen.
ChannelCurrent ==
    streaming =>
       /\ channel.src = SourceOf(cam_state, cam_signal, reserved_11,
                                 reserved_9, sta_view)
       /\ channel.mode = video_mode

\* The layer of Android is switched off only while a camera is shown: every way
\* out of the camera gives the screen back.
AndroidVisible == ~fb0 => cam_state \/ cam_signal

TellPending == \E i \in DOMAIN capq : capq[i].cmd = 58

\* Once Android is up and item 58 has run, the last camera message it got says
\* whether the camera is on, and the flag process_mcu_command reads is set
\* while it is.
AndroidTold ==
    call_active /\ ~TellPending =>
       /\ cam_state <=> told # "stop"
       /\ cam_state => reserved_10

\* A camera is never replaced on the screen by anything else: between two
\* states in which it is on, the decoder keeps showing one of its inputs.
CameraKeepsScreen ==
    [][cam_state /\ cam_state' /\ streaming
          => streaming' /\ channel'.src \in {"reverse", "front"} /\ fb1']_vars

\* A queued end of reverse gear is reached whatever else is queued.
BackStopPending == \E i \in DOMAIN capq : capq[i].cmd = 59
BackStopServed  == BackStopPending ~> ~cam_state

\* Once Android is up it learns of a camera that stays on, from the item that
\* started it or from item 58.
CameraAnnounced == call_active /\ cam_state ~> told # "stop" \/ ~cam_state

\* The check of the video signal comes round again while the decoder runs,
\* however often the items restart it.
SignalWatched == streaming ~> check = "queued" \/ ~streaming

\* The promise of the component: Backview implements VideoArbiter.
BackviewPictures ==
    [camera |-> {"reverse", "front"}, signal |-> {"rear"},
     view |-> {"rear", "front"}, av |-> {"av"}, nobody |-> {"none"}]

BackviewWants ==
    {u \in {"camera", "signal", "view", "av"} :
        \/ u = "camera" /\ cam_state
        \/ u = "signal" /\ cam_signal
        \/ u = "view" /\ reserved_11
        \/ u = "av" /\ reserved_13}

BackviewShown == IF streaming /\ fb1 THEN channel.src ELSE "none"

Arbiter == INSTANCE VideoArbiter WITH Pictures <- BackviewPictures,
                                      wants <- BackviewWants,
                                      shown <- BackviewShown

\* Whatever the order of the items, the screen moves only as VideoArbiter lets
\* it: the picture is that of the most important user, and no item for another
\* user disturbs it.
ArbiterSpec == Arbiter!Spec
=============================================================================
