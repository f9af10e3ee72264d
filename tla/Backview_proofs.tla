--------------------------- MODULE Backview_proofs ---------------------------
(***************************************************************************)
(* Proofs about Backview for every set of requests, every queue length and *)
(* both decoders.                                                          *)
(*                                                                         *)
(* The invariant is TypeOK and ScreenInv.  Each item is one lemma: it      *)
(* keeps the types, then says what its calls leave behind (the decoder     *)
(* goes to whoever wants it, the channel is sent again, or neither), and   *)
(* the parts of ScreenInv follow.                                          *)
(***************************************************************************)
EXTENDS Backview, SequenceTheorems, TLAPS

\* What the guards of the items rely on without testing it: the AV capture is
\* only wanted for a mode with a picture, the camera ended the signal, and the
\* MCU knows the channel of a mode with a picture before its capture starts.
AvHasMode    == reserved_13 => video_mode \in AvModes
SignalYields == cam_state => ~cam_signal
ChannelKnown ==
    streaming \/ video_mode \in AvModes =>
       /\ channel.src = SourceOf(cam_state, cam_signal, reserved_11,
                                 reserved_9, sta_view)
       /\ channel.mode = video_mode

ScreenInv == /\ StreamsOnDemand /\ OverlayFollowsStream /\ CheckNeverLost
             /\ ChannelKnown /\ AndroidVisible /\ AvHasMode /\ SignalYields

IInv == TypeOK /\ ScreenInv

-----------------------------------------------------------------------------
(* What the calls made by the items establish.                             *)

\* A step of capture_work takes an item that was requested with legal values.
LEMMA TakeType ==
    ASSUME capq \in Seq(Items), NEW c, Take(c)
    PROVE  /\ capq' \in Seq(Items)
           /\ Arg \in 0..255
           /\ c \in {48, 49} => Arg \in AvModes
           /\ c = 52 => Arg \in {0, 1}
<1>1. Head(capq) \in Items /\ capq' \in Seq(Items)
  BY HeadTailProperties DEF Take
<1>2. Head(capq).cmd = c
  BY DEF Take
<1>3. QED
  BY <1>1, <1>2 DEF Items, Arg

\* Queueing a legal item keeps the queue legal.
LEMMA AddType ==
    ASSUME capq \in Seq(Items), NEW r \in Items, capq' = Append(capq, r)
    PROVE  capq' \in Seq(Items)
  BY AppendProperties

\* The decoder and the overlay go to w, and a running decoder is watched.
DecoderGoesTo(w) ==
    /\ streaming' = w /\ fb1' = w
    /\ check' \in {"off", "timer", "queued"}
    /\ w => check' # "off"

\* The MCU is told the channel of the users as the item leaves them.
ChannelSent ==
    /\ channel' \in Channels
    /\ channel'.src = SourceOf(cam_state', cam_signal', reserved_11',
                               reserved_9', sta_view')
    /\ channel'.mode = video_mode'

\* video_Channel sends the source of the highest user.
LEMMA VideoChannelFacts ==
    ASSUME video_Channel, video_mode' \in AvModes \cup {0, 255},
           mcu_cmd_state \in {0, 5, 6}
    PROVE  ChannelSent
<1> DEFINE src == SourceOf(cam_state', cam_signal', reserved_11',
                           reserved_9', sta_view')
<1>1. src \in {"front", "reverse", "rear", "av"}
  BY DEF SourceOf
<1>2. channel' = ChannelOf(src, video_mode', mcu_cmd_state)
  BY DEF video_Channel
<1> HIDE DEF src
<1>3. QED
  BY <1>1, <1>2 DEF ChannelOf, Channels, ChannelSent, src

\* camera_start and the overlay give the decoder away.
LEMMA StartFacts ==
    ASSUME camera_start, fb1' = TRUE
    PROVE  DecoderGoesTo(TRUE)
  BY DEF camera_start, DecoderGoesTo

\* camera_stop and the overlay take it back.
LEMMA StopFacts ==
    ASSUME camera_stop, fb1' = FALSE, check \in {"off", "timer", "queued"}
    PROVE  DecoderGoesTo(FALSE)
  BY DEF camera_stop, DecoderGoesTo

\* Resume does one or the other.
LEMMA ResumeFacts ==
    ASSUME NEW wanted \in BOOLEAN, Resume(wanted),
           check \in {"off", "timer", "queued"}
    PROVE  DecoderGoesTo(wanted)
<1>1. CASE wanted
  <2>1. DecoderGoesTo(TRUE)
    BY <1>1, StartFacts DEF Resume
  <2>2. QED
    BY <1>1, <2>1
<1>2. CASE ~wanted
  <2>1. DecoderGoesTo(FALSE)
    BY <1>2, StopFacts DEF Resume
  <2>2. QED
    BY <1>2, <2>1
<1>3. QED
  BY <1>1, <1>2

\* A step that leaves the users, the decoder and the layers alone is harmless.
LEMMA KeepStep ==
    ASSUME IInv, QueueOK', ReportOK', BootOK',
           UNCHANGED <<demand, select, device, fb0, fb1>>
    PROVE  IInv'
<1> USE DEF IInv, TypeOK, ScreenInv, demand, select, device
<1>1. DemandOK' /\ SelectOK'
  BY DEF DemandOK, SelectOK
<1>2. DeviceOK' /\ LayerOK'
  BY DEF DeviceOK, LayerOK
<1>3. /\ StreamsOnDemand' /\ OverlayFollowsStream' /\ CheckNeverLost'
      /\ AndroidVisible' /\ AvHasMode' /\ SignalYields'
  BY DEF StreamsOnDemand, OverlayFollowsStream, CheckNeverLost,
         AndroidVisible, AvHasMode, SignalYields
<1>4. ChannelKnown'
  BY DEF ChannelKnown
<1>5. QED
  BY <1>1, <1>2, <1>3, <1>4

-----------------------------------------------------------------------------
(* The items.                                                              *)

\* Item 46: a capture in progress ends with its channel.
LEMMA ChannelEnterStep == IInv /\ ChannelEnter => IInv'
<1> SUFFICES ASSUME IInv, ChannelEnter
             PROVE  IInv'
  OBVIOUS
<1> USE DEF IInv, TypeOK, ScreenInv, QueueOK, DemandOK, SelectOK, DeviceOK,
      ReportOK, BootOK, LayerOK, demand, select, device, report, boot
<1>1. QueueOK'
  BY TakeType DEF ChannelEnter
<1>2. CASE video_mode # 0 /\ reserved_13 /\ Idle
  <2>1. DecoderGoesTo(FALSE)
    BY <1>2, StopFacts DEF ChannelEnter
  <2>2. ChannelSent
    BY <1>2, VideoChannelFacts DEF ChannelEnter, ModeOf
  <2>3. DemandOK'
    BY <1>2 DEF ChannelEnter, Idle, ModeOf
  <2>4. SelectOK'
    BY <1>2 DEF ChannelEnter, Idle, ModeOf
  <2>5. ReportOK' /\ BootOK'
    BY <1>2 DEF ChannelEnter, Idle
  <2>6. LayerOK' /\ DeviceOK'
    BY <1>2, <2>1, <2>2 DEF ChannelEnter, Idle, DecoderGoesTo, ChannelSent
  <2>7. StreamsOnDemand'
    BY <1>2, <2>1
       DEF ChannelEnter, Idle, ModeOf, DecoderGoesTo, StreamsOnDemand,
          AvHasMode, AvModes
  <2>8. OverlayFollowsStream' /\ CheckNeverLost'
    BY <1>2, <2>1
       DEF ChannelEnter, Idle, DecoderGoesTo, StreamsOnDemand,
          OverlayFollowsStream, CheckNeverLost
  <2>9. ChannelKnown'
    BY <1>2, <2>2, <2>1
       DEF ChannelEnter, Idle, ModeOf, DecoderGoesTo, ChannelSent,
          ChannelKnown, AvHasMode
  <2>10. AndroidVisible' /\ SignalYields'
    BY <1>2 DEF ChannelEnter, Idle, AndroidVisible, SignalYields
  <2>11. reserved_13 => video_mode # 0
    BY DEF AvHasMode, AvModes
  <2>12. reserved_13' = (reserved_13 /\ video_mode = 0)
    BY DEF ChannelEnter
  <2>13. AvHasMode'
    BY <2>11, <2>12 DEF AvHasMode
  <2>14. QED
    BY <1>1, <2>3, <2>4, <2>5, <2>6, <2>7, <2>8, <2>9, <2>10, <2>13
<1>3. CASE ~(video_mode # 0 /\ reserved_13 /\ Idle)
  <2>1. ChannelSent
    BY <1>3, VideoChannelFacts DEF ChannelEnter, ModeOf
  <2>2. DemandOK'
    BY <1>3 DEF ChannelEnter, Idle, ModeOf
  <2>3. SelectOK'
    BY <1>3 DEF ChannelEnter, Idle, ModeOf
  <2>4. ReportOK' /\ BootOK'
    BY <1>3 DEF ChannelEnter, Idle
  <2>5. LayerOK' /\ DeviceOK'
    BY <1>3, <2>1 DEF ChannelEnter, Idle, ChannelSent
  <2>6. StreamsOnDemand'
    BY <1>3
       DEF ChannelEnter, Idle, ModeOf, StreamsOnDemand, AvHasMode, AvModes
  <2>7. OverlayFollowsStream' /\ CheckNeverLost'
    BY <1>3
       DEF ChannelEnter, Idle, StreamsOnDemand, OverlayFollowsStream,
          CheckNeverLost
  <2>8. ChannelKnown'
    BY <1>3, <2>1
       DEF ChannelEnter, Idle, ModeOf, ChannelSent, ChannelKnown, AvHasMode
  <2>9. AndroidVisible' /\ SignalYields'
    BY <1>3 DEF ChannelEnter, Idle, AndroidVisible, SignalYields
  <2>10. reserved_13 => video_mode # 0
    BY DEF AvHasMode, AvModes
  <2>11. reserved_13' = (reserved_13 /\ video_mode = 0)
    BY DEF ChannelEnter
  <2>12. AvHasMode'
    BY <2>10, <2>11 DEF AvHasMode
  <2>13. QED
    BY <1>1, <2>2, <2>3, <2>4, <2>5, <2>6, <2>7, <2>8, <2>9, <2>12
<1>4. QED
  BY <1>2, <1>3

\* Item 47: only the channel is sent again.
LEMMA ChannelRefreshStep == IInv /\ ChannelRefresh => IInv'
<1> SUFFICES ASSUME IInv, ChannelRefresh
             PROVE  IInv'
  OBVIOUS
<1> USE DEF IInv, TypeOK, ScreenInv, QueueOK, DemandOK, SelectOK, DeviceOK,
      ReportOK, BootOK, LayerOK, demand, select, device, report, boot
<1>1. QueueOK'
  BY TakeType DEF ChannelRefresh
<1>2. CASE av_seen
  <2>1. ChannelSent
    BY <1>2, VideoChannelFacts DEF ChannelRefresh
  <2>2. DemandOK'
    BY <1>2 DEF ChannelRefresh
  <2>3. SelectOK'
    BY <1>2 DEF ChannelRefresh
  <2>4. ReportOK' /\ BootOK'
    BY <1>2 DEF ChannelRefresh
  <2>5. LayerOK' /\ DeviceOK'
    BY <1>2, <2>1 DEF ChannelRefresh, ChannelSent
  <2>6. StreamsOnDemand'
    BY <1>2 DEF ChannelRefresh, StreamsOnDemand, AvHasMode, AvModes
  <2>7. OverlayFollowsStream' /\ CheckNeverLost'
    BY <1>2
       DEF ChannelRefresh, StreamsOnDemand, OverlayFollowsStream,
          CheckNeverLost
  <2>8. ChannelKnown'
    BY <1>2, <2>1 DEF ChannelRefresh, ChannelSent, ChannelKnown, AvHasMode
  <2>9. AndroidVisible' /\ SignalYields'
    BY <1>2 DEF ChannelRefresh, AndroidVisible, SignalYields
  <2>10. AvHasMode'
    BY <1>2 DEF ChannelRefresh, AvHasMode
  <2>11. QED
    BY <1>1, <2>2, <2>3, <2>4, <2>5, <2>6, <2>7, <2>8, <2>9, <2>10
<1>3. CASE ~av_seen
  BY <1>1, <1>3, KeepStep DEF ChannelRefresh
<1>4. QED
  BY <1>2, <1>3

\* Item 48: the capture takes an idle decoder, or waits for it.
LEMMA CaptureOnStep == IInv /\ CaptureOn => IInv'
<1> SUFFICES ASSUME IInv, CaptureOn
             PROVE  IInv'
  OBVIOUS
<1> USE DEF IInv, TypeOK, ScreenInv, QueueOK, DemandOK, SelectOK, DeviceOK,
      ReportOK, BootOK, LayerOK, demand, select, device, report, boot
<1>1. QueueOK' /\ Arg \in AvModes
  BY TakeType DEF CaptureOn
<1>2. CASE video_mode = Arg /\ ~reserved_13 /\ Idle
  <2>1. DecoderGoesTo(TRUE)
    BY <1>2, StartFacts DEF CaptureOn
  <2>2. DemandOK'
    BY <1>2 DEF CaptureOn, Idle
  <2>3. SelectOK'
    BY <1>2, <1>1 DEF CaptureOn, Idle
  <2>4. ReportOK' /\ BootOK'
    BY <1>2 DEF CaptureOn, Idle
  <2>5. LayerOK' /\ DeviceOK'
    BY <1>2, <2>1 DEF CaptureOn, Idle, DecoderGoesTo
  <2>6. StreamsOnDemand'
    BY <1>2, <2>1
       DEF CaptureOn, Idle, DecoderGoesTo, StreamsOnDemand, AvHasMode, AvModes
  <2>7. OverlayFollowsStream' /\ CheckNeverLost'
    BY <1>2, <2>1
       DEF CaptureOn, Idle, DecoderGoesTo, StreamsOnDemand,
          OverlayFollowsStream, CheckNeverLost
  <2>8. ChannelKnown'
    BY <1>2, <1>1, <2>1
       DEF CaptureOn, Idle, DecoderGoesTo, ChannelKnown, SourceOf, AvHasMode
  <2>9. AndroidVisible' /\ SignalYields'
    BY <1>2 DEF CaptureOn, Idle, AndroidVisible, SignalYields
  <2>10. AvHasMode'
    BY <1>2, <1>1 DEF CaptureOn, Idle, AvHasMode
  <2>11. QED
    BY <1>1, <2>2, <2>3, <2>4, <2>5, <2>6, <2>7, <2>8, <2>9, <2>10
<1>3. CASE video_mode = Arg /\ ~reserved_13 /\ ~Idle
  <2>1. DemandOK'
    BY <1>3 DEF CaptureOn, Idle
  <2>2. SelectOK'
    BY <1>3, <1>1 DEF CaptureOn, Idle
  <2>3. ReportOK' /\ BootOK'
    BY <1>3 DEF CaptureOn, Idle
  <2>4. LayerOK' /\ DeviceOK'
    BY <1>3 DEF CaptureOn, Idle
  <2>5. StreamsOnDemand'
    BY <1>3 DEF CaptureOn, Idle, StreamsOnDemand, AvHasMode, AvModes
  <2>6. OverlayFollowsStream' /\ CheckNeverLost'
    BY <1>3
       DEF CaptureOn, Idle, StreamsOnDemand, OverlayFollowsStream,
          CheckNeverLost
  <2>7. ChannelKnown'
    BY <1>3, <1>1 DEF CaptureOn, Idle, ChannelKnown, SourceOf, AvHasMode
  <2>8. AndroidVisible' /\ SignalYields'
    BY <1>3 DEF CaptureOn, Idle, AndroidVisible, SignalYields
  <2>9. AvHasMode'
    BY <1>3, <1>1 DEF CaptureOn, Idle, AvHasMode
  <2>10. QED
    BY <1>1, <2>1, <2>2, <2>3, <2>4, <2>5, <2>6, <2>7, <2>8, <2>9
<1>4. CASE ~(video_mode = Arg /\ ~reserved_13)
  BY <1>1, <1>4, KeepStep DEF CaptureOn
<1>5. QED
  BY <1>2, <1>3, <1>4

\* Item 49: the capture leaves.
LEMMA CaptureOffStep == IInv /\ CaptureOff => IInv'
<1> SUFFICES ASSUME IInv, CaptureOff
             PROVE  IInv'
  OBVIOUS
<1> USE DEF IInv, TypeOK, ScreenInv, QueueOK, DemandOK, SelectOK, DeviceOK,
      ReportOK, BootOK, LayerOK, demand, select, device, report, boot
<1>1. QueueOK'
  BY TakeType DEF CaptureOff
<1>2. CASE video_mode = Arg /\ reserved_13 /\ Idle
  <2>1. DecoderGoesTo(FALSE)
    BY <1>2, StopFacts DEF CaptureOff
  <2>2. DemandOK'
    BY <1>2 DEF CaptureOff, Idle
  <2>3. SelectOK'
    BY <1>2 DEF CaptureOff, Idle
  <2>4. ReportOK' /\ BootOK'
    BY <1>2 DEF CaptureOff, Idle
  <2>5. LayerOK' /\ DeviceOK'
    BY <1>2, <2>1 DEF CaptureOff, Idle, DecoderGoesTo
  <2>6. StreamsOnDemand'
    BY <1>2, <2>1
       DEF CaptureOff, Idle, DecoderGoesTo, StreamsOnDemand, AvHasMode,
          AvModes
  <2>7. OverlayFollowsStream' /\ CheckNeverLost'
    BY <1>2, <2>1
       DEF CaptureOff, Idle, DecoderGoesTo, StreamsOnDemand,
          OverlayFollowsStream, CheckNeverLost
  <2>8. ChannelKnown'
    BY <1>2, <2>1
       DEF CaptureOff, Idle, DecoderGoesTo, ChannelKnown, SourceOf, AvHasMode
  <2>9. AndroidVisible' /\ SignalYields'
    BY <1>2 DEF CaptureOff, Idle, AndroidVisible, SignalYields
  <2>10. AvHasMode'
    BY <1>2 DEF CaptureOff, Idle, AvHasMode
  <2>11. QED
    BY <1>1, <2>2, <2>3, <2>4, <2>5, <2>6, <2>7, <2>8, <2>9, <2>10
<1>3. CASE video_mode = Arg /\ reserved_13 /\ ~Idle
  <2>1. DemandOK'
    BY <1>3 DEF CaptureOff, Idle
  <2>2. SelectOK'
    BY <1>3 DEF CaptureOff, Idle
  <2>3. ReportOK' /\ BootOK'
    BY <1>3 DEF CaptureOff, Idle
  <2>4. LayerOK' /\ DeviceOK'
    BY <1>3 DEF CaptureOff, Idle
  <2>5. StreamsOnDemand'
    BY <1>3 DEF CaptureOff, Idle, StreamsOnDemand, AvHasMode, AvModes
  <2>6. OverlayFollowsStream' /\ CheckNeverLost'
    BY <1>3
       DEF CaptureOff, Idle, StreamsOnDemand, OverlayFollowsStream,
          CheckNeverLost
  <2>7. ChannelKnown'
    BY <1>3 DEF CaptureOff, Idle, ChannelKnown, SourceOf, AvHasMode
  <2>8. AndroidVisible' /\ SignalYields'
    BY <1>3 DEF CaptureOff, Idle, AndroidVisible, SignalYields
  <2>9. AvHasMode'
    BY <1>3 DEF CaptureOff, Idle, AvHasMode
  <2>10. QED
    BY <1>1, <2>1, <2>2, <2>3, <2>4, <2>5, <2>6, <2>7, <2>8, <2>9
<1>4. CASE ~(video_mode = Arg /\ reserved_13)
  BY <1>1, <1>4, KeepStep DEF CaptureOff
<1>5. QED
  BY <1>2, <1>3, <1>4

\* Item 52: the view takes the screen from the capture.
LEMMA ViewOnStep == IInv /\ ViewOn => IInv'
<1> SUFFICES ASSUME IInv, ViewOn
             PROVE  IInv'
  OBVIOUS
<1> USE DEF IInv, TypeOK, ScreenInv, QueueOK, DemandOK, SelectOK, DeviceOK,
      ReportOK, BootOK, LayerOK, demand, select, device, report, boot
<1>1. QueueOK' /\ Arg \in {0, 1}
  BY TakeType DEF ViewOn
<1>2. CASE ~cam_state /\ ~cam_signal /\ (reserved_11 => sta_view # Arg)
  <2>1. DecoderGoesTo(TRUE)
    BY <1>2, StartFacts DEF ViewOn
  <2>2. ChannelSent
    BY <1>2, <1>1, VideoChannelFacts DEF ViewOn
  <2>3. DemandOK'
    BY <1>2 DEF ViewOn
  <2>4. SelectOK'
    BY <1>2, <1>1 DEF ViewOn
  <2>5. ReportOK' /\ BootOK'
    BY <1>2 DEF ViewOn
  <2>6. LayerOK' /\ DeviceOK'
    BY <1>2, <2>1, <2>2 DEF ViewOn, DecoderGoesTo, ChannelSent
  <2>7. StreamsOnDemand'
    BY <1>2, <2>1
       DEF ViewOn, DecoderGoesTo, StreamsOnDemand, AvHasMode, AvModes
  <2>8. OverlayFollowsStream' /\ CheckNeverLost'
    BY <1>2, <2>1
       DEF ViewOn, DecoderGoesTo, StreamsOnDemand, OverlayFollowsStream,
          CheckNeverLost
  <2>9. ChannelKnown'
    BY <1>2, <1>1, <2>2, <2>1
       DEF ViewOn, DecoderGoesTo, ChannelSent, ChannelKnown, AvHasMode
  <2>10. AndroidVisible' /\ SignalYields'
    BY <1>2 DEF ViewOn, AndroidVisible, SignalYields
  <2>11. AvHasMode'
    BY <1>2, <1>1 DEF ViewOn, AvHasMode
  <2>12. QED
    BY <1>1, <2>3, <2>4, <2>5, <2>6, <2>7, <2>8, <2>9, <2>10, <2>11
<1>3. CASE ~(~cam_state /\ ~cam_signal /\ (reserved_11 => sta_view # Arg))
  <2>1. DemandOK'
    BY <1>3 DEF ViewOn
  <2>2. SelectOK'
    BY <1>3, <1>1 DEF ViewOn
  <2>3. ReportOK' /\ BootOK'
    BY <1>3 DEF ViewOn
  <2>4. LayerOK' /\ DeviceOK'
    BY <1>3 DEF ViewOn
  <2>5. StreamsOnDemand'
    BY <1>3 DEF ViewOn, StreamsOnDemand, AvHasMode, AvModes
  <2>6. OverlayFollowsStream' /\ CheckNeverLost'
    BY <1>3 DEF ViewOn, StreamsOnDemand, OverlayFollowsStream, CheckNeverLost
  <2>7. ChannelKnown'
    BY <1>3, <1>1 DEF ViewOn, ChannelKnown, SourceOf, AvHasMode
  <2>8. AndroidVisible' /\ SignalYields'
    BY <1>3 DEF ViewOn, AndroidVisible, SignalYields
  <2>9. AvHasMode'
    BY <1>3, <1>1 DEF ViewOn, AvHasMode
  <2>10. QED
    BY <1>1, <2>1, <2>2, <2>3, <2>4, <2>5, <2>6, <2>7, <2>8, <2>9
<1>4. QED
  BY <1>2, <1>3

\* Item 53: the view gives it back.
LEMMA ViewOffStep == IInv /\ ViewOff => IInv'
<1> SUFFICES ASSUME IInv, ViewOff
             PROVE  IInv'
  OBVIOUS
<1> USE DEF IInv, TypeOK, ScreenInv, QueueOK, DemandOK, SelectOK, DeviceOK,
      ReportOK, BootOK, LayerOK, demand, select, device, report, boot
<1>1. QueueOK'
  BY TakeType DEF ViewOff
<1>2. CASE reserved_11 /\ ~cam_state /\ ~cam_signal
  <2>1. PICK w \in BOOLEAN : w = (video_mode # 0 /\ reserved_13) /\ Resume(w)
    BY <1>2 DEF ViewOff
  <2>2. DecoderGoesTo(w)
    BY <2>1, ResumeFacts
  <2>3. ChannelSent
    BY <1>2, VideoChannelFacts DEF ViewOff
  <2>4. DemandOK'
    BY <1>2 DEF ViewOff
  <2>5. SelectOK'
    BY <1>2 DEF ViewOff
  <2>6. ReportOK' /\ BootOK'
    BY <1>2 DEF ViewOff
  <2>7. LayerOK' /\ DeviceOK'
    BY <1>2, <2>2, <2>3 DEF ViewOff, DecoderGoesTo, ChannelSent
  <2>8. StreamsOnDemand'
    BY <1>2, <2>1, <2>2
       DEF ViewOff, DecoderGoesTo, StreamsOnDemand, AvHasMode, AvModes
  <2>9. OverlayFollowsStream' /\ CheckNeverLost'
    BY <1>2, <2>2
       DEF ViewOff, DecoderGoesTo, StreamsOnDemand, OverlayFollowsStream,
          CheckNeverLost
  <2>10. ChannelKnown'
    BY <1>2, <2>3, <2>2
       DEF ViewOff, DecoderGoesTo, ChannelSent, ChannelKnown, AvHasMode
  <2>11. AndroidVisible' /\ SignalYields'
    BY <1>2 DEF ViewOff, AndroidVisible, SignalYields
  <2>12. AvHasMode'
    BY <1>2 DEF ViewOff, AvHasMode
  <2>13. QED
    BY <1>1, <2>4, <2>5, <2>6, <2>7, <2>8, <2>9, <2>10, <2>11, <2>12
<1>3. CASE ~(reserved_11 /\ ~cam_state /\ ~cam_signal)
  <2>1. DemandOK'
    BY <1>3 DEF ViewOff
  <2>2. SelectOK'
    BY <1>3 DEF ViewOff
  <2>3. ReportOK' /\ BootOK'
    BY <1>3 DEF ViewOff
  <2>4. LayerOK' /\ DeviceOK'
    BY <1>3 DEF ViewOff
  <2>5. StreamsOnDemand'
    BY <1>3 DEF ViewOff, StreamsOnDemand, AvHasMode, AvModes
  <2>6. OverlayFollowsStream' /\ CheckNeverLost'
    BY <1>3 DEF ViewOff, StreamsOnDemand, OverlayFollowsStream, CheckNeverLost
  <2>7. ChannelKnown'
    BY <1>3 DEF ViewOff, ChannelKnown, SourceOf, AvHasMode
  <2>8. AndroidVisible' /\ SignalYields'
    BY <1>3 DEF ViewOff, AndroidVisible, SignalYields
  <2>9. AvHasMode'
    BY <1>3 DEF ViewOff, AvHasMode
  <2>10. QED
    BY <1>1, <2>1, <2>2, <2>3, <2>4, <2>5, <2>6, <2>7, <2>8, <2>9
<1>4. QED
  BY <1>2, <1>3

\* Item 54: the signal takes the screen.
LEMMA SignalOnStep == IInv /\ SignalOn => IInv'
<1> SUFFICES ASSUME IInv, SignalOn
             PROVE  IInv'
  OBVIOUS
<1> USE DEF IInv, TypeOK, ScreenInv, QueueOK, DemandOK, SelectOK, DeviceOK,
      ReportOK, BootOK, LayerOK, demand, select, device, report, boot
<1>1. QueueOK'
  BY TakeType DEF SignalOn
<1>2. CASE ~cam_state /\ ~cam_signal
  <2>1. DecoderGoesTo(TRUE)
    BY <1>2, StartFacts DEF SignalOn
  <2>2. ChannelSent
    BY <1>2, VideoChannelFacts DEF SignalOn
  <2>3. DemandOK'
    BY <1>2 DEF SignalOn
  <2>4. SelectOK'
    BY <1>2 DEF SignalOn
  <2>5. ReportOK' /\ BootOK'
    BY <1>2 DEF SignalOn
  <2>6. LayerOK' /\ DeviceOK'
    BY <1>2, <2>1, <2>2 DEF SignalOn, DecoderGoesTo, ChannelSent
  <2>7. StreamsOnDemand'
    BY <1>2, <2>1
       DEF SignalOn, DecoderGoesTo, StreamsOnDemand, AvHasMode, AvModes
  <2>8. OverlayFollowsStream' /\ CheckNeverLost'
    BY <1>2, <2>1
       DEF SignalOn, DecoderGoesTo, StreamsOnDemand, OverlayFollowsStream,
          CheckNeverLost
  <2>9. ChannelKnown'
    BY <1>2, <2>2, <2>1
       DEF SignalOn, DecoderGoesTo, ChannelSent, ChannelKnown, AvHasMode
  <2>10. AndroidVisible' /\ SignalYields'
    BY <1>2 DEF SignalOn, AndroidVisible, SignalYields
  <2>11. AvHasMode'
    BY <1>2 DEF SignalOn, AvHasMode
  <2>12. QED
    BY <1>1, <2>3, <2>4, <2>5, <2>6, <2>7, <2>8, <2>9, <2>10, <2>11
<1>3. CASE ~(~cam_state /\ ~cam_signal)
  BY <1>1, <1>3, KeepStep DEF SignalOn
<1>4. QED
  BY <1>2, <1>3

\* Item 55: the signal gives it back.
LEMMA SignalOffStep == IInv /\ SignalOff => IInv'
<1> SUFFICES ASSUME IInv, SignalOff
             PROVE  IInv'
  OBVIOUS
<1> USE DEF IInv, TypeOK, ScreenInv, QueueOK, DemandOK, SelectOK, DeviceOK,
      ReportOK, BootOK, LayerOK, demand, select, device, report, boot
<1>1. QueueOK'
  BY TakeType DEF SignalOff
<1>2. CASE ~cam_state /\ cam_signal
  <2>1. PICK w \in BOOLEAN : w = (reserved_11 \/ (video_mode # 0 /\ reserved_13)) /\ Resume(w)
    BY <1>2 DEF SignalOff
  <2>2. DecoderGoesTo(w)
    BY <2>1, ResumeFacts
  <2>3. ChannelSent
    BY <1>2, VideoChannelFacts DEF SignalOff
  <2>4. DemandOK'
    BY <1>2 DEF SignalOff, ShowAndroid
  <2>5. SelectOK'
    BY <1>2 DEF SignalOff, ShowAndroid
  <2>6. ReportOK' /\ BootOK'
    BY <1>2 DEF SignalOff, ShowAndroid
  <2>7. LayerOK' /\ DeviceOK'
    BY <1>2, <2>2, <2>3 DEF SignalOff, ShowAndroid, DecoderGoesTo, ChannelSent
  <2>8. StreamsOnDemand'
    BY <1>2, <2>1, <2>2
       DEF SignalOff, ShowAndroid, DecoderGoesTo, StreamsOnDemand, AvHasMode,
          AvModes
  <2>9. OverlayFollowsStream' /\ CheckNeverLost'
    BY <1>2, <2>2
       DEF SignalOff, ShowAndroid, DecoderGoesTo, StreamsOnDemand,
          OverlayFollowsStream, CheckNeverLost
  <2>10. ChannelKnown'
    BY <1>2, <2>3, <2>2
       DEF SignalOff, ShowAndroid, DecoderGoesTo, ChannelSent, ChannelKnown,
          AvHasMode
  <2>11. AndroidVisible' /\ SignalYields'
    BY <1>2 DEF SignalOff, ShowAndroid, AndroidVisible, SignalYields
  <2>12. AvHasMode'
    BY <1>2 DEF SignalOff, ShowAndroid, AvHasMode
  <2>13. QED
    BY <1>1, <2>4, <2>5, <2>6, <2>7, <2>8, <2>9, <2>10, <2>11, <2>12
<1>3. CASE ~(~cam_state /\ cam_signal)
  BY <1>1, <1>3, KeepStep DEF SignalOff
<1>4. QED
  BY <1>2, <1>3

\* Item 56: the camera takes the screen from everyone.
LEMMA BackStartStep == IInv /\ BackStart => IInv'
<1> SUFFICES ASSUME IInv, BackStart
             PROVE  IInv'
  OBVIOUS
<1> USE DEF IInv, TypeOK, ScreenInv, QueueOK, DemandOK, SelectOK, DeviceOK,
      ReportOK, BootOK, LayerOK, demand, select, device, report, boot
<1>1. QueueOK'
  BY TakeType DEF BackStart
<1>2. CASE cam_state /\ (~reserved_8 \/ ~reserved_9)
  BY <1>1, <1>2, KeepStep DEF BackStart, Skip
<1>3. CASE ~(cam_state /\ (~reserved_8 \/ ~reserved_9))
  <2>1. DecoderGoesTo(TRUE)
    BY <1>3, StartFacts DEF BackStart
  <2>2. video_Channel /\ UNCHANGED <<video_mode, boot>>
    BY <1>3 DEF BackStart
  <2>3. ChannelSent
    BY <2>2, VideoChannelFacts
  <2>4. DemandOK'
    BY <1>3 DEF BackStart, TellUp
  <2>5. UNCHANGED <<sta_view, video_mode>>
    BY <1>3 DEF BackStart
  <2>6. sta_view' \in {0, 1} /\ video_mode' \in AvModes \cup {0, 255}
    BY <2>5
  <2>7. reserved_8' \in BOOLEAN /\ reserved_9' \in BOOLEAN
    BY <1>3 DEF BackStart
  <2>8. radar_val' \in BOOLEAN
    BY <1>3 DEF BackStart
  <2>9. SelectOK'
    BY <2>6, <2>7, <2>8
  <2>10. ReportOK' /\ BootOK'
    BY <1>3 DEF BackStart, TellUp
  <2>11. LayerOK' /\ DeviceOK'
    BY <1>3, <2>1, <2>3 DEF BackStart, TellUp, DecoderGoesTo, ChannelSent
  <2>12. StreamsOnDemand'
    BY <1>3, <2>1
       DEF BackStart, TellUp, DecoderGoesTo, StreamsOnDemand, AvHasMode,
          AvModes
  <2>13. OverlayFollowsStream' /\ CheckNeverLost'
    BY <1>3, <2>1
       DEF BackStart, TellUp, DecoderGoesTo, StreamsOnDemand,
          OverlayFollowsStream, CheckNeverLost
  <2>14. ChannelKnown'
    BY <1>3, <2>3, <2>1
       DEF BackStart, TellUp, DecoderGoesTo, ChannelSent, ChannelKnown,
          AvHasMode
  <2>15. AndroidVisible' /\ SignalYields'
    BY <1>3 DEF BackStart, TellUp, AndroidVisible, SignalYields
  <2>16. AvHasMode'
    BY <1>3 DEF BackStart, TellUp, AvHasMode
  <2>17. QED
    BY <1>1, <2>4, <2>9, <2>10, <2>11, <2>12, <2>13, <2>14, <2>15, <2>16
<1>4. QED
  BY <1>2, <1>3

\* Item 57: the camera changes its input.
LEMMA BackSwitchStep == IInv /\ BackSwitch => IInv'
<1> SUFFICES ASSUME IInv, BackSwitch
             PROVE  IInv'
  OBVIOUS
<1> USE DEF IInv, TypeOK, ScreenInv, QueueOK, DemandOK, SelectOK, DeviceOK,
      ReportOK, BootOK, LayerOK, demand, select, device, report, boot
<1>1. QueueOK'
  BY TakeType DEF BackSwitch
<1>2. CASE cam_state
  <2>1. DecoderGoesTo(TRUE)
    BY <1>2, StartFacts DEF BackSwitch
  <2>2. ChannelSent
    BY <1>2, VideoChannelFacts DEF BackSwitch
  <2>3. DemandOK'
    BY <1>2 DEF BackSwitch, TellUp
  <2>4. SelectOK'
    BY <1>2 DEF BackSwitch, TellUp
  <2>5. ReportOK' /\ BootOK'
    BY <1>2 DEF BackSwitch, TellUp
  <2>6. LayerOK' /\ DeviceOK'
    BY <1>2, <2>1, <2>2 DEF BackSwitch, TellUp, DecoderGoesTo, ChannelSent
  <2>7. StreamsOnDemand'
    BY <1>2, <2>1
       DEF BackSwitch, TellUp, DecoderGoesTo, StreamsOnDemand, AvHasMode,
          AvModes
  <2>8. OverlayFollowsStream' /\ CheckNeverLost'
    BY <1>2, <2>1
       DEF BackSwitch, TellUp, DecoderGoesTo, StreamsOnDemand,
          OverlayFollowsStream, CheckNeverLost
  <2>9. ChannelKnown'
    BY <1>2, <2>2, <2>1
       DEF BackSwitch, TellUp, DecoderGoesTo, ChannelSent, ChannelKnown,
          AvHasMode
  <2>10. AndroidVisible' /\ SignalYields'
    BY <1>2 DEF BackSwitch, TellUp, AndroidVisible, SignalYields
  <2>11. AvHasMode'
    BY <1>2 DEF BackSwitch, TellUp, AvHasMode
  <2>12. QED
    BY <1>1, <2>3, <2>4, <2>5, <2>6, <2>7, <2>8, <2>9, <2>10, <2>11
<1>3. CASE ~cam_state
  BY <1>1, <1>3, KeepStep DEF BackSwitch
<1>4. QED
  BY <1>2, <1>3

\* Item 58: Android is told.
LEMMA BackTellStep == IInv /\ BackTell => IInv'
<1> SUFFICES ASSUME IInv, BackTell
             PROVE  IInv'
  OBVIOUS
<1> USE DEF IInv, TypeOK, ScreenInv, QueueOK, DemandOK, SelectOK, DeviceOK,
      ReportOK, BootOK, LayerOK, demand, select, device, report, boot
<1>1. QueueOK'
  BY TakeType DEF BackTell
<1>2. CASE cam_state
  <2>1. DemandOK'
    BY <1>2 DEF BackTell, vs_send
  <2>2. SelectOK'
    BY <1>2 DEF BackTell, vs_send
  <2>3. ReportOK' /\ BootOK'
    BY <1>2 DEF BackTell, vs_send
  <2>4. LayerOK' /\ DeviceOK'
    BY <1>2 DEF BackTell, vs_send
  <2>5. StreamsOnDemand'
    BY <1>2 DEF BackTell, vs_send, StreamsOnDemand, AvHasMode, AvModes
  <2>6. OverlayFollowsStream' /\ CheckNeverLost'
    BY <1>2
       DEF BackTell, vs_send, StreamsOnDemand, OverlayFollowsStream,
          CheckNeverLost
  <2>7. ChannelKnown'
    BY <1>2 DEF BackTell, vs_send, ChannelKnown, SourceOf, AvHasMode
  <2>8. AndroidVisible' /\ SignalYields'
    BY <1>2 DEF BackTell, vs_send, AndroidVisible, SignalYields
  <2>9. AvHasMode'
    BY <1>2 DEF BackTell, vs_send, AvHasMode
  <2>10. QED
    BY <1>1, <2>1, <2>2, <2>3, <2>4, <2>5, <2>6, <2>7, <2>8, <2>9
<1>3. CASE ~cam_state
  BY <1>1, <1>3, KeepStep DEF BackTell
<1>4. QED
  BY <1>2, <1>3

\* Item 59: the camera gives the screen back.
LEMMA BackStopStep == IInv /\ BackStop => IInv'
<1> SUFFICES ASSUME IInv, BackStop
             PROVE  IInv'
  OBVIOUS
<1> USE DEF IInv, TypeOK, ScreenInv, QueueOK, DemandOK, SelectOK, DeviceOK,
      ReportOK, BootOK, LayerOK, demand, select, device, report, boot
<1>1. QueueOK'
  BY TakeType DEF BackStop
<1>2. CASE cam_state
  <2>1. PICK w \in BOOLEAN : w = (reserved_11 \/ (video_mode # 0 /\ reserved_13)) /\ Resume(w)
    BY <1>2 DEF BackStop
  <2>2. DecoderGoesTo(w)
    BY <2>1, ResumeFacts
  <2>3. ChannelSent
    BY <1>2, VideoChannelFacts DEF BackStop
  <2>4. DemandOK'
    BY <1>2 DEF BackStop, ShowAndroid, TellUp
  <2>5. UNCHANGED <<sta_view, video_mode>>
    BY <1>2 DEF BackStop
  <2>6. sta_view' \in {0, 1} /\ video_mode' \in AvModes \cup {0, 255}
    BY <2>5
  <2>7. reserved_8' \in BOOLEAN /\ reserved_9' \in BOOLEAN
    BY <1>2 DEF BackStop
  <2>8. radar_val' \in BOOLEAN
    BY <1>2 DEF BackStop
  <2>9. SelectOK'
    BY <2>6, <2>7, <2>8
  <2>10. ReportOK' /\ BootOK'
    BY <1>2 DEF BackStop, ShowAndroid, TellUp
  <2>11. LayerOK' /\ DeviceOK'
    BY <1>2, <2>2, <2>3
       DEF BackStop, ShowAndroid, TellUp, DecoderGoesTo, ChannelSent
  <2>12. StreamsOnDemand'
    BY <1>2, <2>1, <2>2
       DEF BackStop, ShowAndroid, TellUp, DecoderGoesTo, StreamsOnDemand,
          AvHasMode, AvModes, SignalYields
  <2>13. OverlayFollowsStream' /\ CheckNeverLost'
    BY <1>2, <2>2
       DEF BackStop, ShowAndroid, TellUp, DecoderGoesTo, StreamsOnDemand,
          OverlayFollowsStream, CheckNeverLost
  <2>14. ChannelKnown'
    BY <1>2, <2>3, <2>2
       DEF BackStop, ShowAndroid, TellUp, DecoderGoesTo, ChannelSent,
          ChannelKnown, AvHasMode
  <2>15. AndroidVisible' /\ SignalYields'
    BY <1>2 DEF BackStop, ShowAndroid, TellUp, AndroidVisible, SignalYields
  <2>16. AvHasMode'
    BY <1>2 DEF BackStop, ShowAndroid, TellUp, AvHasMode
  <2>17. QED
    BY <1>1, <2>4, <2>9, <2>10, <2>11, <2>12, <2>13, <2>14, <2>15, <2>16
<1>3. CASE ~cam_state
  BY <1>1, <1>3, KeepStep DEF BackStop
<1>4. QED
  BY <1>2, <1>3

\* Item 60: the front camera is shown.
LEMMA FrontStartStep == IInv /\ FrontStart => IInv'
<1> SUFFICES ASSUME IInv, FrontStart
             PROVE  IInv'
  OBVIOUS
<1> USE DEF IInv, TypeOK, ScreenInv, QueueOK, DemandOK, SelectOK, DeviceOK,
      ReportOK, BootOK, LayerOK, demand, select, device, report, boot
<1>1. QueueOK'
  BY TakeType DEF FrontStart
<1>2. CASE cam_state /\ ~reserved_8
  <2>1. DecoderGoesTo(TRUE)
    BY <1>2, StartFacts DEF FrontStart
  <2>2. ChannelSent
    BY <1>2, VideoChannelFacts DEF FrontStart
  <2>3. DemandOK'
    BY <1>2 DEF FrontStart
  <2>4. SelectOK'
    BY <1>2 DEF FrontStart
  <2>5. ReportOK' /\ BootOK'
    BY <1>2 DEF FrontStart
  <2>6. LayerOK' /\ DeviceOK'
    BY <1>2, <2>1, <2>2 DEF FrontStart, DecoderGoesTo, ChannelSent
  <2>7. StreamsOnDemand'
    BY <1>2, <2>1
       DEF FrontStart, DecoderGoesTo, StreamsOnDemand, AvHasMode, AvModes
  <2>8. OverlayFollowsStream' /\ CheckNeverLost'
    BY <1>2, <2>1
       DEF FrontStart, DecoderGoesTo, StreamsOnDemand, OverlayFollowsStream,
          CheckNeverLost
  <2>9. ChannelKnown'
    BY <1>2, <2>2, <2>1
       DEF FrontStart, DecoderGoesTo, ChannelSent, ChannelKnown, AvHasMode
  <2>10. AndroidVisible' /\ SignalYields'
    BY <1>2 DEF FrontStart, AndroidVisible, SignalYields
  <2>11. AvHasMode'
    BY <1>2 DEF FrontStart, AvHasMode
  <2>12. QED
    BY <1>1, <2>3, <2>4, <2>5, <2>6, <2>7, <2>8, <2>9, <2>10, <2>11
<1>3. CASE ~(cam_state /\ ~reserved_8)
  BY <1>1, <1>3, KeepStep DEF FrontStart
<1>4. QED
  BY <1>2, <1>3

\* Item 61: the check of the signal starts over.
LEMMA RecheckStep == IInv /\ Recheck => IInv'
<1> SUFFICES ASSUME IInv, Recheck
             PROVE  IInv'
  OBVIOUS
<1> USE DEF IInv, TypeOK, ScreenInv, QueueOK, DemandOK, SelectOK, DeviceOK,
      ReportOK, BootOK, LayerOK, demand, select, device, report, boot
<1>1. QueueOK'
  BY TakeType DEF Recheck
<1>2. DemandOK'
  BY DEF Recheck, Idle
<1>3. SelectOK'
  BY DEF Recheck, Idle
<1>4. ReportOK' /\ BootOK'
  BY DEF Recheck, Idle
<1>5. LayerOK' /\ DeviceOK'
  BY DEF Recheck, Idle
<1>6. StreamsOnDemand'
  BY DEF Recheck, Idle, StreamsOnDemand, AvHasMode, AvModes
<1>7. OverlayFollowsStream' /\ CheckNeverLost'
  BY DEF Recheck, Idle, StreamsOnDemand, OverlayFollowsStream, CheckNeverLost
<1>8. ChannelKnown'
  BY DEF Recheck, Idle, ChannelKnown, SourceOf, AvHasMode
<1>9. AndroidVisible' /\ SignalYields'
  BY DEF Recheck, Idle, AndroidVisible, SignalYields
<1>10. AvHasMode'
  BY DEF Recheck, Idle, AvHasMode
<1>11. QED
  BY <1>1, <1>2, <1>3, <1>4, <1>5, <1>6, <1>7, <1>8, <1>9, <1>10

\* Item 64: the layer of Android returns.
LEMMA RadarShowStep == IInv /\ RadarShow => IInv'
<1> SUFFICES ASSUME IInv, RadarShow
             PROVE  IInv'
  OBVIOUS
<1> USE DEF IInv, TypeOK, ScreenInv, QueueOK, DemandOK, SelectOK, DeviceOK,
      ReportOK, BootOK, LayerOK, demand, select, device, report, boot
<1>1. QueueOK'
  BY TakeType DEF RadarShow
<1>2. DemandOK'
  BY DEF RadarShow, ShowAndroid
<1>3. SelectOK'
  BY DEF RadarShow, ShowAndroid
<1>4. ReportOK' /\ BootOK'
  BY DEF RadarShow, ShowAndroid
<1>5. LayerOK' /\ DeviceOK'
  BY DEF RadarShow, ShowAndroid
<1>6. StreamsOnDemand'
  BY DEF RadarShow, ShowAndroid, StreamsOnDemand, AvHasMode, AvModes
<1>7. OverlayFollowsStream' /\ CheckNeverLost'
  BY DEF RadarShow, ShowAndroid, StreamsOnDemand, OverlayFollowsStream,
     CheckNeverLost
<1>8. ChannelKnown'
  BY DEF RadarShow, ShowAndroid, ChannelKnown, SourceOf, AvHasMode
<1>9. AndroidVisible' /\ SignalYields'
  BY DEF RadarShow, ShowAndroid, AndroidVisible, SignalYields
<1>10. AvHasMode'
  BY DEF RadarShow, ShowAndroid, AvHasMode
<1>11. QED
  BY <1>1, <1>2, <1>3, <1>4, <1>5, <1>6, <1>7, <1>8, <1>9, <1>10

\* Item 66: the camera changes.
LEMMA FrontToggleStep == IInv /\ FrontToggle => IInv'
<1> SUFFICES ASSUME IInv, FrontToggle
             PROVE  IInv'
  OBVIOUS
<1> USE DEF IInv, TypeOK, ScreenInv, QueueOK, DemandOK, SelectOK, DeviceOK,
      ReportOK, BootOK, LayerOK, demand, select, device, report, boot
<1>1. QueueOK'
  BY TakeType DEF FrontToggle
<1>2. CASE cam_state
  <2>1. DecoderGoesTo(TRUE)
    BY <1>2, StartFacts DEF FrontToggle, OverlayFollowsStream, StreamsOnDemand
  <2>2. ChannelSent
    BY <1>2, VideoChannelFacts DEF FrontToggle
  <2>3. DemandOK'
    BY <1>2 DEF FrontToggle, vs_send
  <2>4. SelectOK'
    BY <1>2 DEF FrontToggle, vs_send
  <2>5. ReportOK' /\ BootOK'
    BY <1>2 DEF FrontToggle, vs_send
  <2>6. LayerOK' /\ DeviceOK'
    BY <1>2, <2>1, <2>2 DEF FrontToggle, vs_send, DecoderGoesTo, ChannelSent
  <2>7. StreamsOnDemand'
    BY <1>2, <2>1
       DEF FrontToggle, vs_send, DecoderGoesTo, StreamsOnDemand, AvHasMode,
          AvModes
  <2>8. OverlayFollowsStream' /\ CheckNeverLost'
    BY <1>2, <2>1
       DEF FrontToggle, vs_send, DecoderGoesTo, StreamsOnDemand,
          OverlayFollowsStream, CheckNeverLost
  <2>9. ChannelKnown'
    BY <1>2, <2>2, <2>1
       DEF FrontToggle, vs_send, DecoderGoesTo, ChannelSent, ChannelKnown,
          AvHasMode
  <2>10. AndroidVisible' /\ SignalYields'
    BY <1>2 DEF FrontToggle, vs_send, AndroidVisible, SignalYields
  <2>11. AvHasMode'
    BY <1>2 DEF FrontToggle, vs_send, AvHasMode
  <2>12. QED
    BY <1>1, <2>3, <2>4, <2>5, <2>6, <2>7, <2>8, <2>9, <2>10, <2>11
<1>3. CASE ~cam_state
  BY <1>1, <1>3, KeepStep DEF FrontToggle
<1>4. QED
  BY <1>2, <1>3

-----------------------------------------------------------------------------
(* Everything else that happens, and the theorems.                         *)

\* Requests, the MCU, the boot of Android and the delayed check.
LEMMA OutsideStep ==
    ASSUME IInv,
           \/ \E r \in Requests : capture_add_work(r)
           \/ \E s \in {5, 6} : McuInput(s)
           \/ BootComplete \/ CheckTimer \/ capture_check_work
           \/ UNCHANGED vars
    PROVE  IInv'
<1> USE DEF IInv, TypeOK, QueueOK, ReportOK, BootOK, report, boot
<1>1. ASSUME NEW r \in Requests, capture_add_work(r)
      PROVE  IInv'
  <2>1. QueueOK'
    BY <1>1, AddType, BackviewAssumption DEF capture_add_work
  <2>2. QED
    BY <1>1, <2>1, KeepStep DEF capture_add_work
<1>2. ASSUME NEW s \in {5, 6}, McuInput(s)
      PROVE  IInv'
  BY <1>2, KeepStep DEF McuInput
<1>3. ASSUME BootComplete
      PROVE  IInv'
  <2>1. [cmd |-> 58, arg |-> 208] \in Items
    BY DEF Items, Commands
  <2>2. QueueOK'
    BY <1>3, <2>1, AddType DEF BootComplete
  <2>3. QED
    BY <1>3, <2>2, KeepStep DEF BootComplete
<1>4. ASSUME CheckTimer \/ capture_check_work
      PROVE  IInv'
  <2>1. /\ UNCHANGED <<capq, demand, select, streaming, channel, report, boot>>
        /\ UNCHANGED <<fb0, fb1>>
        /\ check' \in {"off", "timer", "queued"}
        /\ streaming => check' # "off"
    BY <1>4 DEF CheckTimer, capture_check_work
  <2>2. DemandOK' /\ SelectOK'
    BY <2>1 DEF demand, select, DemandOK, SelectOK
  <2>3. DeviceOK' /\ LayerOK'
    BY <2>1 DEF DeviceOK, LayerOK
  <2>4. QueueOK' /\ ReportOK' /\ BootOK'
    BY <2>1
  <2>5. /\ StreamsOnDemand' /\ OverlayFollowsStream' /\ CheckNeverLost'
        /\ AndroidVisible' /\ AvHasMode' /\ SignalYields'
    BY <2>1 DEF ScreenInv, demand, select, StreamsOnDemand, AvHasMode,
       OverlayFollowsStream, CheckNeverLost, AndroidVisible, SignalYields
  <2>6. ChannelKnown'
    BY <2>1 DEF ScreenInv, demand, select, ChannelKnown
  <2>7. QED
    BY <2>2, <2>3, <2>4, <2>5, <2>6 DEF ScreenInv
<1>5. ASSUME UNCHANGED vars
      PROVE  IInv'
  BY <1>5, KeepStep DEF vars
<1>6. QED
  BY <1>1, <1>2, <1>3, <1>4, <1>5

\* car_probe leaves a state in which the invariant holds, also when it finds
\* the reverse gear engaged.
LEMMA InitHolds == Init => IInv
<1> SUFFICES ASSUME Init PROVE IInv
  OBVIOUS
<1>1. QueueOK
  <2> DEFINE r == [cmd |-> 56, arg |-> 1]
  <2>1. r \in Items
    BY DEF Items, Commands
  <2>2. capq = <<>> \/ capq = <<r>>
    BY DEF Init
  <2> HIDE DEF r
  <2>3. <<>> \in Seq(Items) /\ <<r>> \in Seq(Items)
    BY <2>1
  <2>4. QED
    BY <2>2, <2>3 DEF QueueOK
<1>2. DemandOK /\ SelectOK /\ DeviceOK
  BY DEF Init, DemandOK, SelectOK, DeviceOK, Channels
<1>3. ReportOK /\ BootOK /\ LayerOK
  BY DEF Init, ReportOK, BootOK, LayerOK
<1>4. ScreenInv
  <2>1. ChannelKnown
    BY DEF Init, ChannelKnown, AvModes
  <2>2. StreamsOnDemand /\ OverlayFollowsStream /\ CheckNeverLost
    BY DEF Init, StreamsOnDemand, OverlayFollowsStream, CheckNeverLost
  <2>3. AndroidVisible /\ AvHasMode /\ SignalYields
    BY DEF Init, AndroidVisible, AvHasMode, SignalYields
  <2>4. QED
    BY <2>1, <2>2, <2>3 DEF ScreenInv
<1>5. QED
  BY <1>1, <1>2, <1>3, <1>4 DEF IInv, TypeOK

\* Every item, and every event outside the queue, keeps the invariant.
LEMMA NextStep == IInv /\ [Next]_vars => IInv'
  BY OutsideStep, ChannelEnterStep, ChannelRefreshStep, CaptureOnStep,
     CaptureOffStep, ViewOnStep, ViewOffStep, SignalOnStep, SignalOffStep,
     BackStartStep, BackSwitchStep, BackTellStep, BackStopStep,
     FrontStartStep, RecheckStep, RadarShowStep, FrontToggleStep
     DEF Next, capture_work

\* The inductive invariant, the base of every theorem below.
THEOREM Invariance == Spec => []IInv
<1>1. QED
  BY InitHolds, NextStep, PTL DEF Spec

\* Every variable of the capture queue stays in its range.
THEOREM TypeCorrect == Spec => []TypeOK
<1>1. IInv => TypeOK
  BY DEF IInv
<1>2. QED
  BY <1>1, Invariance, PTL

\* The decoder runs exactly while the camera, the signal, the view or an AV
\* capture wants it, after any order of the items.
THEOREM DecoderOnDemand == Spec => []StreamsOnDemand
<1>1. IInv => StreamsOnDemand
  BY DEF IInv, ScreenInv
<1>2. QED
  BY <1>1, Invariance, PTL

\* The overlay is enabled exactly while the decoder runs.
THEOREM OverlayCorrect == Spec => []OverlayFollowsStream
<1>1. IInv => OverlayFollowsStream
  BY DEF IInv, ScreenInv
<1>2. QED
  BY <1>1, Invariance, PTL

\* A running decoder is always watched by the delayed work.
THEOREM CheckKept == Spec => []CheckNeverLost
<1>1. IInv => CheckNeverLost
  BY DEF IInv, ScreenInv
<1>2. QED
  BY <1>1, Invariance, PTL

\* The MCU shows the user with the highest priority.
THEOREM ChannelCorrect == Spec => []ChannelCurrent
<1>1. IInv => ChannelCurrent
  BY DEF IInv, ScreenInv, ChannelKnown, ChannelCurrent
<1>2. QED
  BY <1>1, Invariance, PTL

\* The layer of Android is off only under a camera.
THEOREM AndroidCorrect == Spec => []AndroidVisible
<1>1. IInv => AndroidVisible
  BY DEF IInv, ScreenInv
<1>2. QED
  BY <1>1, Invariance, PTL

-----------------------------------------------------------------------------
(* What Android is told.                                                   *)

\* Before it is up, and without a camera, Android has no camera message to
\* forget.
ToldInv == /\ ~cam_state => told = "stop"
           /\ ~call_active => told = "stop"
           /\ AndroidTold

\* Taking another item leaves a queued item 58 in the queue.
LEMMA TellStays ==
    ASSUME QueueOK, NEW c, Take(c), c # 58, TellPending
    PROVE  TellPending'
<1>1. PICK i \in DOMAIN capq : capq[i].cmd = 58
  BY DEF TellPending
<1>2. capq \in Seq(Items) /\ capq # <<>> /\ capq' = Tail(capq)
  BY DEF QueueOK, Take
<1>3. i # 1
  BY <1>1, <1>2 DEF Take
<1>4. /\ i - 1 \in 1..Len(Tail(capq))
      /\ Tail(capq)[i - 1] = capq[i]
  BY <1>1, <1>2, <1>3, HeadTailProperties
<1>5. i - 1 \in DOMAIN capq' /\ capq'[i - 1].cmd = 58
  BY <1>1, <1>2, <1>4
<1>6. QED
  BY <1>5 DEF TellPending

\* Adding an item does too.
LEMMA TellStaysAdd ==
    ASSUME QueueOK, NEW r \in Items, capq' = Append(capq, r), TellPending
    PROVE  TellPending'
<1>1. PICK i \in DOMAIN capq : capq[i].cmd = 58
  BY DEF TellPending
<1>2. i \in DOMAIN capq' /\ capq'[i] = capq[i]
  BY <1>1 DEF QueueOK
<1>3. QED
  BY <1>1, <1>2 DEF TellPending

\* Every step keeps what Android was told in line with the camera, item 58
\* covering the time from the boot to its turn.
LEMMA ToldStep == IInv /\ ToldInv /\ [Next]_vars => ToldInv'
<1> SUFFICES ASSUME IInv, ToldInv, [Next]_vars
             PROVE  ToldInv'
  OBVIOUS
<1> USE DEF report, boot, demand
<1>1. QueueOK /\ ReportOK /\ DemandOK /\ BootOK
  BY DEF IInv, TypeOK
<1>2. ASSUME UNCHANGED <<cam_state, report, call_active>>,
             TellPending => TellPending'
      PROVE  ToldInv'
  BY <1>2 DEF ToldInv, AndroidTold
<1>3. ASSUME NEW r \in Requests, capture_add_work(r)
      PROVE  ToldInv'
  <2>1. TellPending => TellPending'
    BY <1>1, <1>3, TellStaysAdd, BackviewAssumption DEF capture_add_work
  <2>2. QED
    BY <1>2, <1>3, <2>1 DEF capture_add_work
<1>4. ASSUME \/ \E s \in {5, 6} : McuInput(s)
             \/ CheckTimer \/ capture_check_work \/ UNCHANGED vars
      PROVE  ToldInv'
  <2>1. UNCHANGED <<capq, cam_state, report, call_active>>
    BY <1>4 DEF McuInput, CheckTimer, capture_check_work, vars
  <2>2. QED
    BY <1>2, <2>1 DEF TellPending
<1>5. ASSUME BootComplete
      PROVE  ToldInv'
  <2>1. TellPending'
    <3>1. capq \in Seq(Items) /\ capq' = Append(capq, [cmd |-> 58, arg |-> 208])
      BY <1>1, <1>5 DEF BootComplete, QueueOK
    <3>2. /\ Len(capq) + 1 \in DOMAIN capq'
          /\ capq'[Len(capq) + 1].cmd = 58
      BY <3>1
    <3>3. QED
      BY <3>2 DEF TellPending
  <2>2. ~call_active /\ UNCHANGED <<cam_state, report>>
    BY <1>5 DEF BootComplete
  <2>3. QED
    BY <2>1, <2>2 DEF ToldInv, AndroidTold
<1>6. ASSUME \/ ChannelEnter \/ ChannelRefresh \/ CaptureOn \/ CaptureOff
             \/ ViewOn \/ ViewOff \/ SignalOn \/ SignalOff
             \/ FrontStart \/ Recheck \/ RadarShow
      PROVE  ToldInv'
  <2>1. UNCHANGED <<cam_state, report, call_active>>
    BY <1>6 DEF ChannelEnter, ChannelRefresh, CaptureOn, CaptureOff, ViewOn,
       ViewOff, SignalOn, SignalOff, FrontStart, Recheck, RadarShow
  <2>2. \E c \in Commands \ {58} : Take(c)
    BY <1>6 DEF ChannelEnter, ChannelRefresh, CaptureOn, CaptureOff, ViewOn,
       ViewOff, SignalOn, SignalOff, FrontStart, Recheck, RadarShow, Commands
  <2>3. QED
    BY <1>1, <1>2, <2>1, <2>2, TellStays
<1>7. ASSUME BackStart
      PROVE  ToldInv'
  <2>1. TellPending => TellPending'
    BY <1>1, <1>7, TellStays DEF BackStart
  <2>2. \/ UNCHANGED <<cam_state, report, call_active>>
        \/ /\ ~cam_state /\ cam_state' /\ call_active' = call_active
           /\ IF call_active THEN told' = "start" /\ reserved_10' = TRUE
                             ELSE UNCHANGED report
    BY <1>7 DEF BackStart, Skip, TellUp
  <2>3. QED
    BY <1>2, <2>1, <2>2 DEF ToldInv, AndroidTold
<1>8. ASSUME BackSwitch \/ FrontToggle
      PROVE  ToldInv'
  <2>1. TellPending => TellPending'
    <3>1. Take(57) \/ Take(66)
      BY <1>8 DEF BackSwitch, FrontToggle
    <3>2. QED
      BY <1>1, <3>1, TellStays
  <2>2. /\ UNCHANGED <<cam_state, call_active>>
        /\ cam_state \/ UNCHANGED report
    BY <1>8 DEF BackSwitch, FrontToggle
  <2>3. call_active => UNCHANGED report \/ (reserved_10' = TRUE /\ told' # "stop")
    BY <1>8 DEF BackSwitch, FrontToggle, TellUp, vs_send
  <2>4. ~call_active => told' = told
    BY <1>8 DEF BackSwitch, FrontToggle, TellUp, vs_send
  <2>5. QED
    BY <2>1, <2>2, <2>3, <2>4 DEF ToldInv, AndroidTold
<1>9. ASSUME BackTell
      PROVE  ToldInv'
  BY <1>9 DEF BackTell, vs_send, ToldInv, AndroidTold
<1>10. ASSUME BackStop
      PROVE  ToldInv'
  <2>1. TellPending => TellPending'
    BY <1>1, <1>10, TellStays DEF BackStop
  <2>2. \/ UNCHANGED <<cam_state, report, call_active>>
        \/ /\ cam_state' = FALSE /\ call_active' = call_active
           /\ told' = IF call_active THEN "stop" ELSE told
    BY <1>10 DEF BackStop, TellUp
  <2>3. QED
    BY <1>2, <2>1, <2>2 DEF ToldInv, AndroidTold
<1>11. QED
  BY <1>3, <1>4, <1>5, <1>6, <1>7, <1>8, <1>9, <1>10 DEF Next, capture_work

\* Once up and told by item 58, Android knows whether the camera is on.
THEOREM ToldCorrect == Spec => []AndroidTold
<1>1. Init => ToldInv
  BY DEF Init, ToldInv, AndroidTold
<1>2. ToldInv => AndroidTold
  BY DEF ToldInv
<1>3. QED
  BY <1>1, <1>2, Invariance, ToldStep, PTL DEF Spec

-----------------------------------------------------------------------------
(* The screen as VideoArbiter sees it.                                     *)

\* The picture that belongs to the users, whatever the decoder does.
Picture == IF cam_state \/ cam_signal \/ reserved_11 \/ reserved_13
           THEN SourceOf(cam_state, cam_signal, reserved_11, reserved_9,
                         sta_view)
           ELSE "none"

\* Under the invariant the screen shows the picture that belongs to the users.
LEMMA ShownIsPicture ==
    /\ IInv => BackviewShown = Picture
    /\ IInv' => BackviewShown' = Picture'
  BY DEF IInv, TypeOK, DemandOK, ScreenInv, StreamsOnDemand, ChannelKnown,
     OverlayFollowsStream, BackviewShown, Picture

\* Who owns the screen, read from the flags.
OwnerByFlags == IF cam_state THEN "camera"
                ELSE IF cam_signal THEN "signal"
                ELSE IF reserved_11 THEN "view"
                ELSE IF reserved_13 THEN "av"
                ELSE "nobody"

\* The owner that VideoArbiter computes is the one the flags give.
LEMMA OwnerIs ==
    /\ Arbiter!Owner(BackviewWants) = OwnerByFlags
    /\ Arbiter!Owner(BackviewWants') = OwnerByFlags'
  BY DEF Arbiter!Owner, Arbiter!Nobody, BackviewWants, OwnerByFlags

\* The picture changes with its owner, or with the choice between front and
\* rear that belongs to the camera and to the view.
LEMMA PictureFacts ==
    /\ Picture' \in BackviewPictures[OwnerByFlags']
    /\ /\ OwnerByFlags' = OwnerByFlags
       /\ OwnerByFlags = "camera" => reserved_9' = reserved_9
       /\ OwnerByFlags = "view" => sta_view' = sta_view
       => Picture' = Picture
<1>1. Picture' \in BackviewPictures[OwnerByFlags']
  BY DEF Picture, SourceOf, BackviewPictures, OwnerByFlags
<1>2. /\ OwnerByFlags' = OwnerByFlags
      /\ OwnerByFlags = "camera" => reserved_9' = reserved_9
      /\ OwnerByFlags = "view" => sta_view' = sta_view
      => Picture' = Picture
  BY DEF Picture, SourceOf, OwnerByFlags
<1>3. QED
  BY <1>1, <1>2

\* An item that leaves that choice alone is a step of VideoArbiter in which
\* nobody asks for another picture.
LEMMA BecomeQuietly ==
    IInv /\ IInv' /\ UNCHANGED <<reserved_9, sta_view>>
       => Arbiter!Become(BackviewWants', {})
  BY ShownIsPicture, OwnerIs, PictureFacts DEF Arbiter!Become

\* The camera may choose, by reserved_9.
LEMMA BecomeByCamera ==
    IInv /\ IInv' /\ UNCHANGED sta_view
       => Arbiter!Become(BackviewWants', {"camera"})
  BY ShownIsPicture, OwnerIs, PictureFacts DEF Arbiter!Become

\* So may the view, which chooses by sta_view.
LEMMA BecomeByView ==
    IInv /\ IInv' /\ UNCHANGED reserved_9
       => Arbiter!Become(BackviewWants', {"view"})
  BY ShownIsPicture, OwnerIs, PictureFacts DEF Arbiter!Become

\* Steps that leave the users and the front camera alone do not touch the screen.
LEMMA StutterFacts ==
    ASSUME IInv, IInv', UNCHANGED <<demand, reserved_9, sta_view>>
    PROVE  UNCHANGED <<BackviewWants, BackviewShown>>
<1>1. BackviewWants' = BackviewWants
  BY DEF demand, BackviewWants
<1>2. Picture' = Picture
  BY DEF demand, Picture, SourceOf
<1>3. QED
  BY <1>1, <1>2, ShownIsPicture

\* Every step is a step of VideoArbiter or leaves its two variables alone.
LEMMA ArbiterStep ==
    IInv /\ IInv' /\ [Next]_vars
       => [Arbiter!Next]_<<BackviewWants, BackviewShown>>
<1> SUFFICES ASSUME IInv, IInv', [Next]_vars
             PROVE  [Arbiter!Next]_<<BackviewWants, BackviewShown>>
  OBVIOUS
<1> USE DEF demand, select
<1>1. ASSUME UNCHANGED <<demand, reserved_9, sta_view>>
      PROVE  [Arbiter!Next]_<<BackviewWants, BackviewShown>>
  BY <1>1, StutterFacts
<1>2. ASSUME \/ \E r \in Requests : capture_add_work(r)
             \/ \E s \in {5, 6} : McuInput(s)
             \/ BootComplete \/ CheckTimer \/ capture_check_work
             \/ ChannelRefresh \/ BackSwitch \/ BackTell
             \/ Recheck \/ RadarShow \/ UNCHANGED vars
      PROVE  [Arbiter!Next]_<<BackviewWants, BackviewShown>>
  <2>1. UNCHANGED <<demand, reserved_9, sta_view>>
    BY <1>2 DEF capture_add_work, McuInput, BootComplete, CheckTimer,
       capture_check_work, ChannelRefresh, BackSwitch, BackTell, Recheck,
       RadarShow, vars
  <2>2. QED
    BY <1>1, <2>1
<1>3. ASSUME \/ ChannelEnter \/ CaptureOff
      PROVE  [Arbiter!Next]_<<BackviewWants, BackviewShown>>
  <2>1. reserved_13 => video_mode # 0
    BY DEF IInv, ScreenInv, AvHasMode, AvModes
  <2>2. /\ reserved_13' = FALSE \/ reserved_13' = reserved_13
        /\ UNCHANGED <<cam_state, cam_signal, reserved_11, reserved_9, sta_view>>
    BY <1>3, <2>1 DEF ChannelEnter, CaptureOff, Idle
  <2>3. CASE reserved_13' = FALSE
    <3>1. BackviewWants' = BackviewWants \ {"av"}
      BY <2>2, <2>3 DEF BackviewWants
    <3>2. Arbiter!Become(BackviewWants', {})
      BY <2>2, BecomeQuietly
    <3>3. Arbiter!AvOff
      BY <3>1, <3>2 DEF Arbiter!AvOff
    <3>4. QED
      BY <3>3 DEF Arbiter!Next
  <2>4. QED
    BY <1>1, <2>2, <2>3
<1>4. ASSUME CaptureOn
      PROVE  [Arbiter!Next]_<<BackviewWants, BackviewShown>>
  <2>1. /\ reserved_13' = TRUE \/ reserved_13' = reserved_13
        /\ UNCHANGED <<cam_state, cam_signal, reserved_11, reserved_9, sta_view>>
    BY <1>4 DEF CaptureOn
  <2>2. CASE reserved_13' = TRUE
    <3>1. BackviewWants' = BackviewWants \cup {"av"}
      BY <2>1, <2>2 DEF BackviewWants
    <3>2. Arbiter!Become(BackviewWants', {})
      BY <2>1, BecomeQuietly
    <3>3. Arbiter!AvOn
      BY <3>1, <3>2 DEF Arbiter!AvOn
    <3>4. QED
      BY <3>3 DEF Arbiter!Next
  <2>3. QED
    BY <1>1, <2>1, <2>2
<1>5. ASSUME ViewOn
      PROVE  [Arbiter!Next]_<<BackviewWants, BackviewShown>>
  <2>1. /\ reserved_11' = TRUE
        /\ UNCHANGED <<cam_state, cam_signal, reserved_13, reserved_9>>
    BY <1>5 DEF ViewOn
  <2>2. BackviewWants' = BackviewWants \cup {"view"}
    BY <2>1 DEF BackviewWants
  <2>3. Arbiter!Become(BackviewWants', {"view"})
    BY <2>1, BecomeByView
  <2>4. Arbiter!ViewOn
    BY <2>2, <2>3 DEF Arbiter!ViewOn
  <2>5. QED
    BY <2>4 DEF Arbiter!Next
<1>6. ASSUME ViewOff
      PROVE  [Arbiter!Next]_<<BackviewWants, BackviewShown>>
  <2>1. /\ reserved_11' = FALSE
        /\ UNCHANGED <<cam_state, cam_signal, reserved_13, reserved_9, sta_view>>
    BY <1>6 DEF ViewOff
  <2>2. BackviewWants' = BackviewWants \ {"view"}
    BY <2>1 DEF BackviewWants
  <2>3. Arbiter!Become(BackviewWants', {})
    BY <2>1, BecomeQuietly
  <2>4. Arbiter!ViewOff
    BY <2>2, <2>3 DEF Arbiter!ViewOff
  <2>5. QED
    BY <2>4 DEF Arbiter!Next
<1>7. ASSUME SignalOn
      PROVE  [Arbiter!Next]_<<BackviewWants, BackviewShown>>
  <2>1. /\ UNCHANGED <<cam_state, reserved_11, reserved_13, reserved_9, sta_view>>
        /\ (~cam_state /\ cam_signal' = TRUE) \/ cam_signal' = cam_signal
    BY <1>7 DEF SignalOn
  <2>2. CASE ~cam_state /\ cam_signal' = TRUE
    <3>1. /\ BackviewWants' = BackviewWants \cup {"signal"}
          /\ "camera" \notin BackviewWants
      BY <2>1, <2>2 DEF BackviewWants
    <3>2. Arbiter!Become(BackviewWants', {})
      BY <2>1, BecomeQuietly
    <3>3. Arbiter!SignalOn
      BY <3>1, <3>2 DEF Arbiter!SignalOn
    <3>4. QED
      BY <3>3 DEF Arbiter!Next
  <2>3. QED
    BY <1>1, <2>1, <2>2
<1>8. ASSUME SignalOff
      PROVE  [Arbiter!Next]_<<BackviewWants, BackviewShown>>
  <2>1. /\ UNCHANGED <<cam_state, reserved_11, reserved_13, reserved_9, sta_view>>
        /\ (~cam_state /\ cam_signal' = FALSE) \/ cam_signal' = cam_signal
    BY <1>8 DEF SignalOff
  <2>2. CASE ~cam_state /\ cam_signal' = FALSE
    <3>1. /\ BackviewWants' = BackviewWants \ {"signal"}
          /\ "camera" \notin BackviewWants
      BY <2>1, <2>2 DEF BackviewWants
    <3>2. Arbiter!Become(BackviewWants', {})
      BY <2>1, BecomeQuietly
    <3>3. Arbiter!SignalOff
      BY <3>1, <3>2 DEF Arbiter!SignalOff
    <3>4. QED
      BY <3>3 DEF Arbiter!Next
  <2>3. QED
    BY <1>1, <2>1, <2>2
<1>9. ASSUME BackStart \/ FrontStart \/ FrontToggle
      PROVE  [Arbiter!Next]_<<BackviewWants, BackviewShown>>
  <2>1. \/ UNCHANGED <<demand, reserved_9, sta_view>>
        \/ /\ cam_state' = TRUE
           /\ cam_signal' = FALSE \/ (cam_state /\ cam_signal' = cam_signal)
           /\ UNCHANGED <<reserved_11, reserved_13, sta_view>>
    BY <1>9 DEF BackStart, FrontStart, FrontToggle, Skip
  <2>2. CASE /\ cam_state' = TRUE
             /\ cam_signal' = FALSE \/ (cam_state /\ cam_signal' = cam_signal)
             /\ UNCHANGED <<reserved_11, reserved_13, sta_view>>
    <3>1. ~cam_signal'
      BY <2>2 DEF IInv, ScreenInv, SignalYields
    <3>2. BackviewWants' = (BackviewWants \cup {"camera"}) \ {"signal"}
      BY <2>2, <3>1 DEF BackviewWants
    <3>3. Arbiter!Become(BackviewWants', {"camera"})
      BY <2>2, BecomeByCamera
    <3>4. Arbiter!CameraOn
      BY <3>2, <3>3 DEF Arbiter!CameraOn
    <3>5. QED
      BY <3>4 DEF Arbiter!Next
  <2>3. QED
    BY <1>1, <2>1, <2>2
<1>10. ASSUME BackStop
       PROVE  [Arbiter!Next]_<<BackviewWants, BackviewShown>>
  <2>1. /\ cam_state' = FALSE \/ UNCHANGED cam_state
        /\ UNCHANGED <<cam_signal, reserved_11, reserved_13, reserved_9, sta_view>>
    BY <1>10 DEF BackStop
  <2>2. CASE cam_state' = FALSE
    <3>1. BackviewWants' = BackviewWants \ {"camera"}
      BY <2>1, <2>2 DEF BackviewWants
    <3>2. Arbiter!Become(BackviewWants', {})
      BY <2>1, <2>2, BecomeQuietly
    <3>3. Arbiter!CameraOff
      BY <3>1, <3>2 DEF Arbiter!CameraOff
    <3>4. QED
      BY <3>3 DEF Arbiter!Next
  <2>3. QED
    BY <1>1, <2>1, <2>2
<1>11. QED
  BY <1>2, <1>3, <1>4, <1>5, <1>6, <1>7, <1>8, <1>9, <1>10
     DEF Next, capture_work

\* At boot nobody has the screen.
LEMMA ArbiterInit == Init => Arbiter!Init
  BY DEF Init, Arbiter!Init, Arbiter!Nobody, BackviewWants, BackviewShown,
     BackviewPictures

\* The capture queue implements VideoArbiter: whatever the items and their
\* order, the screen shows the most important of the users that want it and
\* nobody else's item disturbs it.
THEOREM ImplementsArbiter == Spec => ArbiterSpec
<1>1. Spec => [][Arbiter!Next]_<<BackviewWants, BackviewShown>>
  BY Invariance, ArbiterStep, PTL DEF Spec
<1>2. QED
  BY <1>1, ArbiterInit DEF Spec, ArbiterSpec, Arbiter!Spec

\* While the camera stays on, its picture stays on the screen.
THEOREM CameraStays == Spec => CameraKeepsScreen
<1>1. IInv /\ IInv' /\ [Next]_vars
         => [cam_state /\ cam_state' /\ streaming
               => streaming' /\ channel'.src \in {"reverse", "front"} /\ fb1']_vars
  BY DEF IInv, ScreenInv, StreamsOnDemand, OverlayFollowsStream, ChannelKnown,
     SourceOf
<1>2. QED
  BY <1>1, Invariance, PTL DEF Spec, CameraKeepsScreen
=============================================================================
