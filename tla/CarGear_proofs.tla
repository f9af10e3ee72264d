--------------------------- MODULE CarGear_proofs ---------------------------
(***************************************************************************)
(* Proofs about CarWork: every variable of the composition stays in its    *)
(* range, and a gear that was left never leaves the camera on.             *)
(*                                                                         *)
(* The second is about two queues in a row: what the MCU said last is the  *)
(* last camera item of car_wq, or was handed to cap_wq and is the last     *)
(* there, or has been done.                                                *)
(***************************************************************************)
EXTENDS CarWork_proofs

CarqItems == [cmd : {29, 30, 37, 38, 42, 43, 45, 69} \cup 31..34, arg : 0..255]
AudqItems == [cmd : {0} \cup 20..23, arg : 0..255]
CapCmds   == {46, 47, 55, 56, 57, 58, 59, 60}

-----------------------------------------------------------------------------
(* Types.                                                                  *)

\* Items of this module and of capture_work are legal.
LEMMA CarItemTypes ==
    /\ \A c \in {29, 30, 37, 38, 42, 43, 45, 69} \cup 31..34, a \in 0..255 :
          Item(c, a) \in CarqItems
    /\ \A c \in {0} \cup 20..23, a \in 0..255 : Item(c, a) \in AudqItems
<1>1. ASSUME NEW c \in {29, 30, 37, 38, 42, 43, 45, 69} \cup 31..34,
             NEW a \in 0..255
      PROVE  Item(c, a) \in CarqItems
  BY <1>1 DEF Item, CarqItems
<1>2. ASSUME NEW c \in {0} \cup 20..23, NEW a \in 0..255
      PROVE  Item(c, a) \in AudqItems
  BY <1>2 DEF Item, AudqItems
<1> QED
  BY <1>1, <1>2

\* The same for the items that capture_work gets.
LEMMA CapItemTypes ==
    /\ \A c \in CapCmds, a \in 0..255 :
          Item(c, a) \in B!Items
    /\ \A c \in {48, 49}, a \in B!AvModes : Item(c, a) \in B!Items
<1>1. ASSUME NEW c \in CapCmds, NEW a \in 0..255
      PROVE  Item(c, a) \in B!Items
  <2>1. /\ Item(c, a).cmd = c /\ Item(c, a).arg = a
        /\ Item(c, a) \in [cmd : B!Commands, arg : 0..255]
    BY <1>1 DEF Item, CapCmds, B!Commands
  <2> QED
    BY <1>1, <2>1 DEF CapCmds, B!Items
<1>2. ASSUME NEW c \in {48, 49}, NEW a \in B!AvModes
      PROVE  Item(c, a) \in B!Items
  <2>1. /\ Item(c, a).cmd = c /\ Item(c, a).arg = a
        /\ Item(c, a) \in [cmd : B!Commands, arg : 0..255]
    BY <1>2 DEF Item, B!Commands, B!AvModes
  <2> QED
    BY <1>2, <2>1 DEF B!Items
<1> QED
  BY <1>1, <1>2

\* The oldest item and the rest of a queue.
LEMMA HeadTypes ==
    ASSUME NEW S, NEW q \in Seq(S), q # <<>>
    PROVE  Head(q) \in S /\ Tail(q) \in Seq(S)
  BY HeadTailProperties

\* Appending a legal item keeps a queue legal.
LEMMA AppendTypes ==
    ASSUME NEW S, NEW q \in Seq(S), NEW x \in S
    PROVE  Append(q, x) \in Seq(S)
  BY AppendProperties

\* The three queues, and everything else of this module.
QueueTypes == /\ capq \in Seq(B!Items) /\ carq \in Seq(CarqItems)
              /\ audq \in Seq(AudqItems)
OtherTypes ==
    /\ carpc \in CarPlaces /\ audpc \in AudioPlaces
    /\ iopc \in {"idle", "audio", "capture"}
    /\ power_refcnt \in 0..255 /\ power_on \in 0..255
    /\ rpt_power \in BOOLEAN /\ video_src_ready \in BOOLEAN
    /\ rpt_boot_android \in BOOLEAN /\ ajx_active \in BOOLEAN
    /\ audio_active \in BOOLEAN /\ codec \in BOOLEAN
    /\ gear \in {"in", "out", "either"}
BootTypes == call_active \in BOOLEAN /\ mcu_cmd_state \in {0, 5, 6}
Types == B!TypeOK /\ QueueTypes /\ OtherTypes

\* The same as the type invariant of CarWork.
LEMMA TypesAreTypeOK == Types <=> TypeOK
  BY DEF Types, QueueTypes, OtherTypes, CarPlaces, AudioPlaces, CarqItems,
         AudqItems, TypeOK, B!TypeOK, B!QueueOK

\* A step that leaves the camera alone.
LEMMA CameraKept ==
    ASSUME Types, QueueTypes', OtherTypes', BootTypes', UNCHANGED camera
    PROVE  Types'
<1>1. UNCHANGED <<cam_state, cam_signal, reserved_11, reserved_13, sta_view,
                  video_mode, reserved_8, reserved_9, reserved_10, radar_val,
                  av_seen, streaming, check, fb0, fb1, channel, told>>
  BY DEF camera
<1>2. B!QueueOK' /\ B!BootOK'
  BY <1>1 DEF Types, QueueTypes, BootTypes, B!TypeOK, B!QueueOK, B!BootOK
<1>3. B!DemandOK' /\ B!SelectOK' /\ B!LayerOK'
  BY <1>1 DEF Types, B!TypeOK, B!DemandOK, B!SelectOK, B!LayerOK
<1>4. B!DeviceOK' /\ B!ReportOK'
  <2>1. /\ B!DeviceOK /\ B!ReportOK
        /\ UNCHANGED <<streaming, check, channel, reserved_10, told>>
    BY <1>1 DEF Types, B!TypeOK
  <2> QED
    BY <2>1 DEF B!DeviceOK, B!ReportOK
<1> QED
  BY <1>2, <1>3, <1>4 DEF Types, B!TypeOK

\* What car_work and the MCU write of the flags of Backview is typed too.
LEMMA BootTyped == Types => BootTypes
  BY DEF Types, BootTypes, B!TypeOK, B!BootOK

-----------------------------------------------------------------------------
\* The MCU.
LEMMA McuTypes ==
    ASSUME Types, NEW m \in McuCommands, process_mcu_command(m)
    PROVE  Types'
<1>1. m.arg \in 0..255 /\ BootTypes
  BY CarAssumption, BootTyped
<1>2. /\ UNCHANGED <<audq, capq, carpc, audpc, iopc, power_refcnt, power_on,
                     rpt_power, video_src_ready, rpt_boot_android, ajx_active,
                     audio_active, codec, call_active>>
      /\ UNCHANGED camera
  BY DEF process_mcu_command, threads, sessions, source, sound
<1> DEFINE Mcu == {42, 43, 45, 69} \cup 31..34
<1>3. PICK c \in Mcu, a \in 0..255 : carq' = Append(carq, Item(c, a))
  <2>1. CASE m.cmd = "F204" /\ Reverse(5)
    <3>1. \/ carq' = Append(carq, Item(31, 0))
          \/ carq' = Append(carq, Item(32, 0))
      BY <2>1 DEF Reverse, Queue
    <3>2. 31 \in Mcu /\ 32 \in Mcu /\ 0 \in 0..255
      OBVIOUS
    <3> QED
      BY <3>1, <3>2
  <2>2. CASE m.cmd = "F207" /\ Reverse(6)
    <3>1. \/ carq' = Append(carq, Item(31, 0))
          \/ carq' = Append(carq, Item(32, 0))
      BY <2>2 DEF Reverse, Queue
    <3>2. 31 \in Mcu /\ 32 \in Mcu /\ 0 \in 0..255
      OBVIOUS
    <3> QED
      BY <3>1, <3>2
  <2>3. CASE Queue(42, 0, 5, "in") \/ Queue(42, 0, 6, "in")
    <3>1. carq' = Append(carq, Item(42, 0))
      BY <2>3 DEF Queue
    <3>2. 42 \in Mcu /\ 0 \in 0..255
      OBVIOUS
    <3> QED
      BY <3>1, <3>2
  <2>4. CASE Queue(42, m.arg, mcu_cmd_state, gear)
    BY <2>4, <1>1 DEF Queue
  <2>5. CASE Queue(69, m.arg, mcu_cmd_state, gear)
    BY <2>5, <1>1 DEF Queue
  <2>6. CASE Queue(43, 0, mcu_cmd_state, gear)
    BY <2>6 DEF Queue
  <2>7. CASE Queue(45, 0, mcu_cmd_state, "either")
    BY <2>7 DEF Queue
  <2>8. CASE Leave \/ Queue(33, 0, mcu_cmd_state, gear)
    BY <2>8 DEF Queue, Leave
  <2>9. \/ m.cmd = "F204" /\ Reverse(5)
        \/ m.cmd = "F207" /\ Reverse(6)
        \/ Queue(42, 0, 5, "in") \/ Queue(42, 0, 6, "in")
        \/ Queue(42, m.arg, mcu_cmd_state, gear)
        \/ Queue(69, m.arg, mcu_cmd_state, gear)
        \/ Queue(43, 0, mcu_cmd_state, gear)
        \/ Queue(45, 0, mcu_cmd_state, "either")
        \/ Leave \/ Queue(33, 0, mcu_cmd_state, gear)
    BY Zenon DEF process_mcu_command
  <2> HIDE DEF Mcu
  <2> QED
    BY <2>1, <2>2, <2>3, <2>4, <2>5, <2>6, <2>7, <2>8, <2>9
<1>4. mcu_cmd_state' \in {0, 5, 6} /\ gear' \in {"in", "out", "either"}
  BY <1>1 DEF process_mcu_command, Queue, Reverse, Leave, BootTypes, Types,
              OtherTypes
<1>5. QueueTypes'
  <2>1. Item(c, a) \in CarqItems
    BY <1>3, CarItemTypes
  <2> QED
    BY <1>2, <1>3, <2>1, AppendTypes DEF Types, QueueTypes
<1>6. OtherTypes' /\ BootTypes'
  BY <1>1, <1>2, <1>4 DEF Types, OtherTypes, BootTypes
<1> QED
  BY <1>2, <1>5, <1>6, CameraKept

-----------------------------------------------------------------------------
(* capture_work.                                                           *)

Checks == {"off", "timer", "queued"}

\* What video_Channel sends is a channel.
LEMMA ChannelTypes ==
    ASSUME B!video_Channel, video_mode' \in B!AvModes \cup {0, 255},
           mcu_cmd_state \in {0, 5, 6}
    PROVE  channel' \in B!Channels
<1> DEFINE src == B!SourceOf(cam_state', cam_signal', reserved_11',
                             reserved_9', sta_view')
<1>1. src \in {"front", "reverse", "rear", "av"}
  BY DEF B!SourceOf
<1>2. channel' = B!ChannelOf(src, video_mode', mcu_cmd_state)
  BY DEF B!video_Channel
<1> HIDE DEF src
<1> QED
  BY <1>1, <1>2 DEF B!ChannelOf, B!Channels

\* The decoder is running or not, and its check somewhere.
LEMMA DecoderTypes ==
    ASSUME check \in Checks,
           \/ B!camera_start \/ B!camera_stop
           \/ UNCHANGED <<streaming, check>> /\ streaming \in BOOLEAN
    PROVE  streaming' \in BOOLEAN /\ check' \in Checks
  BY DEF Checks, B!camera_start, B!camera_stop

\* capture_work takes an item that is legal.
LEMMA TakeTypes ==
    ASSUME B!TypeOK, NEW c, B!Take(c)
    PROVE  /\ capq' \in Seq(B!Items) /\ Head(capq) \in B!Items
           /\ Head(capq).cmd = c
  BY HeadTailProperties DEF B!TypeOK, B!QueueOK, B!Take

\* Whatever item capture_work handles, its variables stay typed.
LEMMA ItemTyped ==
    ASSUME B!TypeOK, B!capture_work
    PROVE  B!TypeOK'
<1>1. B!BootOK /\ check \in Checks /\ streaming \in BOOLEAN
  BY DEF B!TypeOK, B!DeviceOK, Checks
<1> USE DEF B!demand, B!select, B!device, B!report, B!boot, B!TypeOK, B!DemandOK,
            B!SelectOK, B!ReportOK, B!BootOK, B!LayerOK, B!DeviceOK
<1>2. CASE B!ChannelEnter
  <2>1. B!QueueOK'
    BY <1>2, TakeTypes DEF B!ChannelEnter, B!QueueOK
  <2>2. B!DemandOK' /\ B!BootOK'
    BY <1>2 DEF B!ChannelEnter, B!Skip
  <2>3. B!SelectOK'
    BY <1>2 DEF B!ChannelEnter, B!Skip, B!ModeOf
  <2>4. B!ReportOK' /\ B!LayerOK'
    BY <1>2 DEF B!ChannelEnter, B!Skip, B!vs_send, B!TellUp, B!ShowAndroid, B!Resume
  <2>5. streaming' \in BOOLEAN /\ check' \in Checks
    BY <1>1, <1>2, DecoderTypes DEF B!ChannelEnter, B!Skip, B!Resume
  <2>6. channel' \in B!Channels
    BY <1>1, <1>2, <2>3, ChannelTypes DEF B!ChannelEnter, B!Skip
  <2> QED
    BY <2>1, <2>2, <2>3, <2>4, <2>5, <2>6 DEF Checks
<1>3. CASE B!ChannelRefresh
  <2>1. B!QueueOK'
    BY <1>3, TakeTypes DEF B!ChannelRefresh, B!QueueOK
  <2>2. B!DemandOK' /\ B!BootOK'
    BY <1>3 DEF B!ChannelRefresh, B!Skip
  <2>3. B!SelectOK'
    BY <1>3 DEF B!ChannelRefresh, B!Skip
  <2>4. B!ReportOK' /\ B!LayerOK'
    BY <1>3 DEF B!ChannelRefresh, B!Skip, B!vs_send, B!TellUp, B!ShowAndroid, B!Resume
  <2>5. streaming' \in BOOLEAN /\ check' \in Checks
    BY <1>1, <1>3, DecoderTypes DEF B!ChannelRefresh, B!Skip, B!Resume
  <2>6. channel' \in B!Channels
    BY <1>1, <1>3, <2>3, ChannelTypes DEF B!ChannelRefresh, B!Skip
  <2> QED
    BY <2>1, <2>2, <2>3, <2>4, <2>5, <2>6 DEF Checks
<1>4. CASE B!CaptureOn
  <2>1. B!QueueOK'
    BY <1>4, TakeTypes DEF B!CaptureOn, B!QueueOK
  <2>2. B!DemandOK' /\ B!BootOK'
    BY <1>4 DEF B!CaptureOn, B!Skip
  <2>3. B!SelectOK'
    BY <1>4 DEF B!CaptureOn, B!Skip
  <2>4. B!ReportOK' /\ B!LayerOK'
    BY <1>4 DEF B!CaptureOn, B!Skip, B!vs_send, B!TellUp, B!ShowAndroid, B!Resume
  <2>5. streaming' \in BOOLEAN /\ check' \in Checks
    BY <1>1, <1>4, DecoderTypes DEF B!CaptureOn, B!Skip, B!Resume
  <2>6. channel' \in B!Channels
    BY <1>1, <1>4, <2>3, ChannelTypes DEF B!CaptureOn, B!Skip
  <2> QED
    BY <2>1, <2>2, <2>3, <2>4, <2>5, <2>6 DEF Checks
<1>5. CASE B!CaptureOff
  <2>1. B!QueueOK'
    BY <1>5, TakeTypes DEF B!CaptureOff, B!QueueOK
  <2>2. B!DemandOK' /\ B!BootOK'
    <3>1. cam_state' \in BOOLEAN /\ cam_signal' \in BOOLEAN
      BY <1>5 DEF B!CaptureOff
    <3>2. reserved_11' \in BOOLEAN /\ reserved_13' \in BOOLEAN
      BY <1>5 DEF B!CaptureOff
    <3>3. B!BootOK'
      BY <1>5 DEF B!CaptureOff
    <3> QED
      BY <3>1, <3>2, <3>3
  <2>3. B!SelectOK'
    BY <1>5 DEF B!CaptureOff, B!Skip
  <2>4. B!ReportOK' /\ B!LayerOK'
    BY <1>5 DEF B!CaptureOff, B!Skip, B!vs_send, B!TellUp, B!ShowAndroid, B!Resume
  <2>5. streaming' \in BOOLEAN /\ check' \in Checks
    BY <1>1, <1>5, DecoderTypes DEF B!CaptureOff, B!Skip, B!Resume
  <2>6. channel' \in B!Channels
    BY <1>1, <1>5, <2>3, ChannelTypes DEF B!CaptureOff, B!Skip
  <2> QED
    BY <2>1, <2>2, <2>3, <2>4, <2>5, <2>6 DEF Checks
<1>6. CASE B!ViewOn
  <2>1. B!QueueOK'
    BY <1>6, TakeTypes DEF B!ViewOn, B!QueueOK
  <2>2. B!DemandOK' /\ B!BootOK'
    BY <1>6 DEF B!ViewOn, B!Skip
  <2>3. B!SelectOK'
    <3>1. sta_view' \in {0, 1} /\ video_mode' \in B!AvModes \cup {0, 255}
      <4>1. B!Arg \in {0, 1}
        <5>1. Head(capq) \in B!Items /\ Head(capq).cmd = 52
          BY <1>6, TakeTypes DEF B!ViewOn
        <5> QED
          BY <5>1 DEF B!Items, B!Arg
      <4>2. sta_view' \in {sta_view, B!Arg} /\ video_mode' = video_mode
        BY <1>6 DEF B!ViewOn
      <4> QED
        BY <4>1, <4>2
    <3>2. reserved_8' \in BOOLEAN /\ radar_val' \in BOOLEAN
      BY <1>6 DEF B!ViewOn, B!Skip
    <3>3. reserved_9' \in BOOLEAN
      BY <1>6 DEF B!ViewOn, B!Skip
    <3> QED
      BY <3>1, <3>2, <3>3
  <2>4. B!ReportOK' /\ B!LayerOK'
    BY <1>6 DEF B!ViewOn, B!Skip, B!vs_send, B!TellUp, B!ShowAndroid, B!Resume
  <2>5. streaming' \in BOOLEAN /\ check' \in Checks
    BY <1>1, <1>6, DecoderTypes DEF B!ViewOn, B!Skip, B!Resume
  <2>6. channel' \in B!Channels
    BY <1>1, <1>6, <2>3, ChannelTypes DEF B!ViewOn, B!Skip
  <2> QED
    BY <2>1, <2>2, <2>3, <2>4, <2>5, <2>6 DEF Checks
<1>7. CASE B!ViewOff
  <2>1. B!QueueOK'
    BY <1>7, TakeTypes DEF B!ViewOff, B!QueueOK
  <2>2. B!DemandOK' /\ B!BootOK'
    BY <1>7 DEF B!ViewOff, B!Skip
  <2>3. B!SelectOK'
    BY <1>7 DEF B!ViewOff, B!Skip
  <2>4. B!ReportOK' /\ B!LayerOK'
    BY <1>7 DEF B!ViewOff, B!Skip, B!vs_send, B!TellUp, B!ShowAndroid, B!Resume
  <2>5. streaming' \in BOOLEAN /\ check' \in Checks
    BY <1>1, <1>7, DecoderTypes DEF B!ViewOff, B!Skip, B!Resume
  <2>6. channel' \in B!Channels
    BY <1>1, <1>7, <2>3, ChannelTypes DEF B!ViewOff, B!Skip
  <2> QED
    BY <2>1, <2>2, <2>3, <2>4, <2>5, <2>6 DEF Checks
<1>8. CASE B!SignalOn
  <2>1. B!QueueOK'
    BY <1>8, TakeTypes DEF B!SignalOn, B!QueueOK
  <2>2. B!DemandOK' /\ B!BootOK'
    BY <1>8 DEF B!SignalOn, B!Skip
  <2>3. B!SelectOK'
    BY <1>8 DEF B!SignalOn, B!Skip
  <2>4. B!ReportOK' /\ B!LayerOK'
    BY <1>8 DEF B!SignalOn, B!Skip, B!vs_send, B!TellUp, B!ShowAndroid, B!Resume
  <2>5. streaming' \in BOOLEAN /\ check' \in Checks
    BY <1>1, <1>8, DecoderTypes DEF B!SignalOn, B!Skip, B!Resume
  <2>6. channel' \in B!Channels
    BY <1>1, <1>8, <2>3, ChannelTypes DEF B!SignalOn, B!Skip
  <2> QED
    BY <2>1, <2>2, <2>3, <2>4, <2>5, <2>6 DEF Checks
<1>9. CASE B!SignalOff
  <2>1. B!QueueOK'
    BY <1>9, TakeTypes DEF B!SignalOff, B!QueueOK
  <2>2. B!DemandOK' /\ B!BootOK'
    <3>1. cam_state' \in BOOLEAN /\ cam_signal' \in BOOLEAN
      BY <1>9 DEF B!SignalOff
    <3>2. reserved_11' \in BOOLEAN /\ reserved_13' \in BOOLEAN
      BY <1>9 DEF B!SignalOff
    <3>3. B!BootOK'
      BY <1>9 DEF B!SignalOff
    <3> QED
      BY <3>1, <3>2, <3>3
  <2>3. B!SelectOK'
    BY <1>9 DEF B!SignalOff, B!Skip
  <2>4. B!ReportOK' /\ B!LayerOK'
    BY <1>9 DEF B!SignalOff, B!Skip, B!vs_send, B!TellUp, B!ShowAndroid, B!Resume
  <2>5. streaming' \in BOOLEAN /\ check' \in Checks
    BY <1>1, <1>9, DecoderTypes DEF B!SignalOff, B!Skip, B!Resume
  <2>6. channel' \in B!Channels
    BY <1>1, <1>9, <2>3, ChannelTypes DEF B!SignalOff, B!Skip
  <2> QED
    BY <2>1, <2>2, <2>3, <2>4, <2>5, <2>6 DEF Checks
<1>10. CASE B!BackStart
  <2>1. B!QueueOK'
    BY <1>10, TakeTypes DEF B!BackStart, B!QueueOK
  <2>2. B!DemandOK' /\ B!BootOK'
    BY <1>10 DEF B!BackStart, B!Skip
  <2>3. B!SelectOK'
    <3>1. sta_view' \in {0, 1} /\ video_mode' \in B!AvModes \cup {0, 255}
      <4>1. sta_view' = sta_view /\ video_mode' = video_mode
        BY <1>10 DEF B!BackStart, B!Skip
      <4> QED
        BY <4>1
    <3>2. reserved_8' \in BOOLEAN /\ radar_val' \in BOOLEAN
      BY <1>10 DEF B!BackStart, B!Skip
    <3>3. reserved_9' \in BOOLEAN
      BY <1>10 DEF B!BackStart, B!Skip
    <3> QED
      BY <3>1, <3>2, <3>3
  <2>4. B!ReportOK' /\ B!LayerOK'
    BY <1>10 DEF B!BackStart, B!Skip, B!vs_send, B!TellUp, B!ShowAndroid, B!Resume
  <2>5. streaming' \in BOOLEAN /\ check' \in Checks
    BY <1>1, <1>10, DecoderTypes DEF B!BackStart, B!Skip, B!Resume
  <2>6. channel' \in B!Channels
    BY <1>1, <1>10, <2>3, ChannelTypes DEF B!BackStart, B!Skip
  <2> QED
    BY <2>1, <2>2, <2>3, <2>4, <2>5, <2>6 DEF Checks
<1>11. CASE B!BackSwitch
  <2>1. B!QueueOK'
    BY <1>11, TakeTypes DEF B!BackSwitch, B!QueueOK
  <2>2. B!DemandOK' /\ B!BootOK'
    BY <1>11 DEF B!BackSwitch, B!Skip
  <2>3. B!SelectOK'
    BY <1>11 DEF B!BackSwitch, B!Skip
  <2>4. B!ReportOK' /\ B!LayerOK'
    BY <1>11 DEF B!BackSwitch, B!Skip, B!vs_send, B!TellUp, B!ShowAndroid, B!Resume
  <2>5. streaming' \in BOOLEAN /\ check' \in Checks
    BY <1>1, <1>11, DecoderTypes DEF B!BackSwitch, B!Skip, B!Resume
  <2>6. channel' \in B!Channels
    BY <1>1, <1>11, <2>3, ChannelTypes DEF B!BackSwitch, B!Skip
  <2> QED
    BY <2>1, <2>2, <2>3, <2>4, <2>5, <2>6 DEF Checks
<1>12. CASE B!BackTell
  <2>1. B!QueueOK'
    BY <1>12, TakeTypes DEF B!BackTell, B!QueueOK
  <2>2. B!DemandOK' /\ B!BootOK'
    BY <1>12 DEF B!BackTell, B!Skip
  <2>3. B!SelectOK'
    BY <1>12 DEF B!BackTell, B!Skip
  <2>4. B!ReportOK' /\ B!LayerOK'
    BY <1>12 DEF B!BackTell, B!Skip, B!vs_send, B!TellUp, B!ShowAndroid, B!Resume
  <2>5. streaming' \in BOOLEAN /\ check' \in Checks
    BY <1>1, <1>12, DecoderTypes DEF B!BackTell, B!Skip, B!Resume
  <2>6. channel' \in B!Channels
    BY <1>1, <1>12, <2>3, ChannelTypes DEF B!BackTell, B!Skip
  <2> QED
    BY <2>1, <2>2, <2>3, <2>4, <2>5, <2>6 DEF Checks
<1>13. CASE B!BackStop
  <2>1. B!QueueOK'
    BY <1>13, TakeTypes DEF B!BackStop, B!QueueOK
  <2>2. B!DemandOK' /\ B!BootOK'
    BY <1>13 DEF B!BackStop, B!Skip
  <2>3. B!SelectOK'
    <3>1. sta_view' \in {0, 1} /\ video_mode' \in B!AvModes \cup {0, 255}
      <4>1. sta_view' = sta_view /\ video_mode' = video_mode
        BY <1>13 DEF B!BackStop, B!Skip
      <4> QED
        BY <4>1
    <3>2. reserved_8' \in BOOLEAN /\ radar_val' \in BOOLEAN
      BY <1>13 DEF B!BackStop, B!Skip
    <3>3. reserved_9' \in BOOLEAN
      BY <1>13 DEF B!BackStop, B!Skip
    <3> QED
      BY <3>1, <3>2, <3>3
  <2>4. B!ReportOK' /\ B!LayerOK'
    BY <1>13 DEF B!BackStop, B!Skip, B!vs_send, B!TellUp, B!ShowAndroid, B!Resume
  <2>5. streaming' \in BOOLEAN /\ check' \in Checks
    BY <1>1, <1>13, DecoderTypes DEF B!BackStop, B!Skip, B!Resume
  <2>6. channel' \in B!Channels
    BY <1>1, <1>13, <2>3, ChannelTypes DEF B!BackStop, B!Skip
  <2> QED
    BY <2>1, <2>2, <2>3, <2>4, <2>5, <2>6 DEF Checks
<1>14. CASE B!FrontStart
  <2>1. B!QueueOK'
    BY <1>14, TakeTypes DEF B!FrontStart, B!QueueOK
  <2>2. B!DemandOK' /\ B!BootOK'
    BY <1>14 DEF B!FrontStart, B!Skip
  <2>3. B!SelectOK'
    <3>1. sta_view' \in {0, 1} /\ video_mode' \in B!AvModes \cup {0, 255}
      BY <1>14 DEF B!FrontStart, B!Skip
    <3>2. reserved_8' \in BOOLEAN /\ radar_val' \in BOOLEAN
      BY <1>14 DEF B!FrontStart, B!Skip
    <3>3. reserved_9' \in BOOLEAN
      BY <1>14 DEF B!FrontStart, B!Skip
    <3> QED
      BY <3>1, <3>2, <3>3
  <2>4. B!ReportOK' /\ B!LayerOK'
    BY <1>14 DEF B!FrontStart, B!Skip, B!vs_send, B!TellUp, B!ShowAndroid, B!Resume
  <2>5. streaming' \in BOOLEAN /\ check' \in Checks
    BY <1>1, <1>14, DecoderTypes DEF B!FrontStart, B!Skip, B!Resume
  <2>6. channel' \in B!Channels
    BY <1>1, <1>14, <2>3, ChannelTypes DEF B!FrontStart, B!Skip
  <2> QED
    BY <2>1, <2>2, <2>3, <2>4, <2>5, <2>6 DEF Checks
<1>15. CASE B!Recheck
  <2>1. B!QueueOK'
    BY <1>15, TakeTypes DEF B!Recheck, B!QueueOK
  <2>2. B!DemandOK' /\ B!BootOK'
    BY <1>15 DEF B!Recheck, B!Skip
  <2>3. B!SelectOK'
    BY <1>15 DEF B!Recheck, B!Skip
  <2>4. B!ReportOK' /\ B!LayerOK'
    BY <1>15 DEF B!Recheck, B!Skip, B!vs_send, B!TellUp, B!ShowAndroid, B!Resume
  <2>5. streaming' \in BOOLEAN /\ check' \in Checks
    BY <1>1, <1>15, DecoderTypes DEF B!Recheck, B!Skip, B!Resume, Checks
  <2>6. channel' \in B!Channels
    BY <1>1, <1>15, <2>3, ChannelTypes DEF B!Recheck, B!Skip
  <2> QED
    BY <2>1, <2>2, <2>3, <2>4, <2>5, <2>6 DEF Checks
<1>16. CASE B!RadarShow
  <2>1. B!QueueOK'
    BY <1>16, TakeTypes DEF B!RadarShow, B!QueueOK
  <2>2. B!DemandOK' /\ B!BootOK'
    BY <1>16 DEF B!RadarShow, B!Skip
  <2>3. B!SelectOK'
    BY <1>16 DEF B!RadarShow, B!Skip
  <2>4. B!ReportOK' /\ B!LayerOK'
    BY <1>16 DEF B!RadarShow, B!Skip, B!vs_send, B!TellUp, B!ShowAndroid, B!Resume
  <2>5. streaming' \in BOOLEAN /\ check' \in Checks
    BY <1>1, <1>16, DecoderTypes DEF B!RadarShow, B!Skip, B!Resume
  <2>6. channel' \in B!Channels
    BY <1>1, <1>16, <2>3, ChannelTypes DEF B!RadarShow, B!Skip
  <2> QED
    BY <2>1, <2>2, <2>3, <2>4, <2>5, <2>6 DEF Checks
<1>17. CASE B!FrontToggle
  <2>1. B!QueueOK'
    BY <1>17, TakeTypes DEF B!FrontToggle, B!QueueOK
  <2>2. B!DemandOK' /\ B!BootOK'
    BY <1>17 DEF B!FrontToggle, B!Skip
  <2>3. B!SelectOK'
    <3>1. sta_view' \in {0, 1} /\ video_mode' \in B!AvModes \cup {0, 255}
      BY <1>17 DEF B!FrontToggle, B!Skip
    <3>2. reserved_8' \in BOOLEAN /\ radar_val' \in BOOLEAN
      BY <1>17 DEF B!FrontToggle, B!Skip
    <3>3. reserved_9' \in BOOLEAN
      BY <1>17 DEF B!FrontToggle, B!Skip
    <3> QED
      BY <3>1, <3>2, <3>3
  <2>4. B!ReportOK' /\ B!LayerOK'
    BY <1>17 DEF B!FrontToggle, B!Skip, B!vs_send, B!TellUp, B!ShowAndroid, B!Resume
  <2>5. streaming' \in BOOLEAN /\ check' \in Checks
    BY <1>1, <1>17, DecoderTypes DEF B!FrontToggle, B!Skip, B!Resume
  <2>6. channel' \in B!Channels
    BY <1>1, <1>17, <2>3, ChannelTypes DEF B!FrontToggle, B!Skip
  <2> QED
    BY <2>1, <2>2, <2>3, <2>4, <2>5, <2>6 DEF Checks
<1> QED
  BY <1>2, <1>3, <1>4, <1>5, <1>6, <1>7, <1>8, <1>9, <1>10, <1>11, <1>12, <1>13, <1>14, <1>15, <1>16, <1>17
     DEF B!capture_work

-----------------------------------------------------------------------------
(* The threads of this module.                                             *)

\* What car_work, audio_work and the ioctls queue is legal.
LEMMA AddTypes ==
    ASSUME Types
    PROVE  /\ \A c \in CapCmds, a \in 0..255 :
                 capture_add_work(c, a) => capq' \in Seq(B!Items)
           /\ \A c \in {48, 49}, a \in B!AvModes :
                 capture_add_work(c, a) => capq' \in Seq(B!Items)
           /\ \A c \in 20..23 : audio_add_work(c) => audq' \in Seq(AudqItems)
           /\ \A c \in {29, 30} : car_add_work(c) => carq' \in Seq(CarqItems)
<1> USE AppendTypes DEF Types, QueueTypes
<1>1. ASSUME NEW c \in CapCmds, NEW a \in 0..255,
             capture_add_work(c, a)
      PROVE  capq' \in Seq(B!Items)
  <2>1. Item(c, a) \in B!Items
    BY CapItemTypes
  <2> QED
    BY <1>1, <2>1 DEF capture_add_work
<1>2. ASSUME NEW c \in {48, 49}, NEW a \in B!AvModes, capture_add_work(c, a)
      PROVE  capq' \in Seq(B!Items)
  <2>1. Item(c, a) \in B!Items
    BY CapItemTypes
  <2> QED
    BY <1>2, <2>1 DEF capture_add_work
<1>3. ASSUME NEW c \in 20..23, audio_add_work(c)
      PROVE  audq' \in Seq(AudqItems)
  <2>1. Item(c, 0) \in AudqItems
    <3>1. c \in {0} \cup 20..23 /\ 0 \in 0..255
      OBVIOUS
    <3> QED
      BY <3>1, CarItemTypes, Zenon
  <2> QED
    BY <1>3, <2>1 DEF audio_add_work
<1>4. ASSUME NEW c \in {29, 30}, car_add_work(c)
      PROVE  carq' \in Seq(CarqItems)
  <2>1. Item(c, 0) \in CarqItems
    <3>1. c \in {29, 30, 37, 38, 42, 43, 45, 69} \cup 31..34 /\ 0 \in 0..255
      OBVIOUS
    <3> QED
      BY <3>1, CarItemTypes, Zenon
  <2> QED
    BY <1>4, <2>1 DEF car_add_work
<1> QED
  BY <1>1, <1>2, <1>3, <1>4

\* The item that a thread takes, and what is left of its queue.
LEMMA StartTypes ==
    ASSUME Types
    PROVE  /\ \A c : Start(c) => carq' \in Seq(CarqItems)
                                 /\ Head(carq) \in CarqItems
           /\ \A c : AudioTake(c) => audq' \in Seq(AudqItems)
                                     /\ Head(audq) \in AudqItems
  BY HeadTailProperties DEF Types, QueueTypes, Start, AudioTake

\* The items of car_work that begin and end a session.
LEMMA SessionTypes ==
    ASSUME Types, SessionBegins \/ SessionEnds \/ CarActiveEnds
    PROVE  Types'
<1>1. BootTypes' /\ UNCHANGED <<camera, audq, capq, audpc, iopc, power_on,
                    rpt_power, source, ajx_active, gear>>
  BY BootTyped
     DEF SessionBegins, SessionEnds, CarActiveEnds, mcu, BootTypes, Goto,
         ActiveEnds, DeactiveEnds, queues, sessions
<1>2. carq' \in Seq(CarqItems)
  BY StartTypes DEF SessionBegins, SessionEnds, CarActiveEnds, queues, Types,
                    QueueTypes
<1>3. QueueTypes'
  BY <1>1, <1>2 DEF QueueTypes, Types
<1>4. power_refcnt' \in 0..255
  BY DEF SessionBegins, SessionEnds, CarActiveEnds, OneLess, Types, OtherTypes,
         sessions
<1>5. carpc' \in CarPlaces
  BY DEF SessionBegins, SessionEnds, CarActiveEnds, Goto, AtActive, AtDeactive,
         CarPlaces
<1>6. audio_active' \in BOOLEAN
  BY DEF SessionBegins, SessionEnds, CarActiveEnds, ActiveEnds, DeactiveEnds,
         DeactiveBegins, Types, OtherTypes
<1>7. codec' \in BOOLEAN
  BY DEF SessionBegins, SessionEnds, CarActiveEnds, ActiveEnds, DeactiveEnds,
         ActiveBegins, Types, OtherTypes
<1>8. OtherTypes'
  BY <1>1, <1>4, <1>5, <1>6, <1>7 DEF OtherTypes, Types, source
<1> QED
  BY <1>1, <1>3, <1>8, CameraKept

\* The items of car_work that hand on work to the other two threads.
LEMMA HandOnTypes ==
    ASSUME Types,
           \/ CameraItem \/ BootComplete \/ BootAndroid \/ PowerOn
           \/ PowerOnBack \/ SourceKey
    PROVE  Types'
<1> USE DEF CameraItem, BootComplete, BootAndroid, PowerOn, PowerOnBack,
            SourceKey
<1>1. UNCHANGED camera
  OBVIOUS
<1>2. BootTypes'
  BY BootTyped DEF mcu, BootTypes
<1>3. carq' \in Seq(CarqItems)
  BY StartTypes DEF Types, QueueTypes
<1>4. audq' \in Seq(AudqItems)
  <2>1. \/ UNCHANGED audq
        \/ audio_add_work(20) \/ audio_add_work(22) \/ audio_add_work(23)
    OBVIOUS
  <2> QED
    BY <2>1, AddTypes DEF Types, QueueTypes
<1>5. capq' \in Seq(B!Items)
  <2>1. CASE CameraItem
    <3>1. PICK c \in 31..34 : capture_add_work(CaptureOf[c], 0)
      BY <2>1 DEF CaptureOf
    <3>2. CaptureOf[c] \in CapCmds
      BY DEF CaptureOf, CapCmds
    <3> QED
      BY <3>1, <3>2, AddTypes
  <2>2. CASE ~CameraItem
    <3>1. \/ UNCHANGED capq
          \/ capture_add_work(58, 208) \/ capture_add_work(46, 1)
          \/ capture_add_work(47, 0) \/ capture_add_work(56, 232)
      BY <2>2 DEF CameraItem
    <3>2. {46, 47, 56, 58} \subseteq CapCmds /\ {0, 1, 208, 232} \subseteq 0..255
      BY DEF CapCmds
    <3> QED
      BY <3>1, <3>2, AddTypes DEF Types, QueueTypes
  <2> QED
    BY <2>1, <2>2
<1>6. carpc' \in CarPlaces
  BY DEF Goto, CarPlaces, Types, OtherTypes, threads
<1>7. power_refcnt' \in 0..255 /\ power_on' \in 0..255
  BY DEF sessions, Types, OtherTypes
<1>8. /\ UNCHANGED <<audpc, iopc, rpt_power, rpt_boot_android, sound, gear>>
      /\ video_src_ready' \in BOOLEAN
  BY DEF Goto, threads, source, mcu, Types, OtherTypes
<1>9. QueueTypes' /\ OtherTypes'
  BY <1>3, <1>4, <1>5, <1>6, <1>7, <1>8 DEF QueueTypes, OtherTypes, Types, sound
<1> QED
  BY <1>1, <1>2, <1>9, CameraKept

\* The items of car_work that end the power, with their waits.
LEMMA PowerTypes ==
    ASSUME Types,
           \/ PowerOff \/ AccOff \/ CarFlushed \/ AskAndroid \/ Waited \/ SoftOff
    PROVE  Types'
<1> USE DEF PowerOff, AccOff, CarFlushed, AskAndroid, Waited, SoftOff
<1>1. UNCHANGED camera
  OBVIOUS
<1>2. BootTypes'
  BY BootTyped DEF mcu, BootTypes
<1>3. carq' \in Seq(CarqItems)
  BY StartTypes DEF Types, QueueTypes, queues
<1>4. audq' \in Seq(AudqItems)
  <2>1. UNCHANGED audq \/ audio_add_work(21)
    BY DEF queues, power_soft_off
  <2> QED
    BY <2>1, AddTypes DEF Types, QueueTypes
<1>5. capq' \in Seq(B!Items)
  <2>1. \/ UNCHANGED capq
        \/ capture_add_work(55, 0) \/ capture_add_work(59, 0)
        \/ capture_add_work(46, 255) \/ capture_add_work(47, 0)
    BY DEF queues, power_soft_off
  <2>2. {46, 47, 55, 59} \subseteq CapCmds
    BY DEF CapCmds
  <2> QED
    BY <2>1, <2>2, AddTypes DEF Types, QueueTypes
<1>6. carpc' \in CarPlaces
  BY DEF Goto, CarPlaces
<1>7. power_refcnt' \in 0..255 /\ power_on' \in 0..255
  BY DEF sessions, Types, OtherTypes, power_soft_off
<1>8. /\ UNCHANGED <<audpc, iopc, source, sound, gear>>
      /\ rpt_power' \in BOOLEAN
  BY DEF Goto, mcu, Types, OtherTypes
<1>9. QueueTypes' /\ OtherTypes'
  BY <1>3, <1>4, <1>5, <1>6, <1>7, <1>8
     DEF QueueTypes, OtherTypes, Types, sound, source
<1> QED
  BY <1>1, <1>2, <1>9, CameraKept

\* audio_work: an argument it takes from its queue is a byte.
LEMMA AudioTypes ==
    ASSUME Types, audio_work
    PROVE  Types'
<1> USE DEF audio_work, AudioEnter, AudioOn, AudioOff, AudioActiveEnds, AjxOn,
            AjxOff, AjxFlushed
<1>1. UNCHANGED <<camera, sessions, rpt_power, source>>
  OBVIOUS
<1>2. BootTypes'
  BY BootTyped DEF mcu, BootTypes
<1>3. carq' \in Seq(CarqItems)
  <2>1. UNCHANGED carq \/ car_add_work(29) \/ car_add_work(30)
    BY DEF queues
  <2> QED
    BY <2>1, AddTypes DEF Types, QueueTypes
<1>4. audq' \in Seq(AudqItems)
  BY StartTypes DEF Types, QueueTypes, queues
<1>5. capq' \in Seq(B!Items)
  <2>1. CASE AudioEnter
    <3>1. Head(audq).arg \in 0..255
      BY <2>1, StartTypes DEF AudqItems
    <3> QED
      BY <2>1, <3>1, AddTypes DEF Types, QueueTypes, CapCmds
  <2>2. CASE ~AudioEnter
    BY <2>2 DEF Types, QueueTypes, queues
  <2> QED
    BY <2>1, <2>2
<1>6. audpc' \in AudioPlaces
  BY DEF AudioGoto, AtActive, AtDeactive, AudioPlaces, Types, OtherTypes,
         threads
<1>7. ajx_active' \in BOOLEAN
  BY DEF ActiveEnds, DeactiveEnds, Types, OtherTypes, sound
<1>8. audio_active' \in BOOLEAN
  BY DEF ActiveEnds, DeactiveEnds, DeactiveBegins, Types, OtherTypes, sound
<1>9. codec' \in BOOLEAN
  BY DEF ActiveEnds, DeactiveEnds, ActiveBegins, Types, OtherTypes, sound
<1>10. UNCHANGED <<carpc, iopc, gear>>
  BY DEF AudioGoto, threads, mcu
<1>11. QueueTypes' /\ OtherTypes'
  BY <1>1, <1>3, <1>4, <1>5, <1>6, <1>7, <1>8, <1>9, <1>10
     DEF QueueTypes, OtherTypes, Types, sessions, source
<1> QED
  BY <1>1, <1>2, <1>11, CameraKept

\* The ioctl handler.
LEMMA IoctlTypes ==
    ASSUME Types, IoctlReturns \/ \E r \in Ioctls : car_ioctl(r)
    PROVE  Types'
<1>1. CASE IoctlReturns
  <2>1. QueueTypes' /\ OtherTypes'
    BY <1>1 DEF IoctlReturns, IoGoto, queues, sessions, source, sound, mcu,
                Types, QueueTypes, OtherTypes
  <2>2. BootTypes' /\ UNCHANGED camera
    BY <1>1, BootTyped DEF IoctlReturns, mcu, BootTypes
  <2> QED
    BY <2>1, <2>2, CameraKept
<1>2. ASSUME NEW r \in Ioctls, car_ioctl(r) PROVE Types'
  <2>1. r.arg \in 0..255
    BY CarAssumption
  <2>2. BootTypes' /\ UNCHANGED <<camera, sessions, video_src_ready, sound, gear>>
    BY <1>2, BootTyped DEF car_ioctl, mcu, BootTypes
  <2>3. carq' \in Seq(CarqItems)
    <3>1. /\ Item(37, 0) \in CarqItems
          /\ Item(38, 0) \in CarqItems
      BY CarItemTypes
    <3>2. \/ UNCHANGED carq
          \/ carq' = Append(carq, Item(37, 0))
          \/ carq' = Append(carq, Item(38, 0))
      BY <1>2 DEF car_ioctl, Answer, ReportBoot, av_channel_enter, ctl_capture,
                  queues
    <3> QED
      BY <3>1, <3>2, AppendTypes DEF Types, QueueTypes
  <2>4. audq' \in Seq(AudqItems)
    <3>1. Item(0, r.arg) \in AudqItems
      BY <2>1, CarItemTypes
    <3>2. UNCHANGED audq \/ audq' = Append(audq, Item(0, r.arg))
      BY <1>2 DEF car_ioctl, Answer, ReportBoot, av_channel_enter, ctl_capture,
                  queues
    <3> QED
      BY <3>1, <3>2, AppendTypes DEF Types, QueueTypes
  <2>5. capq' \in Seq(B!Items)
    <3>1. \/ UNCHANGED capq
          \/ r.call = "ctl_capture_on" /\ capture_add_work(48, r.arg)
          \/ r.call = "ctl_capture_off" /\ capture_add_work(49, r.arg)
      BY <1>2 DEF car_ioctl, Answer, ReportBoot, av_channel_enter, ctl_capture,
                  queues
    <3>2. CASE r.call = "ctl_capture_on" /\ capture_add_work(48, r.arg)
      BY <3>2, AddTypes, CarAssumption
    <3>3. CASE r.call = "ctl_capture_off" /\ capture_add_work(49, r.arg)
      BY <3>3, AddTypes, CarAssumption
    <3> QED
      BY <3>1, <3>2, <3>3 DEF Types, QueueTypes
  <2>6. /\ UNCHANGED <<carpc, audpc>>
        /\ iopc' \in {"idle", "audio", "capture"}
    BY <1>2 DEF car_ioctl, Answer, ReportBoot, av_channel_enter, ctl_capture,
                threads, IoGoto, Types, OtherTypes
  <2>7. rpt_power' \in BOOLEAN /\ rpt_boot_android' \in BOOLEAN
    <3>1. rpt_power' \in BOOLEAN
      BY <1>2 DEF car_ioctl, Answer, ReportBoot, av_channel_enter, ctl_capture,
                  Types, OtherTypes
    <3>2. rpt_boot_android' \in BOOLEAN
      BY <1>2 DEF car_ioctl, Answer, ReportBoot, av_channel_enter, ctl_capture,
                  Types, OtherTypes
    <3> QED
      BY <3>1, <3>2
  <2>8. QueueTypes' /\ OtherTypes'
    BY <2>2, <2>3, <2>4, <2>5, <2>6, <2>7
       DEF QueueTypes, OtherTypes, Types, sessions, sound
  <2> QED
    BY <2>2, <2>8, CameraKept
<1> QED
  BY <1>1, <1>2

\* Applications and keys.
LEMMA AppTypes ==
    ASSUME Types, NEW r \in AppRequests, AppRequest(r)
    PROVE  Types'
<1>1. Item(r.cmd, r.arg) \in B!Items
  <2>1. r \in B!Items
    BY CarAssumption
  <2>2. r.cmd \in B!Commands /\ r.arg \in 0..255
    BY <2>1 DEF B!Items
  <2> QED
    BY <2>1, <2>2 DEF Item, B!Items
<1>2. capq' \in Seq(B!Items)
  BY <1>1, AppendTypes DEF AppRequest, capture_add_work, Types, QueueTypes
<1>3. QueueTypes' /\ OtherTypes'
  BY <1>2 DEF AppRequest, Others, QueueTypes, OtherTypes, Types, threads,
              sessions, source, sound
<1> QED
  BY <1>3, BootTyped, CameraKept DEF AppRequest, BootTypes

\* capture_work and the check of the video signal.
LEMMA CaptureTypes ==
    ASSUME Types, capture_work \/ CaptureCheck
    PROVE  Types'
<1>1. OtherTypes'
  BY DEF capture_work, CaptureCheck, Others, OtherTypes, Types, threads,
         sessions, source, sound
<1>2. UNCHANGED <<carq, audq>>
  BY DEF capture_work, CaptureCheck, Others
<1>3. B!TypeOK'
  <2>1. CASE capture_work
    BY <2>1, ItemTyped DEF capture_work, Types
  <2>2. CASE CaptureCheck
    <3> USE <2>2 DEF CaptureCheck, B!CheckTimer, B!capture_check_work, Types,
                     B!TypeOK, B!demand, B!select, B!report, B!boot
    <3>1. B!DemandOK' /\ B!SelectOK'
      BY DEF B!DemandOK, B!SelectOK
    <3>2. B!ReportOK' /\ B!BootOK' /\ B!LayerOK'
      BY DEF B!ReportOK, B!BootOK, B!LayerOK
    <3>3. B!QueueOK' /\ B!DeviceOK'
      BY DEF B!QueueOK, B!DeviceOK
    <3> QED
      BY <3>1, <3>2, <3>3
  <2> QED
    BY <2>1, <2>2
<1> QED
  BY <1>1, <1>2, <1>3 DEF Types, QueueTypes, B!TypeOK, B!QueueOK

\* car_probe.
LEMMA InitTypes ==
    ASSUME Init
    PROVE  Types
<1>1. B!QueueOK /\ mcu_cmd_state \in {0, 5, 6} /\ video_mode \in {0, 255}
  <2>1. [cmd |-> 56, arg |-> 1] \in B!Items
    BY DEF B!Items, B!Commands
  <2>2. capq \in {<<>>, <<[cmd |-> 56, arg |-> 1]>>}
    BY DEF Init, B!Init
  <2>3. B!QueueOK
    <3>1. ASSUME NEW S, NEW x \in S PROVE <<>> \in Seq(S) /\ <<x>> \in Seq(S)
      OBVIOUS
    <3> QED
      BY <2>1, <2>2, <3>1 DEF B!QueueOK
  <2>4. mcu_cmd_state \in {0, 5, 6} /\ video_mode \in {0, 255}
    BY CarAssumption DEF Init, B!Init
  <2> QED
    BY <2>3, <2>4
<1>2. B!DemandOK /\ B!SelectOK
  BY <1>1 DEF Init, B!Init, B!DemandOK, B!SelectOK
<1>3. B!DeviceOK /\ B!ReportOK /\ B!BootOK /\ B!LayerOK
  BY <1>1 DEF Init, B!Init, B!DeviceOK, B!ReportOK, B!BootOK, B!LayerOK,
              B!Channels, B!AvModes
<1>4. QueueTypes
  BY <1>1 DEF Init, B!QueueOK, QueueTypes
<1>5. OtherTypes
  <2>1. power_refcnt \in 0..255 /\ power_on \in 0..255
    BY CarAssumption DEF Init
  <2> QED
    BY <2>1 DEF Init, OtherTypes, CarPlaces, AudioPlaces
<1> QED
  BY <1>1, <1>2, <1>3, <1>4, <1>5 DEF Types, B!TypeOK

\* Every step keeps the types.
LEMMA NextTypes == Types /\ [Next]_vars => Types'
<1> SUFFICES ASSUME Types, [Next]_vars
             PROVE  Types'
  OBVIOUS
<1>1. CASE \E m \in McuCommands : process_mcu_command(m)
  BY <1>1, McuTypes
<1>2. CASE IoctlReturns \/ \E r \in Ioctls : car_ioctl(r)
  BY <1>2, IoctlTypes
<1>3. CASE \E r \in AppRequests : AppRequest(r)
  BY <1>3, AppTypes
<1>4. CASE car_work
  BY <1>4, SessionTypes, HandOnTypes, PowerTypes DEF car_work
<1>5. CASE audio_work
  BY <1>5, AudioTypes
<1>6. CASE capture_work \/ CaptureCheck
  BY <1>6, CaptureTypes
<1>7. CASE UNCHANGED vars
  <2>1. QueueTypes' /\ OtherTypes'
    BY <1>7 DEF vars, queues, threads, sessions, source, sound, mcu, Types,
                QueueTypes, OtherTypes
  <2>2. BootTypes' /\ UNCHANGED camera
    BY <1>7, BootTyped DEF vars, mcu, BootTypes
  <2> QED
    BY <2>1, <2>2, CameraKept
<1> QED
  BY <1>1, <1>2, <1>3, <1>4, <1>5, <1>6, <1>7 DEF Next

\* Every queue holds legal items only, every thread stands at a place of its
\* own, and every variable of capture_work stays in its range, whatever the MCU,
\* Android and the applications ask for.
THEOREM CarTypes == Spec => []TypeOK
<1>1. Spec => []Types
  BY InitTypes, NextTypes, PTL DEF Spec
<1>2. Types => TypeOK
  BY TypesAreTypeOK
<1> QED
  BY <1>1, <1>2, PTL

-----------------------------------------------------------------------------
(* The camera of a gear that was left.                                     *)

\* Some item of the queue is one of S; the last item that is one of E or S is
\* one of E.
Some(q, S)        == \E i \in DOMAIN q : q[i] \in S
EndsWith(q, E, S) == \E i \in DOMAIN q :
                        q[i] \in E /\ \A j \in DOMAIN q : j > i => q[j] \notin S

\* The items that lead to the camera and away from it.
CarStarts == {x \in CarqItems : x.cmd = 31 \/ (x.cmd = 42 /\ x.arg = 0)}
CarStops  == {x \in CarqItems : x.cmd = 34}
CapStarts == {x \in B!Items : x.cmd = 56}
CapStops  == {x \in B!Items : x.cmd = 59}

\* The end is the last camera item of car_wq, or nothing of car_work follows it
\* and it is the last of cap_wq or done.
CapLeft == \/ EndsWith(capq, CapStops, CapStarts)
           \/ ~Some(capq, CapStarts) /\ ~cam_state
CarLeft == ~Some(carq, CarStarts) /\ carpc # "back" /\ CapLeft
GearInv == gear = "out" => EndsWith(carq, CarStops, CarStarts) \/ CarLeft

\* An item appended.
LEMMA AppendSome ==
    ASSUME NEW X, NEW q \in Seq(X), NEW x \in X, NEW S
    PROVE  Some(Append(q, x), S) <=> Some(q, S) \/ x \in S
<1>1. /\ DOMAIN Append(q, x) = 1..(Len(q) + 1)
      /\ DOMAIN q = 1..Len(q) /\ Len(q) \in Nat
      /\ \A i \in 1..Len(q) : Append(q, x)[i] = q[i]
      /\ Append(q, x)[Len(q) + 1] = x
  BY AppendProperties, LenProperties
<1>2. ASSUME Some(Append(q, x), S) PROVE Some(q, S) \/ x \in S
  <2>1. PICK i \in 1..(Len(q) + 1) : Append(q, x)[i] \in S
    BY <1>1, <1>2 DEF Some
  <2>2. CASE i = Len(q) + 1
    BY <2>1, <2>2, <1>1
  <2>3. CASE i \in 1..Len(q)
    BY <2>1, <2>3, <1>1 DEF Some
  <2> QED
    BY <2>2, <2>3, <1>1
<1>3. ASSUME Some(q, S) PROVE Some(Append(q, x), S)
  BY <1>1, <1>3 DEF Some
<1>4. ASSUME x \in S PROVE Some(Append(q, x), S)
  BY <1>1, <1>4 DEF Some
<1> QED
  BY <1>2, <1>3, <1>4

\* An end appended is the last; one that was the last stays so unless a start
\* is appended.
LEMMA AppendLast ==
    ASSUME NEW X, NEW q \in Seq(X), NEW x \in X, NEW E, NEW S,
           x \in E \/ (EndsWith(q, E, S) /\ x \notin S)
    PROVE  EndsWith(Append(q, x), E, S)
<1>1. /\ DOMAIN Append(q, x) = 1..(Len(q) + 1)
      /\ DOMAIN q = 1..Len(q) /\ Len(q) \in Nat
      /\ \A i \in 1..Len(q) : Append(q, x)[i] = q[i]
      /\ Append(q, x)[Len(q) + 1] = x
  BY AppendProperties, LenProperties
<1>2. CASE x \in E
  <2>1. \A j \in 1..(Len(q) + 1) : ~(j > Len(q) + 1)
    BY <1>1
  <2> QED
    BY <1>1, <1>2, <2>1 DEF EndsWith
<1>3. CASE EndsWith(q, E, S) /\ x \notin S
  <2>1. PICK i \in 1..Len(q) :
           q[i] \in E /\ \A j \in 1..Len(q) : j > i => q[j] \notin S
    BY <1>1, <1>3 DEF EndsWith
  <2>2. i \in 1..(Len(q) + 1) /\ Append(q, x)[i] \in E
    BY <1>1, <2>1
  <2>3. ASSUME NEW j \in 1..(Len(q) + 1), j > i
        PROVE  Append(q, x)[j] \notin S
    <3>1. CASE j = Len(q) + 1
      BY <3>1, <1>1, <1>3
    <3>2. CASE j \in 1..Len(q)
      BY <3>2, <1>1, <2>1, <2>3
    <3> QED
      BY <3>1, <3>2, <1>1
  <2> QED
    BY <1>1, <2>2, <2>3 DEF EndsWith
<1> QED
  BY <1>2, <1>3

\* The oldest item taken.
LEMMA TailSome ==
    ASSUME NEW X, NEW q \in Seq(X), q # <<>>, NEW S, ~Some(q, S)
    PROVE  ~Some(Tail(q), S) /\ Head(q) \notin S
<1>1. /\ DOMAIN q = 1..Len(q) /\ Len(q) \in Nat /\ Len(q) # 0
      /\ DOMAIN Tail(q) = 1..(Len(q) - 1)
      /\ \A i \in 1..(Len(q) - 1) : Tail(q)[i] = q[i + 1]
      /\ Head(q) = q[1]
  BY HeadTailProperties, LenProperties, EmptySeq
<1>2. Head(q) \notin S
  BY <1>1 DEF Some
<1>3. ASSUME NEW i \in 1..(Len(q) - 1) PROVE Tail(q)[i] \notin S
  <2>1. i + 1 \in 1..Len(q)
    BY <1>1
  <2> QED
    BY <1>1, <2>1 DEF Some
<1> QED
  BY <1>1, <1>2, <1>3 DEF Some

\* If the last end is taken, no start is left behind it.
LEMMA TailLast ==
    ASSUME NEW X, NEW q \in Seq(X), q # <<>>, NEW E, NEW S, EndsWith(q, E, S)
    PROVE  EndsWith(Tail(q), E, S) \/ (Head(q) \in E /\ ~Some(Tail(q), S))
<1>1. /\ DOMAIN q = 1..Len(q) /\ Len(q) \in Nat /\ Len(q) # 0
      /\ DOMAIN Tail(q) = 1..(Len(q) - 1)
      /\ \A i \in 1..(Len(q) - 1) : Tail(q)[i] = q[i + 1]
      /\ Head(q) = q[1]
  BY HeadTailProperties, LenProperties, EmptySeq
<1>2. PICK i \in 1..Len(q) :
         q[i] \in E /\ \A j \in 1..Len(q) : j > i => q[j] \notin S
  BY <1>1 DEF EndsWith
<1>3. ASSUME NEW j \in 1..(Len(q) - 1), j > i - 1
      PROVE  Tail(q)[j] \notin S
  <2>1. j + 1 \in 1..Len(q) /\ j + 1 > i
    BY <1>1, <1>3
  <2> QED
    BY <1>1, <1>2, <2>1
<1>4. CASE i = 1
  BY <1>1, <1>2, <1>3, <1>4 DEF Some
<1>5. CASE i # 1
  <2>1. i - 1 \in 1..(Len(q) - 1) /\ Tail(q)[i - 1] = q[i]
    <3>1. i - 1 \in 1..(Len(q) - 1)
      BY <1>1, <1>5
    <3>2. Tail(q)[i - 1] = q[(i - 1) + 1] /\ (i - 1) + 1 = i
      BY <1>1, <3>1
    <3> QED
      BY <3>1, <3>2
  <2> QED
    BY <1>1, <1>2, <1>3, <2>1 DEF EndsWith
<1> QED
  BY <1>4, <1>5

\* What is appended to cap_wq, if anything, is no start.
QuietCap == \/ UNCHANGED capq
            \/ \E x \in B!Items \ CapStarts : capq' = Append(capq, x)

\* The camera stays ended behind such an item.
LEMMA CapLeftKept ==
    ASSUME Types, CapLeft, QuietCap, UNCHANGED cam_state
    PROVE  CapLeft'
<1>1. CASE UNCHANGED capq
  BY <1>1 DEF CapLeft
<1>2. ASSUME NEW x \in B!Items \ CapStarts, capq' = Append(capq, x)
      PROVE  CapLeft'
  <2>1. capq \in Seq(B!Items)
    BY DEF Types, QueueTypes
  <2>2. CASE EndsWith(capq, CapStops, CapStarts)
    <3>1. EndsWith(Append(capq, x), CapStops, CapStarts)
      BY <1>2, <2>1, <2>2, AppendLast
    <3> QED
      BY <1>2, <3>1 DEF CapLeft
  <2>3. CASE ~Some(capq, CapStarts) /\ ~cam_state
    <3>1. ~Some(Append(capq, x), CapStarts)
      BY <1>2, <2>1, <2>3, AppendSome
    <3> QED
      BY <1>2, <2>3, <3>1 DEF CapLeft
  <2> QED
    BY <2>2, <2>3 DEF CapLeft
<1> QED
  BY <1>1, <1>2 DEF QuietCap

\* A step that takes nothing from car_wq, and whose items are no starts.
LEMMA GearKept ==
    ASSUME Types, GearInv, gear' = gear, UNCHANGED cam_state, QuietCap,
           \/ UNCHANGED carq
           \/ \E x \in CarqItems \ CarStarts : carq' = Append(carq, x),
           carpc' = "back" => carpc = "back"
    PROVE  GearInv'
<1> SUFFICES ASSUME gear = "out"
             PROVE  EndsWith(carq, CarStops, CarStarts)' \/ CarLeft'
  BY DEF GearInv
<1>1. carq \in Seq(CarqItems)
  BY DEF Types, QueueTypes
<1>2. CASE EndsWith(carq, CarStops, CarStarts)
  BY <1>1, <1>2, AppendLast
<1>3. CASE CarLeft
  <2>1. ~Some(carq, CarStarts)'
    BY <1>1, <1>3, AppendSome DEF CarLeft
  <2>2. CapLeft'
    BY <1>3, CapLeftKept DEF CarLeft
  <2> QED
    BY <1>3, <2>1, <2>2 DEF CarLeft
<1> QED
  BY <1>2, <1>3 DEF GearInv

\* car_work takes an item: a start may do what it likes, a stop is handed on,
\* and any other item leaves the camera alone.
LEMMA GearTaken ==
    ASSUME Types, GearInv, UNCHANGED <<gear, cam_state>>,
           carq # <<>>, carq' = Tail(carq),
           Head(carq) \notin CarStarts => QuietCap /\ carpc' # "back",
           Head(carq) \in CarStops =>
              /\ carpc' # "back"
              /\ \E x \in CapStops : capq' = Append(capq, x)
    PROVE  GearInv'
<1> SUFFICES ASSUME gear = "out"
             PROVE  EndsWith(carq, CarStops, CarStarts)' \/ CarLeft'
  BY DEF GearInv
<1>1. carq \in Seq(CarqItems) /\ capq \in Seq(B!Items)
  BY DEF Types, QueueTypes
<1>2. CASE EndsWith(carq, CarStops, CarStarts)
  <2>1. CASE EndsWith(Tail(carq), CarStops, CarStarts)
    BY <2>1
  <2>2. CASE Head(carq) \in CarStops /\ ~Some(Tail(carq), CarStarts)
    <3>1. PICK x \in CapStops : capq' = Append(capq, x)
      BY <2>2
    <3>2. x \in B!Items
      BY DEF CapStops
    <3>3. EndsWith(Append(capq, x), CapStops, CapStarts)
      BY <1>1, <3>2, AppendLast
    <3> QED
      BY <2>2, <3>1, <3>3 DEF CarLeft, CapLeft
  <2> QED
    BY <1>1, <1>2, <2>1, <2>2, TailLast
<1>3. CASE CarLeft
  <2>1. ~Some(Tail(carq), CarStarts) /\ Head(carq) \notin CarStarts
    BY <1>1, <1>3, TailSome DEF CarLeft
  <2>2. CapLeft'
    BY <1>3, <2>1, CapLeftKept DEF CarLeft
  <2> QED
    BY <2>1, <2>2 DEF CarLeft
<1> QED
  BY <1>2, <1>3 DEF GearInv

\* What the threads append is no start, but for items 31, 42 and 56.
LEMMA QuietItems ==
    /\ \A c \in CapCmds \ {56}, a \in 0..255 :
          Item(c, a) \in B!Items \ CapStarts
    /\ \A c \in {48, 49}, a \in B!AvModes : Item(c, a) \in B!Items \ CapStarts
    /\ \A c \in {29, 30, 37, 38, 43, 45, 69, 32, 33, 34}, a \in 0..255 :
          Item(c, a) \in CarqItems \ CarStarts
<1>1. ASSUME NEW c \in CapCmds \ {56}, NEW a \in 0..255
      PROVE  Item(c, a) \in B!Items \ CapStarts
  <2>1. Item(c, a) \in B!Items /\ Item(c, a).cmd # 56
    BY <1>1, CapItemTypes DEF Item
  <2> QED
    BY <2>1 DEF CapStarts
<1>2. ASSUME NEW c \in {48, 49}, NEW a \in B!AvModes
      PROVE  Item(c, a) \in B!Items \ CapStarts
  <2>1. Item(c, a).cmd = c /\ Item(c, a) \in B!Items
    BY <1>2, CapItemTypes, Zenon DEF Item
  <2> QED
    BY <2>1 DEF CapStarts
<1>3. ASSUME NEW c \in {29, 30, 37, 38, 43, 45, 69, 32, 33, 34}, NEW a \in 0..255
      PROVE  Item(c, a) \in CarqItems \ CarStarts
  <2>1. Item(c, a).cmd = c
    BY DEF Item
  <2>2. c \in {29, 30, 37, 38, 42, 43, 45, 69} \cup 31..34
    BY <1>3
  <2>3. Item(c, a) \in CarqItems
    BY <2>2, CarItemTypes, Zenon
  <2> QED
    BY <1>3, <2>1, <2>3 DEF CarStarts
<1> QED
  BY <1>1, <1>2, <1>3

\* The MCU: reverse gear left is a stop at the end of the queue.
LEMMA McuGear ==
    ASSUME Types, GearInv, NEW m \in McuCommands, process_mcu_command(m)
    PROVE  GearInv'
<1>1. UNCHANGED <<capq, carpc, cam_state>> /\ m.arg \in 0..255
  BY CarAssumption DEF process_mcu_command, threads, camera
<1>2. CASE Leave
  <2>1. carq' = Append(carq, Item(34, 0))
    BY <1>2 DEF Leave, Queue
  <2>2. Item(34, 0) \in CarqItems /\ Item(34, 0) \in CarStops
    <3>1. Item(34, 0) \in CarqItems
      BY CarItemTypes
    <3> QED
      BY <3>1 DEF CarStops, Item
  <2>3. EndsWith(Append(carq, Item(34, 0)), CarStops, CarStarts)
    BY <2>2, AppendLast DEF Types, QueueTypes
  <2> QED
    BY <2>1, <2>3 DEF GearInv
<1>3. CASE gear' # "out"
  BY <1>3 DEF GearInv
<1>4. CASE gear' = "out" /\ ~Leave
  <2>1. \/ Queue(43, 0, mcu_cmd_state, gear)
        \/ m.arg # 0 /\ Queue(42, m.arg, mcu_cmd_state, gear)
        \/ Queue(33, 0, mcu_cmd_state, gear)
        \/ Queue(69, m.arg, mcu_cmd_state, gear)
    BY <1>4 DEF process_mcu_command, Queue, Reverse
  <2>2. gear' = gear
    BY <2>1 DEF Queue
  <2>3. \E x \in CarqItems \ CarStarts : carq' = Append(carq, x)
    <3>1. CASE m.arg # 0 /\ Queue(42, m.arg, mcu_cmd_state, gear)
      <4>1. Item(42, m.arg) \in CarqItems
        BY <1>1, CarItemTypes
      <4>2. Item(42, m.arg) \notin CarStarts
        BY <3>1 DEF CarStarts, Item
      <4> QED
        BY <3>1, <4>1, <4>2 DEF Queue
    <3>2. CASE \/ Queue(43, 0, mcu_cmd_state, gear)
               \/ Queue(33, 0, mcu_cmd_state, gear)
               \/ Queue(69, m.arg, mcu_cmd_state, gear)
      <4>1. /\ Item(43, 0) \in CarqItems \ CarStarts
            /\ Item(33, 0) \in CarqItems \ CarStarts
            /\ Item(69, m.arg) \in CarqItems \ CarStarts
        BY <1>1, QuietItems
      <4> QED
        BY <3>2, <4>1 DEF Queue
    <3> QED
      BY <2>1, <3>1, <3>2
  <2> QED
    BY <1>1, <2>2, <2>3, GearKept DEF QuietCap
<1> QED
  BY <1>2, <1>3, <1>4

\* car_work, the items that touch neither the camera nor the gear.
LEMMA OtherGear ==
    ASSUME Types, GearInv,
           \/ SessionBegins \/ SessionEnds \/ BootComplete \/ BootAndroid
           \/ PowerOff \/ AccOff \/ SourceKey
    PROVE  GearInv'
<1> USE DEF SessionBegins, SessionEnds, BootComplete, BootAndroid, PowerOff,
            AccOff, SourceKey
<1>1. UNCHANGED <<gear, cam_state>>
  BY DEF mcu, camera
<1>2. /\ carpc = "idle" /\ carq # <<>> /\ carq' = Tail(carq)
      /\ Head(carq).cmd \in {29, 30, 37, 38, 43, 45, 69}
  BY DEF Start
<1>3. carpc' # "back"
  BY <1>2 DEF Goto, AtActive, AtDeactive, threads
<1>4. QuietCap
  <2>1. \/ UNCHANGED capq \/ capture_add_work(58, 208)
        \/ capture_add_work(55, 0) \/ capture_add_work(59, 0)
    OBVIOUS
  <2>2. /\ Item(58, 208) \in B!Items \ CapStarts
        /\ Item(55, 0) \in B!Items \ CapStarts
        /\ Item(59, 0) \in B!Items \ CapStarts
    BY QuietItems DEF CapCmds
  <2> QED
    BY <2>1, <2>2 DEF QuietCap, capture_add_work
<1>5. Head(carq) \notin CarStops
  BY <1>2 DEF CarStops
<1> QED
  BY <1>1, <1>2, <1>3, <1>4, <1>5, GearTaken

\* car_work hands the camera commands on in their order.
LEMMA CameraGear ==
    ASSUME Types, GearInv, CameraItem
    PROVE  GearInv'
<1>1. PICK c \in 31..34 : Start(c) /\ capture_add_work(CaptureOf[c], 0)
  BY DEF CameraItem, CaptureOf
<1>2. /\ UNCHANGED <<gear, cam_state>> /\ carpc' # "back"
      /\ carq # <<>> /\ carq' = Tail(carq) /\ Head(carq).cmd = c
  BY <1>1 DEF CameraItem, Start, mcu, camera, threads
<1>3. c # 31 => QuietCap
  <2>1. /\ Item(57, 0) \in B!Items \ CapStarts
        /\ Item(60, 0) \in B!Items \ CapStarts
        /\ Item(59, 0) \in B!Items \ CapStarts
    BY QuietItems DEF CapCmds
  <2>2. c # 31 => CaptureOf[c] \in {57, 59, 60}
    BY DEF CaptureOf
  <2> QED
    BY <1>1, <2>1, <2>2 DEF QuietCap, capture_add_work
<1>4. Head(carq) \in CarqItems
  BY <1>1, StartTypes
<1>5. Head(carq) \notin CarStarts => c # 31
  <2>1. ASSUME c = 31 PROVE Head(carq) \in CarStarts
    <3>1. Head(carq).cmd = 31
      BY <1>2, <2>1
    <3> QED
      BY <1>4, <3>1 DEF CarStarts
  <2> QED
    BY <2>1
<1>6. Head(carq) \in CarStops => \E x \in CapStops : capq' = Append(capq, x)
  <2>1. SUFFICES ASSUME Head(carq) \in CarStops
                 PROVE  \E x \in CapStops : capq' = Append(capq, x)
    OBVIOUS
  <2>2. c = 34 /\ CaptureOf[34] = 59
    BY <1>2, <2>1 DEF CarStops, CaptureOf
  <2>3. Item(59, 0) \in CapStops
    <3>1. Item(59, 0) \in B!Items
      BY CapItemTypes DEF CapCmds
    <3> QED
      BY <3>1 DEF CapStops, Item
  <2> QED
    BY <1>1, <2>2, <2>3 DEF capture_add_work
<1> QED
  BY <1>2, <1>3, <1>5, <1>6, GearTaken

\* Power on in reverse gear is a start too, in two steps.
LEMMA PowerOnGear ==
    ASSUME Types, GearInv, PowerOn \/ PowerOnBack
    PROVE  GearInv'
<1>1. CASE PowerOn
  <2>1. /\ UNCHANGED <<gear, cam_state>>
        /\ carq # <<>> /\ carq' = Tail(carq) /\ Head(carq).cmd = 42
    BY <1>1 DEF PowerOn, Start, mcu, camera
  <2>2. Head(carq) \in CarqItems
    BY <1>1, StartTypes DEF PowerOn
  <2>3. Head(carq) \notin CarStarts => carpc' # "back"
    BY <1>1, <2>1, <2>2 DEF PowerOn, Goto, CarStarts
  <2>4. QuietCap
    <3>1. /\ Item(46, 1) \in B!Items \ CapStarts
          /\ Item(47, 0) \in B!Items \ CapStarts
      BY QuietItems DEF CapCmds
    <3> QED
      BY <1>1, <3>1 DEF PowerOn, QuietCap, capture_add_work
  <2>5. Head(carq) \notin CarStops
    BY <2>1 DEF CarStops
  <2> QED
    BY <2>1, <2>3, <2>4, <2>5, GearTaken
<1>2. CASE PowerOnBack
  BY <1>2 DEF PowerOnBack, GearInv, CarLeft, mcu
<1> QED
  BY <1>1, <1>2

\* The steps of car_work that take no item.
LEMMA WaitGear ==
    ASSUME Types, GearInv,
           CarActiveEnds \/ CarFlushed \/ AskAndroid \/ Waited \/ SoftOff
    PROVE  GearInv'
<1> USE DEF CarActiveEnds, CarFlushed, AskAndroid, Waited, SoftOff
<1>1. UNCHANGED <<carq, gear, cam_state>>
  BY DEF mcu, camera, queues
<1>2. carpc' # "back"
  BY DEF Goto
<1>3. QuietCap
  <2>1. \/ UNCHANGED capq
        \/ capture_add_work(46, 255) \/ capture_add_work(47, 0)
    BY DEF queues, power_soft_off
  <2>2. /\ Item(46, 255) \in B!Items \ CapStarts
        /\ Item(47, 0) \in B!Items \ CapStarts
    BY QuietItems DEF CapCmds
  <2> QED
    BY <2>1, <2>2 DEF QuietCap, capture_add_work
<1> QED
  BY <1>1, <1>2, <1>3, GearKept

\* audio_work.
LEMMA AudioGear ==
    ASSUME Types, GearInv, audio_work
    PROVE  GearInv'
<1> USE DEF audio_work, AudioEnter, AudioOn, AudioOff, AudioActiveEnds, AjxOn,
            AjxOff, AjxFlushed
<1>1. UNCHANGED <<carpc, gear, cam_state>>
  BY DEF mcu, camera, AudioGoto, threads
<1>2. QuietCap
  <2>1. \/ UNCHANGED capq
        \/ AudioEnter /\ capture_add_work(46, Head(audq).arg)
    BY DEF queues
  <2>2. AudioEnter => Head(audq).arg \in 0..255
    BY StartTypes DEF AudqItems
  <2>3. \A a \in 0..255 : Item(46, a) \in B!Items \ CapStarts
    BY QuietItems DEF CapCmds
  <2> QED
    BY <2>1, <2>2, <2>3 DEF QuietCap, capture_add_work
<1>3. \/ UNCHANGED carq
      \/ \E x \in CarqItems \ CarStarts : carq' = Append(carq, x)
  <2>1. UNCHANGED carq \/ car_add_work(29) \/ car_add_work(30)
    BY DEF queues
  <2>2. /\ Item(29, 0) \in CarqItems \ CarStarts
        /\ Item(30, 0) \in CarqItems \ CarStarts
    BY QuietItems
  <2> QED
    BY <2>1, <2>2 DEF car_add_work
<1> QED
  BY <1>1, <1>2, <1>3, GearKept

\* The ioctl handler and the applications.
LEMMA IoctlGear ==
    ASSUME Types, GearInv,
           \/ IoctlReturns
           \/ \E r \in Ioctls : car_ioctl(r)
           \/ \E r \in AppRequests : AppRequest(r)
    PROVE  GearInv'
<1>1. CASE IoctlReturns
  BY <1>1, GearKept DEF IoctlReturns, QuietCap, queues, mcu, camera, IoGoto
<1>2. ASSUME NEW r \in Ioctls, car_ioctl(r) PROVE GearInv'
  <2> USE <1>2 DEF car_ioctl, Answer, ReportBoot, av_channel_enter, ctl_capture
  <2>1. UNCHANGED <<carpc, gear, cam_state>>
    BY DEF threads, mcu, camera, IoGoto
  <2>2. QuietCap
    <3>1. \/ UNCHANGED capq
          \/ r.call = "ctl_capture_on" /\ capture_add_work(48, r.arg)
          \/ r.call = "ctl_capture_off" /\ capture_add_work(49, r.arg)
      BY DEF queues
    <3>2. /\ r.call = "ctl_capture_on" => r.arg \in B!AvModes
          /\ r.call = "ctl_capture_off" => r.arg \in B!AvModes
      BY CarAssumption
    <3> QED
      BY <3>1, <3>2, QuietItems DEF QuietCap, capture_add_work
  <2>3. \/ UNCHANGED carq
        \/ \E x \in CarqItems \ CarStarts : carq' = Append(carq, x)
    <3>1. /\ Item(37, 0) \in CarqItems \ CarStarts
          /\ Item(38, 0) \in CarqItems \ CarStarts
      BY QuietItems
    <3>2. \/ UNCHANGED carq
          \/ carq' = Append(carq, Item(37, 0))
          \/ carq' = Append(carq, Item(38, 0))
      BY DEF queues
    <3> QED
      BY <3>1, <3>2
  <2> QED
    BY <2>1, <2>2, <2>3, GearKept
<1>3. ASSUME NEW r \in AppRequests, AppRequest(r) PROVE GearInv'
  <2>1. r \in B!Items /\ r.cmd # 56
    BY CarAssumption
  <2>2. Item(r.cmd, r.arg) \in B!Items \ CapStarts
    BY <2>1 DEF Item, B!Items, CapStarts
  <2>3. UNCHANGED <<carq, carpc, gear, cam_state>> /\ QuietCap
    BY <1>3, <2>2
       DEF AppRequest, capture_add_work, Others, camera, threads, QuietCap
  <2> QED
    BY <2>3, GearKept
<1> QED
  BY <1>1, <1>2, <1>3

\* Of the items of capture_work only 56 puts the camera on, and 59 ends it.
LEMMA CameraSwitch ==
    ASSUME B!TypeOK, B!capture_work
    PROVE  /\ capq # <<>> /\ capq' = Tail(capq)
           /\ Head(capq) \in CapStops => ~cam_state'
           /\ Head(capq) \notin CapStarts /\ cam_state' => cam_state
<1>1. capq # <<>> /\ capq' = Tail(capq) /\ Head(capq) \in B!Items
  BY HeadTailProperties
     DEF B!capture_work, B!Take, B!TypeOK, B!QueueOK, B!ChannelEnter,
         B!ChannelRefresh, B!CaptureOn, B!CaptureOff, B!ViewOn, B!ViewOff,
         B!SignalOn, B!SignalOff, B!BackStart, B!BackSwitch, B!BackTell,
         B!BackStop, B!FrontStart, B!Recheck, B!RadarShow, B!FrontToggle
<1>2. CASE B!BackStart
  <2>1. Head(capq).cmd = 56
    BY <1>2 DEF B!BackStart, B!Take
  <2> QED
    BY <1>1, <2>1 DEF CapStarts, CapStops
<1>3. CASE B!BackStop
  BY <1>1, <1>3 DEF B!BackStop, B!demand
<1>4. CASE ~B!BackStart /\ ~B!BackStop
  <2>1. Head(capq).cmd # 59
    <3>1. \/ B!Take(46) \/ B!Take(47) \/ B!Take(48) \/ B!Take(49) \/ B!Take(52)
          \/ B!Take(53) \/ B!Take(54) \/ B!Take(55) \/ B!Take(57) \/ B!Take(58)
          \/ B!Take(60) \/ B!Take(61) \/ B!Take(64) \/ B!Take(66)
      BY <1>4
         DEF B!capture_work, B!ChannelEnter, B!ChannelRefresh, B!CaptureOn,
             B!CaptureOff, B!ViewOn, B!ViewOff, B!SignalOn, B!SignalOff,
             B!BackSwitch, B!BackTell, B!FrontStart, B!Recheck, B!RadarShow,
             B!FrontToggle
    <3> QED
      BY <3>1 DEF B!Take
  <2>2. UNCHANGED cam_state
    BY <1>4
       DEF B!capture_work, B!demand, B!ChannelEnter,
           B!ChannelRefresh, B!CaptureOn, B!CaptureOff, B!ViewOn, B!ViewOff,
           B!SignalOn, B!SignalOff, B!BackSwitch, B!BackTell,
           B!FrontStart, B!Recheck, B!RadarShow, B!FrontToggle
  <2> QED
    BY <1>1, <2>1, <2>2 DEF CapStops
<1> QED
  BY <1>1, <1>2, <1>3, <1>4

\* capture_work.
LEMMA CaptureGear ==
    ASSUME Types, GearInv, capture_work \/ CaptureCheck
    PROVE  GearInv'
<1>1. UNCHANGED <<carq, carpc, gear>> /\ capq \in Seq(B!Items)
  BY DEF capture_work, CaptureCheck, Others, threads, Types, QueueTypes
<1>2. CASE CaptureCheck
  <2>1. UNCHANGED <<capq, cam_state>>
    BY <1>2 DEF CaptureCheck, B!CheckTimer, B!capture_check_work, B!demand
  <2> QED
    BY <1>1, <2>1, GearKept DEF QuietCap
<1>3. CASE capture_work
  <2>1. /\ capq # <<>> /\ capq' = Tail(capq)
        /\ Head(capq) \in CapStops => ~cam_state'
        /\ Head(capq) \notin CapStarts /\ cam_state' => cam_state
    BY <1>3, CameraSwitch DEF capture_work, Types
  <2>2. CapLeft => CapLeft'
    <3>1. CASE EndsWith(capq, CapStops, CapStarts)
      BY <1>1, <2>1, <3>1, TailLast DEF CapLeft
    <3>2. CASE ~Some(capq, CapStarts) /\ ~cam_state
      <4>1. ~Some(Tail(capq), CapStarts) /\ Head(capq) \notin CapStarts
        BY <1>1, <2>1, <3>2, TailSome
      <4> QED
        BY <2>1, <3>2, <4>1 DEF CapLeft
    <3> QED
      BY <3>1, <3>2 DEF CapLeft
  <2> QED
    BY <1>1, <2>2 DEF GearInv, CarLeft
<1> QED
  BY <1>2, <1>3

\* Every step keeps it.
LEMMA NextGear == Types /\ GearInv /\ [Next]_vars => GearInv'
<1> SUFFICES ASSUME Types, GearInv, [Next]_vars
             PROVE  GearInv'
  OBVIOUS
<1>1. CASE \E m \in McuCommands : process_mcu_command(m)
  BY <1>1, McuGear
<1>2. CASE \/ IoctlReturns \/ \E r \in Ioctls : car_ioctl(r)
           \/ \E r \in AppRequests : AppRequest(r)
  BY <1>2, IoctlGear
<1>3. CASE car_work
  BY <1>3, OtherGear, CameraGear, PowerOnGear, WaitGear DEF car_work
<1>4. CASE audio_work
  BY <1>4, AudioGear
<1>5. CASE capture_work \/ CaptureCheck
  BY <1>5, CaptureGear
<1>6. CASE UNCHANGED vars
  <2>1. UNCHANGED <<carq, capq, carpc, gear, cam_state>>
    BY <1>6 DEF vars, queues, threads, mcu, camera
  <2> QED
    BY <2>1, GearKept DEF QuietCap
<1> QED
  BY <1>1, <1>2, <1>3, <1>4, <1>5, <1>6 DEF Next

\* car_probe: if the gear is out, no camera was asked for.
LEMMA InitGear == Init => GearInv
<1> SUFFICES ASSUME Init, gear = "out"
             PROVE  CarLeft
  BY DEF GearInv
<1>1. mcu_cmd_state = 0 /\ carq = <<>> /\ carpc = "idle"
  BY DEF Init
<1>2. capq = <<>> /\ ~cam_state
  BY <1>1 DEF Init, B!Init
<1> QED
  BY <1>1, <1>2 DEF CarLeft, CapLeft, Some

\* When nothing is pending and the MCU said last that reverse gear was left, the
\* camera is off: whatever the other threads queue, the end of the camera is
\* never overtaken on its way through the two queues.
THEOREM GearLeft == Spec => []ReverseLeft
<1>1. Init => Types /\ GearInv
  BY InitTypes, InitGear
<1>2. Types /\ GearInv /\ [Next]_vars => Types' /\ GearInv'
  BY NextTypes, NextGear
<1>3. GearInv => ReverseLeft
  BY DEF GearInv, ReverseLeft, Quiet, EndsWith, CarLeft, CapLeft
<1> QED
  BY <1>1, <1>2, <1>3, PTL DEF Spec

=============================================================================
