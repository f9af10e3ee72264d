-------------------------- MODULE CarReverse_proofs --------------------------
(***************************************************************************)
(* Proofs about CarWork: in a car with one camera input, reverse gear      *)
(* always shows the camera once the queues are empty.                      *)
(*                                                                         *)
(* The mirror image of CarGear_proofs, with two more ways to lose the      *)
(* camera: the item 45 ends it too, and process_mcu_command queues a       *)
(* switch (32) instead of a start (31) if Android shows the camera of      *)
(* another input.                                                          *)
(***************************************************************************)
EXTENDS CarGear_proofs

\* The items of car_wq that end the camera: 34, and 45 with the ignition.
CarEnds == {x \in CarqItems : x.cmd \in {34, 45}}

\* The start is the last camera item of car_wq, or no end follows it there, and
\* car_work is about to hand it on or it is the last of cap_wq or done.
CapIn == \/ EndsWith(capq, CapStarts, CapStops)
         \/ ~Some(capq, CapStops) /\ cam_state
CarIn == ~Some(carq, CarEnds) /\ (carpc = "back" \/ CapIn)
InInv == gear = "in" => EndsWith(carq, CarStarts, CarEnds) \/ CarIn

\* The input that a word of the MCU asks for.
InputsOf(m) ==
    IF m.cmd = "F204" \/ (m.cmd = "F201" /\ m.arg = 0) THEN {5}
    ELSE IF m.cmd \in {"F207", "F210"} THEN {6}
    ELSE {}

\* One camera input is wired, so that the MCU asks for no other.
OneInput(s) == /\ BootInputs \subseteq {s}
               /\ \A m \in McuCommands : InputsOf(m) \subseteq {s}

\* Before the MCU asked for it no camera is on, or on its way, or announced.
NoCamera == /\ ~Some(carq, CarStarts) /\ carpc # "back"
            /\ ~Some(capq, CapStarts) /\ ~cam_state /\ ~reserved_10
InputInv(s) == mcu_cmd_state \in {0, s} /\ (mcu_cmd_state = 0 => NoCamera)

-----------------------------------------------------------------------------
(* What the steps do to the two queues.                                    *)

\* A queue that stays the same or gets an item outside S.
LEMMA StaysOut ==
    ASSUME NEW X, NEW q \in Seq(X), NEW r, NEW S, ~Some(q, S),
           r = q \/ \E x \in X \ S : r = Append(q, x)
    PROVE  ~Some(r, S)
<1>1. ASSUME NEW x \in X \ S PROVE ~Some(Append(q, x), S)
  BY AppendSome
<1> QED
  BY <1>1

\* An end that is the last stays so behind such an item.
LEMMA StaysLast ==
    ASSUME NEW X, NEW q \in Seq(X), NEW r, NEW E, NEW S, EndsWith(q, E, S),
           r = q \/ \E x \in X \ S : r = Append(q, x)
    PROVE  EndsWith(r, E, S)
<1>1. ASSUME NEW x \in X \ S PROVE EndsWith(Append(q, x), E, S)
  BY AppendLast
<1> QED
  BY <1>1

\* What is appended, if anything, is neither a start nor an end.
PlainCap == \/ UNCHANGED capq
            \/ \E x \in B!Items \ (CapStarts \cup CapStops) :
                  capq' = Append(capq, x)
PlainCar == \/ UNCHANGED carq
            \/ \E x \in CarqItems \ (CarStarts \cup CarEnds) :
                  carq' = Append(carq, x)

\* A step that has nothing to do with the camera.
Same == UNCHANGED <<gear, mcu_cmd_state, cam_state, reserved_10>>
Kept == Same /\ PlainCap /\ PlainCar /\ (carpc' = "back" <=> carpc = "back")

\* A step of car_work that takes an item: a start is handed on in one step or
\* two, an end may be, and any other item leaves the camera alone.
Taken ==
    /\ Same /\ carpc # "back" /\ carq # <<>> /\ carq' = Tail(carq)
    /\ \/ Head(carq) \notin CarStarts \cup CarEnds
          /\ PlainCap /\ carpc' # "back"
       \/ Head(carq) \in CarEnds /\ QuietCap /\ carpc' # "back"
       \/ Head(carq) \in CarStarts /\ PlainCap /\ carpc' = "back"
       \/ Head(carq) \in CarStarts /\ \E x \in CapStarts : capq' = Append(capq, x)

\* The items that are neither.
LEMMA PlainItems ==
    /\ \A c \in CapCmds \ {56, 59}, a \in 0..255 :
          Item(c, a) \in B!Items \ (CapStarts \cup CapStops)
    /\ \A c \in {48, 49}, a \in B!AvModes :
          Item(c, a) \in B!Items \ (CapStarts \cup CapStops)
    /\ \A c \in {29, 30, 37, 38, 43, 69, 32, 33}, a \in 0..255 :
          Item(c, a) \in CarqItems \ (CarStarts \cup CarEnds)
<1>1. ASSUME NEW c \in CapCmds \ {56, 59}, NEW a \in 0..255
      PROVE  Item(c, a) \in B!Items \ (CapStarts \cup CapStops)
  <2>1. Item(c, a) \in B!Items /\ Item(c, a).cmd \notin {56, 59}
    BY <1>1, CapItemTypes DEF Item
  <2> QED
    BY <2>1 DEF CapStarts, CapStops
<1>2. ASSUME NEW c \in {48, 49}, NEW a \in B!AvModes
      PROVE  Item(c, a) \in B!Items \ (CapStarts \cup CapStops)
  <2>1. Item(c, a).cmd = c /\ Item(c, a) \in B!Items
    BY <1>2, CapItemTypes, Zenon DEF Item
  <2> QED
    BY <2>1 DEF CapStarts, CapStops
<1>3. ASSUME NEW c \in {29, 30, 37, 38, 43, 69, 32, 33}, NEW a \in 0..255
      PROVE  Item(c, a) \in CarqItems \ (CarStarts \cup CarEnds)
  <2>1. Item(c, a).cmd = c
    BY DEF Item
  <2>2. Item(c, a) \in CarqItems \ CarStarts
    <3>1. c \in {29, 30, 37, 38, 43, 45, 69, 32, 33, 34}
      BY <1>3
    <3> QED
      BY <3>1, QuietItems
  <2> QED
    BY <1>3, <2>1, <2>2 DEF CarEnds
<1> QED
  BY <1>1, <1>2, <1>3

\* A step that has nothing to do with the camera keeps both invariants.
LEMMA KeptStep ==
    ASSUME Types, NEW s, InInv, InputInv(s), Kept
    PROVE  InInv' /\ InputInv(s)'
<1>1. /\ carq \in Seq(CarqItems) /\ capq \in Seq(B!Items)
      /\ UNCHANGED <<gear, mcu_cmd_state, cam_state, reserved_10>>
  BY DEF Types, QueueTypes, Kept, Same
<1>2. /\ ~Some(carq, CarStarts) => ~Some(carq', CarStarts)
      /\ ~Some(carq, CarEnds) => ~Some(carq', CarEnds)
      /\ EndsWith(carq, CarStarts, CarEnds) => EndsWith(carq', CarStarts, CarEnds)
  <2>1. /\ carq' = carq \/ \E x \in CarqItems \ CarStarts : carq' = Append(carq, x)
        /\ carq' = carq \/ \E x \in CarqItems \ CarEnds : carq' = Append(carq, x)
    BY DEF Kept, PlainCar
  <2> QED
    BY <1>1, <2>1, StaysOut, StaysLast
<1>3. /\ ~Some(capq, CapStarts) => ~Some(capq', CapStarts)
      /\ ~Some(capq, CapStops) => ~Some(capq', CapStops)
      /\ EndsWith(capq, CapStarts, CapStops) => EndsWith(capq', CapStarts, CapStops)
  <2>1. /\ capq' = capq \/ \E x \in B!Items \ CapStarts : capq' = Append(capq, x)
        /\ capq' = capq \/ \E x \in B!Items \ CapStops : capq' = Append(capq, x)
    BY DEF Kept, PlainCap
  <2> QED
    BY <1>1, <2>1, StaysOut, StaysLast
<1>4. CapIn => CapIn'
  BY <1>1, <1>3 DEF CapIn
<1>5. InInv'
  BY <1>1, <1>2, <1>4 DEF InInv, CarIn, Kept
<1>6. InputInv(s)'
  BY <1>1, <1>2, <1>3 DEF InputInv, NoCamera, Kept
<1> QED
  BY <1>5, <1>6

\* So does car_work when it takes an item.
LEMMA TakenStep ==
    ASSUME Types, NEW s, InInv, InputInv(s), Taken
    PROVE  InInv' /\ InputInv(s)'
<1>1. /\ carq \in Seq(CarqItems) /\ capq \in Seq(B!Items)
      /\ UNCHANGED <<gear, mcu_cmd_state, cam_state, reserved_10>>
      /\ carpc # "back" /\ carq # <<>> /\ carq' = Tail(carq)
      /\ Head(carq) \in CarqItems
  BY HeadTailProperties DEF Types, QueueTypes, Taken, Same
<1>2. InInv'
  <2> SUFFICES ASSUME gear = "in"
               PROVE  EndsWith(carq, CarStarts, CarEnds)' \/ CarIn'
    BY <1>1 DEF InInv
  <2>1. CASE EndsWith(carq, CarStarts, CarEnds)
    <3>1. CASE EndsWith(Tail(carq), CarStarts, CarEnds)
      BY <1>1, <3>1
    <3>2. CASE Head(carq) \in CarStarts /\ ~Some(Tail(carq), CarEnds)
      <4>1. Head(carq) \notin CarEnds
        BY <3>2 DEF CarStarts, CarEnds
      <4>2. CASE carpc' = "back"
        BY <1>1, <3>2, <4>2 DEF CarIn
      <4>3. CASE \E x \in CapStarts : capq' = Append(capq, x)
        <5>1. PICK x \in CapStarts : capq' = Append(capq, x)
          BY <4>3
        <5>2. x \in B!Items
          BY DEF CapStarts
        <5>3. EndsWith(Append(capq, x), CapStarts, CapStops)
          BY <1>1, <5>2, AppendLast
        <5> QED
          BY <1>1, <3>2, <5>1, <5>3 DEF CarIn, CapIn
      <4> QED
        BY <3>2, <4>1, <4>2, <4>3 DEF Taken
    <3> QED
      BY <1>1, <2>1, <3>1, <3>2, TailLast
  <2>2. CASE CarIn
    <3>1. ~Some(Tail(carq), CarEnds) /\ Head(carq) \notin CarEnds
      BY <1>1, <2>2, TailSome DEF CarIn
    <3>2. CapIn
      BY <1>1, <2>2 DEF CarIn
    <3>3. \/ UNCHANGED capq
          \/ \E x \in B!Items \ CapStops : capq' = Append(capq, x)
      <4>1. CapStarts \subseteq B!Items \ CapStops
        BY DEF CapStarts, CapStops
      <4> QED
        BY <3>1, <4>1 DEF Taken, PlainCap
    <3>4. CapIn'
      <4>1. CASE EndsWith(capq, CapStarts, CapStops)
        <5>1. EndsWith(capq', CapStarts, CapStops)
          BY <1>1, <3>3, <4>1, StaysLast
        <5> QED
          BY <5>1 DEF CapIn
      <4>2. CASE ~Some(capq, CapStops) /\ cam_state
        <5>1. ~Some(capq', CapStops)
          BY <1>1, <3>3, <4>2, StaysOut
        <5> QED
          BY <1>1, <4>2, <5>1 DEF CapIn
      <4> QED
        BY <3>2, <4>1, <4>2 DEF CapIn
    <3> QED
      BY <1>1, <3>1, <3>4 DEF CarIn
  <2> QED
    BY <2>1, <2>2 DEF InInv
<1>3. InputInv(s)'
  <2> SUFFICES ASSUME mcu_cmd_state = 0, NoCamera PROVE NoCamera'
    BY <1>1 DEF InputInv
  <2>1. ~Some(Tail(carq), CarStarts) /\ Head(carq) \notin CarStarts
    BY <1>1, TailSome DEF NoCamera
  <2>2. carpc' # "back" /\ QuietCap
    BY <2>1 DEF Taken, PlainCap, QuietCap
  <2>3. ~Some(capq, CapStarts)'
    BY <1>1, <2>2, AppendSome DEF QuietCap, NoCamera
  <2> QED
    BY <1>1, <2>1, <2>2, <2>3 DEF NoCamera
<1> QED
  BY <1>2, <1>3

-----------------------------------------------------------------------------
(* The actions.                                                            *)

\* car_work, the items that have nothing to do with the camera, and 45, which
\* may end it.
LEMMA OtherTaken ==
    ASSUME Types,
           \/ SessionBegins \/ SessionEnds \/ BootComplete \/ BootAndroid
           \/ SourceKey \/ PowerOff \/ AccOff
    PROVE  Taken
<1> USE DEF SessionBegins, SessionEnds, BootComplete, BootAndroid, SourceKey,
            PowerOff, AccOff
<1>1. Same
  BY DEF mcu, camera, Same
<1>2. /\ carpc = "idle" /\ carq # <<>> /\ carq' = Tail(carq)
      /\ Head(carq) \in CarqItems
  BY StartTypes DEF Start
<1>3. carpc' # "back"
  BY <1>2 DEF Goto, AtActive, AtDeactive, threads
<1>4. CASE AccOff
  <2>1. Head(carq).cmd = 45
    BY <1>4 DEF Start
  <2>2. Head(carq) \in CarEnds
    BY <1>2, <2>1 DEF CarEnds
  <2>3. QuietCap
    <3>1. UNCHANGED capq \/ capture_add_work(59, 0) \/ capture_add_work(55, 0)
      BY <1>4
    <3>2. /\ Item(59, 0) \in B!Items \ CapStarts
          /\ Item(55, 0) \in B!Items \ CapStarts
      BY QuietItems DEF CapCmds
    <3> QED
      BY <3>1, <3>2 DEF QuietCap, capture_add_work
  <2> QED
    BY <1>1, <1>2, <1>3, <2>2, <2>3 DEF Taken
<1>5. CASE ~AccOff
  <2>1. Head(carq).cmd \in {29, 30, 37, 38, 43, 69}
    BY <1>5 DEF Start
  <2>2. Head(carq) \notin CarStarts \cup CarEnds
    BY <2>1 DEF CarStarts, CarEnds
  <2>3. PlainCap
    <3>1. UNCHANGED capq \/ capture_add_work(58, 208) \/ capture_add_work(55, 0)
      BY <1>5
    <3>2. /\ Item(58, 208) \in B!Items \ (CapStarts \cup CapStops)
          /\ Item(55, 0) \in B!Items \ (CapStarts \cup CapStops)
      BY PlainItems DEF CapCmds
    <3> QED
      BY <3>1, <3>2 DEF PlainCap, capture_add_work
  <2> QED
    BY <1>1, <1>2, <1>3, <2>2, <2>3 DEF Taken
<1> QED
  BY <1>4, <1>5

\* The camera commands of the MCU, handed on in their order.
LEMMA CameraTaken ==
    ASSUME Types, CameraItem
    PROVE  Taken
<1>1. PICK c \in 31..34 : Start(c) /\ capture_add_work(CaptureOf[c], 0)
  BY DEF CameraItem, CaptureOf
<1>2. /\ Same /\ carpc # "back" /\ carpc' # "back"
      /\ carq # <<>> /\ carq' = Tail(carq) /\ Head(carq).cmd = c
      /\ Head(carq) \in CarqItems
  BY <1>1, StartTypes DEF CameraItem, Start, mcu, camera, threads, Same
<1>3. CASE c = 31
  <2>1. Head(carq) \in CarStarts
    BY <1>2, <1>3 DEF CarStarts
  <2>2. Item(56, 0) \in CapStarts
    <3>1. Item(56, 0) \in B!Items
      BY CapItemTypes DEF CapCmds
    <3> QED
      BY <3>1 DEF CapStarts, Item
  <2>3. capq' = Append(capq, Item(56, 0))
    BY <1>1, <1>3 DEF CaptureOf, capture_add_work
  <2> QED
    BY <1>2, <2>1, <2>2, <2>3 DEF Taken
<1>4. CASE c \in {32, 33}
  <2>1. Head(carq) \notin CarStarts \cup CarEnds
    BY <1>2, <1>4 DEF CarStarts, CarEnds
  <2>2. /\ Item(57, 0) \in B!Items \ (CapStarts \cup CapStops)
        /\ Item(60, 0) \in B!Items \ (CapStarts \cup CapStops)
    BY PlainItems DEF CapCmds
  <2>3. PlainCap
    BY <1>1, <1>4, <2>2 DEF CaptureOf, capture_add_work, PlainCap
  <2> QED
    BY <1>2, <2>1, <2>3 DEF Taken
<1>5. CASE c = 34
  <2>1. Head(carq) \in CarEnds
    BY <1>2, <1>5 DEF CarEnds
  <2>2. Item(59, 0) \in B!Items \ CapStarts
    BY QuietItems DEF CapCmds
  <2>3. QuietCap
    BY <1>1, <1>5, <2>2 DEF CaptureOf, capture_add_work, QuietCap
  <2> QED
    BY <1>2, <2>1, <2>3 DEF Taken
<1> QED
  BY <1>3, <1>4, <1>5

\* Power on, with the camera to follow if the gear is in reverse.
LEMMA PowerOnTaken ==
    ASSUME Types, PowerOn
    PROVE  Taken
<1>1. /\ Same /\ carpc # "back"
      /\ carq # <<>> /\ carq' = Tail(carq) /\ Head(carq).cmd = 42
      /\ Head(carq) \in CarqItems
  BY StartTypes DEF PowerOn, Start, mcu, camera, Same
<1>2. PlainCap
  <2>1. /\ Item(46, 1) \in B!Items \ (CapStarts \cup CapStops)
        /\ Item(47, 0) \in B!Items \ (CapStarts \cup CapStops)
    BY PlainItems DEF CapCmds
  <2> QED
    BY <2>1 DEF PowerOn, PlainCap, capture_add_work
<1>3. CASE Head(carq).arg = 0
  <2>1. Head(carq) \in CarStarts /\ carpc' = "back"
    BY <1>1, <1>3 DEF CarStarts, PowerOn, Goto
  <2> QED
    BY <1>1, <1>2, <2>1 DEF Taken
<1>4. CASE Head(carq).arg # 0
  <2>1. Head(carq) \notin CarStarts \cup CarEnds /\ carpc' # "back"
    BY <1>1, <1>4 DEF CarStarts, CarEnds, PowerOn, Goto
  <2> QED
    BY <1>1, <1>2, <2>1 DEF Taken
<1> QED
  BY <1>3, <1>4

\* The camera follows.
LEMMA PowerOnBackStep ==
    ASSUME Types, NEW s, InInv, InputInv(s), PowerOnBack
    PROVE  InInv' /\ InputInv(s)'
<1>1. /\ carpc = "back" /\ UNCHANGED <<carq, gear, mcu_cmd_state>>
      /\ capq' = Append(capq, Item(56, 232)) /\ capq \in Seq(B!Items)
  BY DEF PowerOnBack, capture_add_work, mcu, Types, QueueTypes
<1>2. Item(56, 232) \in CapStarts /\ Item(56, 232) \in B!Items
  <2>1. Item(56, 232) \in B!Items
    BY CapItemTypes DEF CapCmds
  <2> QED
    BY <2>1 DEF CapStarts, Item
<1>3. CapIn'
  <2>1. EndsWith(Append(capq, Item(56, 232)), CapStarts, CapStops)
    BY <1>1, <1>2, AppendLast
  <2> QED
    BY <1>1, <2>1 DEF CapIn
<1>4. InInv'
  BY <1>1, <1>3 DEF InInv, CarIn
<1>5. InputInv(s)'
  BY <1>1 DEF InputInv, NoCamera
<1> QED
  BY <1>4, <1>5

\* The steps of car_work that take no item.
LEMMA WaitKept ==
    ASSUME Types,
           CarActiveEnds \/ CarFlushed \/ AskAndroid \/ Waited \/ SoftOff
    PROVE  Kept
<1> USE DEF CarActiveEnds, CarFlushed, AskAndroid, Waited, SoftOff
<1>1. Same /\ UNCHANGED carq
  BY DEF mcu, camera, queues, Same
<1>2. carpc # "back" /\ carpc' # "back"
  BY DEF Goto
<1>3. PlainCap
  <2>1. \/ UNCHANGED capq
        \/ capture_add_work(46, 255) \/ capture_add_work(47, 0)
    BY DEF queues, power_soft_off
  <2>2. /\ Item(46, 255) \in B!Items \ (CapStarts \cup CapStops)
        /\ Item(47, 0) \in B!Items \ (CapStarts \cup CapStops)
    BY PlainItems DEF CapCmds
  <2> QED
    BY <2>1, <2>2 DEF PlainCap, capture_add_work
<1> QED
  BY <1>1, <1>2, <1>3 DEF Kept, PlainCar

\* audio_work.
LEMMA AudioKept ==
    ASSUME Types, audio_work
    PROVE  Kept
<1> USE DEF audio_work, AudioEnter, AudioOn, AudioOff, AudioActiveEnds, AjxOn,
            AjxOff, AjxFlushed
<1>1. Same /\ UNCHANGED carpc
  BY DEF mcu, camera, AudioGoto, threads, Same
<1>2. PlainCap
  <2>1. \/ UNCHANGED capq
        \/ AudioEnter /\ capture_add_work(46, Head(audq).arg)
    BY DEF queues
  <2>2. AudioEnter => Head(audq).arg \in 0..255
    BY StartTypes DEF AudqItems
  <2>3. \A a \in 0..255 : Item(46, a) \in B!Items \ (CapStarts \cup CapStops)
    BY PlainItems DEF CapCmds
  <2> QED
    BY <2>1, <2>2, <2>3 DEF PlainCap, capture_add_work
<1>3. PlainCar
  <2>1. UNCHANGED carq \/ car_add_work(29) \/ car_add_work(30)
    BY DEF queues
  <2>2. /\ Item(29, 0) \in CarqItems \ (CarStarts \cup CarEnds)
        /\ Item(30, 0) \in CarqItems \ (CarStarts \cup CarEnds)
    BY PlainItems
  <2> QED
    BY <2>1, <2>2 DEF PlainCar, car_add_work
<1> QED
  BY <1>1, <1>2, <1>3 DEF Kept

\* The ioctl handler and the applications, which queue no item 56 or 59.
LEMMA IoctlKept ==
    ASSUME Types,
           \/ IoctlReturns
           \/ \E r \in Ioctls : car_ioctl(r)
           \/ \E r \in AppRequests : AppRequest(r)
    PROVE  Kept
<1>1. CASE IoctlReturns
  BY <1>1 DEF IoctlReturns, Kept, Same, PlainCap, PlainCar, queues, mcu, camera,
              IoGoto
<1>2. ASSUME NEW r \in Ioctls, car_ioctl(r) PROVE Kept
  <2> USE <1>2 DEF car_ioctl, Answer, ReportBoot, av_channel_enter, ctl_capture
  <2>1. Same /\ UNCHANGED carpc
    BY DEF threads, mcu, camera, IoGoto, Same
  <2>2. PlainCap
    <3>1. \/ UNCHANGED capq
          \/ r.call = "ctl_capture_on" /\ capture_add_work(48, r.arg)
          \/ r.call = "ctl_capture_off" /\ capture_add_work(49, r.arg)
      BY DEF queues
    <3>2. /\ r.call = "ctl_capture_on" => r.arg \in B!AvModes
          /\ r.call = "ctl_capture_off" => r.arg \in B!AvModes
      BY CarAssumption
    <3> QED
      BY <3>1, <3>2, PlainItems DEF PlainCap, capture_add_work
  <2>3. PlainCar
    <3>1. /\ Item(37, 0) \in CarqItems \ (CarStarts \cup CarEnds)
          /\ Item(38, 0) \in CarqItems \ (CarStarts \cup CarEnds)
      BY PlainItems
    <3>2. \/ UNCHANGED carq
          \/ carq' = Append(carq, Item(37, 0))
          \/ carq' = Append(carq, Item(38, 0))
      BY DEF queues
    <3> QED
      BY <3>1, <3>2 DEF PlainCar
  <2> QED
    BY <2>1, <2>2, <2>3 DEF Kept
<1>3. ASSUME NEW r \in AppRequests, AppRequest(r) PROVE Kept
  <2>1. r \in B!Items /\ r.cmd \notin {56, 59}
    BY CarAssumption
  <2>2. Item(r.cmd, r.arg) \in B!Items \ (CapStarts \cup CapStops)
    BY <2>1 DEF Item, B!Items, CapStarts, CapStops
  <2>3. Same /\ UNCHANGED <<carq, carpc>> /\ PlainCap
    BY <1>3, <2>2
       DEF AppRequest, capture_add_work, Others, camera, threads, PlainCap, Same
  <2> QED
    BY <2>3 DEF Kept, PlainCar
<1> QED
  BY <1>1, <1>2, <1>3

\* The MCU: reverse gear is a start at the end of the queue, because the camera
\* that Android shows, if any, is that of the one input there is.
LEMMA McuStart ==
    ASSUME Types, NEW s \in {5, 6}, InputInv(s), NEW c \in {31, 42},
           carq' = Append(carq, Item(c, 0)), mcu_cmd_state' = s
    PROVE  InInv' /\ InputInv(s)'
<1>1. Item(c, 0) \in CarqItems /\ Item(c, 0) \in CarStarts
  <2>1. Item(c, 0) \in CarqItems
    <3>1. Item(31, 0) \in CarqItems /\ Item(42, 0) \in CarqItems
      BY CarItemTypes
    <3> QED
      BY <3>1
  <2>2. Item(c, 0).cmd = c /\ Item(c, 0).arg = 0
    BY DEF Item
  <2> QED
    BY <2>1, <2>2 DEF CarStarts
<1>2. EndsWith(Append(carq, Item(c, 0)), CarStarts, CarEnds)
  BY <1>1, AppendLast DEF Types, QueueTypes
<1>3. InInv'
  BY <1>2 DEF InInv
<1>4. InputInv(s)'
  BY DEF InputInv
<1> QED
  BY <1>3, <1>4

\* The other words either say nothing about the gear or take it back.
LEMMA McuOther ==
    ASSUME Types, NEW s, InInv, InputInv(s), NEW x \in CarqItems \ CarStarts,
           carq' = Append(carq, x), UNCHANGED mcu_cmd_state,
           UNCHANGED <<capq, carpc, cam_state, reserved_10>>,
           gear' # "in" \/ (gear' = gear /\ x \notin CarEnds)
    PROVE  InInv' /\ InputInv(s)'
<1>1. carq \in Seq(CarqItems)
  BY DEF Types, QueueTypes
<1>2. InInv'
  <2>1. CASE gear' # "in"
    BY <2>1 DEF InInv
  <2>2. CASE gear' = gear /\ x \notin CarEnds
    <3>1. /\ ~Some(carq, CarEnds) => ~Some(carq', CarEnds)
          /\ EndsWith(carq, CarStarts, CarEnds)
                => EndsWith(carq', CarStarts, CarEnds)
      BY <1>1, <2>2, StaysOut, StaysLast
    <3> QED
      BY <2>2, <3>1 DEF InInv, CarIn, CapIn
  <2> QED
    BY <2>1, <2>2
<1>3. InputInv(s)'
  <2>1. ~Some(carq, CarStarts) => ~Some(carq', CarStarts)
    BY <1>1, StaysOut
  <2> QED
    BY <2>1 DEF InputInv, NoCamera
<1> QED
  BY <1>2, <1>3

\* Reverse gear with the camera on that input.
LEMMA ReverseStart ==
    ASSUME Types, NEW s \in {5, 6}, InInv, InputInv(s), Reverse(s)
    PROVE  InInv' /\ InputInv(s)'
<1>1. ~reserved_10 \/ mcu_cmd_state = s
  BY DEF InputInv, NoCamera
<1>2. carq' = Append(carq, Item(31, 0)) /\ mcu_cmd_state' = s
  BY <1>1 DEF Reverse, Queue
<1> QED
  BY <1>2, McuStart

\* All the words of the MCU.
LEMMA McuIn ==
    ASSUME Types, NEW s \in {5, 6}, OneInput(s), InInv, InputInv(s),
           NEW m \in McuCommands, process_mcu_command(m)
    PROVE  InInv' /\ InputInv(s)'
<1>1. /\ UNCHANGED <<capq, carpc, cam_state, reserved_10>>
      /\ m.arg \in 0..255 /\ InputsOf(m) \subseteq {s}
  BY CarAssumption DEF process_mcu_command, threads, camera, OneInput
<1>2. CASE m.cmd = "F204" /\ Reverse(5)
  <2>1. s = 5
    BY <1>1, <1>2 DEF InputsOf
  <2> QED
    BY <1>2, <2>1, ReverseStart
<1>3. CASE m.cmd = "F207" /\ Reverse(6)
  <2>1. s = 6
    BY <1>1, <1>3 DEF InputsOf
  <2> QED
    BY <1>3, <2>1, ReverseStart
<1>4. CASE m.cmd = "F201" /\ m.arg = 0 /\ Queue(42, 0, 5, "in")
  <2>1. s = 5
    BY <1>1, <1>4 DEF InputsOf
  <2> QED
    BY <1>4, <2>1, McuStart DEF Queue
<1>5. CASE m.cmd = "F210" /\ Queue(42, 0, 6, "in")
  <2>1. s = 6
    BY <1>1, <1>5 DEF InputsOf
  <2> QED
    BY <1>5, <2>1, McuStart DEF Queue
<1>6. CASE m.arg # 0 /\ Queue(42, m.arg, mcu_cmd_state, gear)
  <2>1. Item(42, m.arg) \in CarqItems
    BY <1>1, CarItemTypes
  <2>2. Item(42, m.arg).cmd = 42 /\ Item(42, m.arg).arg = m.arg
    BY DEF Item
  <2>3. Item(42, m.arg) \in CarqItems \ CarStarts /\ Item(42, m.arg) \notin CarEnds
    BY <1>6, <2>1, <2>2 DEF CarStarts, CarEnds
  <2> QED
    BY <1>1, <1>6, <2>3, McuOther DEF Queue
<1>7. CASE \/ Queue(43, 0, mcu_cmd_state, gear)
           \/ Queue(33, 0, mcu_cmd_state, gear)
           \/ Queue(69, m.arg, mcu_cmd_state, gear)
  <2>1. PICK x \in CarqItems \ (CarStarts \cup CarEnds) : carq' = Append(carq, x)
    <3>1. /\ Item(43, 0) \in CarqItems \ (CarStarts \cup CarEnds)
          /\ Item(33, 0) \in CarqItems \ (CarStarts \cup CarEnds)
          /\ Item(69, m.arg) \in CarqItems \ (CarStarts \cup CarEnds)
      BY <1>1, PlainItems
    <3> QED
      BY <1>7, <3>1 DEF Queue
  <2>2. UNCHANGED <<gear, mcu_cmd_state>>
    BY <1>7 DEF Queue
  <2> QED
    BY <1>1, <2>1, <2>2, McuOther
<1>8. CASE Queue(45, 0, mcu_cmd_state, "either") \/ Leave
  <2>1. PICK x \in CarqItems \ CarStarts : carq' = Append(carq, x)
    <3>1. /\ Item(45, 0) \in CarqItems \ CarStarts
          /\ Item(34, 0) \in CarqItems \ CarStarts
      BY QuietItems
    <3> QED
      BY <1>8, <3>1 DEF Queue, Leave
  <2>2. gear' # "in" /\ UNCHANGED mcu_cmd_state
    BY <1>8 DEF Queue, Leave
  <2> QED
    BY <1>1, <2>1, <2>2, McuOther
<1>9. \/ m.cmd = "F204" /\ Reverse(5)
      \/ m.cmd = "F207" /\ Reverse(6)
      \/ m.cmd = "F201" /\ m.arg = 0 /\ Queue(42, 0, 5, "in")
      \/ m.cmd = "F210" /\ Queue(42, 0, 6, "in")
      \/ m.arg # 0 /\ Queue(42, m.arg, mcu_cmd_state, gear)
      \/ Queue(43, 0, mcu_cmd_state, gear)
      \/ Queue(33, 0, mcu_cmd_state, gear)
      \/ Queue(69, m.arg, mcu_cmd_state, gear)
      \/ Queue(45, 0, mcu_cmd_state, "either") \/ Leave
  BY Zenon DEF process_mcu_command
<1> QED
  BY <1>2, <1>3, <1>4, <1>5, <1>6, <1>7, <1>8, <1>9

\* Of the items of capture_work only 59 ends the camera and only 56 begins one;
\* without a camera Android is told of none.
LEMMA CameraLasts ==
    ASSUME B!TypeOK, B!capture_work
    PROVE  /\ capq # <<>> /\ capq' = Tail(capq)
           /\ Head(capq) \in CapStarts => cam_state'
           /\ Head(capq) \notin CapStops /\ cam_state => cam_state'
           /\ (/\ Head(capq) \notin CapStarts /\ ~cam_state /\ ~reserved_10)
                 => ~cam_state' /\ ~reserved_10'
<1>1. /\ capq # <<>> /\ capq' = Tail(capq) /\ Head(capq) \in B!Items
  BY CameraSwitch, HeadTailProperties DEF B!TypeOK, B!QueueOK
<1>2. CASE B!BackStart
  <2>1. Head(capq).cmd = 56
    BY <1>2 DEF B!BackStart, B!Take
  <2>2. Head(capq) \in CapStarts
    BY <1>1, <2>1 DEF CapStarts
  <2>3. cam_state'
    BY <1>2 DEF B!BackStart, B!Skip, B!demand
  <2> QED
    BY <1>1, <2>2, <2>3
<1>3. CASE B!BackStop
  <2>1. Head(capq).cmd = 59
    BY <1>3 DEF B!BackStop, B!Take
  <2>2. Head(capq) \in CapStops /\ Head(capq) \notin CapStarts
    BY <1>1, <2>1 DEF CapStops, CapStarts
  <2>3. ~cam_state => ~cam_state' /\ reserved_10' = reserved_10
    BY <1>3 DEF B!BackStop, B!demand, B!report
  <2> QED
    BY <1>1, <2>2, <2>3
<1>4. CASE ~B!BackStart /\ ~B!BackStop
  <2>1. Head(capq).cmd # 56
    <3>1. \/ B!Take(46) \/ B!Take(47) \/ B!Take(48) \/ B!Take(49) \/ B!Take(52)
          \/ B!Take(53) \/ B!Take(54) \/ B!Take(55) \/ B!Take(57) \/ B!Take(58)
          \/ B!Take(60) \/ B!Take(61) \/ B!Take(64) \/ B!Take(66)
      BY <1>4
         DEF B!capture_work, B!ChannelEnter, B!ChannelRefresh, B!CaptureOn,
             B!CaptureOff, B!ViewOn, B!ViewOff, B!SignalOn, B!SignalOff,
             B!BackSwitch, B!BackTell, B!FrontStart, B!Recheck, B!RadarShow,
             B!FrontToggle
    <3> QED
      BY <3>1 DEF B!Take
  <2>2. UNCHANGED cam_state
    BY <1>4
       DEF B!capture_work, B!demand, B!ChannelEnter,
           B!ChannelRefresh, B!CaptureOn, B!CaptureOff, B!ViewOn, B!ViewOff,
           B!SignalOn, B!SignalOff, B!BackSwitch, B!BackTell,
           B!FrontStart, B!Recheck, B!RadarShow, B!FrontToggle
  <2>3. ~cam_state => UNCHANGED reserved_10
    BY <1>4
       DEF B!capture_work, B!report, B!ChannelEnter,
           B!ChannelRefresh, B!CaptureOn, B!CaptureOff, B!ViewOn, B!ViewOff,
           B!SignalOn, B!SignalOff, B!BackSwitch, B!BackTell,
           B!FrontStart, B!Recheck, B!RadarShow, B!FrontToggle
  <2> QED
    BY <1>1, <2>1, <2>2, <2>3 DEF CapStarts
<1> QED
  BY <1>2, <1>3, <1>4

\* capture_work.
LEMMA CaptureIn ==
    ASSUME Types, NEW s, InInv, InputInv(s), capture_work
    PROVE  InInv' /\ InputInv(s)'
<1>1. /\ UNCHANGED <<carq, carpc, gear>> /\ capq \in Seq(B!Items)
      /\ B!TypeOK /\ B!capture_work
  BY DEF capture_work, Others, threads, Types, QueueTypes
<1>2. UNCHANGED mcu_cmd_state
  BY <1>1
     DEF B!capture_work, B!boot, B!Skip, B!ChannelEnter,
         B!ChannelRefresh, B!CaptureOn, B!CaptureOff, B!ViewOn, B!ViewOff,
         B!SignalOn, B!SignalOff, B!BackStart, B!BackSwitch, B!BackTell,
         B!BackStop, B!FrontStart, B!Recheck, B!RadarShow, B!FrontToggle
<1>3. /\ capq # <<>> /\ capq' = Tail(capq)
      /\ Head(capq) \in CapStarts => cam_state'
      /\ Head(capq) \notin CapStops /\ cam_state => cam_state'
      /\ (/\ Head(capq) \notin CapStarts /\ ~cam_state /\ ~reserved_10)
            => ~cam_state' /\ ~reserved_10'
  BY <1>1, CameraLasts
<1>4. CapIn => CapIn'
  <2>1. CASE EndsWith(capq, CapStarts, CapStops)
    BY <1>1, <1>3, <2>1, TailLast DEF CapIn
  <2>2. CASE ~Some(capq, CapStops) /\ cam_state
    <3>1. ~Some(Tail(capq), CapStops) /\ Head(capq) \notin CapStops
      BY <1>1, <1>3, <2>2, TailSome
    <3> QED
      BY <1>3, <2>2, <3>1 DEF CapIn
  <2> QED
    BY <2>1, <2>2 DEF CapIn
<1>5. InInv'
  BY <1>1, <1>4 DEF InInv, CarIn
<1>6. NoCamera => NoCamera'
  <2> SUFFICES ASSUME NoCamera PROVE NoCamera'
    OBVIOUS
  <2>1. ~Some(Tail(capq), CapStarts) /\ Head(capq) \notin CapStarts
    BY <1>1, <1>3, TailSome DEF NoCamera
  <2> QED
    BY <1>1, <1>3, <2>1 DEF NoCamera
<1>7. InputInv(s)'
  BY <1>2, <1>6 DEF InputInv
<1> QED
  BY <1>5, <1>7

\* Every step keeps both.
LEMMA NextIn ==
    ASSUME Types, NEW s \in {5, 6}, OneInput(s), InInv, InputInv(s), [Next]_vars
    PROVE  InInv' /\ InputInv(s)'
<1>1. CASE \E m \in McuCommands : process_mcu_command(m)
  BY <1>1, McuIn
<1>2. CASE \/ IoctlReturns \/ \E r \in Ioctls : car_ioctl(r)
           \/ \E r \in AppRequests : AppRequest(r)
  BY <1>2, IoctlKept, KeptStep
<1>3. CASE car_work
  <2>1. CASE \/ SessionBegins \/ SessionEnds \/ BootComplete \/ BootAndroid
             \/ SourceKey \/ PowerOff \/ AccOff
    BY <2>1, OtherTaken, TakenStep
  <2>2. CASE CameraItem
    BY <2>2, CameraTaken, TakenStep
  <2>3. CASE PowerOn
    BY <2>3, PowerOnTaken, TakenStep
  <2>4. CASE PowerOnBack
    BY <2>4, PowerOnBackStep
  <2>5. CASE CarActiveEnds \/ CarFlushed \/ AskAndroid \/ Waited \/ SoftOff
    BY <2>5, WaitKept, KeptStep
  <2> QED
    BY <1>3, <2>1, <2>2, <2>3, <2>4, <2>5 DEF car_work
<1>4. CASE audio_work
  BY <1>4, AudioKept, KeptStep
<1>5. CASE capture_work
  BY <1>5, CaptureIn
<1>6. CASE CaptureCheck
  <2>1. Kept
    BY <1>6 DEF CaptureCheck, B!CheckTimer, B!capture_check_work, B!demand,
                B!report, B!boot, Others, threads, Kept, Same, PlainCap, PlainCar
  <2> QED
    BY <2>1, KeptStep
<1>7. CASE UNCHANGED vars
  <2>1. Kept
    BY <1>7 DEF vars, queues, threads, mcu, camera, Kept, Same, PlainCap, PlainCar
  <2> QED
    BY <2>1, KeptStep
<1> QED
  BY <1>1, <1>2, <1>3, <1>4, <1>5, <1>6, <1>7 DEF Next

\* car_probe: the camera that the MCU asked for at boot is queued.
LEMMA InitIn ==
    ASSUME Init, NEW s, OneInput(s)
    PROVE  InInv /\ InputInv(s)
<1>1. /\ carq = <<>> /\ carpc = "idle" /\ ~cam_state /\ ~reserved_10
      /\ mcu_cmd_state \in {0, s}
      /\ gear = "in" => mcu_cmd_state # 0
      /\ BootInputs \subseteq {5, 6}
  BY CarAssumption DEF Init, B!Init, OneInput
<1>2. /\ mcu_cmd_state = 0 => capq = <<>>
      /\ mcu_cmd_state # 0 => capq = <<Item(56, 1)>>
  BY DEF Init, B!Init, Item
<1>3. Item(56, 1) \in CapStarts
  <2>1. Item(56, 1) \in B!Items
    BY CapItemTypes DEF CapCmds
  <2> QED
    BY <2>1 DEF CapStarts, Item
<1>4. gear = "in" => CapIn
  <2>1. EndsWith(<<Item(56, 1)>>, CapStarts, CapStops)
    BY <1>3 DEF EndsWith
  <2> QED
    BY <1>1, <1>2, <2>1 DEF CapIn
<1>5. \A S : ~Some(<<>>, S)
  BY DEF Some
<1>6. InInv
  BY <1>1, <1>4, <1>5 DEF InInv, CarIn
<1>7. InputInv(s)
  BY <1>1, <1>2, <1>5 DEF InputInv, NoCamera
<1> QED
  BY <1>6, <1>7

\* In a car with one camera input, when nothing is pending and the MCU said last
\* that reverse gear is engaged, the camera is on: no item of the ignition, the
\* power or an application takes it away behind that word.
THEOREM GearShown ==
    ASSUME NEW s \in {5, 6}, OneInput(s)
    PROVE  Spec => []ReverseShown
<1>1. Init => Types /\ InInv /\ InputInv(s)
  BY InitTypes, InitIn
<1>2. (Types /\ InInv /\ InputInv(s)) /\ [Next]_vars
         => (Types /\ InInv /\ InputInv(s))'
  BY NextTypes, NextIn
<1>3. InInv => ReverseShown
  BY DEF InInv, CarIn, CapIn, ReverseShown, Quiet, EndsWith
<1> QED
  BY <1>1, <1>2, <1>3, PTL DEF Spec

=============================================================================
