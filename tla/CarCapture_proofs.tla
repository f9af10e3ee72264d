-------------------------- MODULE CarCapture_proofs --------------------------
(***************************************************************************)
(* Proofs about CarWork: what its threads do to capture_work is what       *)
(* Backview assumes of its requests, so that CarWork implements Backview   *)
(* and every promise of Backview holds in the composition.                 *)
(*                                                                         *)
(* Backview bounds cap_wq, the code does not.  The bound is met because    *)
(* what comes from outside waits for room, and because the threads hand on *)
(* work but never multiply it: an item of car_wq is worth three items, one *)
(* of audio_wq one, and the items 29 and 30 nothing.                       *)
(***************************************************************************)
EXTENDS CarGear_proofs

-----------------------------------------------------------------------------
(* How much may still reach cap_wq.                                        *)

\* The item 29 or 30 in car_wq (never two, see Awaited) queues nothing.
SessionItems(q) == IF Waits(q, {29}) \/ Waits(q, {30}) THEN 1 ELSE 0

\* What car_work queues before it is idle again.
StillToQueue(pc) ==
    IF pc = "back" THEN 1
    ELSE IF pc \in {"flush43", "flush45", "ask43", "ask45", "wait", "soft"} THEN 2
    ELSE 0

Load == Len(capq) + Len(audq) + 3 * (Len(carq) - SessionItems(carq))
        + StillToQueue(carpc)
Bounded == Load <= 5 * QMax

\* The lengths, and how the operations of the queues change them.
LEMMA Lengths ==
    ASSUME Types
    PROVE  /\ Len(capq) \in Nat /\ Len(audq) \in Nat /\ Len(carq) \in Nat
           /\ \A c, a : capture_add_work(c, a) => Len(capq') = Len(capq) + 1
           /\ \A c : audio_add_work(c) => Len(audq') = Len(audq) + 1
           /\ \A c : Start(c) => /\ Len(carq') = Len(carq) - 1
                                 /\ Len(carq) # 0 /\ carpc = "idle"
           /\ \A c : AudioTake(c) => /\ Len(audq') = Len(audq) - 1
                                     /\ Len(audq) # 0 /\ audpc = "idle"
<1>1. capq \in Seq(B!Items) /\ audq \in Seq(AudqItems) /\ carq \in Seq(CarqItems)
  BY DEF Types, QueueTypes
<1>2. \A q, x : (\E X : q \in Seq(X)) => Len(Append(q, x)) = Len(q) + 1
  OBVIOUS
<1>3. ASSUME NEW X, NEW q \in Seq(X), q # <<>>
      PROVE  Len(Tail(q)) = Len(q) - 1 /\ Len(q) # 0
  BY <1>3, HeadTailProperties, LenProperties, EmptySeq
<1>4. Len(capq) \in Nat /\ Len(audq) \in Nat /\ Len(carq) \in Nat
  BY <1>1, LenProperties
<1>5. ASSUME NEW c, NEW a, capture_add_work(c, a)
      PROVE  Len(capq') = Len(capq) + 1
  BY <1>1, <1>2, <1>5 DEF capture_add_work
<1>6. ASSUME NEW c, audio_add_work(c) PROVE Len(audq') = Len(audq) + 1
  BY <1>1, <1>2, <1>6 DEF audio_add_work
<1>7. ASSUME NEW c, Start(c)
      PROVE  Len(carq') = Len(carq) - 1 /\ Len(carq) # 0 /\ carpc = "idle"
  BY <1>1, <1>3, <1>7 DEF Start
<1>8. ASSUME NEW c, AudioTake(c)
      PROVE  Len(audq') = Len(audq) - 1 /\ Len(audq) # 0 /\ audpc = "idle"
  BY <1>1, <1>3, <1>8 DEF AudioTake
<1> QED
  BY <1>4, <1>5, <1>6, <1>7, <1>8

\* The shares of the load are numbers.
LEMMA LoadParts ==
    ASSUME Types
    PROVE  /\ SessionItems(carq) \in {0, 1}
           /\ StillToQueue(carpc) \in {0, 1, 2}
           /\ QMax \in Nat \ {0}
  BY QueueAssumption DEF SessionItems, StillToQueue

\* An item of car_work other than 29 and 30 queues less than it weighs.
LEMMA ItemLoad ==
    ASSUME CarInv, Types,
           \/ CameraItem \/ BootComplete \/ BootAndroid \/ SourceKey
           \/ PowerOn \/ PowerOff \/ AccOff
    PROVE  Load' <= Load
<1>1. SessionItems(carq') = SessionItems(carq)
  BY ItemHarmless DEF Harmless, SameWaiting, SessionItems
<1>2. Len(carq') = Len(carq) - 1 /\ carpc = "idle"
  BY Lengths DEF CameraItem, BootComplete, BootAndroid, SourceKey, PowerOn,
                 PowerOff, AccOff
<1>3. Len(capq') = Len(capq) \/ Len(capq') = Len(capq) + 1
  BY Lengths DEF CameraItem, BootComplete, BootAndroid, SourceKey, PowerOn,
                 PowerOff, AccOff
<1>4. Len(audq') = Len(audq) \/ Len(audq') = Len(audq) + 1
  BY Lengths DEF CameraItem, BootComplete, BootAndroid, SourceKey, PowerOn,
                 PowerOff, AccOff
<1>5. /\ StillToQueue(carpc) = 0
      /\ StillToQueue(carpc') \in {0, 1} \/ Len(audq') = Len(audq)
      /\ StillToQueue(carpc') \in {0, 1, 2}
  BY <1>2 DEF StillToQueue, CameraItem, BootComplete, BootAndroid, SourceKey,
              PowerOn, PowerOff, AccOff, Goto, threads
<1>6. Len(capq') + Len(audq') + StillToQueue(carpc')
         <= Len(capq) + Len(audq) + 3
  BY <1>3, <1>4, <1>5, Lengths
<1>7. /\ Len(capq') \in Int /\ Len(audq') \in Int
      /\ StillToQueue(carpc') \in Int /\ Len(capq) \in Int /\ Len(audq) \in Int
      /\ Len(carq) \in Int /\ SessionItems(carq) \in Int
  BY <1>3, <1>4, <1>5, Lengths, LoadParts
<1>8. Load = Len(capq) + Len(audq) + 3 * (Len(carq) - SessionItems(carq)) + 0
  BY <1>5 DEF Load
<1>9. Load' = Len(capq') + Len(audq')
              + 3 * ((Len(carq) - 1) - SessionItems(carq)) + StillToQueue(carpc')
  BY <1>1, <1>2 DEF Load
<1>10. ASSUME NEW a \in Int, NEW b \in Int, NEW l \in Int, NEW s \in Int,
              NEW c \in Int, NEW d \in Int, NEW p \in Int,
              c + d + p <= a + b + 3
       PROVE  c + d + 3 * ((l - 1) - s) + p <= a + b + 3 * (l - s) + 0
  BY <1>10
<1> QED
  BY <1>6, <1>7, <1>8, <1>9, <1>10, Zenon

\* A session item weighs nothing, and its start and end queue nothing.
LEMMA SessionLoad ==
    ASSUME CarInv, Types, SessionBegins \/ SessionEnds \/ CarActiveEnds
    PROVE  Load' <= Load
<1>1. UNCHANGED <<capq, audq>>
  BY DEF SessionBegins, SessionEnds, CarActiveEnds, queues
<1>2. StillToQueue(carpc') = 0 /\ StillToQueue(carpc) = 0
  BY DEF SessionBegins, SessionEnds, CarActiveEnds, Goto, AtActive, AtDeactive,
         Start, StillToQueue
<1>3. CASE CarActiveEnds
  <2>1. UNCHANGED carq
    BY <1>3 DEF CarActiveEnds, queues
  <2> QED
    BY <1>1, <1>2, <2>1, Lengths, LoadParts DEF Load
<1>4. CASE SessionBegins \/ SessionEnds
  <2>1. PICK c \in {29, 30} : Start(c)
    BY <1>4 DEF SessionBegins, SessionEnds
  <2>2. /\ carq \in Seq(CarItems) /\ OneSession(carq) /\ carq # <<>>
        /\ Head(carq).cmd = c /\ carq' = Tail(carq)
    BY <2>1 DEF CarInv, Places, Awaited, Start
  <2>3. /\ ~Waits(carq', {29}) /\ ~Waits(carq', {30})
        /\ Waits(carq, {29}) \/ Waits(carq, {30})
    BY <2>2, TailWaits
  <2>4. SessionItems(carq) = 1 /\ SessionItems(carq') = 0
    BY <2>3 DEF SessionItems
  <2>5. Len(carq') = Len(carq) - 1
    BY <2>1, Lengths
  <2> QED
    BY <1>1, <1>2, <2>4, <2>5, Lengths DEF Load
<1> QED
  BY <1>3, <1>4

\* The steps of car_work between two items.
LEMMA WaitLoad ==
    ASSUME Types,
           CarFlushed \/ Waited \/ AskAndroid \/ SoftOff \/ PowerOnBack
    PROVE  Load' <= Load
<1>1. UNCHANGED carq
  BY DEF CarFlushed, Waited, AskAndroid, SoftOff, PowerOnBack, queues
<1>2. CASE CarFlushed \/ Waited \/ AskAndroid
  <2>1. UNCHANGED <<capq, audq>>
    BY <1>2 DEF CarFlushed, Waited, AskAndroid, queues
  <2>2. StillToQueue(carpc') <= StillToQueue(carpc)
    BY <1>2 DEF CarFlushed, Waited, AskAndroid, Goto, StillToQueue
  <2>3. StillToQueue(carpc') \in {0, 1, 2}
    BY DEF StillToQueue
  <2> QED
    BY <1>1, <2>1, <2>2, <2>3, Lengths, LoadParts DEF Load
<1>3. CASE SoftOff
  <2>1. Len(capq') = Len(capq) + 1
    BY <1>3, Lengths DEF SoftOff, power_soft_off
  <2>2. Len(audq') = Len(audq) \/ Len(audq') = Len(audq) + 1
    BY <1>3, Lengths DEF SoftOff, power_soft_off
  <2>3. StillToQueue(carpc) = 2 /\ StillToQueue(carpc') = 0
    BY <1>3 DEF SoftOff, Goto, StillToQueue
  <2> QED
    BY <1>1, <2>1, <2>2, <2>3, Lengths, LoadParts DEF Load
<1>4. CASE PowerOnBack
  <2>1. Len(capq') = Len(capq) + 1 /\ UNCHANGED audq
    BY <1>4, Lengths DEF PowerOnBack
  <2>2. StillToQueue(carpc) = 1 /\ StillToQueue(carpc') = 0
    BY <1>4 DEF PowerOnBack, Goto, StillToQueue
  <2> QED
    BY <1>1, <2>1, <2>2, Lengths, LoadParts DEF Load
<1> QED
  BY <1>2, <1>3, <1>4

\* audio_work: what it queues on car_wq weighs nothing.
LEMMA AudioLoad ==
    ASSUME CarInv, Types, audio_work
    PROVE  Load' <= Load
<1>1. UNCHANGED carpc
  BY DEF audio_work, AudioEnter, AudioOn, AudioOff, AudioActiveEnds, AjxOn,
         AjxOff, AjxFlushed, AudioGoto, threads
<1>2. CASE AudioEnter
  <2>1. /\ Len(capq') = Len(capq) \/ Len(capq') = Len(capq) + 1
        /\ Len(audq') = Len(audq) - 1 /\ UNCHANGED carq
    BY <1>2, Lengths DEF AudioEnter
  <2> QED
    BY <1>1, <2>1, Lengths, LoadParts DEF Load
<1>3. CASE AudioOn \/ AudioOff
  <2>1. Len(audq') = Len(audq) - 1 /\ UNCHANGED <<capq, carq>>
    BY <1>3, Lengths DEF AudioOn, AudioOff
  <2> QED
    BY <1>1, <2>1, Lengths, LoadParts DEF Load
<1>4. CASE AudioActiveEnds \/ AjxFlushed
  <2>1. UNCHANGED <<capq, audq, carq>>
    BY <1>4 DEF AudioActiveEnds, AjxFlushed, queues
  <2> QED
    BY <1>1, <2>1, Lengths, LoadParts DEF Load
<1>5. CASE AjxOn \/ AjxOff
  <2>1. /\ Len(audq') = Len(audq) - 1 /\ audpc = "idle" /\ UNCHANGED capq
    BY <1>5, Lengths DEF AjxOn, AjxOff
  <2>2. CASE UNCHANGED carq
    BY <1>1, <2>1, <2>2, Lengths, LoadParts DEF Load
  <2>3. CASE car_add_work(29) \/ car_add_work(30)
    <3>1. PICK c \in {29, 30} : carq' = Append(carq, Item(c, 0))
      BY <2>3 DEF car_add_work
    <3>2. carq \in Seq(CarItems) /\ Item(c, 0) \in CarItems
          /\ Item(c, 0).cmd = c
      BY DEF CarInv, Places, CarItems, Item
    <3>3. Waits(carq', {29}) \/ Waits(carq', {30})
      BY <3>1, <3>2, AppendWaits
    <3>4. ~Waits(carq, {29}) /\ ~Waits(carq, {30})
      BY <2>1 DEF CarInv, Awaited
    <3>5. SessionItems(carq) = 0 /\ SessionItems(carq') = 1
      BY <3>3, <3>4 DEF SessionItems
    <3>6. Len(carq') = Len(carq) + 1
      BY <3>1, <3>2
    <3> QED
      BY <1>1, <2>1, <3>5, <3>6, Lengths, LoadParts DEF Load
  <2> QED
    BY <1>5, <2>2, <2>3 DEF AjxOn, AjxOff
<1> QED
  BY <1>2, <1>3, <1>4, <1>5 DEF audio_work

\* capture_work only takes.
LEMMA CaptureLoad ==
    ASSUME Types, capture_work \/ CaptureCheck \/ IoctlReturns
    PROVE  Load' <= Load
<1>1. UNCHANGED <<carq, audq, carpc>>
  BY DEF capture_work, CaptureCheck, Others, threads, IoctlReturns, queues,
         IoGoto
<1>2. CASE capture_work
  <2>1. capq # <<>> /\ capq' = Tail(capq)
    BY <1>2, CameraSwitch DEF capture_work, Types
  <2>2. Len(capq') = Len(capq) - 1
    BY <2>1, HeadTailProperties, LenProperties, EmptySeq DEF Types, QueueTypes
  <2> QED
    BY <1>1, <2>2, Lengths, LoadParts DEF Load
<1>3. CASE CaptureCheck \/ IoctlReturns
  <2>1. UNCHANGED capq
    BY <1>3 DEF CaptureCheck, B!CheckTimer, B!capture_check_work, IoctlReturns,
                queues
  <2> QED
    BY <1>1, <2>1, Lengths, LoadParts DEF Load
<1> QED
  BY <1>2, <1>3

\* What comes from outside is one item, and waits for room in all three queues.
LEMMA OutsideLoad ==
    ASSUME CarInv, Types, Bounded,
           \/ \E m \in McuCommands : process_mcu_command(m)
           \/ \E r \in Ioctls : car_ioctl(r)
           \/ \E r \in AppRequests : AppRequest(r)
    PROVE  Bounded'
<1>1. UNCHANGED carpc
  BY DEF process_mcu_command, car_ioctl, Answer, ReportBoot, av_channel_enter,
         ctl_capture, AppRequest, Others, threads, IoGoto
<1>2. SessionItems(carq') = SessionItems(carq)
  BY McuHarmless, IoctlHarmless, CaptureHarmless
     DEF Harmless, SameWaiting, SessionItems
<1>3. CASE UNCHANGED queues
  BY <1>1, <1>3 DEF queues, Bounded, Load
<1>4. CASE Room /\ ~UNCHANGED queues
  <2>1. /\ Len(carq) <= QMax - 1 /\ Len(audq) <= QMax - 1
        /\ Len(capq) <= QMax - 1
    BY <1>4, Lengths, LoadParts DEF Room
  <2>2. \/ /\ \E x : carq' = Append(carq, x)
           /\ UNCHANGED <<audq, capq>>
        \/ /\ \E x : audq' = Append(audq, x)
           /\ UNCHANGED <<carq, capq>>
        \/ /\ \E x : capq' = Append(capq, x)
           /\ UNCHANGED <<carq, audq>>
    <3>1. ASSUME NEW m \in McuCommands, process_mcu_command(m)
          PROVE  (\E x : carq' = Append(carq, x)) /\ UNCHANGED <<audq, capq>>
      <4>1. UNCHANGED <<audq, capq>>
        BY <3>1 DEF process_mcu_command
      <4>2. \E c, a : carq' = Append(carq, Item(c, a))
        BY <3>1 DEF process_mcu_command, Queue, Reverse, Leave
      <4> QED
        BY <4>1, <4>2
    <3>2. ASSUME NEW r \in Ioctls, car_ioctl(r)
          PROVE  \/ /\ \E x : carq' = Append(carq, x)
                    /\ UNCHANGED <<audq, capq>>
                 \/ /\ \E x : audq' = Append(audq, x)
                    /\ UNCHANGED <<carq, capq>>
                 \/ /\ \E x : capq' = Append(capq, x)
                    /\ UNCHANGED <<carq, audq>>
      <4>1. ~Answer
        BY <1>4 DEF Answer
      <4> QED
        BY <3>2, <4>1 DEF car_ioctl, ReportBoot, av_channel_enter, ctl_capture,
                          capture_add_work
    <3>3. ASSUME NEW r \in AppRequests, AppRequest(r)
          PROVE  (\E x : capq' = Append(capq, x)) /\ UNCHANGED <<carq, audq>>
      BY <3>3 DEF AppRequest, capture_add_work, Others
    <3> QED
      BY <3>1, <3>2, <3>3
  <2>3. \/ /\ Len(carq') = Len(carq) + 1
           /\ Len(audq') = Len(audq) /\ Len(capq') = Len(capq)
        \/ /\ Len(audq') = Len(audq) + 1
           /\ Len(carq') = Len(carq) /\ Len(capq') = Len(capq)
        \/ /\ Len(capq') = Len(capq) + 1
           /\ Len(carq') = Len(carq) /\ Len(audq') = Len(audq)
    BY <2>2 DEF Types, QueueTypes
  <2>4. Len(capq') + Len(audq') + 3 * Len(carq') <= 5 * QMax - 2
    BY <2>1, <2>3, Lengths, LoadParts
  <2>5. /\ Len(capq') \in Int /\ Len(audq') \in Int /\ Len(carq') \in Int
        /\ SessionItems(carq') \in {0, 1} /\ StillToQueue(carpc') \in {0, 1, 2}
    BY <1>1, <1>2, <2>3, Lengths, LoadParts
  <2> QED
    BY <2>4, <2>5, LoadParts DEF Bounded, Load
<1> QED
  BY <1>3, <1>4 DEF process_mcu_command, car_ioctl, Answer, AppRequest

\* At boot there is the camera or nothing.
LEMMA InitLoad == Init => Bounded
<1> SUFFICES ASSUME Init PROVE Bounded
  OBVIOUS
<1>1. capq = <<>> \/ capq = <<[cmd |-> 56, arg |-> 1]>>
  BY DEF Init, B!Init
<1>2. Len(capq) \in {0, 1}
  BY <1>1
<1>3. carq = <<>> /\ audq = <<>> /\ carpc = "idle"
  BY DEF Init
<1>4. Len(audq) = 0 /\ Len(carq) = 0
  BY <1>3
<1>5. SessionItems(carq) = 0
  BY <1>3 DEF SessionItems, Waits
<1>6. StillToQueue(carpc) = 0
  BY <1>3 DEF StillToQueue
<1> QED
  BY <1>2, <1>4, <1>5, <1>6, QueueAssumption DEF Load, Bounded

\* Every step keeps the bound, with the two invariants it rests on.
CaptureInv == CarInv /\ Types /\ Bounded

LEMMA NextLoad == CaptureInv /\ [Next]_vars => CaptureInv'
<1> SUFFICES ASSUME CarInv, Types, Bounded, [Next]_vars
             PROVE  CarInv' /\ Types' /\ Bounded'
  BY DEF CaptureInv
<1>1. CarInv' /\ Types'
  BY CarNextStep, NextTypes
<1>2. CASE \/ \E m \in McuCommands : process_mcu_command(m)
           \/ \E r \in Ioctls : car_ioctl(r)
           \/ \E r \in AppRequests : AppRequest(r)
  BY <1>1, <1>2, OutsideLoad
<1>3. CASE car_work \/ audio_work \/ capture_work \/ CaptureCheck \/ IoctlReturns
  <2>1. Load' <= Load
    BY <1>3, ItemLoad, SessionLoad, WaitLoad, AudioLoad, CaptureLoad DEF car_work
  <2>2. /\ Load \in Int /\ Load' \in Int /\ 5 * QMax \in Int
    <3>1. /\ Len(capq') \in Nat /\ Len(audq') \in Nat /\ Len(carq') \in Nat
          /\ SessionItems(carq') \in {0, 1} /\ StillToQueue(carpc') \in {0, 1, 2}
      BY <1>1, LenProperties DEF Types, QueueTypes, SessionItems, StillToQueue
    <3>2. Load' \in Int
      BY <3>1 DEF Load
    <3>3. Load \in Int
      BY Lengths, LoadParts DEF Load
    <3> QED
      BY <3>2, <3>3, LoadParts
  <2> QED
    BY <1>1, <2>1, <2>2 DEF Bounded
<1>4. CASE UNCHANGED vars
  BY <1>1, <1>4 DEF vars, queues, threads, Bounded, Load
<1> QED
  BY <1>2, <1>3, <1>4 DEF Next

\* car_probe establishes it.
LEMMA InitCapture == Init => CaptureInv
  BY CarInitHolds, InitTypes, InitLoad DEF CaptureInv

\* The bound on cap_wq.
CapqFits == Len(capq) <= 5 * QMax

\* No item weighs less than nothing, so that cap_wq holds no more than the load.
LEMMA CapqShort == CaptureInv => CapqFits
<1> SUFFICES ASSUME CarInv, Types, Bounded PROVE Len(capq) <= 5 * QMax
  BY DEF CaptureInv, CapqFits
<1>1. Len(carq) - SessionItems(carq) >= 0
  <2>1. SessionItems(carq) = 1 => Len(carq) # 0
    BY LenProperties DEF SessionItems, Waits, Types, QueueTypes
  <2> QED
    BY <2>1, Lengths, LoadParts
<1> QED
  BY <1>1, Lengths, LoadParts DEF Bounded, Load

\* cap_wq is unbounded in the code and its items are handed on from two other
\* queues, yet it never holds more than five for each place of a queue that is
\* open to the outside.
THEOREM CapqBounded == Spec => []CapqFits
BY InitCapture, NextLoad, CapqShort, PTL DEF Spec

-----------------------------------------------------------------------------
(* The refinement.                                                         *)

\* The channels in audio_wq are those that Android asked for.
Entered ==
    \A i \in DOMAIN audq :
       audq[i].cmd = 0 => audq[i].arg \in ArgsOf({"av_channel_enter"})

\* The first of a queue, and the rest of it.
LEMMA EnteredTail ==
    ASSUME Types, Entered, audq # <<>>
    PROVE  /\ Head(audq).cmd = 0
                => Head(audq).arg \in ArgsOf({"av_channel_enter"})
           /\ audq' = Tail(audq) => Entered'
<1>1. /\ DOMAIN audq = 1..Len(audq) /\ Len(audq) \in Nat /\ Len(audq) # 0
      /\ DOMAIN Tail(audq) = 1..(Len(audq) - 1)
      /\ \A i \in 1..(Len(audq) - 1) : Tail(audq)[i] = audq[i + 1]
      /\ Head(audq) = audq[1]
  BY HeadTailProperties, LenProperties, EmptySeq DEF Types, QueueTypes
<1>2. ASSUME audq' = Tail(audq), NEW i \in 1..(Len(audq) - 1)
      PROVE  Tail(audq)[i].cmd = 0
                => Tail(audq)[i].arg \in ArgsOf({"av_channel_enter"})
  <2>1. i + 1 \in 1..Len(audq)
    BY <1>1
  <2> QED
    BY <1>1, <2>1 DEF Entered
<1> QED
  BY <1>1, <1>2 DEF Entered

\* An item queued by one of the threads, or by the ioctl.
LEMMA EnteredAppend ==
    ASSUME Types, Entered, NEW x, audq' = Append(audq, x),
           x.cmd = 0 => x.arg \in ArgsOf({"av_channel_enter"})
    PROVE  Entered'
<1>1. /\ DOMAIN Append(audq, x) = 1..(Len(audq) + 1)
      /\ DOMAIN audq = 1..Len(audq) /\ Len(audq) \in Nat
      /\ \A i \in 1..Len(audq) : Append(audq, x)[i] = audq[i]
      /\ Append(audq, x)[Len(audq) + 1] = x
  BY LenProperties DEF Types, QueueTypes
<1>2. ASSUME NEW i \in 1..(Len(audq) + 1)
      PROVE  Append(audq, x)[i].cmd = 0
                => Append(audq, x)[i].arg \in ArgsOf({"av_channel_enter"})
  <2>1. CASE i = Len(audq) + 1
    BY <1>1, <2>1
  <2>2. CASE i \in 1..Len(audq)
    BY <1>1, <2>2 DEF Entered
  <2> QED
    BY <1>1, <2>1, <2>2
<1> QED
  BY <1>1, <1>2 DEF Entered

\* Nothing else is ever queued under the number 0.
LEMMA NextEntered == Types /\ Entered /\ [Next]_vars => Entered'
<1> SUFFICES ASSUME Types, Entered, [Next]_vars PROVE Entered'
  OBVIOUS
<1>1. CASE UNCHANGED audq
  BY <1>1 DEF Entered
<1>2. ASSUME NEW c \in 20..23, audio_add_work(c) PROVE Entered'
  <2>1. Item(c, 0).cmd # 0
    BY DEF Item
  <2> QED
    BY <1>2, <2>1, EnteredAppend DEF audio_add_work
<1>3. ASSUME NEW r \in Ioctls, car_ioctl(r) PROVE Entered'
  <2>1. CASE r.call = "av_channel_enter" /\ av_channel_enter(r.arg)
    <3>1. r.arg \in ArgsOf({"av_channel_enter"})
      BY <2>1 DEF ArgsOf
    <3>2. audq' = Append(audq, Item(0, r.arg)) /\ Item(0, r.arg).arg = r.arg
      BY <2>1 DEF av_channel_enter, Item
    <3> QED
      BY <3>1, <3>2, EnteredAppend
  <2>2. CASE UNCHANGED audq
    BY <2>2 DEF Entered
  <2> QED
    BY <1>3, <2>1, <2>2
       DEF car_ioctl, Answer, ReportBoot, ctl_capture, queues
<1>4. CASE audio_work
  <2>1. UNCHANGED audq \/ (audq # <<>> /\ audq' = Tail(audq))
    BY <1>4 DEF audio_work, AudioEnter, AudioOn, AudioOff, AudioActiveEnds,
                AjxOn, AjxOff, AjxFlushed, AudioTake, queues
  <2> QED
    BY <2>1, <1>1, EnteredTail
<1>5. CASE car_work
  <2>1. \/ UNCHANGED audq
        \/ \E c \in 20..23 : audio_add_work(c)
    BY <1>5
       DEF car_work, SessionBegins, SessionEnds, CarActiveEnds, CameraItem,
           BootComplete, BootAndroid, PowerOn, PowerOnBack, PowerOff, AccOff,
           CarFlushed, AskAndroid, Waited, SoftOff, SourceKey, power_soft_off,
           queues
  <2> QED
    BY <2>1, <1>1, <1>2
<1>6. CASE \/ \E m \in McuCommands : process_mcu_command(m)
           \/ IoctlReturns
           \/ \E r \in AppRequests : AppRequest(r)
           \/ capture_work \/ CaptureCheck \/ UNCHANGED vars
  <2>1. UNCHANGED audq
    BY <1>6 DEF process_mcu_command, IoctlReturns, AppRequest, capture_work,
                CaptureCheck, Others, vars, queues
  <2> QED
    BY <2>1, <1>1
<1> QED
  BY <1>3, <1>4, <1>5, <1>6 DEF Next


\* What Backview calls a request is an item for cap_wq, and there is room for it.
LEMMA RequestStep ==
    ASSUME CaptureInv, CapqFits', NEW c, NEW a, capture_add_work(c, a),
           Item(c, a) \in CapRequests, UNCHANGED camera,
           UNCHANGED <<mcu_cmd_state, call_active>>
    PROVE  B!Next
<1>1. Len(capq') = Len(capq) + 1 /\ Len(capq) \in Nat
  BY Lengths DEF CaptureInv
<1>2. Len(capq') <= 5 * QMax
  BY DEF CapqFits
<1>3. Len(capq) < CapMax
  BY <1>1, <1>2, QueueAssumption
<1>4. B!capture_add_work(Item(c, a))
  BY <1>3 DEF B!capture_add_work, capture_add_work, camera, B!demand, B!select,
              B!device, B!report, B!boot
<1> QED
  BY <1>4 DEF B!Next

\* A step that leaves capture_work alone is a stutter of Backview.
LEMMA StutterStep ==
    ASSUME UNCHANGED <<capq, camera, mcu_cmd_state, call_active>>
    PROVE  UNCHANGED B!vars
  BY DEF camera, B!vars, B!demand, B!select, B!device, B!report, B!boot

\* The items with a fixed argument.
LEMMA FixedRequests ==
    /\ \A c \in {47, 55, 57, 59, 60} : Item(c, 0) \in CapRequests
    /\ Item(46, 1) \in CapRequests /\ Item(46, 255) \in CapRequests
    /\ Item(56, 0) \in CapRequests /\ Item(56, 232) \in CapRequests
    /\ Item(58, 208) \in CapRequests
  BY DEF Item, CapRequests

\* The MCU link: the input of the camera is stored, and an item is queued on
\* another queue.
LEMMA McuRefines ==
    ASSUME NEW m \in McuCommands, process_mcu_command(m)
    PROVE  B!Next \/ UNCHANGED B!vars
<1>1. UNCHANGED <<capq, camera, call_active>>
  BY DEF process_mcu_command
<1>2. mcu_cmd_state' \in {5, 6} \/ mcu_cmd_state' = mcu_cmd_state
  BY DEF process_mcu_command, Queue, Reverse, Leave
<1>3. CASE mcu_cmd_state' \in {5, 6}
  <2>1. B!McuInput(mcu_cmd_state')
    BY <1>1 DEF B!McuInput, camera, B!demand, B!select, B!device, B!report
  <2> QED
    BY <1>3, <2>1 DEF B!Next
<1>4. CASE mcu_cmd_state' = mcu_cmd_state
  BY <1>1, <1>4, StutterStep
<1> QED
  BY <1>2, <1>3, <1>4

\* Item 37 is Backview's BootComplete the first time, and a request after that.
LEMMA BootRefines ==
    ASSUME CaptureInv, CapqFits', BootComplete
    PROVE  B!Next
<1>1. /\ capture_add_work(58, 208) /\ call_active' = TRUE
      /\ UNCHANGED <<camera, mcu_cmd_state>>
  BY DEF BootComplete, mcu
<1>2. CASE ~call_active
  <2>1. Len(capq') = Len(capq) + 1 /\ Len(capq) \in Nat
    BY <1>1, Lengths DEF CaptureInv
  <2>2. Len(capq') <= 5 * QMax
    BY DEF CapqFits
  <2>3. Len(capq) < CapMax
    BY <2>1, <2>2, QueueAssumption
  <2>4. B!BootComplete
    BY <1>1, <1>2, <2>3
       DEF B!BootComplete, capture_add_work, Item, camera, B!demand, B!select,
           B!device, B!report
  <2> QED
    BY <2>4 DEF B!Next
<1>3. CASE call_active
  <2>1. call_active' = call_active
    BY <1>1, <1>3 DEF CaptureInv, Types, B!TypeOK, B!BootOK
  <2> QED
    BY <1>1, <2>1, FixedRequests, RequestStep
<1> QED
  BY <1>2, <1>3

\* car_work queues at most one item in a step.
LEMMA CarRefines ==
    ASSUME CaptureInv, CapqFits', car_work
    PROVE  B!Next \/ UNCHANGED B!vars
<1>1. CASE BootComplete
  BY <1>1, BootRefines
<1>2. CASE ~BootComplete
  <2>1. UNCHANGED <<camera, mcu_cmd_state, call_active>>
    BY <1>2
       DEF car_work, SessionBegins, SessionEnds, CarActiveEnds, CameraItem,
           BootAndroid, PowerOn, PowerOnBack, PowerOff, AccOff, CarFlushed,
           AskAndroid, Waited, SoftOff, SourceKey, mcu
  <2>2. CASE CameraItem
    <3>1. PICK c \in 31..34 : capture_add_work(CaptureOf[c], 0)
      BY <2>2 DEF CameraItem, CaptureOf
    <3>2. CaptureOf[c] \in {56, 57, 59, 60}
      BY DEF CaptureOf
    <3>3. Item(CaptureOf[c], 0) \in CapRequests
      BY <3>2, FixedRequests
    <3> QED
      BY <2>1, <3>1, <3>3, RequestStep
  <2>3. CASE ~CameraItem
    <3>1. \/ UNCHANGED capq
          \/ capture_add_work(46, 1) \/ capture_add_work(47, 0)
          \/ capture_add_work(56, 232) \/ capture_add_work(55, 0)
          \/ capture_add_work(59, 0) \/ capture_add_work(46, 255)
      BY <1>2, <2>3
         DEF car_work, SessionBegins, SessionEnds, CarActiveEnds,
             BootAndroid, PowerOn, PowerOnBack, PowerOff, AccOff, CarFlushed,
             AskAndroid, Waited, SoftOff, SourceKey, power_soft_off, queues
    <3>2. CASE UNCHANGED capq
      BY <2>1, <3>2, StutterStep
    <3> QED
      BY <2>1, <3>1, <3>2, FixedRequests, RequestStep
  <2> QED
    BY <2>2, <2>3
<1> QED
  BY <1>1, <1>2

\* audio_work queues the channel that Android entered.
LEMMA AudioRefines ==
    ASSUME CaptureInv, CapqFits', Entered, audio_work
    PROVE  B!Next \/ UNCHANGED B!vars
<1>1. UNCHANGED <<camera, mcu_cmd_state, call_active>>
  BY DEF audio_work, AudioEnter, AudioOn, AudioOff, AudioActiveEnds,
         AjxOn, AjxOff, AjxFlushed, mcu
<1>2. CASE AudioEnter /\ ~UNCHANGED capq
  <2>1. Head(audq).arg \in ArgsOf({"av_channel_enter"})
    BY <1>2, EnteredTail DEF AudioEnter, AudioTake, CaptureInv
  <2>2. Item(46, Head(audq).arg) \in CapRequests
    BY <2>1 DEF Item, CapRequests
  <2> QED
    BY <1>1, <1>2, <2>2, RequestStep DEF AudioEnter
<1>3. CASE UNCHANGED capq
  BY <1>1, <1>3, StutterStep
<1> QED
  BY <1>2, <1>3
     DEF audio_work, AudioOn, AudioOff, AudioActiveEnds, AjxOn, AjxOff,
         AjxFlushed, queues

\* The ioctl handler queues the captures that Android asked for, and the
\* applications the items of the constant.
LEMMA IoctlRefines ==
    ASSUME CaptureInv, CapqFits',
           \/ IoctlReturns
           \/ \E r \in Ioctls : car_ioctl(r)
           \/ \E r \in AppRequests : AppRequest(r)
    PROVE  B!Next \/ UNCHANGED B!vars
<1>1. UNCHANGED <<camera, mcu_cmd_state, call_active>>
  BY DEF IoctlReturns, car_ioctl, AppRequest, mcu
<1>2. CASE UNCHANGED capq
  BY <1>1, <1>2, StutterStep
<1>3. ASSUME NEW r \in Ioctls, car_ioctl(r), ~UNCHANGED capq
      PROVE  B!Next
  <2>1. PICK c \in {48, 49} :
           /\ capture_add_work(c, r.arg)
           /\ r.call \in {"ctl_capture_on", "ctl_capture_off"}
    BY <1>3 DEF car_ioctl, Answer, ReportBoot, av_channel_enter, ctl_capture,
                queues
  <2>2. Item(c, r.arg) \in CapRequests
    BY <2>1 DEF Item, CapRequests, ArgsOf
  <2> QED
    BY <1>1, <2>1, <2>2, RequestStep
<1>4. ASSUME NEW r \in AppRequests, AppRequest(r)
      PROVE  B!Next
  <2>1. r \in B!Items
    BY CarAssumption
  <2>2. Item(r.cmd, r.arg) \in CapRequests
    BY <2>1 DEF Item, CapRequests, B!Items
  <2> QED
    BY <1>1, <1>4, <2>2, RequestStep DEF AppRequest
<1> QED
  BY <1>2, <1>3, <1>4 DEF IoctlReturns, queues

\* Every step of the composition is a step of Backview, or none of its business.
LEMMA NextRefines ==
    CaptureInv /\ CapqFits' /\ Entered /\ [Next]_vars => [B!Next]_(B!vars)
<1> SUFFICES ASSUME CaptureInv, CapqFits', Entered, [Next]_vars
             PROVE  B!Next \/ UNCHANGED B!vars
  OBVIOUS
<1>1. CASE \E m \in McuCommands : process_mcu_command(m)
  BY <1>1, McuRefines
<1>2. CASE \/ IoctlReturns \/ \E r \in Ioctls : car_ioctl(r)
           \/ \E r \in AppRequests : AppRequest(r)
  BY <1>2, IoctlRefines
<1>3. CASE car_work
  BY <1>3, CarRefines
<1>4. CASE audio_work
  BY <1>4, AudioRefines
<1>5. CASE capture_work \/ CaptureCheck
  BY <1>5 DEF capture_work, CaptureCheck, B!Next
<1>6. CASE UNCHANGED vars
  <2>1. UNCHANGED <<capq, camera, mcu_cmd_state, call_active>>
    BY <1>6 DEF vars, queues, mcu
  <2> QED
    BY <2>1, StutterStep
<1> QED
  BY <1>1, <1>2, <1>3, <1>4, <1>5, <1>6 DEF Next

\* What car_work, audio_work, the ioctls and the applications do to the capture
\* queue is what Backview assumes of its requests: its promises are the
\* composition's.
THEOREM CaptureRefines == Spec => BackviewSpec
<1>1. Init => CaptureInv /\ Entered /\ B!Init
  <2>1. Init => Entered
    BY DEF Init, Entered
  <2> QED
    BY <2>1, InitCapture DEF Init
<1>2. CaptureInv /\ Entered /\ [Next]_vars => CaptureInv' /\ Entered'
  BY NextLoad, NextEntered DEF CaptureInv
<1> QED
  BY <1>1, <1>2, CapqShort, NextRefines, PTL DEF Spec, BackviewSpec, B!Spec

-----------------------------------------------------------------------------
(* The promises of Backview, in the composition.                           *)

\* What is proved of Backview, with the requests and the bound of this module.
BP == INSTANCE Backview_proofs WITH Requests <- CapRequests, QMax <- CapMax

\* Backview's assumptions hold here.
LEMMA RequestsLegal == BP!BackviewAssumption
<1>1. ASSUME NEW x \in CapRequests PROVE x \in BP!Items
  <2>1. CASE x \in AppRequests
    <3>1. x \in B!Items
      BY <2>1, CarAssumption
    <3> QED
      BY <3>1 DEF B!Items, BP!Items, B!Commands, BP!Commands, B!AvModes, BP!AvModes
  <2>2. CASE x \in [cmd : {48, 49},
                    arg : ArgsOf({"ctl_capture_on", "ctl_capture_off"})]
    <3>1. x.arg \in B!AvModes /\ x.arg \in 0..255
      BY <2>2, CarAssumption DEF ArgsOf
    <3>2. x \in [cmd : BP!Commands, arg : 0..255] /\ x.cmd # 52
      BY <2>2, <3>1 DEF BP!Commands
    <3> QED
      BY <3>1, <3>2 DEF BP!Items, B!AvModes, BP!AvModes
  <2>3. CASE x \in [cmd : {46}, arg : {1, 255} \cup ArgsOf({"av_channel_enter"})]
    <3>1. x.arg \in 0..255
      BY <2>3, CarAssumption DEF ArgsOf
    <3>2. x \in [cmd : BP!Commands, arg : 0..255] /\ x.cmd = 46
      BY <2>3, <3>1 DEF BP!Commands
    <3> QED
      BY <3>2 DEF BP!Items
  <2>4. CASE x \in [cmd : {47, 55, 57, 59, 60}, arg : {0}] \cup
                   [cmd : {56}, arg : {0, 232}] \cup [cmd : {58}, arg : {208}]
    <3>1. x \in [cmd : BP!Commands, arg : 0..255] /\ x.cmd \notin {48, 49, 52}
      BY <2>4 DEF BP!Commands
    <3> QED
      BY <3>1 DEF BP!Items
  <2> QED
    BY <2>1, <2>2, <2>3, <2>4 DEF CapRequests
<1> QED
  BY <1>1, CarAssumption, QueueAssumption DEF BP!BackviewAssumption

\* The two instances are the same module: their steps and properties expand to
\* the same formulas.
LEMMA SameSteps == [BP!Next]_(BP!vars) <=> [B!Next]_(B!vars)
  BY DEF B!AvModes, BP!AvModes, B!Commands, BP!Commands, B!Items, BP!Items,
         B!demand, BP!demand, B!select, BP!select, B!device, BP!device,
         B!report, BP!report, B!boot, BP!boot, B!vars, BP!vars, B!Idle,
         BP!Idle, B!camera_stop, BP!camera_stop, B!camera_start,
         BP!camera_start, B!ShowAndroid, BP!ShowAndroid, B!SourceOf,
         BP!SourceOf, B!ChannelOf, BP!ChannelOf, B!video_Channel,
         BP!video_Channel, B!vs_send, BP!vs_send, B!TellUp, BP!TellUp, B!Take,
         BP!Take, B!Arg, BP!Arg, B!Skip, BP!Skip, B!capture_add_work,
         BP!capture_add_work, B!McuInput, BP!McuInput, B!BootComplete,
         BP!BootComplete, B!CheckTimer, BP!CheckTimer, B!capture_check_work,
         BP!capture_check_work, B!ModeOf, BP!ModeOf, B!ChannelEnter,
         BP!ChannelEnter, B!ChannelRefresh, BP!ChannelRefresh, B!CaptureOn,
         BP!CaptureOn, B!CaptureOff, BP!CaptureOff, B!ViewOn, BP!ViewOn,
         B!Resume, BP!Resume, B!ViewOff, BP!ViewOff, B!SignalOn, BP!SignalOn,
         B!SignalOff, BP!SignalOff, B!BackStart, BP!BackStart, B!BackSwitch,
         BP!BackSwitch, B!BackTell, BP!BackTell, B!BackStop, BP!BackStop,
         B!FrontStart, BP!FrontStart, B!Recheck, BP!Recheck, B!RadarShow,
         BP!RadarShow, B!FrontToggle, BP!FrontToggle, B!capture_work,
         BP!capture_work, B!Next, BP!Next

\* The initial states too.
LEMMA SameInit == BP!Init <=> B!Init
  BY DEF B!Init, BP!Init

\* And the safety invariants.
LEMMA SamePromises ==
    /\ BP!StreamsOnDemand <=> B!StreamsOnDemand
    /\ BP!OverlayFollowsStream <=> B!OverlayFollowsStream
    /\ BP!CheckNeverLost <=> B!CheckNeverLost
    /\ BP!ChannelCurrent <=> B!ChannelCurrent
    /\ BP!AndroidVisible <=> B!AndroidVisible
    /\ BP!AndroidTold <=> B!AndroidTold
  BY DEF B!StreamsOnDemand, BP!StreamsOnDemand, B!OverlayFollowsStream,
         BP!OverlayFollowsStream, B!CheckNeverLost, BP!CheckNeverLost,
         B!ChannelCurrent, BP!ChannelCurrent, B!SourceOf, BP!SourceOf,
         B!AndroidVisible, BP!AndroidVisible, B!AndroidTold, BP!AndroidTold,
         B!TellPending, BP!TellPending

\* So every state of the composition is one of Backview.
LEMMA CaptureIsBackview == Spec => BP!Spec
BY CaptureRefines, SameSteps, SameInit, PTL
   DEF BackviewSpec, B!Spec, BP!Spec

\* The safety invariants of Backview.
Promises == /\ B!StreamsOnDemand /\ B!OverlayFollowsStream
            /\ B!CheckNeverLost /\ B!ChannelCurrent
            /\ B!AndroidVisible /\ B!AndroidTold

\* Whatever car_work, audio_work, the MCU link, the ioctls and the applications
\* queue: the decoder and the overlay run exactly while one of the four users
\* wants them, the check of the video signal is never lost, the channel that the
\* MCU was told is the one of the most important user, the layer of Android is
\* off only under a camera, and Android was told whether the camera is on.
THEOREM CarKeepsPromises == Spec => []Promises
<1>1. BP!Spec => []BP!StreamsOnDemand
  BY BP!DecoderOnDemand, RequestsLegal, PTL DEF BP!BackviewAssumption
<1>2. BP!Spec => []BP!OverlayFollowsStream
  BY BP!OverlayCorrect, RequestsLegal, PTL DEF BP!BackviewAssumption
<1>3. BP!Spec => []BP!CheckNeverLost
  BY BP!CheckKept, RequestsLegal, PTL DEF BP!BackviewAssumption
<1>4. BP!Spec => []BP!ChannelCurrent
  BY BP!ChannelCorrect, RequestsLegal, PTL DEF BP!BackviewAssumption
<1>5. BP!Spec => []BP!AndroidVisible
  BY BP!AndroidCorrect, RequestsLegal, PTL DEF BP!BackviewAssumption
<1>6. BP!Spec => []BP!AndroidTold
  BY BP!ToldCorrect, RequestsLegal, PTL DEF BP!BackviewAssumption
<1>7. (/\ BP!StreamsOnDemand /\ BP!OverlayFollowsStream
       /\ BP!CheckNeverLost /\ BP!ChannelCurrent
       /\ BP!AndroidVisible /\ BP!AndroidTold) => Promises
  BY SamePromises DEF Promises
<1> QED
  BY <1>1, <1>2, <1>3, <1>4, <1>5, <1>6, <1>7, CaptureIsBackview, PTL

\* No step of any thread replaces a camera on the screen by something else.
THEOREM CarKeepsScreen == Spec => B!CameraKeepsScreen
<1>1. BP!Spec => BP!CameraKeepsScreen
  BY BP!CameraStays, RequestsLegal, PTL DEF BP!BackviewAssumption
<1>2. BP!CameraKeepsScreen <=> B!CameraKeepsScreen
  BY DEF B!CameraKeepsScreen, BP!CameraKeepsScreen, B!vars, BP!vars, B!demand,
         BP!demand, B!select, BP!select, B!device, BP!device, B!report,
         BP!report, B!boot, BP!boot
<1> QED
  BY <1>1, <1>2, CaptureIsBackview, PTL

\* The composition implements VideoArbiter: whatever the MCU, Android and the
\* applications ask for and in whatever order the threads run, the picture is
\* that of the most important user.
THEOREM CarArbitrates == Spec => B!ArbiterSpec
<1>1. BP!Spec => BP!ArbiterSpec
  BY BP!ImplementsArbiter, RequestsLegal, PTL DEF BP!BackviewAssumption
<1>2. BP!Arbiter!Init <=> B!Arbiter!Init
  BY DEF B!BackviewWants, BP!BackviewWants, B!BackviewShown, BP!BackviewShown,
         B!BackviewPictures, BP!BackviewPictures, B!Arbiter!Init,
         BP!Arbiter!Init, B!Arbiter!Nobody, BP!Arbiter!Nobody
<1>3. [BP!Arbiter!Next]_<<BP!BackviewWants, BP!BackviewShown>>
      <=> [B!Arbiter!Next]_<<B!BackviewWants, B!BackviewShown>>
  BY DEF B!BackviewWants, BP!BackviewWants, B!BackviewShown, BP!BackviewShown,
         B!BackviewPictures, BP!BackviewPictures, B!Arbiter!Users,
         BP!Arbiter!Users, B!Arbiter!Nobody, BP!Arbiter!Nobody,
         B!Arbiter!Owner, BP!Arbiter!Owner, B!Arbiter!Become,
         BP!Arbiter!Become, B!Arbiter!CameraOn, BP!Arbiter!CameraOn,
         B!Arbiter!CameraOff, BP!Arbiter!CameraOff, B!Arbiter!SignalOn,
         BP!Arbiter!SignalOn, B!Arbiter!SignalOff, BP!Arbiter!SignalOff,
         B!Arbiter!ViewOn, BP!Arbiter!ViewOn, B!Arbiter!ViewOff,
         BP!Arbiter!ViewOff, B!Arbiter!AvOn, BP!Arbiter!AvOn, B!Arbiter!AvOff,
         BP!Arbiter!AvOff, B!Arbiter!Next, BP!Arbiter!Next
<1> QED
  BY <1>1, <1>2, <1>3, CaptureIsBackview, PTL
     DEF BP!ArbiterSpec, B!ArbiterSpec, BP!Arbiter!Spec, B!Arbiter!Spec
=============================================================================
