--------------------------- MODULE CarWork_proofs ---------------------------
(***************************************************************************)
(* Proofs about CarWork: car_work and audio_work never switch the sound at *)
(* the same time, and the power sessions are counted right.                *)
(*                                                                         *)
(* Both rest on one fact: an item 29 or 30 is in car_wq, or is being       *)
(* handled by car_work, only while audio_work waits for it, and there is   *)
(* never a second one.                                                     *)
(***************************************************************************)
EXTENDS CarWork, SequenceTheorems, TLAPS

CarItems == [cmd : Int, arg : Int]
CarPlaces == {"idle", "on", "off", "back", "flush43", "flush45", "ask43",
              "ask45", "wait", "soft", "wait2"}
AudioPlaces == {"idle", "on", "off", "begin", "end"}

\* No two items of the queue are a 29 or a 30.
OneSession(q) ==
    \A i, j \in DOMAIN q :
        q[i].cmd \in {29, 30} /\ q[j].cmd \in {29, 30} => i = j

Places == /\ carq \in Seq(CarItems)
          /\ carpc \in CarPlaces /\ audpc \in AudioPlaces
          /\ power_refcnt \in 0..255 /\ power_on \in 0..255
          /\ ajx_active \in BOOLEAN
          /\ audio_active \in BOOLEAN /\ codec \in BOOLEAN

\* Whoever is inside audio_active or audio_deactive, the items 29 and 30 belong
\* to the audio_work that waits for them.
Awaited ==
    /\ OneSession(carq)
    /\ Waits(carq, {29}) => audpc = "begin"
    /\ Waits(carq, {30}) => audpc = "end"
    /\ carpc \in {"on", "off"} =>
          audpc \in {"begin", "end"} /\ ~Waits(carq, {29}) /\ ~Waits(carq, {30})

Inside == carpc \in {"on", "off"} \/ audpc \in {"on", "off"}

\* The flag is down while a thread is inside, and the codec is up.
CodecInv == /\ Inside => codec /\ ~audio_active
            /\ ~Inside => (codec <=> audio_active)

\* The count, at each stage of the AJX session.
CountInv ==
    /\ audpc \in {"begin", "end"} => ~ajx_active
    /\ power_on \in {0, 1} =>
          /\ power_refcnt <= 2
          /\ ~AjxSession => power_refcnt <= 1
          /\ audpc = "begin" /\ Waits(carq, {29}) => power_refcnt <= 1
          /\ audpc = "end" /\ ~Waits(carq, {30}) => power_refcnt <= 1

CarInv == Places /\ Awaited /\ CodecInv /\ CountInv

-----------------------------------------------------------------------------
(* Lemmas about the queue.                                                 *)

\* An item appended is waited for, and all that waited before still are.
LEMMA AppendWaits ==
    ASSUME NEW q \in Seq(CarItems), NEW x \in CarItems, NEW cs
    PROVE  /\ Append(q, x) \in Seq(CarItems)
           /\ Waits(Append(q, x), cs) <=> Waits(q, cs) \/ x.cmd \in cs
<1>1. /\ Append(q, x) \in Seq(CarItems)
      /\ DOMAIN Append(q, x) = 1..(Len(q) + 1)
      /\ DOMAIN q = 1..Len(q) /\ Len(q) \in Nat
      /\ \A i \in 1..Len(q) : Append(q, x)[i] = q[i]
      /\ Append(q, x)[Len(q) + 1] = x
  BY AppendProperties, LenProperties
<1>2. ASSUME Waits(Append(q, x), cs) PROVE Waits(q, cs) \/ x.cmd \in cs
  <2>1. PICK i \in 1..(Len(q) + 1) : Append(q, x)[i].cmd \in cs
    BY <1>1, <1>2 DEF Waits
  <2>2. CASE i = Len(q) + 1
    BY <2>1, <2>2, <1>1
  <2>3. CASE i \in 1..Len(q)
    BY <2>1, <2>3, <1>1 DEF Waits
  <2> QED BY <2>2, <2>3, <1>1
<1>3. ASSUME Waits(q, cs) PROVE Waits(Append(q, x), cs)
  BY <1>1, <1>3 DEF Waits
<1>4. ASSUME x.cmd \in cs PROVE Waits(Append(q, x), cs)
  BY <1>1, <1>4 DEF Waits
<1> QED BY <1>1, <1>2, <1>3, <1>4

\* Appending keeps the queue to one session item, unless both are one.
LEMMA AppendOne ==
    ASSUME NEW q \in Seq(CarItems), NEW x \in CarItems, OneSession(q),
           x.cmd \in {29, 30} => ~Waits(q, {29}) /\ ~Waits(q, {30})
    PROVE  OneSession(Append(q, x))
<1>1. /\ DOMAIN Append(q, x) = 1..(Len(q) + 1)
      /\ DOMAIN q = 1..Len(q) /\ Len(q) \in Nat
      /\ \A i \in 1..Len(q) : Append(q, x)[i] = q[i]
      /\ Append(q, x)[Len(q) + 1] = x
  BY AppendProperties, LenProperties
<1>2. ASSUME x.cmd \in {29, 30}
      PROVE  \A i \in 1..Len(q) : q[i].cmd \notin {29, 30}
  BY <1>1, <1>2 DEF Waits
<1>3. SUFFICES ASSUME NEW i \in 1..(Len(q) + 1), NEW j \in 1..(Len(q) + 1),
                      Append(q, x)[i].cmd \in {29, 30},
                      Append(q, x)[j].cmd \in {29, 30}
               PROVE  i = j
  BY <1>1 DEF OneSession
<1>4. CASE i \in 1..Len(q) /\ j \in 1..Len(q)
  BY <1>1, <1>3, <1>4 DEF OneSession
<1>5. CASE i = Len(q) + 1 /\ j \in 1..Len(q)
  BY <1>1, <1>2, <1>3, <1>5
<1>6. CASE i \in 1..Len(q) /\ j = Len(q) + 1
  BY <1>1, <1>2, <1>3, <1>6
<1>7. CASE i = Len(q) + 1 /\ j = Len(q) + 1
  BY <1>7
<1> QED BY <1>1, <1>4, <1>5, <1>6, <1>7

\* What is left when car_work takes the oldest item.
LEMMA TailWaits ==
    ASSUME NEW q \in Seq(CarItems), q # <<>>, OneSession(q)
    PROVE  /\ Tail(q) \in Seq(CarItems) /\ Head(q) \in CarItems
           /\ OneSession(Tail(q))
           /\ \A cs : Waits(Tail(q), cs) => Waits(q, cs)
           /\ \A cs : Waits(q, cs) => Waits(Tail(q), cs) \/ Head(q).cmd \in cs
           /\ \A cs : Head(q).cmd \in cs => Waits(q, cs)
           /\ Head(q).cmd \in {29, 30} =>
                 ~Waits(Tail(q), {29}) /\ ~Waits(Tail(q), {30})
<1>1. /\ Tail(q) \in Seq(CarItems) /\ Head(q) \in CarItems
      /\ DOMAIN q = 1..Len(q) /\ Len(q) \in Nat /\ Len(q) # 0
      /\ DOMAIN Tail(q) = 1..(Len(q) - 1)
      /\ \A i \in 1..(Len(q) - 1) : Tail(q)[i] = q[i + 1]
      /\ Head(q) = q[1]
  BY HeadTailProperties, LenProperties, EmptySeq
<1>2. OneSession(Tail(q))
  BY <1>1 DEF OneSession
<1>3. ASSUME NEW cs, Waits(Tail(q), cs) PROVE Waits(q, cs)
  <2>1. PICK i \in 1..(Len(q) - 1) : Tail(q)[i].cmd \in cs
    BY <1>1, <1>3 DEF Waits
  <2>2. i + 1 \in 1..Len(q) /\ q[i + 1].cmd \in cs
    BY <1>1, <2>1
  <2> QED BY <1>1, <2>2 DEF Waits
<1>4. ASSUME NEW cs, Waits(q, cs)
      PROVE  Waits(Tail(q), cs) \/ Head(q).cmd \in cs
  <2>1. PICK i \in 1..Len(q) : q[i].cmd \in cs
    BY <1>1, <1>4 DEF Waits
  <2>2. CASE i = 1
    BY <1>1, <2>1, <2>2
  <2>3. CASE i # 1
    <3>1. i - 1 \in 1..(Len(q) - 1) /\ Tail(q)[i - 1].cmd \in cs
      BY <1>1, <2>1, <2>3
    <3> QED BY <1>1, <3>1 DEF Waits
  <2> QED BY <2>2, <2>3
<1>5. ASSUME NEW cs, Head(q).cmd \in cs PROVE Waits(q, cs)
  BY <1>1, <1>5 DEF Waits
<1>6. ASSUME Head(q).cmd \in {29, 30}
      PROVE  ~Waits(Tail(q), {29}) /\ ~Waits(Tail(q), {30})
  <2>1. \A i \in 1..(Len(q) - 1) : q[i + 1].cmd \notin {29, 30}
    BY <1>1, <1>6 DEF OneSession
  <2> QED BY <1>1, <2>1 DEF Waits
<1> QED BY <1>1, <1>2, <1>3, <1>4, <1>5, <1>6

-----------------------------------------------------------------------------
(* Steps that touch none of it.                                            *)

\* The queue changes by items other than 29 and 30 only.
SameWaiting ==
    /\ carq' \in Seq(CarItems) /\ OneSession(carq')
    /\ Waits(carq', {29}) <=> Waits(carq, {29})
    /\ Waits(carq', {30}) <=> Waits(carq, {30})

SameThreads == /\ audpc' = audpc
               /\ carpc' \in CarPlaces
               /\ carpc' \in {"on", "off"} <=> carpc \in {"on", "off"}

SameSound == ajx_active' = ajx_active /\ audio_active' = audio_active /\
             codec' = codec

\* The count stays as it is, or is set to what the power alone gives.
CountSet == \/ power_refcnt' = power_refcnt /\ power_on' = power_on
            \/ power_refcnt' = 0 /\ power_on' = power_on
            \/ power_refcnt' = 0 /\ power_on' = 0
            \/ power_refcnt' = 1 /\ power_on' = 1

Harmless == SameWaiting /\ SameThreads /\ SameSound /\ CountSet

\* A harmless step keeps the invariant.
LEMMA HarmlessStep ==
    ASSUME CarInv, Harmless
    PROVE  CarInv'
<1>1. Places'
  <2>1. carq' \in Seq(CarItems) /\ carpc' \in CarPlaces /\ audpc' \in AudioPlaces
    BY DEF CarInv, Harmless, Places, SameWaiting, SameThreads
  <2>2. power_refcnt' \in 0..255 /\ power_on' \in 0..255
    <3>1. power_refcnt \in 0..255 /\ power_on \in 0..255 /\ CountSet
      BY DEF CarInv, Harmless, Places
    <3>2. 0 \in 0..255 /\ 1 \in 0..255
      OBVIOUS
    <3> QED BY <3>1, <3>2 DEF CountSet
  <2>3. ajx_active' \in BOOLEAN /\ audio_active' \in BOOLEAN /\ codec' \in BOOLEAN
    BY DEF CarInv, Harmless, Places, SameSound
  <2> QED BY <2>1, <2>2, <2>3 DEF Places
<1>2. Awaited'
  BY DEF CarInv, Harmless, Awaited, SameWaiting, SameThreads
<1>3. CodecInv'
  BY DEF CarInv, Harmless, CodecInv, Inside, SameThreads, SameSound
<1>4. CountInv'
  BY DEF CarInv, Harmless, Places, CountInv, AjxSession, SameWaiting,
         SameThreads, SameSound, CountSet
<1> QED BY <1>1, <1>2, <1>3, <1>4 DEF CarInv

\* A queue that does not change waits for the same items.
LEMMA SameQueue ==
    ASSUME CarInv, carq' = carq
    PROVE  SameWaiting
BY DEF CarInv, Places, Awaited, SameWaiting

\* So does one that gets an item other than 29 and 30.
LEMMA OtherQueued ==
    ASSUME CarInv, NEW c \in Int \ {29, 30}, NEW a \in Int,
           carq' = Append(carq, Item(c, a))
    PROVE  SameWaiting
<1>1. Item(c, a) \in CarItems /\ Item(c, a).cmd \notin {29, 30}
  BY DEF Item, CarItems
<1>2. carq \in Seq(CarItems) /\ OneSession(carq)
  BY DEF CarInv, Places, Awaited
<1>3. /\ carq' \in Seq(CarItems)
      /\ Waits(carq', {29}) <=> Waits(carq, {29})
      /\ Waits(carq', {30}) <=> Waits(carq, {30})
  BY <1>1, <1>2, AppendWaits
<1>4. OneSession(carq')
  BY <1>1, <1>2, AppendOne
<1> QED BY <1>3, <1>4 DEF SameWaiting

\* So does one of which car_work takes an item other than 29 and 30.
LEMMA OtherStarted ==
    ASSUME CarInv, NEW c \in Int \ {29, 30}, Start(c)
    PROVE  SameWaiting
<1>1. /\ carq \in Seq(CarItems) /\ OneSession(carq) /\ carq # <<>>
      /\ Head(carq).cmd = c /\ carq' = Tail(carq)
  BY DEF CarInv, Places, Awaited, Start
<1>2. /\ carq' \in Seq(CarItems) /\ OneSession(carq')
      /\ \A cs : Waits(carq', cs) => Waits(carq, cs)
      /\ \A cs : Waits(carq, cs) => Waits(carq', cs) \/ c \in cs
  BY <1>1, TailWaits
<1> QED BY <1>2 DEF SameWaiting

\* Every step outside the nine actions of the sessions is harmless.
LEMMA McuHarmless ==
    ASSUME CarInv, NEW m \in McuCommands, process_mcu_command(m)
    PROVE  Harmless
<1>1. m.arg \in Int
  BY CarAssumption
<1>2. PICK c \in Int \ {29, 30}, a \in Int : carq' = Append(carq, Item(c, a))
  BY <1>1 DEF process_mcu_command, Queue, Reverse, Leave
<1>3. SameWaiting
  BY <1>2, OtherQueued
<1>4. SameThreads /\ SameSound /\ CountSet
  BY DEF CarInv, Places, process_mcu_command, threads, sessions, sound,
         SameThreads, SameSound, CountSet
<1> QED BY <1>3, <1>4 DEF Harmless

\* The ioctl handler queues no session item and switches no sound.
LEMMA IoctlHarmless ==
    ASSUME CarInv, NEW r \in Ioctls, car_ioctl(r)
    PROVE  Harmless
<1>1. SameWaiting
  <2>1. CASE carq' = carq
    BY <2>1, SameQueue
  <2>2. CASE ReportBoot(38) \/ ReportBoot(37)
    <3>1. PICK c \in Int \ {29, 30} : carq' = Append(carq, Item(c, 0))
      BY <2>2 DEF ReportBoot
    <3> QED BY <3>1, OtherQueued
  <2> QED BY <2>1, <2>2 DEF car_ioctl, Answer, av_channel_enter, ctl_capture,
                            queues
<1>2. SameThreads /\ SameSound /\ CountSet
  BY DEF CarInv, Places, car_ioctl, Answer, ReportBoot, av_channel_enter,
         ctl_capture, IoGoto, threads, sessions, sound, SameThreads,
         SameSound, CountSet
<1> QED BY <1>1, <1>2 DEF Harmless

\* Nor do the threads that return from a flush or a wait, or that power off.
LEMMA ReturnHarmless ==
    ASSUME CarInv, \/ IoctlReturns \/ CarFlushed \/ Waited
                   \/ AskAndroid \/ SoftOff \/ PowerOnBack
    PROVE  Harmless
<1>1. carq' = carq
  BY DEF IoctlReturns, CarFlushed, Waited, AskAndroid, SoftOff, PowerOnBack,
         queues
<1>2. SameWaiting
  BY <1>1, SameQueue
<1>3. CASE IoctlReturns
  BY <1>2, <1>3 DEF CarInv, Places, IoctlReturns, IoGoto, sessions, sound,
         Harmless, SameThreads, SameSound, CountSet
<1>4. CASE CarFlushed \/ Waited \/ PowerOnBack
  BY <1>2, <1>4 DEF CarFlushed, Waited, PowerOnBack, Goto, sessions, sound,
         Harmless, SameThreads, SameSound, CountSet, CarPlaces
<1>5. CASE AskAndroid
  BY <1>2, <1>5 DEF AskAndroid, Goto, sound, Harmless, SameThreads,
         SameSound, CountSet, CarPlaces
<1>6. CASE SoftOff
  BY <1>2, <1>6 DEF SoftOff, power_soft_off, Goto, sound, Harmless,
         SameThreads, SameSound, CountSet, CarPlaces
<1> QED BY <1>3, <1>4, <1>5, <1>6

\* Nor do the items of car_work other than 29 and 30.
LEMMA ItemHarmless ==
    ASSUME CarInv, \/ CameraItem \/ BootComplete \/ BootAndroid \/ SourceKey
                   \/ PowerOn \/ PowerOff \/ AccOff
    PROVE  Harmless
<1>1. PICK c \in Int \ {29, 30} : Start(c)
  <2>1. CASE CameraItem
    BY <2>1 DEF CameraItem, CaptureOf
  <2> QED BY <2>1 DEF BootComplete, BootAndroid, SourceKey, PowerOn, PowerOff,
                      AccOff
<1>2. SameWaiting
  BY <1>1, OtherStarted
<1>3. carpc = "idle"
  BY <1>1 DEF Start
<1>4. CASE CameraItem \/ BootComplete \/ BootAndroid \/ SourceKey
  BY <1>2, <1>3, <1>4 DEF CameraItem, BootComplete, BootAndroid, SourceKey,
         threads, sessions, sound, Harmless, SameThreads, SameSound, CountSet,
         CarPlaces
<1>5. CASE PowerOn \/ PowerOff \/ AccOff
  BY <1>2, <1>3, <1>5 DEF PowerOn, PowerOff, AccOff, Goto, sessions, sound,
         Harmless, SameThreads, SameSound, CountSet, CarPlaces
<1> QED BY <1>4, <1>5

\* Nor do the applications, capture_work and the entry of a channel.
LEMMA CaptureHarmless ==
    ASSUME CarInv, \/ \E r \in AppRequests : AppRequest(r)
                   \/ capture_work \/ CaptureCheck \/ AudioEnter
                   \/ UNCHANGED vars
    PROVE  Harmless
<1>1. /\ carq' = carq /\ carpc' = carpc /\ audpc' = audpc
      /\ power_refcnt' = power_refcnt /\ power_on' = power_on
      /\ SameSound
  BY DEF AppRequest, capture_work, CaptureCheck, AudioEnter, vars, Others,
         queues, threads, sessions, sound, SameSound
<1>2. SameWaiting
  BY <1>1, SameQueue
<1> QED BY <1>1, <1>2 DEF CarInv, Places, Harmless, SameThreads, CountSet

-----------------------------------------------------------------------------
(* The steps of the sessions, one lemma for each action.                   *)

\* 29 begins: the only session item leaves the queue for audio_active.
LEMMA SessionBeginsStep ==
    ASSUME CarInv, SessionBegins
    PROVE  CarInv'
<1>1. /\ carpc = "idle" /\ carq # <<>> /\ Head(carq).cmd = 29
      /\ carq' = Tail(carq) /\ carq \in Seq(CarItems) /\ OneSession(carq)
  BY DEF CarInv, Places, Awaited, SessionBegins, Start
<1>2. /\ carq' \in Seq(CarItems) /\ OneSession(carq')
      /\ ~Waits(carq', {29}) /\ ~Waits(carq', {30})
      /\ Waits(carq, {29})
  BY <1>1, TailWaits
<1>3. audpc = "begin" /\ audpc' = audpc
  BY <1>2 DEF CarInv, Awaited, SessionBegins, Goto
<1>4. /\ power_on' = power_on /\ ajx_active' = ajx_active
      /\ audio_active' = audio_active
      /\ power_refcnt' = (power_refcnt + 1) % 256
      /\ power_refcnt' \in 0..255
  BY DEF CarInv, Places, SessionBegins
<1>5. \/ audio_active /\ carpc' = "idle" /\ codec' = codec
      \/ ~audio_active /\ carpc' = "on" /\ codec' = TRUE
      \/ carpc' = "idle" /\ codec' = codec
  BY DEF CarInv, Places, SessionBegins, ActiveBegins, AtActive, Goto
<1>6. Places'
  BY <1>2, <1>3, <1>4, <1>5 DEF CarInv, Places, CarPlaces, AudioPlaces
<1>7. Awaited'
  BY <1>2, <1>3 DEF Awaited
<1>8. CodecInv'
  BY <1>1, <1>3, <1>4, <1>5 DEF CarInv, CodecInv, Inside
<1>9. CountInv'
  <2>1. power_on \in {0, 1} => power_refcnt <= 1
    BY <1>2, <1>3 DEF CarInv, CountInv
  <2>2. power_on \in {0, 1} => power_refcnt' <= 2
    BY <1>4, <2>1 DEF CarInv, Places
  <2> QED BY <1>2, <1>3, <1>4, <2>2 DEF CarInv, CountInv, AjxSession
<1> QED BY <1>6, <1>7, <1>8, <1>9 DEF CarInv

\* 30 ends one: the count goes down before audio_work may go on.
LEMMA SessionEndsStep ==
    ASSUME CarInv, SessionEnds
    PROVE  CarInv'
<1>1. /\ carpc = "idle" /\ carq # <<>> /\ Head(carq).cmd = 30
      /\ carq' = Tail(carq) /\ carq \in Seq(CarItems) /\ OneSession(carq)
  BY DEF CarInv, Places, Awaited, SessionEnds, Start
<1>2. /\ carq' \in Seq(CarItems) /\ OneSession(carq')
      /\ ~Waits(carq', {29}) /\ ~Waits(carq', {30})
      /\ Waits(carq, {30})
  BY <1>1, TailWaits
<1>3. audpc = "end" /\ audpc' = audpc
  BY <1>2 DEF CarInv, Awaited, SessionEnds, Goto
<1>4. /\ power_on' = power_on /\ ajx_active' = ajx_active
      /\ codec' = codec
      /\ power_refcnt' = OneLess
      /\ power_refcnt' \in 0..255
  BY DEF CarInv, Places, SessionEnds, OneLess
<1>5. \/ audio_active /\ carpc' = "off" /\ audio_active' = FALSE
      \/ carpc' = "idle" /\ audio_active' = audio_active
  BY DEF CarInv, Places, SessionEnds, DeactiveBegins, AtDeactive, Goto
<1>6. Places'
  BY <1>2, <1>3, <1>4, <1>5 DEF CarInv, Places, CarPlaces, AudioPlaces
<1>7. Awaited'
  BY <1>2, <1>3 DEF Awaited
<1>8. CodecInv'
  BY <1>1, <1>3, <1>4, <1>5 DEF CarInv, CodecInv, Inside
<1>9. CountInv'
  <2>1. power_on \in {0, 1} => power_refcnt' <= 1
    BY <1>4 DEF CarInv, Places, CountInv, OneLess
  <2> QED BY <1>3, <1>4, <2>1 DEF CarInv, Places, CountInv, AjxSession
<1> QED BY <1>6, <1>7, <1>8, <1>9 DEF CarInv

\* car_work leaves audio_active or audio_deactive, which audio_work waits for.
LEMMA CarActiveEndsStep ==
    ASSUME CarInv, CarActiveEnds
    PROVE  CarInv'
<1>1. /\ carpc \in {"on", "off"} /\ carpc' = "idle"
      /\ audpc' = audpc /\ carq' = carq /\ ajx_active' = ajx_active
      /\ power_refcnt' = power_refcnt /\ power_on' = power_on
  BY DEF CarActiveEnds, ActiveEnds, DeactiveEnds, Goto, queues, sessions
<1>2. \/ audio_active' = TRUE /\ codec' = codec
      \/ audio_active' = audio_active /\ codec' = FALSE
  BY DEF CarActiveEnds, ActiveEnds, DeactiveEnds
<1>3. audpc \in {"begin", "end"} /\ codec /\ ~audio_active
  BY <1>1 DEF CarInv, Awaited, CodecInv, Inside
<1>4. Places'
  BY <1>1, <1>2 DEF CarInv, Places, CarPlaces, AudioPlaces
<1>5. Awaited'
  BY <1>1 DEF CarInv, Awaited
<1>6. CodecInv'
  <2>1. codec' <=> audio_active'
    <3>1. CASE audio_active' = TRUE /\ codec' = codec
      BY <3>1, <1>3
    <3>2. CASE audio_active' = audio_active /\ codec' = FALSE
      BY <3>2, <1>3
    <3> QED BY <3>1, <3>2, <1>2
  <2>2. ~Inside'
    BY <1>1, <1>3 DEF Inside
  <2> QED BY <2>1, <2>2 DEF CodecInv
<1>7. CountInv'
  BY <1>1 DEF CarInv, CountInv, AjxSession
<1> QED BY <1>4, <1>5, <1>6, <1>7 DEF CarInv

\* 20 and 21 run in audio_work while no 29 or 30 exists.
LEMMA AudioSwitchStep ==
    ASSUME CarInv, AudioOn \/ AudioOff
    PROVE  CarInv'
<1>1. /\ audpc = "idle" /\ carpc' = carpc /\ carq' = carq
      /\ ajx_active' = ajx_active
      /\ power_refcnt' = power_refcnt /\ power_on' = power_on
  BY DEF AudioOn, AudioOff, AudioTake, AudioGoto, sessions
<1>2. /\ ~Waits(carq, {29}) /\ ~Waits(carq, {30})
      /\ carpc \notin {"on", "off"} /\ ~Inside
  BY <1>1 DEF CarInv, Awaited, Inside
<1>3. \/ /\ audio_active /\ audpc' = "idle"
         /\ codec' = codec /\ audio_active' = audio_active
      \/ /\ ~audio_active /\ audpc' = "on"
         /\ codec' = TRUE /\ audio_active' = audio_active
      \/ /\ audio_active /\ audpc' = "off"
         /\ codec' = codec /\ audio_active' = FALSE
      \/ /\ ~audio_active /\ audpc' = "idle"
         /\ codec' = codec /\ audio_active' = audio_active
  BY DEF CarInv, Places, AudioOn, AudioOff, ActiveBegins, AtActive,
         DeactiveBegins, AtDeactive, AudioGoto
<1>4. Places'
  BY <1>1, <1>3 DEF CarInv, Places, AudioPlaces
<1>5. Awaited'
  BY <1>1, <1>2 DEF CarInv, Awaited
<1>6. CodecInv'
  BY <1>1, <1>2, <1>3 DEF CarInv, CodecInv, Inside
<1>7. CountInv'
  BY <1>1, <1>3 DEF CarInv, CountInv, AjxSession
<1> QED BY <1>4, <1>5, <1>6, <1>7 DEF CarInv

\* 20 and 21 end: the flag and the codec agree again.
LEMMA AudioActiveEndsStep ==
    ASSUME CarInv, AudioActiveEnds
    PROVE  CarInv'
<1>1. /\ audpc \in {"on", "off"} /\ audpc' = "idle"
      /\ carpc' = carpc /\ carq' = carq /\ ajx_active' = ajx_active
      /\ power_refcnt' = power_refcnt /\ power_on' = power_on
  BY DEF AudioActiveEnds, ActiveEnds, DeactiveEnds, AudioGoto, queues, sessions
<1>2. \/ audio_active' = TRUE /\ codec' = codec
      \/ audio_active' = audio_active /\ codec' = FALSE
  BY DEF AudioActiveEnds, ActiveEnds, DeactiveEnds
<1>3. /\ carpc \notin {"on", "off"} /\ codec /\ ~audio_active
      /\ ~Waits(carq, {29}) /\ ~Waits(carq, {30})
  BY <1>1 DEF CarInv, Awaited, CodecInv, Inside
<1>4. Places'
  BY <1>1, <1>2 DEF CarInv, Places, AudioPlaces
<1>5. Awaited'
  BY <1>1, <1>3 DEF CarInv, Awaited
<1>6. CodecInv'
  <2>1. codec' <=> audio_active'
    <3>1. CASE audio_active' = TRUE /\ codec' = codec
      BY <3>1, <1>3
    <3>2. CASE audio_active' = audio_active /\ codec' = FALSE
      BY <3>2, <1>3
    <3> QED BY <3>1, <3>2, <1>2
  <2>2. ~Inside'
    BY <1>1, <1>3 DEF Inside
  <2> QED BY <2>1, <2>2 DEF CodecInv
<1>7. CountInv'
  BY <1>1 DEF CarInv, CountInv, AjxSession
<1> QED BY <1>4, <1>5, <1>6, <1>7 DEF CarInv
\* 22 and 23 queue the one session item and wait for it.
LEMMA AjxStartStep ==
    ASSUME CarInv, AjxOn \/ AjxOff
    PROVE  CarInv'
<1>1. /\ audpc = "idle" /\ carpc' = carpc
      /\ power_refcnt' = power_refcnt /\ power_on' = power_on
      /\ audio_active' = audio_active /\ codec' = codec
  BY DEF AjxOn, AjxOff, AudioTake, AudioGoto, sessions, sound
<1>2. /\ ~Waits(carq, {29}) /\ ~Waits(carq, {30})
      /\ carpc \notin {"on", "off"}
      /\ carq \in Seq(CarItems) /\ OneSession(carq)
  BY <1>1 DEF CarInv, Places, Awaited
<1>3. \/ /\ ajx_active /\ ajx_active' = TRUE
         /\ carq' = carq /\ audpc' = "idle"
      \/ /\ ~ajx_active /\ ajx_active' = FALSE
         /\ carq' = Append(carq, Item(29, 0)) /\ audpc' = "begin"
      \/ /\ ajx_active /\ ajx_active' = FALSE
         /\ carq' = Append(carq, Item(30, 0)) /\ audpc' = "end"
      \/ /\ ~ajx_active /\ ajx_active' = FALSE
         /\ carq' = carq /\ audpc' = "idle"
  BY DEF CarInv, Places, AjxOn, AjxOff, AjxHeld, AudioGoto, car_add_work, sound
<1>4. ASSUME NEW c \in {29, 30}, carq' = Append(carq, Item(c, 0))
      PROVE  /\ carq' \in Seq(CarItems) /\ OneSession(carq')
             /\ Waits(carq', {29}) <=> c = 29
             /\ Waits(carq', {30}) <=> c = 30
  <2>1. Item(c, 0) \in CarItems /\ Item(c, 0).cmd = c
    BY DEF Item, CarItems
  <2>2. OneSession(carq')
    BY <1>2, <1>4, <2>1, AppendOne
  <2> QED BY <1>2, <1>4, <2>1, <2>2, AppendWaits
<1>5. CodecInv'
  <2>1. ~Inside /\ ~Inside'
    BY <1>1, <1>2, <1>3 DEF Inside
  <2> QED BY <1>1, <2>1 DEF CarInv, CodecInv
<1>6. CASE carq' = carq /\ audpc' = "idle" /\ ajx_active' = ajx_active
  <2>1. Places'
    BY <1>1, <1>6 DEF CarInv, Places
  <2>2. Awaited' /\ CountInv'
    BY <1>1, <1>2, <1>6 DEF CarInv, Awaited, CountInv, AjxSession
  <2> QED BY <1>5, <2>1, <2>2 DEF CarInv
<1>7. CASE /\ ~ajx_active /\ ajx_active' = FALSE
           /\ carq' = Append(carq, Item(29, 0)) /\ audpc' = "begin"
  <2>1. Places'
    BY <1>1, <1>4, <1>7 DEF CarInv, Places, AudioPlaces
  <2>2. Awaited'
    BY <1>1, <1>2, <1>4, <1>7 DEF Awaited
  <2>3. CountInv'
    BY <1>1, <1>7 DEF CarInv, Places, CountInv, AjxSession
  <2> QED BY <1>5, <2>1, <2>2, <2>3 DEF CarInv
<1>8. CASE /\ ajx_active /\ ajx_active' = FALSE
           /\ carq' = Append(carq, Item(30, 0)) /\ audpc' = "end"
  <2>1. Places'
    BY <1>1, <1>4, <1>8 DEF CarInv, Places, AudioPlaces
  <2>2. Awaited'
    BY <1>1, <1>2, <1>4, <1>8 DEF Awaited
  <2>3. CountInv'
    <3>1. Waits(carq', {30})
      BY <1>4, <1>8
    <3> QED BY <1>1, <1>8, <3>1 DEF CarInv, Places, CountInv, AjxSession
  <2> QED BY <1>5, <2>1, <2>2, <2>3 DEF CarInv
<1> QED BY <1>3, <1>6, <1>7, <1>8 DEF CarInv, Places

\* The flush returns when the session item is done, not before.
LEMMA AjxFlushedStep ==
    ASSUME CarInv, AjxFlushed
    PROVE  CarInv'
<1>1. /\ audpc \in {"begin", "end"} /\ audpc' = "idle"
      /\ carpc' = carpc /\ carq' = carq
      /\ power_refcnt' = power_refcnt /\ power_on' = power_on
      /\ audio_active' = audio_active /\ codec' = codec
      /\ ajx_active' = (audpc = "begin")
  BY DEF AjxFlushed, AudioGoto, queues, sessions
<1>2. /\ ~Waits(carq, {29}) /\ ~Waits(carq, {30})
      /\ carpc \notin {"on", "off"}
  BY DEF AjxFlushed, Flushed, Waits
<1>3. Places'
  <2>1. /\ carq' \in Seq(CarItems) /\ carpc' \in CarPlaces
        /\ audpc' \in AudioPlaces
    BY <1>1 DEF CarInv, Places, AudioPlaces
  <2>2. ajx_active' \in BOOLEAN
    BY <1>1
  <2> QED BY <1>1, <2>1, <2>2 DEF CarInv, Places
<1>4. Awaited'
  BY <1>1, <1>2 DEF CarInv, Awaited
<1>5. CodecInv'
  <2>1. ~Inside /\ ~Inside'
    BY <1>1, <1>2 DEF Inside
  <2> QED BY <1>1, <2>1 DEF CarInv, CodecInv
<1>6. CountInv'
  <2>1. CASE audpc = "begin"
    BY <1>1, <2>1 DEF CarInv, CountInv, AjxSession
  <2>2. CASE audpc = "end"
    BY <1>1, <1>2, <2>2 DEF CarInv, CountInv, AjxSession
  <2> QED BY <1>1, <2>1, <2>2
<1> QED BY <1>3, <1>4, <1>5, <1>6 DEF CarInv

-----------------------------------------------------------------------------
(* The invariant and the theorems.                                         *)

\* After car_probe nothing is queued and the sound is off.
LEMMA CarInitHolds == Init => CarInv
<1> SUFFICES ASSUME Init PROVE CarInv
  OBVIOUS
<1>1. /\ carq = <<>> /\ carpc = "idle" /\ audpc = "idle"
      /\ power_refcnt \in 0..255 /\ power_on = power_refcnt
      /\ ajx_active = FALSE /\ audio_active = FALSE /\ codec = FALSE
  BY CarAssumption DEF Init
<1>2. Places
  <2>1. carq \in Seq(CarItems)
    BY <1>1, EmptySeq
  <2>2. ajx_active \in BOOLEAN /\ audio_active \in BOOLEAN /\ codec \in BOOLEAN
    BY <1>1
  <2> QED BY <1>1, <2>1, <2>2 DEF Places, CarPlaces, AudioPlaces
<1>3. Awaited /\ CodecInv
  BY <1>1 DEF Awaited, OneSession, Waits, CodecInv, Inside
<1>4. CountInv
  BY <1>1 DEF CountInv, AjxSession
<1> QED BY <1>2, <1>3, <1>4 DEF CarInv

\* Every action of car_work, audio_work, capture_work, the MCU link and the
\* ioctl handler keeps the invariant.
LEMMA CarNextStep == CarInv /\ [Next]_vars => CarInv'
<1> SUFFICES ASSUME CarInv, [Next]_vars PROVE CarInv'
  OBVIOUS
<1>1. ASSUME NEW m \in McuCommands, process_mcu_command(m) PROVE CarInv'
  BY <1>1, McuHarmless, HarmlessStep
<1>2. ASSUME NEW r \in Ioctls, car_ioctl(r) PROVE CarInv'
  BY <1>2, IoctlHarmless, HarmlessStep
<1>3. CASE \/ IoctlReturns \/ CarFlushed \/ Waited
           \/ AskAndroid \/ SoftOff \/ PowerOnBack
  BY <1>3, ReturnHarmless, HarmlessStep
<1>4. CASE \/ CameraItem \/ BootComplete \/ BootAndroid \/ SourceKey
           \/ PowerOn \/ PowerOff \/ AccOff
  BY <1>4, ItemHarmless, HarmlessStep
<1>5. CASE \/ \E r \in AppRequests : AppRequest(r)
           \/ capture_work \/ CaptureCheck \/ AudioEnter
           \/ UNCHANGED vars
  BY <1>5, CaptureHarmless, HarmlessStep
<1>6. CASE SessionBegins \/ SessionEnds \/ CarActiveEnds
  BY <1>6, SessionBeginsStep, SessionEndsStep, CarActiveEndsStep
<1>7. CASE AudioOn \/ AudioOff \/ AudioActiveEnds
  BY <1>7, AudioSwitchStep, AudioActiveEndsStep
<1>8. CASE AjxOn \/ AjxOff \/ AjxFlushed
  BY <1>8, AjxStartStep, AjxFlushedStep
<1> QED BY <1>1, <1>2, <1>3, <1>4, <1>5, <1>6, <1>7, <1>8
        DEF Next, car_work, audio_work

\* The invariant holds in every state of the queues and threads.
THEOREM CarInvariance == Spec => []CarInv
BY CarInitHolds, CarNextStep, PTL DEF Spec

\* car_work and audio_work are never both inside audio_active or
\* audio_deactive, which test a flag and sleep with no lock in common.
THEOREM SoundExclusive == Spec => []NoOverlap
<1>1. CarInv => NoOverlap
  BY DEF CarInv, Awaited, NoOverlap
<1> QED BY <1>1, CarInvariance, PTL

\* Between those calls the codec is powered if and only if the flag is set.
THEOREM CodecCorrect == Spec => []CodecFollowsFlag
<1>1. CarInv => CodecFollowsFlag
  <2> SUFFICES ASSUME CarInv, ~Inside PROVE codec = audio_active
    BY DEF Inside, CodecFollowsFlag
  <2>1. codec <=> audio_active
    BY DEF CarInv, CodecInv
  <2>2. codec \in BOOLEAN /\ audio_active \in BOOLEAN
    BY DEF CarInv, Places
  <2> QED BY <2>1, <2>2
<1> QED BY <1>1, CarInvariance, PTL

\* power_refcnt never exceeds the power of the car plus one AJX session, for
\* every command of the MCU, every length of the queues and whatever car_probe
\* left in it.
THEOREM CountCorrect == Spec => []SessionsCounted
<1>1. CarInv => SessionsCounted
  BY DEF CarInv, Places, CountInv, SessionsCounted
<1> QED BY <1>1, CarInvariance, PTL
=============================================================================
