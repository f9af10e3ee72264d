--------------------------- MODULE VsPort_proofs ---------------------------
(***************************************************************************)
(* The safety of the virtual serial port, for every set of drivers, of     *)
(* frames and every bound.                                                 *)
(*                                                                         *)
(* The inductive invariant follows the end of the line: inside a frame the *)
(* last byte is the one before the holder's, and between two frames the    *)
(* line ends with a frame that was passed on, or the port has cut it and   *)
(* nobody is about to write.                                               *)
(***************************************************************************)
EXTENDS VsPort, TLAPS

\* The thread that has the lock, and only that one, is inside.
Outside(s) == pc[s] \in {"idle", "lock"}
LockInv ==
    /\ \A s \in Senders : Outside(s) \/ holder = s
    /\ holder # Nobody => ~Outside(holder)
    /\ \A s \in Senders : Outside(s) => pos[s] = 0

\* After the late byte nobody is about to write another one.
NoneAtPut == \A s \in Senders : pc[s] # "put"
LateInv   == late \in {0, 1} /\ (late = 1 /\ ~vs_rx => NoneAtPut)

\* Inside a frame the line ends with the byte before.
LastByte == line[Len(line)]
WithinInv ==
    \A s \in Senders :
        /\ pc[s] \in {"look", "put"} /\ pos[s] > 0 /\ line # <<>> =>
              LastByte.by = s /\ LastByte.at = pos[s] - 1 /\ LastByte.of = size[s]
        /\ pc[s] = "flip" /\ line # <<>> =>
              LastByte.by = s /\ LastByte.at = pos[s] /\ LastByte.of = size[s]

\* Between two frames the last one has ended and was passed on, or was cut.
Between == \/ holder = Nobody
           \/ pc[holder] \in {"nothing", "out"}
           \/ pc[holder] \in {"look", "put"} /\ pos[holder] = 0
Cut     == early \/ (~vs_rx /\ NoneAtPut)
Closed  == pushed = Len(line) /\ (line # <<>> => Ends(LastByte))
SeamInv == Between => Cut \/ Closed

IInv == TypeOK /\ LockInv /\ LateInv /\ WithinInv /\ SeamInv /\ FramesWhole

\* What the control of one thread needs of its types.
LEMMA ThreadFacts ==
    ASSUME IInv, NEW s \in Senders
    PROVE  /\ pos[s] \in Nat /\ size[s] \in Nat
           /\ pc[s] \in {"look", "put", "flip"} =>
                 size[s] \in Sizes /\ pos[s] < size[s]
           /\ s # Nobody /\ Len(line) \in Nat
<1>1. pos[s] \in Nat /\ size[s] \in Sizes \cup {0} /\ line \in Seq(Bytes)
  BY DEF IInv, TypeOK
<1>2. pc[s] \in {"look", "put", "flip"} => pos[s] < size[s]
  BY DEF IInv, TypeOK
<1>3. size[s] \in Nat /\ (size[s] # 0 => size[s] \in Sizes)
  <2>1. \A n \in Sizes : n \in Nat
    BY VsAssumption
  <2> QED
    BY <1>1, <2>1
<1>4. s # Nobody
  BY VsAssumption
<1>5. Len(line) \in Nat
  BY <1>1
<1> QED
  BY <1>1, <1>2, <1>3, <1>4, <1>5

\* The thread that is inside has the lock, and no other is inside.
LEMMA Alone ==
    ASSUME IInv, NEW s \in Senders, ~Outside(s)
    PROVE  holder = s /\ \A t \in Senders : t # s => Outside(t)
  BY DEF IInv, LockInv

\* Nothing is written, nobody is inside.
LEMMA InitInv == ASSUME Init PROVE IInv
<1>1. TypeOK
  <2>1. line \in Seq(Bytes) /\ Len(line) = 0
    BY DEF Init
  <2>2. size \in [Senders -> Sizes \cup {0}] /\ pos \in [Senders -> Nat]
    BY DEF Init
  <2>3. /\ pc \in [Senders -> {"idle", "lock", "nothing", "look", "put",
                               "flip", "out", "oops"}]
        /\ \A s \in Senders : pc[s] = "idle"
    BY DEF Init
  <2>4. /\ early \in BOOLEAN /\ call_active \in BOOLEAN
        /\ holder \in Senders \cup {Nobody}
        /\ port \in {"closed", "attached", "open", "stopped"}
    BY DEF Init
  <2>5. pushed = 0 /\ late = 0
    BY DEF Init
  <2>6. pushed \in 0..Len(line) /\ late \in Nat
    BY <2>1, <2>5
  <2>7. vs_rx \in BOOLEAN /\ port_disabled \in BOOLEAN
    BY DEF Init
  <2>8. \A s \in Senders :
           pc[s] \in {"look", "put", "flip"} => pos[s] < size[s]
    BY <2>3
  <2> QED
    BY <2>1, <2>2, <2>3, <2>4, <2>6, <2>7, <2>8 DEF TypeOK
<1>2. LockInv /\ LateInv /\ WithinInv
  BY DEF Init, LockInv, Outside, LateInv, WithinInv
<1>3. SeamInv /\ FramesWhole
  BY DEF Init, SeamInv, Closed, FramesWhole
<1> QED
  BY <1>1, <1>2, <1>3 DEF IInv

\* A thread at the door or at the lock.
LEMMA CallInv ==
    ASSUME IInv, NEW s \in Senders, NEW n \in Sizes, Call(s, n) PROVE IInv'
<1> USE DEF Call, Goto, tty
<1>1. TypeOK'
  BY DEF IInv, TypeOK, Bytes
<1>2. LockInv' /\ LateInv'
  BY DEF IInv, TypeOK, LockInv, Outside, LateInv, NoneAtPut
<1>3. WithinInv'
  BY DEF IInv, TypeOK, WithinInv, LastByte
<1>4. SeamInv' /\ FramesWhole'
  <2>1. holder # s
    BY VsAssumption DEF IInv, LockInv, Outside
  <2>2. Between' => Between
    BY <2>1 DEF Between, IInv, TypeOK
  <2>3. Cut => Cut'
    BY DEF Cut, NoneAtPut, IInv, TypeOK
  <2> QED
    BY <2>2, <2>3 DEF IInv, SeamInv, Closed, LastByte, FramesWhole
<1> QED
  BY <1>1, <1>2, <1>3, <1>4 DEF IInv

LEMMA MutexLockInv ==
    ASSUME IInv, NEW s \in Senders, MutexLock(s) PROVE IInv'
<1> USE ThreadFacts DEF MutexLock, Goto, tty, Free
<1>1. TypeOK'
  BY DEF IInv, TypeOK, LockInv, Outside, Bytes
<1>2. LockInv' /\ LateInv'
  BY DEF IInv, TypeOK, LockInv, Outside, LateInv, NoneAtPut
<1>3. WithinInv'
  BY DEF IInv, TypeOK, WithinInv, LastByte, LockInv, Outside
<1>4. SeamInv' /\ FramesWhole'
  <2>1. Between
    BY DEF Between
  <2>2. Cut => Cut'
    BY DEF Cut, NoneAtPut, IInv, TypeOK
  <2> QED
    BY <2>1, <2>2 DEF IInv, SeamInv, Closed, LastByte, FramesWhole
<1> QED
  BY <1>1, <1>2, <1>3, <1>4 DEF IInv

\* A raw frame of nothing.
LEMMA NothingInv ==
    ASSUME IInv, NEW s \in Senders, Nothing(s) PROVE IInv'
<1> USE ThreadFacts DEF Nothing, Goto
<1>1. TypeOK'
  <2>1. pushed \in 0..Len(line) /\ pushed' \in 0..Len(line)
    BY DEF IInv, TypeOK
  <2>3. pc' = [pc EXCEPT ![s] = "out"] \/ pc' = [pc EXCEPT ![s] = "oops"]
    OBVIOUS
  <2>4. pc' \in [Senders -> {"idle", "lock", "nothing", "look", "put",
                             "flip", "out", "oops"}]
    BY <2>3 DEF IInv, TypeOK
  <2>5. \A t \in Senders :
           pc'[t] \in {"look", "put", "flip"} => pos[t] < size[t]
    BY <2>3 DEF IInv, TypeOK
  <2> QED
    BY <2>1, <2>4, <2>5 DEF IInv, TypeOK
<1>2. LockInv' /\ LateInv'
  BY DEF IInv, TypeOK, LockInv, Outside, LateInv, NoneAtPut
<1>3. WithinInv'
  BY DEF IInv, TypeOK, WithinInv, LastByte
<1>4. SeamInv' /\ FramesWhole'
  <2>1. holder = s /\ Between
    BY Alone DEF Outside, Between
  <2>2. Cut => Cut'
    BY DEF Cut, NoneAtPut, IInv, TypeOK
  <2>3. Closed => Closed'
    BY DEF Closed, LastByte
  <2> QED
    BY <2>1, <2>2, <2>3 DEF IInv, SeamInv, FramesWhole
<1> QED
  BY <1>1, <1>2, <1>3, <1>4 DEF IInv

\* A look at vs_rx: a frame goes on or is cut.
LEMMA LookInv ==
    ASSUME IInv, NEW s \in Senders, Look(s) PROVE IInv'
<1> USE ThreadFacts DEF Look, Goto, CutTo, tty
<1>1. TypeOK'
  BY DEF IInv, TypeOK, Bytes
<1>2. LockInv' /\ LateInv'
  BY DEF IInv, TypeOK, LockInv, Outside, LateInv, NoneAtPut
<1>3. WithinInv'
  BY DEF IInv, TypeOK, WithinInv, LastByte
<1>4. SeamInv' /\ FramesWhole'
  <2>1. holder = s /\ \A t \in Senders : pc[t] # "put"
    BY Alone DEF Outside
  <2>2. CASE vs_rx
    <3>1. Between' => Between
      BY <2>1, <2>2 DEF Between, IInv, TypeOK
    <3>2. Cut => Cut'
      BY <2>2 DEF Cut, IInv, TypeOK
    <3> QED
      BY <3>1, <3>2 DEF IInv, SeamInv, Closed, LastByte, FramesWhole
  <2>3. CASE ~vs_rx
    <3>1. Cut'
      BY <2>1, <2>3 DEF Cut, NoneAtPut, IInv, TypeOK
    <3> QED
      BY <3>1 DEF IInv, SeamInv, FramesWhole
  <2> QED
    BY <2>2, <2>3
<1> QED
  BY <1>1, <1>2, <1>3, <1>4 DEF IInv
\* A byte goes to the tty.
LEMMA PutInv ==
    ASSUME IInv, NEW s \in Senders, Put(s) PROVE IInv'
<1>1. /\ pc[s] = "put" /\ holder = s /\ pos[s] \in Nat /\ size[s] \in Sizes
      /\ size[s] \in Nat /\ pos[s] < size[s] /\ s # Nobody
      /\ \A t \in Senders : t # s => Outside(t)
  BY ThreadFacts, Alone DEF Put, Outside
<1>2. /\ line \in Seq(Bytes) /\ Byte(s) \in Bytes /\ Len(line) \in Nat
      /\ line' = Append(line, Byte(s))
  BY <1>1 DEF IInv, TypeOK, Bytes, Byte, Put
<1>3. /\ line' \in Seq(Bytes) /\ Len(line') = Len(line) + 1 /\ line' # <<>>
      /\ \A n \in 1..Len(line) : line'[n] = line[n]
      /\ LastByte' = Byte(s)
  BY <1>2 DEF LastByte
<1>4. \/ /\ pc' = [pc EXCEPT ![s] = "flip"] /\ pos' = pos
      \/ /\ pc' = [pc EXCEPT ![s] = "look"] /\ pos[s] + 1 < size[s]
         /\ pos' = [pos EXCEPT ![s] = @ + 1]
  BY <1>1 DEF Put, Flips, NextByte, Goto
<1>5. UNCHANGED <<call_active, vs_rx, port_disabled, port, holder, size, pushed,
                  early>>
  BY DEF Put
<1>6. /\ pc \in [Senders -> {"idle", "lock", "nothing", "look", "put", "flip",
                             "out", "oops"}]
      /\ pos \in [Senders -> Nat]
  BY DEF IInv, TypeOK
<1>7. late' \in {0, 1} /\ \A t \in Senders : pc'[t] # "put"
  BY <1>1, <1>4, <1>6 DEF Put, IInv, LateInv, NoneAtPut, Outside
<1>8. TypeOK'
  <2>1. pc' \in [Senders -> {"idle", "lock", "nothing", "look", "put", "flip",
                             "out", "oops"}]
    BY <1>4, <1>6
  <2>2. pos' \in [Senders -> Nat]
    BY <1>1, <1>4, <1>6
  <2>3. \A t \in Senders :
           pc'[t] \in {"look", "put", "flip"} => pos'[t] < size[t]
    BY <1>1, <1>4, <1>6 DEF Outside
  <2>4. pushed \in 0..Len(line')
    BY <1>2, <1>3 DEF IInv, TypeOK
  <2> QED
    BY <1>3, <1>5, <1>7, <2>1, <2>2, <2>3, <2>4 DEF IInv, TypeOK
<1>9. LockInv'
  BY <1>1, <1>4, <1>5, <1>6 DEF IInv, LockInv, Outside
<1>10. WithinInv'
  <2>1. \A t \in Senders : t # s => pc'[t] \in {"idle", "lock"}
    BY <1>1, <1>4, <1>6 DEF Outside
  <2>2. \/ pc'[s] = "flip" /\ pos'[s] = pos[s]
        \/ pc'[s] = "look" /\ pos'[s] = pos[s] + 1
    BY <1>4, <1>6
  <2>3. Byte(s).by = s /\ Byte(s).at = pos[s] /\ Byte(s).of = size'[s]
    BY <1>5 DEF Byte
  <2> QED
    BY <1>1, <1>3, <2>1, <2>2, <2>3 DEF WithinInv
<1>11. SeamInv'
  <2>1. \/ pc'[s] = "flip"
        \/ pc'[s] = "look" /\ pos'[s] = pos[s] + 1
    BY <1>4, <1>6
  <2> QED
    BY <1>1, <1>5, <2>1 DEF SeamInv, Between
<1>12. FramesWhole'
  <2>1. ASSUME Len(line) > 0
        PROVE  \/ Follows(Byte(s), LastByte)
               \/ Byte(s).at = 0 /\ (Ends(LastByte) \/ early)
    <3>1. line # <<>>
      BY <2>1
    <3>2. CASE pos[s] > 0
      BY <1>1, <3>1, <3>2 DEF IInv, WithinInv, Follows, Byte, Bytes, LastByte
    <3>3. CASE pos[s] = 0
      BY <1>1, <3>1, <3>3 DEF IInv, SeamInv, Between, Cut, Closed, NoneAtPut,
         Byte
    <3> QED
      BY <1>1, <3>2, <3>3
  <2> SUFFICES ASSUME NEW n \in 2..Len(line')
               PROVE  \/ Follows(line'[n], line'[n - 1])
                      \/ line'[n].at = 0 /\ (Ends(line'[n - 1]) \/ early')
    BY DEF FramesWhole, Follows, Ends
  <2>2. CASE n \in 2..Len(line)
    <3>1. line'[n] = line[n] /\ line'[n - 1] = line[n - 1]
      BY <1>2, <1>3, <2>2
    <3> QED
      BY <1>5, <2>2, <3>1 DEF IInv, FramesWhole
  <2>3. CASE n = Len(line) + 1
    <3>1. Len(line) > 0 /\ line'[n] = Byte(s) /\ line'[n - 1] = LastByte
      BY <1>2, <1>3, <2>3 DEF LastByte
    <3> QED
      BY <1>5, <2>1, <3>1
  <2> QED
    BY <1>2, <1>3, <2>2, <2>3
<1>13. LateInv'
  BY <1>7 DEF LateInv, NoneAtPut
<1> QED
  BY <1>8, <1>9, <1>10, <1>11, <1>12, <1>13 DEF IInv

\* What came is passed on.
LEMMA FlipInv ==
    ASSUME IInv, NEW s \in Senders, Flip(s) PROVE IInv'
<1>1. /\ pc[s] = "flip" /\ holder = s /\ pos[s] \in Nat /\ size[s] \in Nat
      /\ pos[s] < size[s] /\ s # Nobody
      /\ \A t \in Senders : t # s => Outside(t)
  BY ThreadFacts, Alone DEF Flip, Outside
<1>2. \/ /\ pc' = [pc EXCEPT ![s] = "out"] /\ pos' = pos
         /\ pos[s] + 1 = size[s]
      \/ /\ pc' = [pc EXCEPT ![s] = "look"] /\ pos[s] + 1 < size[s]
         /\ pos' = [pos EXCEPT ![s] = @ + 1]
  BY <1>1 DEF Flip, NextByte, Goto
<1>3. /\ UNCHANGED <<call_active, vs_rx, port_disabled, port, holder, size, line,
                     late, early>>
      /\ pushed' = Len(line)
  BY DEF Flip
<1>4. /\ pc \in [Senders -> {"idle", "lock", "nothing", "look", "put", "flip",
                             "out", "oops"}]
      /\ pos \in [Senders -> Nat] /\ Len(line) \in Nat
  BY DEF IInv, TypeOK
<1>5. TypeOK'
  <2>1. pc' \in [Senders -> {"idle", "lock", "nothing", "look", "put", "flip",
                             "out", "oops"}]
    BY <1>2, <1>4
  <2>2. pos' \in [Senders -> Nat]
    BY <1>1, <1>2, <1>4
  <2>3. \A t \in Senders :
           pc'[t] \in {"look", "put", "flip"} => pos'[t] < size[t]
    BY <1>1, <1>2, <1>4 DEF Outside
  <2> QED
    BY <1>3, <1>4, <2>1, <2>2, <2>3 DEF IInv, TypeOK
<1>6. LockInv' /\ LateInv'
  BY <1>1, <1>2, <1>3, <1>4 DEF IInv, LockInv, Outside, LateInv, NoneAtPut
<1>7. line # <<>> =>
         LastByte.by = s /\ LastByte.at = pos[s] /\ LastByte.of = size[s]
  BY <1>1 DEF IInv, WithinInv
<1>8. WithinInv'
  <2>1. \A t \in Senders : t # s => pc'[t] \in {"idle", "lock"}
    BY <1>1, <1>2, <1>4 DEF Outside
  <2>2. pc'[s] = "out" \/ (pc'[s] = "look" /\ pos'[s] = pos[s] + 1)
    BY <1>2, <1>4
  <2>3. LastByte' = LastByte
    BY <1>3 DEF LastByte
  <2> QED
    BY <1>1, <1>3, <1>7, <2>1, <2>2, <2>3 DEF WithinInv
<1>9. SeamInv'
  <2>1. \/ pc'[s] = "out" /\ pos[s] + 1 = size[s]
        \/ pc'[s] = "look" /\ pos'[s] = pos[s] + 1
    BY <1>2, <1>4
  <2>2. CASE pc'[s] = "out" /\ pos[s] + 1 = size[s]
    <3>1. Closed'
      BY <1>3, <1>7, <2>2 DEF Closed, LastByte, Ends
    <3> QED
      BY <3>1 DEF SeamInv
  <2>3. CASE pc'[s] = "look" /\ pos'[s] = pos[s] + 1
    BY <1>1, <1>3, <2>3 DEF SeamInv, Between
  <2> QED
    BY <2>1, <2>2, <2>3
<1>10. FramesWhole'
  BY <1>3 DEF IInv, FramesWhole
<1> QED
  BY <1>5, <1>6, <1>8, <1>9, <1>10 DEF IInv

\* The tty is gone.
LEMMA OopsInv ==
    ASSUME IInv, NEW s \in Senders, Oops(s) PROVE IInv'
<1> USE ThreadFacts DEF Oops, Goto, tty
<1>1. TypeOK'
  BY DEF IInv, TypeOK, Bytes
<1>2. LockInv' /\ LateInv'
  BY DEF IInv, TypeOK, LockInv, Outside, LateInv, NoneAtPut
<1>3. WithinInv'
  BY DEF IInv, TypeOK, WithinInv, LastByte
<1>4. SeamInv' /\ FramesWhole'
  <2>1. holder = s /\ ~Between'
    BY Alone DEF Outside, Between, IInv, TypeOK
  <2> QED
    BY <2>1 DEF IInv, SeamInv, FramesWhole
<1> QED
  BY <1>1, <1>2, <1>3, <1>4 DEF IInv

\* The end of a call.
LEMMA MutexUnlockInv ==
    ASSUME IInv, NEW s \in Senders, MutexUnlock(s) PROVE IInv'
<1> USE ThreadFacts DEF MutexUnlock, Goto, GivesBack, tty
<1>1. TypeOK'
  BY DEF IInv, TypeOK, Bytes
<1>2. holder = s /\ \A t \in Senders : t # s => Outside(t)
  BY Alone DEF Outside
<1>3. LockInv' /\ LateInv'
  BY <1>2 DEF IInv, TypeOK, LockInv, Outside, LateInv, NoneAtPut
<1>4. WithinInv'
  BY <1>2 DEF IInv, TypeOK, WithinInv, LastByte, Outside
<1>5. SeamInv' /\ FramesWhole'
  <2>1. Between
    BY <1>2 DEF Between
  <2>2. Cut => Cut'
    BY DEF Cut, NoneAtPut, IInv, TypeOK
  <2> QED
    BY <2>1, <2>2 DEF IInv, SeamInv, Closed, LastByte, FramesWhole
<1> QED
  BY <1>1, <1>3, <1>4, <1>5 DEF IInv

\* The opening and the closing, which no driver sees.
LEMMA OpeningInv ==
    ASSUME IInv, Attach \/ vs_startup \/ vs_stop_rx \/ BootAndroid PROVE IInv'
<1>1. /\ UNCHANGED <<calls, line, pushed>>
      /\ LastByte' = LastByte /\ (NoneAtPut' <=> NoneAtPut)
      /\ (Between' <=> Between) /\ (Closed' <=> Closed)
  BY DEF Attach, vs_startup, vs_stop_rx, BootAndroid, tty, calls, LastByte,
     NoneAtPut, Between, Closed
<1>2. TypeOK'
  <2>1. /\ call_active' \in BOOLEAN /\ vs_rx' \in BOOLEAN
        /\ port_disabled' = port_disabled /\ early' \in BOOLEAN
        /\ port' \in {"closed", "attached", "open", "stopped"}
    BY DEF IInv, TypeOK, Attach, vs_startup, vs_stop_rx, BootAndroid, tty
  <2>2. late' = late \/ late' = 0
    BY DEF Attach, vs_startup, vs_stop_rx, BootAndroid, tty
  <2>3. late' \in Nat
    BY <2>2 DEF IInv, TypeOK
  <2> QED
    BY <1>1, <2>1, <2>3 DEF IInv, TypeOK, calls
<1>3. LockInv' /\ WithinInv'
  BY <1>1 DEF IInv, LockInv, Outside, WithinInv, calls
<1>4. /\ line # <<>> /\ early => early'
      /\ late' = 0 \/ (late' = late /\ (vs_rx => vs_rx'))
      /\ \/ ~vs_rx' \/ vs_rx' = vs_rx
         \/ line # <<>> => early'
  BY DEF Attach, vs_startup, vs_stop_rx, BootAndroid, tty, IInv, TypeOK
<1>5. LateInv'
  BY <1>1, <1>4 DEF IInv, LateInv, TypeOK
<1>6. SeamInv'
  <2>1. CASE line = <<>>
    <3>1. Closed'
      BY <1>1, <2>1 DEF Closed, IInv, TypeOK
    <3> QED
      BY <3>1 DEF SeamInv
  <2>2. CASE line # <<>>
    BY <1>1, <1>4, <2>2 DEF IInv, SeamInv, Cut, TypeOK
  <2> QED
    BY <2>1, <2>2
<1>7. FramesWhole'
  BY <1>1, <1>4 DEF IInv, FramesWhole, TypeOK
<1> QED
  BY <1>2, <1>3, <1>5, <1>6, <1>7 DEF IInv

LEMMA DetachInv == ASSUME IInv, Detach PROVE IInv'
<1>1. line' = <<>> /\ pushed' = 0 /\ early' = FALSE /\ Len(line') = 0
  BY DEF Detach
<1>2. TypeOK'
  <2>1. line' \in Seq(Bytes)
    BY <1>1
  <2>2. pushed' \in 0..Len(line')
    BY <1>1
  <2>3. /\ UNCHANGED <<call_active, vs_rx, port_disabled, holder, pc, size, pos,
                        late>>
        /\ port' = "closed"
    BY DEF Detach, calls
  <2> QED
    BY <1>1, <2>1, <2>2, <2>3 DEF IInv, TypeOK
<1>3. LockInv' /\ LateInv'
  BY DEF IInv, LockInv, Outside, LateInv, NoneAtPut, Detach, calls
<1>4. WithinInv' /\ SeamInv' /\ FramesWhole'
  BY <1>1 DEF WithinInv, SeamInv, Closed, FramesWhole
<1> QED
  BY <1>2, <1>3, <1>4 DEF IInv

\* A step that changes nothing.
LEMMA StutterInv == ASSUME IInv, UNCHANGED vars PROVE IInv'
  BY DEF vars, calls, tty, IInv, TypeOK, LockInv, Outside, LateInv, NoneAtPut,
     WithinInv, LastByte, SeamInv, Between, Cut, Closed, FramesWhole

\* Every state of the port satisfies the inductive invariant.
THEOREM PortInvariant == Spec => []IInv
<1>1. Init => IInv
  BY InitInv
<1>2. IInv /\ [Next]_vars => IInv'
  BY CallInv, MutexLockInv, NothingInv, LookInv, PutInv, FlipInv, OopsInv,
     MutexUnlockInv, OpeningInv, DetachInv, StutterInv DEF Next, vs_send
<1> QED
  BY <1>1, <1>2, PTL DEF Spec

\* Every variable stays in its range, and a call of vs_send within its frame,
\* for every set of drivers and of frames.
THEOREM PortTypes == Spec => []TypeOK
<1>1. IInv => TypeOK
  BY DEF IInv
<1> QED
  BY <1>1, PortInvariant, PTL

\* What Android reads is one frame after the other, however the port is closed
\* and opened while vs_send writes.
THEOREM PortFrames == Spec => []FramesWhole
<1>1. IInv => FramesWhole
  BY DEF IInv
<1> QED
  BY <1>1, PortInvariant, PTL

\* While the port receives and nobody writes, every frame has ended and was
\* passed on by the last flip of vs_send.
THEOREM PortDelivers == Spec => []Delivered
<1>1. IInv => Delivered
  BY DEF IInv, SeamInv, Between, Cut, Closed, LastByte, Delivered
<1> QED
  BY <1>1, PortInvariant, PTL

\* After vs_stop_rx at most one byte comes, whoever was writing.
THEOREM PortLate == Spec => []LateByte
<1>1. IInv => LateByte
  BY DEF IInv, LateInv, LateByte
<1> QED
  BY <1>1, PortInvariant, PTL
============================================================================
