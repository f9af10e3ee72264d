------------------------------- MODULE VsPort -------------------------------
(***************************************************************************)
(* One virtual serial port to Android (vs.c): the drivers write frames     *)
(* into its receive side, an application opens and closes it.              *)
(*                                                                         *)
(* vs_send and vs_send_raw look at vs_rx at their door, take the lock and  *)
(* look at vs_rx again before every byte; the port is closed without that  *)
(* lock.  What a frame carries is left out: a byte is its place in its     *)
(* frame.  The memory of a frame is never refused.                         *)
(*                                                                         *)
(* The serial core and the tty are external: an opening attaches a fresh   *)
(* tty and starts the port, a closing stops the port and then drops the    *)
(* tty; a flip passes on whatever the tty holds.  vs_work, the way to the  *)
(* drivers, carries nothing and is left out.                               *)
(***************************************************************************)
EXTENDS Integers, Sequences

CONSTANTS
    Senders,    \* the threads of the drivers
    Nobody,     \* holds the lock when it is free
    Sizes,      \* the lengths of the frames, 0: vs_send_raw of nothing
    LineMax     \* bound: no call begins if its frame goes beyond

ASSUME VsAssumption ==
    Nobody \notin Senders /\ Sizes \subseteq Nat /\ LineMax \in Nat

VARIABLES
    call_active,    \* Android is up
    vs_rx,          \* the port receives
    port_disabled,
    port,           \* the opening: where the serial core is
    holder,         \* of the lock
    pc,
    size, pos,      \* of the call: its frame and the byte it is at
    line,           \* history: the bytes given to this tty
    pushed,         \* how many of them were passed on
    late,           \* history: how many came after the port was stopped
    early           \* history: this tty had bytes before its port was started

calls == <<holder, pc, size, pos>>
tty   == <<line, pushed, late, early>>
vars  == <<call_active, vs_rx, port_disabled, port, calls, tty>>

Attached == port # "closed"
Byte(s)  == [by |-> s, at |-> pos[s], of |-> size[s]]

Goto(s, to) == pc' = [pc EXCEPT ![s] = to]

-----------------------------------------------------------------------------
(* vs_send and vs_send_raw.                                                *)

\* The door, without the lock.
Call(s, n) ==
    /\ pc[s] = "idle" /\ Len(line) + n <= LineMax
    /\ call_active /\ vs_rx
    /\ Goto(s, "lock")
    /\ size' = [size EXCEPT ![s] = n]
    /\ UNCHANGED <<call_active, vs_rx, port_disabled, port, holder, pos, tty>>

NoLock(s) == TRUE
Free(s)   == holder = Nobody
MutexLock(s) ==
    /\ pc[s] = "lock" /\ Free(s)
    /\ holder' = s
    /\ Goto(s, IF size[s] = 0 THEN "nothing" ELSE "look")
    /\ UNCHANGED <<call_active, vs_rx, port_disabled, port, size, pos, tty>>

\* flip_buf of a raw frame of no bytes was never set: it may be passed on.
Nothing(s) ==
    /\ pc[s] = "nothing"
    /\ \/ Goto(s, "out") /\ UNCHANGED pushed
       \/ Goto(s, IF Attached THEN "out" ELSE "oops")
          /\ pushed' = IF Attached THEN Len(line) ELSE pushed
    /\ UNCHANGED <<call_active, vs_rx, port_disabled, port, holder, size, pos,
                   line, late, early>>

\* vs_rx before a byte: a frame is cut where the port stops.
NeverCut == "put"
CutTo    == IF vs_rx THEN "put" ELSE "out"
Look(s) ==
    /\ pc[s] = "look"
    /\ Goto(s, CutTo)
    /\ UNCHANGED <<call_active, vs_rx, port_disabled, port, holder, size, pos,
                   tty>>

\* After a byte: a flip every 16 bytes, and at the end unless there was one.
FlipsOnlyAt16(s) == pos[s] % 16 = 15
Flips(s) == pos[s] % 16 = 15 \/ pos[s] + 1 = size[s]

OneTooMany(s) ==
    IF pos[s] < size[s] THEN Goto(s, "look") /\ pos' = [pos EXCEPT ![s] = @ + 1]
                        ELSE Goto(s, "out") /\ UNCHANGED pos
NextByte(s) ==
    IF pos[s] + 1 < size[s]
    THEN Goto(s, "look") /\ pos' = [pos EXCEPT ![s] = @ + 1]
    ELSE Goto(s, "out") /\ UNCHANGED pos

\* The byte goes to the tty of the moment, which nobody keeps from going away.
Put(s) ==
    /\ pc[s] = "put" /\ Attached
    /\ line' = Append(line, Byte(s))
    /\ late' = IF vs_rx THEN late ELSE late + 1
    /\ IF Flips(s) THEN Goto(s, "flip") /\ UNCHANGED pos ELSE NextByte(s)
    /\ UNCHANGED <<call_active, vs_rx, port_disabled, port, holder, size, pushed,
                   early>>

\* tty_flip_buffer_push.
Flip(s) ==
    /\ pc[s] = "flip" /\ Attached
    /\ pushed' = Len(line)
    /\ NextByte(s)
    /\ UNCHANGED <<call_active, vs_rx, port_disabled, port, holder, size, line,
                   late, early>>

\* The tty is gone: a NULL pointer is followed, the lock is never given back.
Oops(s) ==
    /\ pc[s] \in {"put", "flip"} /\ ~Attached
    /\ Goto(s, "oops")
    /\ UNCHANGED <<call_active, vs_rx, port_disabled, port, holder, size, pos,
                   tty>>

KeepIfCut(s) == IF pos[s] + 1 < size[s] THEN holder ELSE Nobody
GivesBack(s) == Nobody
MutexUnlock(s) ==
    /\ pc[s] = "out"
    /\ holder' = GivesBack(s)
    /\ Goto(s, "idle")
    /\ size' = [size EXCEPT ![s] = 0] /\ pos' = [pos EXCEPT ![s] = 0]
    /\ UNCHANGED <<call_active, vs_rx, port_disabled, port, tty>>

vs_send(s) == \/ MutexLock(s) \/ Nothing(s) \/ Look(s) \/ Put(s) \/ Flip(s)
              \/ Oops(s) \/ MutexUnlock(s)

-----------------------------------------------------------------------------
(* The application, through the serial core.                               *)

Attach ==
    /\ port = "closed" /\ port' = "attached"
    /\ UNCHANGED <<call_active, vs_rx, port_disabled, calls, tty>>

\* create_workqueue may fail, and then the opening does.
vs_startup ==
    /\ port = "attached"
    /\ \/ /\ port' = "open"
          /\ vs_rx' = IF port_disabled THEN vs_rx ELSE TRUE
          /\ early' = (line # <<>>)
       \/ ~port_disabled /\ port' = "stopped" /\ UNCHANGED <<vs_rx, early>>
    /\ UNCHANGED <<call_active, port_disabled, calls, line, pushed, late>>

vs_stop_rx ==
    /\ port = "open" /\ port' = "stopped"
    /\ vs_rx' = FALSE /\ late' = 0
    /\ UNCHANGED <<call_active, port_disabled, calls, line, pushed, early>>

Detach ==
    /\ port = "stopped" /\ port' = "closed"
    /\ line' = <<>> /\ pushed' = 0 /\ early' = FALSE
    /\ UNCHANGED <<call_active, vs_rx, port_disabled, calls, late>>

\* Item 37 of car_work.
BootAndroid ==
    /\ ~call_active /\ call_active' = TRUE
    /\ UNCHANGED <<vs_rx, port_disabled, port, calls, tty>>

\* vs_probe allocates the port and does not clear it: vs_rx and port_disabled
\* are what was in the memory.
Init ==
    /\ call_active = FALSE
    /\ vs_rx \in BOOLEAN /\ port_disabled \in BOOLEAN
    /\ port = "closed" /\ holder = Nobody
    /\ pc = [s \in Senders |-> "idle"]
    /\ size = [s \in Senders |-> 0] /\ pos = [s \in Senders |-> 0]
    /\ line = <<>> /\ pushed = 0 /\ late = 0 /\ early = FALSE

Next == \/ \E s \in Senders : vs_send(s) \/ \E n \in Sizes : Call(s, n)
        \/ Attach \/ vs_startup \/ vs_stop_rx \/ Detach \/ BootAndroid
Spec == Init /\ [][Next]_vars

\* A thread that can go on is run; the mutex goes to any of those who wait.
FairSpec == Spec /\ \A s \in Senders : WF_vars(vs_send(s))

-----------------------------------------------------------------------------
(* Properties.                                                             *)

Bytes == [by : Senders, at : Nat, of : Sizes]

\* Every variable stays in its range, and a call within its frame.
TypeOK ==
    /\ call_active \in BOOLEAN /\ vs_rx \in BOOLEAN /\ port_disabled \in BOOLEAN
    /\ port \in {"closed", "attached", "open", "stopped"}
    /\ holder \in Senders \cup {Nobody}
    /\ pc \in [Senders -> {"idle", "lock", "nothing", "look", "put", "flip",
                           "out", "oops"}]
    /\ size \in [Senders -> Sizes \cup {0}] /\ pos \in [Senders -> Nat]
    /\ \A s \in Senders : pc[s] \in {"look", "put", "flip"} => pos[s] < size[s]
    /\ line \in Seq(Bytes) /\ pushed \in 0..Len(line) /\ late \in Nat
    /\ early \in BOOLEAN

Ends(b)       == b.at + 1 = b.of
Follows(b, a) == b.by = a.by /\ b.of = a.of /\ b.at = a.at + 1

\* What Android reads is one frame after the other: the bytes of two drivers
\* never mix, and no byte inside a frame is lost, however the port is closed and
\* opened meanwhile.  Only the first frame of an opening may miss its start and,
\* if it came before the port was started, its end.
FramesWhole ==
    \A n \in 2..Len(line) :
        \/ Follows(line[n], line[n - 1])
        \/ line[n].at = 0 /\ (Ends(line[n - 1]) \/ early)

\* While the port receives and no driver writes, every frame has ended and has
\* been passed on: none waits in the tty for the next one to push it.
Delivered ==
    port = "open" /\ vs_rx /\ holder = Nobody /\ ~early =>
        /\ pushed = Len(line)
        /\ line # <<>> => Ends(line[Len(line)])

\* A port that was stopped takes one byte more at most: of the driver that had
\* looked at vs_rx before.
LateByte == late <= 1

\* The lock of the port comes free again and again, whether frames end or are
\* cut; nobody gives it back who has met a closed tty.
PortReturns == []<>(holder = Nobody \/ \E s \in Senders : pc[s] = "oops")
=============================================================================
