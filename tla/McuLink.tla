------------------------------ MODULE McuLink ------------------------------
(***************************************************************************)
(* The three wires to the MCU: arm_send, arm_send_multi and what they call *)
(* (car.c), under car_lock.                                                *)
(*                                                                         *)
(* The two sides hand the bits over by hand: the host owns DOUT, the MCU   *)
(* owns DIN, and CLK is driven by whoever sends the request of the moment, *)
(* so that the host must let go of it whenever the MCU is to answer on it. *)
(* The MCU is external and unknown here: it moves its two lines at any     *)
(* time in any way.  Every poll of the code but those of the firmware      *)
(* update ends after 250 ms; a poll that sees what it waits for goes on,   *)
(* one that does not may be given up.                                      *)
(*                                                                         *)
(* The words from the MCU come in only through the collision loop of       *)
(* arm_send_cmd (mtc_car_work is never queued).  arm_rev keeps the low     *)
(* byte of a word, so process_mcu_command finds no command in it, says so  *)
(* and acknowledges; the value is therefore left out.                      *)
(***************************************************************************)
EXTENDS Integers, Sequences

CONSTANT Commands       \* the calls: [call, word, count]

Words == 0..65535

ASSUME LinkAssumption ==
    Commands \subseteq [call  : {"arm_send", "arm_send_multi"},
                        word  : Words,
                        count : Nat]

VARIABLES
    pc,         \* what is polled for, "free": car_lock is free
    cmd,        \* the call
    din, mclk,  \* the lines of the MCU, CLK as it would have it
    clk,        \* the host's side of CLK: In, or the value it drives
    dout,
    k, pos,     \* bits and bytes of the part under way
    incoming,   \* in arm_rev
    res,        \* what the last call returned
    sent,       \* history: the bits of the command the MCU took
    data        \* history: the bits of data the MCU took

wires == <<din, mclk>>
taken == <<sent, data>>
vars  == <<pc, cmd, wires, clk, dout, k, pos, incoming, res, taken>>

\* The pin as an input, and what getPin(gpio_MCU_CLK) reads.
In  == 2
Clk == IF clk = In THEN mclk ELSE clk

MTC_CMD_MCU_UPDDTE == 40960
MTC_CMD_0201       == 513
Bit15              == 32768
AsksByte == /\ cmd.call = "arm_send"
            /\ cmd.word \div 256 = 15 \/ cmd.word = MTC_CMD_0201
Update   == cmd.call = "arm_send_multi" /\ cmd.word = MTC_CMD_MCU_UPDDTE
Top      == IF cmd.word >= Bit15 THEN 1 ELSE 0
Reads    == \/ AsksByte
            \/ cmd.call = "arm_send_multi" /\ Top = 0
Bytes    == IF cmd.call = "arm_send" THEN 1 ELSE cmd.count
Writes   == cmd.call = "arm_send_multi" /\ Top = 1 /\ cmd.count > 0

Goto(to) == pc' = to /\ UNCHANGED cmd
End(r)   == Goto("free") /\ res' = r

\* send_err0, and LABEL_23 of arm_send_multi: the MCU did not take a bit.
GiveUpHolding == dout' = 1 /\ End(0) /\ UNCHANGED clk
GiveUpUnsaid  == dout' = 1 /\ clk' = In /\ Goto("free") /\ UNCHANGED res
GiveUp        == dout' = 1 /\ clk' = In /\ End(0)

\* The end of arm_rev, whose result arm_send_cmd ignores, or of the call.
RevEnds(r) == /\ incoming' = FALSE
              /\ IF incoming THEN Goto("clk") /\ UNCHANGED res ELSE End(r)

-----------------------------------------------------------------------------
Begin ==
    /\ pc = "free"
    /\ cmd' \in Commands /\ pc' = "clk"
    /\ k' = 0 /\ pos' = 0
    /\ sent' = <<>> /\ data' = 0
    /\ UNCHANGED <<wires, clk, dout, incoming, res>>

(* arm_send_cmd: first the two lines are looked at, one after the other.   *)

LookAtClk ==
    /\ pc = "clk"
    /\ UNCHANGED <<wires, clk, k, pos, incoming, taken>>
    /\ IF Clk = 0 THEN dout' = 1 /\ End(0)
                  ELSE Goto("din") /\ UNCHANGED <<dout, res>>
LookAtDin ==
    /\ pc = "din"
    /\ UNCHANGED <<wires, clk, k, pos, incoming, res, taken>>
    /\ IF din = 1 THEN dout' = 0 /\ Goto("ask")
                  ELSE UNCHANGED dout /\ Goto("rev_clk")

\* The request, the MCU answers it on CLK.
Ask ==
    /\ pc \in {"ask", "asked"}
    /\ dout' = 1
    /\ UNCHANGED <<wires, clk, k, pos, incoming, taken>>
    /\ IF Clk = (IF pc = "ask" THEN 0 ELSE 1)
       THEN Goto(IF pc = "ask" THEN "asked" ELSE "bit") /\ UNCHANGED res
       ELSE End(0)

\* A bit: DOUT, CLK low, until the MCU has taken it.  Always bit 15 of the word.
Bit(i)     == (cmd.word \div 2^(16 - i)) % 2
NextBit    == Top
PutBit ==
    /\ pc = "bit"
    /\ UNCHANGED <<wires, k, pos, incoming, taken>>
    /\ IF din = 1
       THEN dout' = NextBit /\ clk' = 0 /\ Goto("held") /\ UNCHANGED res
       ELSE GiveUp

\* What arm_send and arm_send_multi do next.  Those who listen let go of CLK.
Answer ==
    IF Writes THEN "put" ELSE IF ~Reads THEN "ack"
    ELSE IF Bytes = 0 THEN "rack" ELSE "low"
NobodyLetsGo == TRUE
KeepsClk     == Answer \in {"put", "rack"}
BitTaken ==
    /\ pc = "held"
    /\ UNCHANGED <<wires, pos, incoming, data>>
    /\ IF din = 1
       THEN GiveUp /\ UNCHANGED <<k, sent>>
       ELSE /\ sent' = Append(sent, dout) /\ UNCHANGED res
            /\ IF k < 15
               THEN clk' = 1 /\ k' = k + 1 /\ Goto("bit") /\ UNCHANGED dout
               ELSE /\ dout' = 1 /\ clk' = IF KeepsClk THEN 1 ELSE In
                    /\ k' = 0 /\ Goto(Answer)

arm_send_cmd == LookAtClk \/ LookAtDin \/ Ask \/ PutBit \/ BitTaken

-----------------------------------------------------------------------------
(* arm_send_multi, the data of a command.  Its loop ends after seven bits  *)
(* of each byte (CommandArrives); that of an update sends all eight, and   *)
(* its polls have no limit.                                                *)

NoLimit  == FALSE
Limited  == ~Update
LoopBits == IF Update THEN 8 ELSE 7
PutData ==
    /\ pc = "put"
    /\ UNCHANGED <<wires, k, pos, incoming, taken>>
    /\ \/ /\ din = 1
          /\ dout' \in {0, 1} /\ clk' = 0
          /\ Goto("taken") /\ UNCHANGED res
       \/ din = 0 /\ Limited /\ GiveUp
DataTaken ==
    /\ pc = "taken"
    /\ UNCHANGED <<wires, incoming, sent>>
    /\ \/ /\ din = 0
          /\ data' = data + 1 /\ UNCHANGED res
          /\ IF k + 1 < LoopBits
             THEN /\ k' = k + 1 /\ clk' = 1 /\ Goto("put")
                  /\ UNCHANGED <<pos, dout>>
             ELSE /\ k' = 0 /\ pos' = pos + 1 /\ dout' = 1
                  /\ IF pos + 1 < Bytes THEN clk' = 1 /\ Goto("put")
                                        ELSE clk' = In /\ Goto("ack")
       \/ din = 1 /\ Limited /\ GiveUp /\ UNCHANGED <<k, pos, data>>

\* arm_send_ack, once it has let go of CLK.
arm_send_ack ==
    /\ pc \in {"ack", "ack_low", "ack_high"}
    /\ UNCHANGED <<wires, clk, k, pos, incoming, taken>>
    /\ LET Seen == CASE pc = "ack"      -> din = 1
                     [] pc = "ack_low"  -> Clk = 0
                     [] pc = "ack_high" -> Clk = 1
       IN  \/ /\ Seen /\ pc = "ack"
              /\ dout' = 0 /\ Goto("ack_low") /\ UNCHANGED res
           \/ /\ Seen /\ pc = "ack_low"
              /\ dout' = 1 /\ Goto("ack_high") /\ UNCHANGED res
           \/ Seen /\ pc = "ack_high" /\ End(1) /\ UNCHANGED dout
           \/ ~Seen /\ dout' = 1 /\ End(0)

-----------------------------------------------------------------------------
(* arm_rev, of a collision, up to its word.                                *)

RevLooks ==
    /\ pc \in {"rev_clk", "rev_din"}
    /\ UNCHANGED <<wires, dout, k, pos, incoming, res, taken>>
    /\ \/ /\ pc = "rev_clk" /\ Goto(IF Clk = 1 THEN "rev_din" ELSE "clk")
          /\ UNCHANGED clk
       \/ /\ pc = "rev_din" /\ din = 1 /\ Goto("clk")
          /\ UNCHANGED clk
       \/ pc = "rev_din" /\ din = 0 /\ clk' = 0 /\ Goto("rev_ask")
RevAsked ==
    /\ pc = "rev_ask"
    /\ clk' = In
    /\ incoming' = (din = 1)
    /\ Goto(IF din = 1 THEN "low" ELSE "clk")
    /\ UNCHANGED <<wires, dout, k, pos, res, taken>>

(* The bits of arm_rev and arm_rev_8bits: the MCU pulls CLK, the host      *)
(* answers on DOUT.                                                        *)

WidthOff == IF incoming THEN 17 ELSE 8
Width    == IF incoming THEN 16 ELSE 8
BitIn ==
    /\ pc = "low"
    /\ UNCHANGED <<wires, clk, pos, taken>>
    /\ \/ /\ Clk = 0
          /\ dout' = 0 /\ Goto("high") /\ UNCHANGED <<k, incoming, res>>
       \/ Clk = 1 /\ dout' = 1 /\ k' = 0 /\ RevEnds(0)
BitDone ==
    /\ pc = "high"
    /\ dout' = 1
    /\ UNCHANGED <<wires, clk, taken>>
    /\ \/ Clk = 0 /\ RevEnds(0) /\ k' = 0 /\ UNCHANGED pos
       \/ /\ Clk = 1 /\ UNCHANGED <<incoming, res>>
          /\ IF k + 1 < Width
             THEN k' = k + 1 /\ Goto("low") /\ UNCHANGED pos
             ELSE /\ k' = 0
                  /\ pos' = IF incoming THEN pos ELSE pos + 1
                  /\ Goto(IF ~incoming /\ pos + 1 < Bytes THEN "low" ELSE "rack")

\* arm_rev_ack: CLK is the host's, until the MCU has seen it.
arm_rev_ack ==
    /\ pc \in {"rack", "rack_held"}
    /\ UNCHANGED <<wires, dout, k, pos, taken>>
    /\ \/ /\ pc = "rack" /\ din = 0
          /\ clk' = 0 /\ Goto("rack_held") /\ UNCHANGED <<incoming, res>>
       \/ pc = "rack" /\ din = 1 /\ clk' = In /\ RevEnds(0)
       \/ pc = "rack_held" /\ din = 1 /\ clk' = In /\ RevEnds(1)
       \/ pc = "rack_held" /\ din = 0 /\ clk' = In /\ RevEnds(0)

Host == \/ arm_send_cmd \/ PutData \/ DataTaken \/ arm_send_ack
        \/ RevLooks \/ RevAsked \/ BitIn \/ BitDone \/ arm_rev_ack

-----------------------------------------------------------------------------
\* The MCU, in any way.
Mcu ==
    /\ \/ din' = 1 - din /\ UNCHANGED mclk
       \/ mclk' = 1 - mclk /\ UNCHANGED din
    /\ UNCHANGED <<pc, cmd, clk, dout, k, pos, incoming, res, taken>>

\* The lines are inputs, pulled up, before the first call.
Init ==
    /\ pc = "free" /\ cmd \in Commands
    /\ din \in {0, 1} /\ mclk \in {0, 1}
    /\ clk = In /\ dout = 1
    /\ k = 0 /\ pos = 0 /\ incoming = FALSE
    /\ res = 0 /\ sent = <<>> /\ data = 0

Next == Begin \/ Host \/ Mcu
Spec == Init /\ [][Next]_vars

\* The caller polls and looks at the time: it is not suspended for ever.
FairSpec == Spec /\ WF_vars(Host)

-----------------------------------------------------------------------------
(* Properties.                                                             *)

HostSends == {"bit", "held", "put", "taken"}

\* Every variable stays in its range.
TypeOK ==
    /\ pc \in {"free", "clk", "din", "ask", "asked", "ack", "ack_low",
               "ack_high", "rev_clk", "rev_din", "rev_ask", "low", "high",
               "rack", "rack_held"} \cup HostSends
    /\ cmd \in Commands
    /\ din \in {0, 1} /\ mclk \in {0, 1} /\ dout \in {0, 1}
    /\ clk \in {0, 1, In}
    /\ k \in 0..15 /\ pos \in Nat /\ data \in Nat
    /\ incoming \in BOOLEAN /\ res \in {0, 1}
    /\ sent \in Seq({0, 1})

\* However a call ends, on whichever of its time limits, it leaves the lines as
\* the next one must find them: CLK let go, DOUT high.
LinesReleased == pc = "free" => clk = In /\ dout = 1

\* Where the host waits for the MCU to move CLK it does not hold CLK itself: it
\* never reads its own level for the answer of the MCU.
ClkIsTheirs ==
    pc \in {"clk", "ask", "asked", "ack_low", "ack_high", "rev_clk", "low",
            "high"} => clk = In

\* A call that reports success went through all of its loops: no poll on the
\* way to the final acknowledge was given up, the 16 bits of the command went
\* out, and every round over the bytes was made, to send or to read.  How much of
\* a byte one round sends is another question, that of CommandArrives.
NoEarlySuccess ==
    pc = "free" /\ res = 1 =>
        /\ Len(sent) = 16
        /\ Writes => data = LoopBits * cmd.count
        /\ Reads => pos = Bytes

\* car_lock comes free again and again, whatever the MCU does or no longer does:
\* nobody waits for ever behind a lost answer.  Two exceptions: a collision at
\* every look at the lines, and the firmware update.
Collides == pc = "rev_clk"
LinkReturns == <>[]~Collides => []<>(pc = "free" \/ Update)

\* What the driver's own messages name has reached the MCU when a call reports
\* success: arm_send_16bits the bits of the command word, arm_send_8bits, as
\* arm_send_multi calls its loop, eight bits of each byte of data.
WordSent  == \A i \in DOMAIN sent : sent[i] = Bit(i)
BytesSent == Writes => data = 8 * cmd.count
CommandArrives == pc = "free" /\ res = 1 => WordSent /\ BytesSent
=============================================================================
