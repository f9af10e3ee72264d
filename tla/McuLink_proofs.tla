-------------------------- MODULE McuLink_proofs --------------------------
(***************************************************************************)
(* The safety of the MCU link, for every set of calls.                     *)
(*                                                                         *)
(* The inductive invariant says, for each place of the code, who has CLK,  *)
(* what DOUT is at, and how much of the command and of its data has passed *)
(* when that place is reached.                                             *)
(***************************************************************************)
EXTENDS McuLink, TLAPS

\* Where nothing of the call has passed yet: the looks, the request and a
\* collision.
Looking == pc \in {"clk", "din", "ask", "asked", "rev_clk", "rev_din", "rev_ask"}
Hears   == pc \in {"low", "high", "rack", "rack_held"}
Before  == Looking \/ incoming

\* The host has CLK only while it sends, asks or acknowledges.
ClkInv ==
    pc \in {"free", "clk", "din", "ask", "asked", "ack", "ack_low", "ack_high",
            "rev_clk", "rev_din", "low", "high"} => clk = In

\* DOUT is low only in the request, a bit, or the answer to a bit.
DoutInv ==
    pc \in {"free", "clk", "din", "asked", "ack", "ack_high", "rev_clk",
            "rev_din", "rev_ask", "low", "rack", "rack_held"} => dout = 1

\* How far the command is.
CmdInv ==
    /\ incoming => Hears
    /\ Before => Len(sent) = 0 /\ pos = 0 /\ data = 0
    /\ Looking => k = 0
    /\ pc \in {"bit", "held"} => Len(sent) = k /\ pos = 0 /\ data = 0
    /\ pc \in {"put", "taken", "ack", "ack_low", "ack_high"} => Len(sent) = 16
    /\ Hears /\ ~incoming => Len(sent) = 16

\* How far its data is.
DataInv ==
    /\ pc \in {"put", "taken"} =>
          /\ Writes /\ k < LoopBits /\ pos < cmd.count
          /\ data = LoopBits * pos + k
    /\ pc \in {"ack", "ack_low", "ack_high"} =>
          ~Reads /\ (Writes => data = LoopBits * cmd.count)
    /\ Hears /\ ~incoming => Reads
    /\ pc \in {"low", "high"} /\ ~incoming => k < 8 /\ pos < Bytes
    /\ pc \in {"rack", "rack_held"} /\ ~incoming => pos = Bytes
    /\ pc \in {"rack", "rack_held"} => k = 0

IInv == TypeOK /\ ClkInv /\ DoutInv /\ CmdInv /\ DataInv /\ NoEarlySuccess

\* A call has a word of 16 bits and a number of bytes: what it reads it does not
\* write.
LEMMA CallFacts ==
    ASSUME cmd \in Commands
    PROVE  /\ Top \in {0, 1} /\ Bytes \in Nat /\ cmd.count \in Nat
           /\ LoopBits \in {7, 8}
           /\ Writes => ~Reads /\ Bytes = cmd.count /\ cmd.count > 0
<1>1. cmd \in [call : {"arm_send", "arm_send_multi"}, word : Words,
               count : Nat]
  BY LinkAssumption
<1>2. Top \in {0, 1}
  BY <1>1 DEF Top
<1> QED
  BY <1>1, <1>2 DEF Bytes, LoopBits, Writes, Reads, AsksByte

\* While the call is the same, so is what it asks for.
LEMMA SameCall ==
    ASSUME cmd' = cmd
    PROVE  /\ Writes' = Writes /\ Reads' = Reads /\ Bytes' = Bytes
           /\ LoopBits' = LoopBits /\ Update' = Update
  BY DEF Writes, Reads, Bytes, LoopBits, AsksByte, Update, Top

\* The lines as inputs, and nothing under way.
LEMMA InitInv == ASSUME Init PROVE IInv
<1>1. TypeOK
  <2>1. incoming \in BOOLEAN
    BY DEF Init
  <2>2. sent \in Seq({0, 1})
    BY DEF Init
  <2> QED
    BY <2>1, <2>2 DEF Init, TypeOK
<1>2. ClkInv /\ DoutInv /\ DataInv /\ NoEarlySuccess
  BY DEF Init, ClkInv, DoutInv, DataInv, NoEarlySuccess, Hears
<1>3. CmdInv
  BY DEF Init, CmdInv, Looking, Hears, Before
<1> QED
  BY <1>1, <1>2, <1>3 DEF IInv

\* A step that changes neither the call nor its progress.
LEMMA McuInv == ASSUME IInv, Mcu PROVE IInv'
<1>1. /\ UNCHANGED <<pc, cmd, clk, dout, k, pos, incoming, res, sent, data>>
      /\ Writes' = Writes /\ Reads' = Reads /\ Bytes' = Bytes
      /\ LoopBits' = LoopBits
  BY SameCall DEF Mcu, taken
<1>2. TypeOK'
  BY <1>1 DEF IInv, Mcu, TypeOK, HostSends
<1>3. ClkInv' /\ DoutInv' /\ CmdInv'
  BY <1>1 DEF IInv, ClkInv, DoutInv, CmdInv, Looking, Hears, Before
<1>4. DataInv' /\ NoEarlySuccess'
  BY <1>1 DEF IInv, DataInv, NoEarlySuccess, Hears
<1> QED
  BY <1>2, <1>3, <1>4 DEF IInv

\* A call begins.
LEMMA BeginInv == ASSUME IInv, Begin PROVE IInv'
<1>1. TypeOK'
  BY DEF IInv, Begin, TypeOK, wires
<1>2. ClkInv' /\ DoutInv' /\ DataInv' /\ NoEarlySuccess'
  BY DEF IInv, Begin, ClkInv, DoutInv, CmdInv, DataInv, NoEarlySuccess, Hears
<1>3. incoming = FALSE /\ incoming' = incoming
  BY DEF IInv, Begin, TypeOK, CmdInv, Hears
<1>4. CmdInv'
  BY <1>3 DEF Begin, CmdInv, Looking, Hears, Before
<1> QED
  BY <1>1, <1>2, <1>4 DEF IInv

\* The looks at the lines, the request and the bits of the command.
LEMMA CommandInv == ASSUME IInv, arm_send_cmd PROVE IInv'
<1> USE DEF IInv
<1>1. CASE LookAtClk
  BY <1>1 DEF LookAtClk, Goto, End, IInv, TypeOK, ClkInv, DoutInv, CmdInv,
     DataInv, NoEarlySuccess, Looking, Hears, Before, HostSends, wires, taken
<1>2. CASE LookAtDin
  BY <1>2 DEF LookAtDin, Goto, IInv, TypeOK, ClkInv, DoutInv, CmdInv,
     DataInv, NoEarlySuccess, Looking, Hears, Before, HostSends, wires, taken
<1>3. CASE Ask
  BY <1>3 DEF Ask, Goto, End, IInv, TypeOK, ClkInv, DoutInv, CmdInv,
     DataInv, NoEarlySuccess, Looking, Hears, Before, HostSends, wires, taken
<1>4. CASE PutBit
  BY <1>4, CallFacts DEF PutBit, GiveUp, Goto, End, NextBit, IInv, TypeOK,
     ClkInv, DoutInv, CmdInv, DataInv, NoEarlySuccess, Looking, Hears, Before,
     HostSends, wires, taken
<1>5. CASE BitTaken
  <2> USE <1>5, CallFacts, SameCall DEF BitTaken, Goto, End, GiveUp, Answer,
      KeepsClk, Hears
  <2>1. TypeOK /\ k \in 0..15 /\ Len(sent) = k /\ pos = 0 /\ data = 0 /\ ~incoming
    BY DEF TypeOK, CmdInv
  <2>2. CASE din = 1
    BY <2>1, <2>2 DEF TypeOK, ClkInv, DoutInv, CmdInv, DataInv, NoEarlySuccess,
       Looking, Before, HostSends, wires
  <2>3. CASE din # 1
    <3>1. sent' \in Seq({0, 1}) /\ Len(sent') = k + 1 /\ cmd' = cmd
      BY <2>1, <2>3 DEF TypeOK
    <3>2. pc' \in {"bit", "put", "ack", "rack", "low"}
      BY <2>3
    <3>3. TypeOK'
      <4>1. clk' \in {0, 1, In} /\ k' \in 0..15 /\ dout' \in {0, 1}
        <5>1. k' \in 0..15
          BY <2>1, <2>3
        <5>2. clk' \in {0, 1, In}
          BY <2>3
        <5>3. dout' \in {0, 1}
          BY <2>1, <2>3 DEF TypeOK
        <5> QED
          BY <5>1, <5>2, <5>3
      <4>2. pos' = pos /\ incoming' = incoming /\ data' = data /\ res' = res
            /\ din' = din /\ mclk' = mclk
        BY <2>3 DEF wires
      <4> QED
        BY <4>1, <4>2, <2>1, <3>1, <3>2 DEF TypeOK, HostSends
    <3>4. ClkInv' /\ DoutInv' /\ NoEarlySuccess'
      BY <2>1, <2>3, <3>2 DEF ClkInv, DoutInv, NoEarlySuccess
    <3>5. CmdInv'
      BY <2>1, <2>3, <3>1, <3>2 DEF CmdInv, Looking, Before
    <3>6. DataInv'
      BY <2>1, <2>3, <3>1, <3>2 DEF DataInv, TypeOK
    <3> QED
      BY <3>3, <3>4, <3>5, <3>6
  <2> QED
    BY <2>2, <2>3
<1> QED
  BY <1>1, <1>2, <1>3, <1>4, <1>5 DEF arm_send_cmd

\* The bits of data.
LEMMA PutInv == ASSUME IInv, PutData PROVE IInv'
<1> USE DEF PutData, GiveUp, Goto, End, wires, taken
<1>1. /\ cmd' = cmd /\ pos' = pos /\ k' = k /\ sent' = sent /\ data' = data
      /\ incoming' = incoming /\ pc' \in {"taken", "free"}
  OBVIOUS
<1>2. TypeOK'
  BY <1>1 DEF IInv, TypeOK, HostSends
<1>3. ClkInv' /\ DoutInv'
  BY DEF ClkInv, DoutInv
<1>4. CmdInv'
  BY <1>1 DEF IInv, CmdInv, Looking, Hears, Before
<1>5. DataInv' /\ NoEarlySuccess'
  BY <1>1, SameCall DEF IInv, TypeOK, CmdInv, DataInv, NoEarlySuccess, Hears
<1> QED
  BY <1>2, <1>3, <1>4, <1>5 DEF IInv

LEMMA TakenInv == ASSUME IInv, DataTaken PROVE IInv'
<1> USE DEF DataTaken, GiveUp, Goto, End, wires, taken
<1>1. /\ cmd \in Commands /\ k \in Nat /\ k < LoopBits /\ pos \in Nat
      /\ pos < cmd.count /\ Writes /\ data = LoopBits * pos + k
      /\ Len(sent) = 16 /\ ~incoming
  BY DEF IInv, TypeOK, CmdInv, DataInv, Hears
<1>2. /\ LoopBits \in {7, 8} /\ cmd.count \in Nat /\ Bytes = cmd.count /\ ~Reads
  BY <1>1, CallFacts
<1>3. /\ cmd' = cmd /\ Writes' /\ ~Reads' /\ LoopBits' = LoopBits
      /\ sent' = sent /\ ~incoming' /\ pc' \in {"put", "ack", "free"}
  <2>1. cmd' = cmd /\ sent' = sent /\ incoming' = incoming
    OBVIOUS
  <2>2. pc' \in {"put", "ack", "free"}
    OBVIOUS
  <2> QED
    BY <1>1, <1>2, <2>1, <2>2, SameCall
<1>4. CASE din = 1
  <2>1. k' = k /\ pos' = pos /\ data' = data /\ pc' = "free" /\ dout' = 1
        /\ clk' = In /\ res' = 0
    BY <1>4
  <2> QED
    BY <1>3, <1>4, <2>1 DEF IInv, TypeOK, HostSends, ClkInv, DoutInv, CmdInv,
       DataInv, NoEarlySuccess, Looking, Hears, Before
<1>5. CASE din # 1 /\ k + 1 < LoopBits
  <2>1. k' = k + 1 /\ pos' = pos /\ data' = data + 1 /\ pc' = "put"
        /\ dout' = dout /\ clk' = 1 /\ res' = res
    BY <1>5
  <2> QED
    BY <1>1, <1>2, <1>3, <1>5, <2>1 DEF IInv, TypeOK, HostSends, ClkInv,
       DoutInv, CmdInv, DataInv, NoEarlySuccess, Looking, Hears, Before
<1>6. CASE din # 1 /\ ~(k + 1 < LoopBits)
  <2>1. k' = 0 /\ pos' = pos + 1 /\ data' = data + 1 /\ dout' = 1 /\ res' = res
        /\ \/ pos + 1 < cmd.count /\ clk' = 1 /\ pc' = "put"
           \/ ~(pos + 1 < cmd.count) /\ clk' = In /\ pc' = "ack"
    BY <1>2, <1>6
  <2>2. data' = LoopBits * pos'
    BY <1>1, <1>2, <1>6, <2>1
  <2>3. TypeOK'
    BY <1>1, <1>3, <1>6, <2>1 DEF IInv, TypeOK, HostSends
  <2>4. ClkInv' /\ DoutInv' /\ CmdInv' /\ NoEarlySuccess'
    BY <1>1, <1>3, <2>1 DEF ClkInv, DoutInv, CmdInv, NoEarlySuccess, Looking,
       Hears, Before
  <2>5. DataInv'
    BY <1>1, <1>2, <1>3, <2>1, <2>2 DEF DataInv, Hears
  <2> QED
    BY <2>3, <2>4, <2>5 DEF IInv
<1> QED
  BY <1>4, <1>5, <1>6

\* The acknowledge of a call that sends.
LEMMA SendAckInv == ASSUME IInv, arm_send_ack PROVE IInv'
<1> USE DEF arm_send_ack, Goto, End, wires, taken
<1>1. /\ cmd' = cmd /\ pos' = pos /\ k' = k /\ sent' = sent /\ data' = data
      /\ clk' = clk /\ incoming' = incoming
      /\ \/ pc' \in {"ack_low", "ack_high"} /\ res' = res
         \/ pc' = "free" /\ res' \in {0, 1}
  OBVIOUS
<1>2. /\ pc \in {"ack", "ack_low", "ack_high"} /\ clk = In /\ ~Reads
      /\ Len(sent) = 16 /\ (Writes => data = LoopBits * cmd.count)
  BY DEF IInv, ClkInv, CmdInv, DataInv
<1>3. dout' \in {0, 1} /\ (pc' # "ack_low" => dout' = 1)
  BY DEF IInv, TypeOK, DoutInv
<1>4. TypeOK'
  BY <1>1, <1>3 DEF IInv, TypeOK, HostSends
<1>5. ClkInv' /\ DoutInv' /\ CmdInv'
  BY <1>1, <1>2, <1>3 DEF IInv, ClkInv, DoutInv, CmdInv, Looking, Hears, Before
<1>6. DataInv' /\ NoEarlySuccess'
  BY <1>1, <1>2, SameCall DEF IInv, CmdInv, DataInv, NoEarlySuccess, Hears
<1> QED
  BY <1>4, <1>5, <1>6 DEF IInv

\* A collision, up to the word of the MCU.
LEMMA RevInv == ASSUME IInv, RevLooks \/ RevAsked PROVE IInv'
<1> USE DEF RevLooks, RevAsked, Goto, wires, taken
<1>1. /\ cmd' = cmd /\ pos' = pos /\ k' = k /\ sent' = sent /\ data' = data
      /\ dout' = dout /\ res' = res
  OBVIOUS
<1>2. /\ pc \in {"rev_clk", "rev_din", "rev_ask"} /\ dout = 1 /\ k = 0
      /\ ~incoming /\ Len(sent) = 0 /\ pos = 0 /\ data = 0
  BY DEF IInv, TypeOK, DoutInv, CmdInv, Looking, Hears, Before
<1>3. /\ \/ pc' \in {"rev_din", "clk"} /\ clk' = In /\ incoming' = FALSE
         \/ pc' = "rev_ask" /\ clk' = 0 /\ incoming' = FALSE
         \/ pc' = "low" /\ clk' = In /\ incoming' = TRUE
  BY <1>2 DEF IInv, TypeOK, ClkInv
<1>4. TypeOK'
  BY <1>1, <1>3 DEF IInv, TypeOK, HostSends
<1>5. ClkInv' /\ DoutInv' /\ CmdInv'
  BY <1>1, <1>2, <1>3 DEF ClkInv, DoutInv, CmdInv, Looking, Hears, Before
<1>6. DataInv' /\ NoEarlySuccess'
  BY <1>1, <1>2, <1>3 DEF DataInv, NoEarlySuccess, Hears
<1> QED
  BY <1>4, <1>5, <1>6 DEF IInv

\* What is known where bits come in, and how their loops end.
Hearing ==
    /\ cmd \in Commands /\ cmd' = cmd /\ sent' = sent /\ data' = data
    /\ incoming \in BOOLEAN
    /\ IF incoming THEN Len(sent) = 0 /\ pos = 0 /\ data = 0
                   ELSE Len(sent) = 16 /\ Reads
LEMMA HearingFacts ==
    ASSUME IInv, Hears, cmd' = cmd, UNCHANGED taken
    PROVE  Hearing
  BY DEF IInv, TypeOK, CmdInv, DataInv, Hears, Before, Hearing, taken

\* A receiver gives up or is done: the call ends, or arm_send_cmd looks again.
LEMMA RevEndsInv ==
    ASSUME IInv, Hearing, UNCHANGED wires, dout' = 1, clk' = In, k' = 0,
           NEW r \in {0, 1}, RevEnds(r), pos' = pos,
           r = 1 => incoming \/ pos = Bytes
    PROVE  IInv'
<1>1. /\ incoming' = FALSE
      /\ \/ incoming /\ pc' = "clk" /\ res' = res
         \/ ~incoming /\ pc' = "free" /\ res' = r
  BY DEF RevEnds, Goto, End, Hearing
<1>2. cmd' = cmd /\ sent' = sent /\ data' = data
  BY DEF Hearing
<1>3. TypeOK'
  <2>1. incoming' \in BOOLEAN
    BY <1>1
  <2>2. pc' \in {"clk", "free"} /\ res' \in {0, 1}
    BY <1>1 DEF IInv, TypeOK
  <2> QED
    BY <1>2, <2>1, <2>2 DEF IInv, TypeOK, wires
<1>4. ClkInv' /\ DoutInv' /\ CmdInv' /\ DataInv'
  BY <1>1, <1>2 DEF ClkInv, DoutInv, CmdInv, DataInv, Looking, Hears, Before,
     Hearing
<1>5. NoEarlySuccess'
  BY <1>1, <1>2, SameCall, CallFacts DEF NoEarlySuccess, Hearing
<1> QED
  BY <1>3, <1>4, <1>5 DEF IInv

LEMMA BitInInv == ASSUME IInv, BitIn PROVE IInv'
<1>1. Hearing /\ clk = In /\ dout = 1 /\ clk' = clk /\ pos' = pos /\ cmd' = cmd
  BY HearingFacts DEF BitIn, RevEnds, End, Goto, IInv, ClkInv, DoutInv, Hears
<1>2. CASE RevEnds(0) /\ dout' = 1 /\ k' = 0
  BY <1>1, <1>2, RevEndsInv DEF BitIn
<1>3. CASE pc' = "high" /\ dout' = 0 /\ UNCHANGED <<k, incoming, res>>
  <2>1. TypeOK'
    <3>1. UNCHANGED <<din, mclk, data>> /\ sent' = sent
      BY DEF BitIn, wires, taken
    <3> QED
      BY <1>1, <1>3, <3>1 DEF IInv, TypeOK, HostSends
  <2>2. ClkInv' /\ DoutInv' /\ CmdInv' /\ NoEarlySuccess'
    BY <1>1, <1>3 DEF IInv, ClkInv, DoutInv, CmdInv, NoEarlySuccess, Looking,
       Hears, Before, Hearing
  <2>3. DataInv'
    BY <1>1, <1>3, SameCall DEF IInv, DataInv, BitIn, Hears, Hearing
  <2> QED
    BY <2>1, <2>2, <2>3 DEF IInv
<1> QED
  BY <1>2, <1>3 DEF BitIn, Goto

LEMMA BitDoneInv == ASSUME IInv, BitDone PROVE IInv'
<1>1. /\ Hearing /\ clk = In /\ clk' = clk /\ dout' = 1 /\ cmd' = cmd
      /\ UNCHANGED wires
  BY HearingFacts DEF BitDone, RevEnds, End, Goto, IInv, ClkInv, Hears
<1>2. CASE RevEnds(0) /\ k' = 0 /\ pos' = pos
  BY <1>1, <1>2, RevEndsInv
<1>3. CASE /\ UNCHANGED <<incoming, res>>
           /\ k + 1 < Width /\ k' = k + 1 /\ pc' = "low" /\ pos' = pos
  <2>1. k \in Nat /\ k' < 16 /\ (~incoming => k' < 8)
    BY <1>3 DEF IInv, TypeOK, Width
  <2>2. TypeOK'
    BY <1>1, <1>3, <2>1 DEF IInv, TypeOK, HostSends, wires, Hearing
  <2>3. ClkInv' /\ DoutInv' /\ CmdInv' /\ NoEarlySuccess'
    BY <1>1, <1>3 DEF ClkInv, DoutInv, CmdInv, NoEarlySuccess, Looking,
       Hears, Before, Hearing
  <2>4. DataInv'
    BY <1>1, <1>3, <2>1, SameCall DEF IInv, DataInv, BitDone, Hears, Hearing
  <2> QED
    BY <2>2, <2>3, <2>4 DEF IInv
<1>4. CASE /\ UNCHANGED <<incoming, res>> /\ k' = 0
           /\ pos' = (IF incoming THEN pos ELSE pos + 1)
           /\ pc' = (IF ~incoming /\ pos + 1 < Bytes THEN "low" ELSE "rack")
  <2>1. pos \in Nat /\ Bytes \in Nat /\ (~incoming => pos < Bytes)
    BY <1>1, CallFacts DEF IInv, TypeOK, DataInv, BitDone, Hearing
  <2>2. TypeOK'
    BY <1>1, <1>4, <2>1 DEF IInv, TypeOK, HostSends, wires, Hearing
  <2>3. ClkInv' /\ DoutInv' /\ CmdInv' /\ NoEarlySuccess'
    BY <1>1, <1>4 DEF ClkInv, DoutInv, CmdInv, NoEarlySuccess, Looking,
       Hears, Before, Hearing
  <2>4. DataInv'
    BY <1>1, <1>4, <2>1, SameCall DEF DataInv, Hears, Hearing
  <2> QED
    BY <2>2, <2>3, <2>4 DEF IInv
<1> QED
  BY <1>2, <1>3, <1>4 DEF BitDone, Goto

\* The acknowledge of a word or of bytes that came in.
LEMMA RevAckInv == ASSUME IInv, arm_rev_ack PROVE IInv'
<1>1. /\ Hearing /\ UNCHANGED wires /\ dout = 1 /\ dout' = dout /\ k = 0
      /\ k' = k /\ pos' = pos /\ cmd' = cmd /\ (incoming \/ pos = Bytes)
  BY HearingFacts DEF arm_rev_ack, RevEnds, End, Goto, IInv, DoutInv, DataInv,
     TypeOK, Hears
<1>2. ASSUME NEW r \in {0, 1}, RevEnds(r), clk' = In PROVE IInv'
  BY <1>1, <1>2, RevEndsInv
<1>3. CASE pc' = "rack_held" /\ clk' = 0 /\ UNCHANGED <<incoming, res>>
  <2>1. TypeOK'
    BY <1>1, <1>3 DEF IInv, TypeOK, HostSends, wires, Hearing
  <2>2. ClkInv' /\ DoutInv' /\ CmdInv' /\ NoEarlySuccess'
    BY <1>1, <1>3 DEF ClkInv, DoutInv, CmdInv, NoEarlySuccess, Looking, Hears,
       Before, Hearing
  <2>3. DataInv'
    BY <1>1, <1>3, SameCall DEF DataInv, Hears, Hearing
  <2> QED
    BY <2>1, <2>2, <2>3 DEF IInv
<1> QED
  BY <1>2, <1>3 DEF arm_rev_ack, Goto

\* A step that changes nothing.
LEMMA StutterInv == ASSUME IInv, UNCHANGED vars PROVE IInv'
<1>1. /\ UNCHANGED <<pc, cmd, din, mclk, clk, dout, k, pos, incoming, res,
                     sent, data>>
      /\ Writes' = Writes /\ Reads' = Reads /\ Bytes' = Bytes
      /\ LoopBits' = LoopBits
  BY SameCall DEF vars, wires, taken
<1> QED
  BY <1>1 DEF IInv, TypeOK, ClkInv, DoutInv, CmdInv, DataInv, NoEarlySuccess,
     Looking, Hears, Before

\* Every state of the link satisfies the inductive invariant.
THEOREM LinkInvariant == Spec => []IInv
<1>1. Init => IInv
  BY InitInv
<1>2. IInv /\ [Next]_vars => IInv'
  BY BeginInv, CommandInv, PutInv, TakenInv, SendAckInv, RevInv, BitInInv,
     BitDoneInv, RevAckInv, McuInv, StutterInv DEF Next, Host
<1> QED
  BY <1>1, <1>2, PTL DEF Spec

\* Whatever the MCU does with its lines, every variable keeps to its range.
THEOREM LinkTypes == Spec => []TypeOK
  BY LinkInvariant, PTL DEF IInv

\* Every call, on every path out of it, lets CLK go and leaves DOUT high.
THEOREM LinkLetsGo == Spec => []LinesReleased
<1>1. IInv => LinesReleased
  BY DEF IInv, ClkInv, DoutInv, LinesReleased
<1> QED
  BY <1>1, LinkInvariant, PTL

\* The host never waits for the MCU on a CLK that it drives itself.
THEOREM LinkReadsTheMcu == Spec => []ClkIsTheirs
<1>1. IInv => ClkIsTheirs
  BY DEF IInv, ClkInv, ClkIsTheirs
<1> QED
  BY <1>1, LinkInvariant, PTL

\* A call that reports success made every round of its loops and had an answer
\* to every poll; it says nothing of how much of a byte the loop sends.
THEOREM LinkNoEarlySuccess == Spec => []NoEarlySuccess
  BY LinkInvariant, PTL DEF IInv
===========================================================================
