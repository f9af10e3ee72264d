----------------------------- MODULE MCBackview -----------------------------
(* Instances of Backview for TLC.                                          *)
EXTENDS Backview

Req(c, args) == [cmd : {c}, arg : args]

\* What the drivers of this tree queue, with one capturing AV source that the
\* T132B checks (5: DTV), one that it does not (2: DVD) and the radio (4).
MCSenders ==
    Req(46, {2, 4, 5, 255}) \cup Req(47, {0}) \cup Req(48, {2, 5}) \cup
    Req(49, {2, 5}) \cup Req(52, {0, 1}) \cup Req(53, {0}) \cup
    Req(55, {0}) \cup Req(56, {0, 232}) \cup Req(57, {0}) \cup
    Req(59, {0}) \cup Req(60, {0}) \cup Req(61, {0}) \cup Req(64, {0}) \cup
    Req(66, {0})

\* With item 54 too, which capture_work handles and no driver here queues.
MCRequests == MCSenders \cup Req(54, {0})

\* The requests that move the camera, the view and one AV source, with no two
\* that differ in an argument only.
MCFewRequests ==
    Req(46, {5}) \cup Req(48, {5}) \cup Req(52, {0}) \cup Req(53, {0}) \cup
    Req(56, {0}) \cup Req(59, {0}) \cup Req(66, {0})
=============================================================================
