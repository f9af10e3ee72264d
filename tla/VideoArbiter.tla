---------------------------- MODULE VideoArbiter ----------------------------
(***************************************************************************)
(* What backview.c promises: one picture, always that of the most          *)
(* important of the users that want the screen.                            *)
(*                                                                         *)
(* The camera takes the place of the signal and the signal cannot come or  *)
(* go under the camera.  A user may change its picture (front or rear)     *)
(* only while it is the one on the screen.                                 *)
(***************************************************************************)
CONSTANTS Pictures      \* for each user and for Nobody, the set of the pictures it
                        \* can show (not empty)

Users  == {"camera", "signal", "view", "av"}
Nobody == "nobody"

VARIABLES wants,    \* the users that want the screen
          shown     \* the picture on it

Owner(w) == IF "camera" \in w THEN "camera"
            ELSE IF "signal" \in w THEN "signal"
            ELSE IF "view" \in w THEN "view"
            ELSE IF "av" \in w THEN "av"
            ELSE Nobody

\* The users change to w; the picture changes only if the owner does, or if the
\* owner itself asked for another one.
Become(w, asking) ==
    /\ wants' = w
    /\ shown' \in Pictures[Owner(w)]
    /\ Owner(w) = Owner(wants) /\ Owner(w) \notin asking => shown' = shown

CameraOn  == Become((wants \cup {"camera"}) \ {"signal"}, {"camera"})
CameraOff == Become(wants \ {"camera"}, {})
SignalOn  == "camera" \notin wants /\ Become(wants \cup {"signal"}, {})
SignalOff == "camera" \notin wants /\ Become(wants \ {"signal"}, {})
ViewOn    == Become(wants \cup {"view"}, {"view"})
ViewOff   == Become(wants \ {"view"}, {})
AvOn      == Become(wants \cup {"av"}, {})
AvOff     == Become(wants \ {"av"}, {})

Init == wants = {} /\ shown \in Pictures[Nobody]

Next == \/ CameraOn \/ CameraOff \/ SignalOn \/ SignalOff
        \/ ViewOn \/ ViewOff \/ AvOn \/ AvOff

Spec == Init /\ [][Next]_<<wants, shown>>
=============================================================================
