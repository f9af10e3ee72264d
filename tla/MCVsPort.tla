----------------------------- MODULE MCVsPort -----------------------------
(* Two drivers and frames for TLC: of one flip and of two.                 *)
EXTENDS VsPort

TwoDrivers == {"car_work", "audio_work"}

\* A raw frame of nothing, the longest frame that one flip passes on and the
\* shortest that takes two.
Lengths == {0, 16, 17}
===========================================================================
