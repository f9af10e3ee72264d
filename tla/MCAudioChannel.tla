--------------------------- MODULE MCAudioChannel ---------------------------
(* Instances of AudioChannel for TLC.                                      *)
EXTENDS AudioChannel

R(c, args) == [cmd : {c}, arg : args]

\* The channels that differ for audio_work; IPOD and DVR are as LINE, which is
\* also the outside source here.
FiveChannels == {GSM_BT, SYS, DVD, FM, DTV}
\* One of each item; 17 is as 7.
AllRequests == R(2, {0, 1}) \cup R(3, {0}) \cup R(7, {0}) \cup R(18, {1}) \cup
               R(19, {0, 1}) \cup R(22, {0}) \cup R(23, {0}) \cup
               R(24, {1}) \cup R(25, {1}) \cup R(27, {4, 5})

\* An outside source that comes and goes, and the power.
AjxOnly     == R(22, {0}) \cup R(23, {0})
TwoChannels == {SYS, LINE}
=============================================================================
