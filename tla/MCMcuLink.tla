----------------------------- MODULE MCMcuLink -----------------------------
(* Calls of every shape for TLC, with words that the driver sends.         *)
EXTENDS McuLink

Call(f, w, n) == [call |-> f, word |-> w, count |-> n]

\* MTC_CMD_MIRROR_ON, 0x0F01, MTC_CMD_MUTE_ALL, 0x9023, MTC_CMD_TV_FREQ,
\* MTC_CMD_MCUVER, a read of nothing (as item 38185 may be), the update.
AllCalls == {
    Call("arm_send", 1057, 0),
    Call("arm_send", 3841, 0),
    Call("arm_send_multi", 36871, 0),
    Call("arm_send_multi", 36899, 1),
    Call("arm_send_multi", 37385, 2),
    Call("arm_send_multi", 5424, 3),
    Call("arm_send_multi", 4622, 0),
    Call("arm_send_multi", 40960, 2)}

\* A command with one byte of data.
OneByte == {Call("arm_send_multi", 36899, 1)}
=============================================================================
