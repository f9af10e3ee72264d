----------------------------- MODULE MCCarWork -----------------------------
(* Instances of CarWork for TLC.                                           *)
EXTENDS CarWork

M(c, args)    == [cmd : {c}, arg : args]
Call(c, args) == [call : {c}, arg : args]
None == {}

\* Power: the car switched on and off, and an outside source that comes and goes
\* before, during and after the boot of Android.
PowerCommands == M("F200", {0}) \cup M("F201", {1}) \cup M("F014", {96, 97})
PowerCalls    == Call("rpt_power", {0}) \cup Call("rpt_boot_android", {0}) \cup
                 Call("rpt_boot_complete", {0})

\* Gear: one camera input, as one car has it, with power off and on again in
\* reverse gear.
GearCommands == M("F204", {0}) \cup M("F205", {0}) \cup M("F201", {0}) \cup
                M("F202", {0}) \cup M("F200", {0})
GearCalls    == Call("rpt_power", {0}) \cup Call("rpt_boot_complete", {0})

\* Everything that reaches the capture queue: the MCU on power and gear, both
\* camera inputs, applications that capture an AV source,
\* and the item 54, which capture_work handles and no driver here queues, so
\* that the flush for the camera signal happens.
AppCommands == M("F200", {0}) \cup M("F201", {0}) \cup M("F202", {0}) \cup
               M("F204", {0}) \cup M("F205", {0}) \cup M("F206", {0}) \cup
               M("F207", {0}) \cup M("F210", {0})
AppCalls    == Call("rpt_boot_complete", {0}) \cup
               Call("av_channel_enter", {5}) \cup
               Call("ctl_capture_on", {5}) \cup Call("ctl_capture_off", {5})
AppItems    == [cmd : {54}, arg : {0}]

\* Every flush and every wait: car_work for cap_wq, at power off and at ignition
\* off, with a camera or a camera signal (item 54) to end; audio_work for
\* car_wq, when the outside source comes; the ioctl for audio_wq and for cap_wq.
LiveCommands == M("F200", {0}) \cup M("F201", {0}) \cup M("F202", {0}) \cup
                M("F205", {0}) \cup M("F014", {96})
LiveCalls    == PowerCalls \cup Call("av_channel_enter", {1}) \cup
                Call("ctl_capture_off", {5})
=============================================================================
