---------------------------- MODULE AudioChannel ----------------------------
(***************************************************************************)
(* Who is heard: the channel, mute and announcement logic of audio_work    *)
(* (audio_card_glue.c).                                                    *)
(*                                                                         *)
(* audio_work is the one thread of audio_wq.  Android enters and leaves    *)
(* channels, an outside source (AJX) and traffic announcements (TA) take   *)
(* the sound and give it back, the voice control picks channels of its own *)
(* (speech), and the power of the car comes and goes meanwhile.  What the  *)
(* sound chip was told lives in chip, lvl and pin; everything else is the  *)
(* driver's own idea of it.                                                *)
(*                                                                         *)
(* Only the writes of the power thread to ch_status reach into a handler;  *)
(* a handler is split where that matters or where it waits for car_wq.     *)
(* Left out: balance and equalizer, the loudness itself (vol_main > 0),    *)
(* the mixing with navigation and camera, which items 6, 8, 10 to 12, 14   *)
(* and 15 set, and the microphone.  ch_mode stays 0: nobody queues item 13 *)
(* (av_phone queues 10).  The radio is never switched off, for Radio_Power *)
(* never notes that it was switched on, so it has no variable; nor has     *)
(* mute_pin_latch, which nobody sets.                                      *)
(***************************************************************************)
EXTENDS Integers, Sequences

CONSTANTS
    Channels,       \* the AV channels Android may enter
    Requests,       \* items of other threads: [cmd, arg]
    AjxCh,          \* config_data.d.default_ajx_ch
    BtShared,       \* cfg_bt is 2, 6 or 7: Bluetooth comes in as SYS does
    RadioPops,      \* cfg_radio is neither 2 nor 4: FM is switched muted
    CustomerAM,     \* mtc_customer is MTC_CUSTOMER_AM: no fades
    QMax,           \* audio_wq of this length gets nothing from outside
    TimersMax       \* bound on delayed items not yet due

GSM_BT == 0
SYS    == 1
DVD    == 2
LINE   == 3
FM     == 4
DTV    == 5

ASSUME AudioAssumption ==
    /\ Channels \subseteq 0..7 /\ AjxCh \in 0..8
    /\ Requests \subseteq [cmd : {2, 3, 7} \cup {17, 18, 19} \cup 22..25 \cup {27},
                           arg : 0..5]
    /\ {BtShared, RadioPops, CustomerAM} \subseteq BOOLEAN
    /\ QMax \in Nat /\ TimersMax \in Nat

VARIABLES
    audq, audpc,
    from,           \* in "switch": the channel that is left; else unused
    audio_active, power_refcnt,
    audio_ch,       \* the channel Android wants
    speech,         \* ch_sel_mode = 4
    audio_ch2,      \* the channel the voice control wants; 255: none
    ajx_active, ch_status,
    tv_on, dvd_on,
    mute,
    gap0, gap1,     \* gap11: the new channel, the radio is not ready to be heard
    chip,           \* the input the chip was told to play
    lvl,            \* the level it was told: a formula, a fade of it, silence
    pin,            \* mute_all, the mute pin
    timers,         \* delayed items 26 not yet due
    iopc,
    tainted         \* history: what power or speech changed behind the channels

source  == <<audio_ch, tv_on, dvd_on>>
spoken  == <<speech, audio_ch2>>
holders == <<ajx_active, ch_status>>
mutes   == <<mute, gap0, gap1>>
told    == <<chip, lvl, pin>>
power   == <<audio_active, power_refcnt>>
threads == <<audpc, from, iopc>>
vars    == <<audq, timers, threads, power, source, spoken, holders, mutes,
             told, tainted>>

Item(c, a) == [cmd |-> c, arg |-> a]

\* Audio_Channel: ChannelSel has one entry for Bluetooth and SYS on some boards.
Sel(ch) == IF BtShared /\ ch = GSM_BT THEN SYS ELSE ch

\* Who holds the sound.
Heard == IF ajx_active THEN AjxCh ELSE IF ch_status THEN FM ELSE audio_ch

\* Audio_SetVolume(0): the formula the present state calls for.  The outside
\* source has one of its own, SYS is heard when the navigation or the camera is,
\* an announcement whatever they ask for; the gaps count for the last two.
Playing == IF speech /\ audio_ch2 # 255 THEN audio_ch2 ELSE audio_ch
Direct  == Sel(Playing) = SYS /\ ~ch_status
Gap     == gap0 \/ gap1
Level   == IF ajx_active THEN "ajx"
           ELSE IF Direct THEN "sys"
           ELSE IF ch_status THEN (IF Gap THEN "ta_gap" ELSE "ta")
           ELSE IF Gap THEN "gap" ELSE "on"
Levels  == {"ajx", "sys", "ta_gap", "ta", "gap", "on"}

\* A muted unit does not write the level; 60 is silence.
SetVolumeFirst == lvl' = IF mute THEN lvl ELSE Level'
SetVolume0     == lvl' = IF mute' THEN lvl ELSE Level'
SetVolume60    == lvl' = IF mute THEN lvl ELSE "out"

-----------------------------------------------------------------------------
(* audio_active and audio_deactive, of items 20, 21 and of the sessions.   *)

\* The sources are not switched off, nor are the holders told.  The level is
\* written if the navigation had asked for the sound (active_cmd).
Activate ==
    /\ audio_active' = TRUE
    /\ IF audio_active
       THEN UNCHANGED <<audio_ch, mutes, told, tainted>>
       ELSE /\ audio_ch' = SYS /\ chip' = SYS /\ pin' = FALSE
            /\ mute' = FALSE /\ gap0' = FALSE /\ UNCHANGED gap1
            /\ lvl' \in {"reset", Level'}
            /\ tainted' = (IF ajx_active \/ ch_status \/ speech
                              THEN {"route"} ELSE {}) \cup
                          (IF tv_on \/ dvd_on \/ speech
                              THEN {"sources"} ELSE {})

Deactivate == /\ audio_active' = FALSE
              /\ pin' = (pin \/ audio_active)
              /\ UNCHANGED <<chip, lvl>>

-----------------------------------------------------------------------------
(* audio_work.                                                             *)

Take(c) == /\ audpc = "idle" /\ audq # <<>> /\ Head(audq).cmd = c
           /\ audq' = Tail(audq)
Arg     == Head(audq).arg
Goto(to) == audpc' = to /\ UNCHANGED <<from, iopc>>

\* Audio_EnterChannel, entered with the channel c and the mode m.
Same(c)     == audio_ch = c /\ c # LINE /\ ~(c = SYS /\ mute)
Returns(c, m) == IF m = 1 THEN Same(c) ELSE audio_ch # c \/ audio_ch = SYS
Target(c, m)  == IF m = 1 THEN c ELSE SYS
Held        == ajx_active \/ ch_status

\* While somebody holds the sound the old source goes off and the new channel is
\* noted; for the DVD the drive goes off and nothing is noted.
NoteOnly(t) ==
    /\ audio_ch' = IF audio_ch = DVD THEN DVD ELSE t
    /\ dvd_on' = (dvd_on /\ audio_ch # DVD)
    /\ Goto("idle")
    /\ UNCHANGED <<tv_on, mutes, told>>
Note(t) ==
    /\ audio_ch' = IF audio_ch = DVD THEN DVD ELSE t
    /\ tv_on' = (tv_on /\ audio_ch # DTV)
    /\ dvd_on' = (dvd_on /\ audio_ch # DVD)
    /\ Goto("idle")
    /\ UNCHANGED <<mutes, told>>

\* Bluetooth and SYS on a board that has them on one input.
SharedInput(t) == BtShared /\ {t, audio_ch} = {SYS, GSM_BT}
Rename(t) ==
    /\ audio_ch' = t
    /\ mute' = FALSE /\ gap0' = FALSE /\ gap1' = FALSE
    /\ SetVolume0
    /\ Goto("idle")
    /\ UNCHANGED <<tv_on, dvd_on, chip, pin>>

\* The switch itself: fade, pin, the new source on, the chip, the level.
Pops(ch)        == ch = FM /\ RadioPops
PinFirst(t)     == t = DTV \/ Pops(t)
PinOn(t, old)   == PinFirst(t) \/ Pops(old)
GapAfter(t)     == t \in {DVD, FM, DTV}
Switch(t, m) ==
    /\ pin' = (pin \/ PinOn(t, audio_ch))
    /\ tv_on' = (tv_on \/ t = DTV)
    /\ dvd_on' = (dvd_on \/ t = DVD)
    /\ mute' = (mute /\ m = 0)
    /\ audio_ch' = t /\ chip' = Sel(t)
    /\ gap0' = GapAfter(t) /\ gap1' = GapAfter(t)
    /\ SetVolume0
    /\ audpc' = "switch" /\ from' = audio_ch /\ UNCHANGED iopc

EnterChannel(c, m) ==
    /\ ~speech
    /\ UNCHANGED audio_ch2
    /\ \/ Returns(c, m) /\ Goto("idle") /\ UNCHANGED <<source, mutes, told>>
       \/ /\ m = 1 /\ audio_ch = c /\ c = SYS /\ mute
          /\ UNCHANGED <<source, gap0, gap1, chip, pin>>
          /\ mute' = FALSE /\ SetVolume0
          /\ Goto("idle")
       \/ /\ ~Returns(c, m) /\ ~(m = 1 /\ audio_ch = c /\ c = SYS)
          /\ \/ Held /\ Note(Target(c, m))
             \/ ~Held /\ SharedInput(Target(c, m)) /\ Rename(Target(c, m))
             \/ ~Held /\ ~SharedInput(Target(c, m)) /\ Switch(Target(c, m), m)

\* ch_sel_mode 4: Bluetooth is the voice control's, told to the chip whoever
\* holds the sound; the other channels only change the source, and an early
\* return after the DVD leaves audio_ch as it was.
SpeechChannel(c, m) ==
    /\ speech
    /\ IF c = GSM_BT
       THEN /\ mute' = FALSE
            /\ audio_ch2' = IF m = 1 THEN GSM_BT ELSE audio_ch
            /\ chip' = Sel(audio_ch2')
            /\ UNCHANGED <<source, gap0, gap1, pin>>
            /\ SetVolume0
       ELSE /\ \/ /\ IF m = 1 THEN audio_ch = c ELSE audio_ch # c
                  /\ UNCHANGED source
               \/ /\ m = 0 /\ audio_ch = c
                  /\ audio_ch' = IF c = DVD THEN DVD ELSE SYS
                  /\ tv_on' = (tv_on /\ c # DTV)
                  /\ dvd_on' = (dvd_on /\ c # DVD)
               \/ /\ m = 1 /\ audio_ch # c
                  /\ audio_ch' = IF DVD \in {c, audio_ch} THEN audio_ch ELSE c
                  /\ tv_on' = (c = DTV \/ (tv_on /\ (audio_ch # DTV \/ c = DVD)))
                  /\ dvd_on' = (c = DVD \/ (dvd_on /\ audio_ch # DVD))
            /\ UNCHANGED <<audio_ch2, mutes, told>>
    /\ Goto("idle")

\* 0 and 1: av_channel_enter and av_channel_exit.
Channel ==
    /\ UNCHANGED <<timers, power, speech, holders, tainted>>
    /\ \E c \in {0, 1} :
          /\ Take(c)
          /\ IF audio_active
             THEN EnterChannel(Arg, 1 - c) \/ SpeechChannel(Arg, 1 - c)
             ELSE Goto("idle") /\ UNCHANGED <<source, audio_ch2, mutes, told>>

\* After the sleeps the old source goes off and the pin is released.
ReleasesUnlessDvd(t, old) == old # DVD /\ PinOn(t, old)
Releases(t, old) == IF old = DVD THEN PinFirst(t) ELSE PinOn(t, old)
LeaveOld ==
    /\ audpc = "switch"
    /\ tv_on' = (tv_on /\ from # DTV)
    /\ dvd_on' = (dvd_on /\ from # DVD)
    /\ pin' = (pin /\ ~Releases(audio_ch, from))
    /\ audpc' = "idle" /\ from' = SYS /\ UNCHANGED iopc
    /\ UNCHANGED <<audq, timers, power, audio_ch, spoken, holders, mutes, chip,
                   lvl, tainted>>

\* 2: Audio_Mute.  3: the volume was set, which ends a mute.  The loop of
\* Audio_FadeOut ends at the first step that is not 0, for Audio_SetVolume
\* returns its argument: what is left is step 5 of the present formula.  Only
\* customer AM is told 60.
FadedOut == IF CustomerAM THEN "out" ELSE "faded"
Mute(on) ==
    /\ mute' = on
    /\ UNCHANGED <<gap0, gap1, chip, pin>>
    /\ IF on /\ ~mute THEN lvl' = IF pin THEN lvl ELSE FadedOut
       ELSE IF ~on /\ mute THEN SetVolume0 ELSE UNCHANGED lvl
SetMute ==
    /\ Take(2)
    /\ UNCHANGED <<timers, power, source, spoken, holders, tainted>>
    /\ IF audio_active THEN Mute(Arg = 1) ELSE UNCHANGED <<mutes, told>>
    /\ Goto("idle")
Volume ==
    /\ Take(3)
    /\ UNCHANGED <<timers, power, source, spoken, holders, tainted>>
    /\ IF audio_active
       THEN UNCHANGED <<gap0, gap1, chip, pin>> /\ mute' = FALSE /\ SetVolume0
       ELSE UNCHANGED <<mutes, told>>
    /\ Goto("idle")

\* 7 (and 17, when the camera comes or goes): the level is written again.
Refresh ==
    /\ \E c \in {7, 17} : Take(c)
    /\ UNCHANGED <<timers, power, source, spoken, holders, gap0, gap1, chip,
                   pin, tainted>>
    /\ IF audio_active THEN UNCHANGED mute /\ SetVolume0
                       ELSE UNCHANGED <<mute, lvl>>
    /\ Goto("idle")

\* 18, and 19 for the radio only: the source is not ready to be heard, or is.
SourceGap ==
    /\ \/ Take(18)
       \/ Take(19) /\ audio_ch = FM
    /\ UNCHANGED <<timers, power, source, spoken, holders, gap0, chip, pin,
                   tainted>>
    /\ gap1' = (Arg # 0)
    /\ IF gap1' # gap1 /\ audio_active
          THEN UNCHANGED mute /\ SetVolume0 ELSE UNCHANGED <<mute, lvl>>
    /\ Goto("idle")
SourceGapElsewhere ==
    /\ Take(19) /\ audio_ch # FM
    /\ Goto("idle")
    /\ UNCHANGED <<timers, power, source, spoken, holders, mutes, told, tainted>>

\* 20 and 21.
AudioOn ==
    /\ Take(20)
    /\ UNCHANGED <<timers, power_refcnt, tv_on, dvd_on, spoken, holders>>
    /\ Activate /\ Goto("idle")
AudioOff ==
    /\ Take(21)
    /\ Deactivate /\ Goto("idle")
    /\ UNCHANGED <<timers, power_refcnt, source, spoken, holders, mutes,
                   tainted>>

\* 22: a session is begun, by item 29 of car_work, then the outside source takes
\* the sound, on or off.
AjxHeld  == ajx_active
AjxBegins ==
    /\ Take(22)
    /\ UNCHANGED <<timers, tv_on, dvd_on, spoken, holders>>
    /\ IF AjxHeld
       THEN /\ Goto("idle")
            /\ UNCHANGED <<power, audio_ch, mutes, told, tainted>>
       ELSE /\ power_refcnt' = (power_refcnt + 1) % 256
            /\ Goto("ajx")
            /\ IF power_refcnt' # 0 THEN Activate
               ELSE UNCHANGED <<audio_active, audio_ch, mutes, told, tainted>>
AjxTakes ==
    /\ audpc = "ajx"
    /\ UNCHANGED <<audq, timers, power, source, spoken, ch_status, gap0, pin,
                   tainted>>
    /\ ajx_active' = TRUE
    /\ gap1' = FALSE /\ mute' = FALSE
    /\ chip' = Sel(AjxCh)
    /\ SetVolume0
    /\ Goto("idle")

\* 23: the sound is given back, then the session is ended by item 30.
AjxForgetsTa == chip' = Sel(audio_ch)
AjxGivesBack == chip' = Sel(IF ch_status THEN FM ELSE audio_ch)
AjxEnds ==
    /\ Take(23)
    /\ UNCHANGED <<timers, power, source, spoken, ch_status, gap0, gap1, pin,
                   tainted>>
    /\ ajx_active' = FALSE
    /\ IF ajx_active
       THEN AjxGivesBack /\ UNCHANGED mute /\ SetVolume0 /\ Goto("end")
       ELSE UNCHANGED <<chip, lvl, mute>> /\ Goto("idle")
OneLessAlways == power_refcnt - 1
OneLess == IF power_refcnt = 0 THEN 0 ELSE power_refcnt - 1
SessionEnds ==
    /\ audpc = "end"
    /\ power_refcnt' = OneLess
    /\ IF power_refcnt = 1 THEN Deactivate ELSE UNCHANGED <<audio_active, told>>
    /\ Goto("idle")
    /\ UNCHANGED <<audq, timers, source, spoken, holders, mutes, tainted>>

\* 24 and 25: a traffic announcement begins and ends.  While AJX holds the
\* sound, or FM is heard anyway, it is only noted; else the chip changes first
\* and ch_status follows.
TaBegins ==
    /\ Take(24)
    /\ UNCHANGED <<timers, power, source, spoken, ajx_active, tainted>>
    /\ \/ /\ ch_status
          /\ Goto("idle")
          /\ UNCHANGED <<ch_status, mutes, told>>
       \/ /\ ~ch_status /\ (ajx_active \/ audio_ch = FM)
          /\ ch_status' = TRUE
          /\ UNCHANGED <<gap0, gap1, chip, pin>>
          /\ IF ajx_active THEN UNCHANGED <<mute, lvl>>
                           ELSE UNCHANGED mute /\ SetVolume0
          /\ Goto("idle")
       \/ /\ ~ch_status /\ ~ajx_active /\ audio_ch # FM
          /\ chip' = FM
          /\ mute' = FALSE /\ gap1' = FALSE
          /\ SetVolume60
          /\ Goto("ta")
          /\ UNCHANGED <<ch_status, gap0, pin>>
TaTakes ==
    /\ audpc = "ta"
    /\ UNCHANGED <<audq, timers, power, source, spoken, ajx_active, gap0, gap1,
                   chip, pin, tainted>>
    /\ ch_status' = TRUE
    /\ UNCHANGED mute /\ SetVolume0
    /\ Goto("idle")
TaGivesBack == chip' = IF audio_ch = FM THEN chip ELSE Sel(audio_ch)
TaEnds ==
    /\ Take(25)
    /\ UNCHANGED <<timers, power, source, spoken, ajx_active, gap0, gap1, pin,
                   tainted>>
    /\ ch_status' = FALSE
    /\ IF ch_status /\ ~ajx_active
       THEN TaGivesBack /\ UNCHANGED mute /\ SetVolume0
       ELSE UNCHANGED <<chip, lvl, mute>>
    /\ Goto("idle")

\* 26: the new channel may be heard.
GapEnds ==
    /\ Take(26)
    /\ UNCHANGED <<timers, power, source, spoken, holders, chip, pin, tainted>>
    /\ gap0' = FALSE
    /\ gap1' = (gap1 /\ ~gap0)
    /\ IF gap0 /\ audio_active THEN UNCHANGED mute /\ SetVolume0
                               ELSE UNCHANGED <<mute, lvl>>
    /\ Goto("idle")

\* 27: the voice control begins (4) or ends.
Speech ==
    /\ Take(27)
    /\ speech' = (Arg = 4)
    /\ audio_ch2' = 255
    /\ tainted' = tainted \cup {"route", "sources"}
    /\ Goto("idle")
    /\ UNCHANGED <<timers, power, source, holders, mutes, told>>

audio_work ==
    \/ Channel \/ LeaveOld \/ SetMute \/ Volume \/ Refresh
    \/ SourceGap \/ SourceGapElsewhere \/ AudioOn \/ AudioOff
    \/ AjxBegins \/ AjxTakes \/ AjxEnds \/ SessionEnds
    \/ TaBegins \/ TaTakes \/ TaEnds \/ GapEnds \/ Speech

-----------------------------------------------------------------------------
(* The other threads.                                                      *)

Room == Len(audq) < QMax
audio_add_work(c, a) == audq' = Append(audq, Item(c, a))
Rest == <<source, spoken, mutes, told>>

Request(r) ==
    /\ Room /\ audio_add_work(r.cmd, r.arg)
    /\ UNCHANGED <<timers, threads, power, holders, tainted, Rest>>

\* Items 42 of car_work, and power_soft_off, which clears ch_status under
\* whatever audio_work is doing.
PowerOn ==
    /\ Room
    /\ power_refcnt' = 1
    /\ audio_add_work(20, 0)
    /\ UNCHANGED <<timers, threads, audio_active, holders, tainted, Rest>>
power_soft_off ==
    /\ Room
    /\ power_refcnt' = 0
    /\ ch_status' = FALSE
    /\ audio_add_work(21, 0)
    /\ tainted' = IF ch_status \/ audpc = "ta" THEN tainted \cup {"route"}
                                               ELSE tainted
    /\ UNCHANGED <<timers, threads, audio_active, ajx_active, Rest>>

\* av_channel_enter and av_channel_exit, one at a time under car_io_lock: the
\* handler flushes audio_wq and then asks for the gap to be ended.
av_channel(c, ch) ==
    /\ Room /\ iopc = "idle" /\ timers < TimersMax
    /\ audio_add_work(c, ch)
    /\ iopc' = "flush" /\ UNCHANGED <<audpc, from>>
    /\ UNCHANGED <<timers, power, holders, tainted, Rest>>

\* audio_channel_switch_unmute: the drive and the tuner are given time.
Flushed     == audpc # "switch" /\ \A i \in DOMAIN audq : audq[i].cmd \notin {0, 1}
Slow        == {DVD, DTV}
OnlyDvd     == gap0 /\ audio_ch = DVD
UnmuteLater == gap0 /\ audio_ch \in Slow
UnmuteNow   == gap0 /\ audio_ch \notin Slow
audio_channel_switch_unmute ==
    /\ iopc = "flush" /\ Flushed
    /\ timers' = IF UnmuteLater THEN timers + 1 ELSE timers
    /\ IF UnmuteNow THEN audio_add_work(26, 0) ELSE UNCHANGED audq
    /\ iopc' = "idle" /\ UNCHANGED <<audpc, from>>
    /\ UNCHANGED <<power, holders, tainted, Rest>>
TimerDue ==
    /\ timers > 0
    /\ timers' = timers - 1
    /\ audio_add_work(26, 0)
    /\ UNCHANGED <<threads, power, holders, tainted, Rest>>

-----------------------------------------------------------------------------
\* audio_init and car_probe: everything is 0 until the power comes.
Init ==
    /\ audq = <<>> /\ audpc = "idle" /\ from = SYS
    /\ audio_active = FALSE /\ power_refcnt = 0
    /\ audio_ch = 0 /\ speech = FALSE /\ audio_ch2 = 0
    /\ ajx_active = FALSE /\ ch_status = FALSE
    /\ tv_on = FALSE /\ dvd_on = FALSE
    /\ mute = FALSE /\ gap0 = FALSE /\ gap1 = FALSE
    /\ chip = SYS /\ lvl = "reset" /\ pin = FALSE
    /\ timers = 0 /\ iopc = "idle" /\ tainted = {}

Next ==
    \/ audio_work
    \/ \E r \in Requests : Request(r)
    \/ PowerOn \/ power_soft_off
    \/ \E c \in {0, 1}, ch \in Channels : av_channel(c, ch)
    \/ audio_channel_switch_unmute
    \/ TimerDue

Spec == Init /\ [][Next]_vars

-----------------------------------------------------------------------------
(* Properties.                                                             *)

\* audio_work stands between two items and the sound is on.
Settled == audpc = "idle" /\ audio_active

\* Every variable stays in its range, and no handler is left half way.
TypeOK ==
    /\ audq \in Seq([cmd : 0..27, arg : 0..7])
    /\ audpc \in {"idle", "switch", "ajx", "end", "ta"}
    /\ iopc \in {"idle", "flush"}
    /\ audio_active \in BOOLEAN /\ speech \in BOOLEAN
    /\ ajx_active \in BOOLEAN /\ ch_status \in BOOLEAN
    /\ tv_on \in BOOLEAN /\ dvd_on \in BOOLEAN /\ pin \in BOOLEAN
    /\ mute \in BOOLEAN /\ gap0 \in BOOLEAN /\ gap1 \in BOOLEAN
    /\ power_refcnt \in 0..255
    /\ audio_ch \in 0..7 /\ from \in 0..7 /\ audio_ch2 \in 0..7 \cup {255}
    /\ chip \in 0..8 /\ lvl \in Levels \cup {"reset", "out", "faded"}
    /\ timers \in Nat
    /\ tainted \subseteq {"route", "sources"}

\* Whatever began and ended in whatever order, channels, outside source and
\* announcements, the chip plays what holds the sound: nobody who gave it back
\* or was refused is still heard.  Except after a power cycle that one of the
\* holders outlived, and in speech.
ChipFollows == Settled /\ "route" \notin tainted => chip = Sel(Heard)

\* The level the chip was last told is what the present state calls for: no
\* path, however it was left, leaves the unit silent or loud by mistake.  While
\* the unit is muted it is what the fade ended with, and nothing has raised it
\* since; that nothing is heard then is not the work of the level, which is still
\* step 5 for most customers, but of MTC_CMD_SET_MUTE.
LevelRight ==
    Settled /\ "route" \notin tainted /\ lvl # "reset"
        => lvl = (IF mute THEN FadedOut ELSE Level)

\* A drive or tuner that is on is the channel Android wants: every other one
\* was switched off when it was left, also while somebody else was heard.
SourcesOff ==
    Settled /\ "sources" \notin tainted
        => (tv_on => audio_ch = DTV) /\ (dvd_on => audio_ch = DVD)

\* The pin that hides the pops of a switch is released on every path.
PinReleased == Settled => ~pin

\* The gap of a new channel never outlives what is to end it: the ioctl that
\* switched has yet to look (audio_channel_switch_unmute), or a delayed item 26
\* has yet to fall due, or an item 26 is queued.  Also when another channel has
\* been entered since, slow or not, and when an older item 26 came in between.
GapWatched ==
    gap0 => \/ iopc = "flush"
            \/ timers > 0
            \/ \E i \in DOMAIN audq : audq[i].cmd = 26

\* car.h says that ajx_active means that the outside channel is active.
AjxHeard == Settled /\ audq = <<>> /\ ajx_active => chip = Sel(AjxCh)
=============================================================================
