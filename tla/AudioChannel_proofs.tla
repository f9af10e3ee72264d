------------------------ MODULE AudioChannel_proofs ------------------------
(***************************************************************************)
(* The safety of the channel logic, for every set of channels, requests    *)
(* and boards.                                                             *)
(*                                                                         *)
(* The inductive invariant carries each property through the handlers that *)
(* are split: the announcement that has changed the chip and not yet       *)
(* noted it, and the switch that has not yet left its old source.          *)
(***************************************************************************)
EXTENDS AudioChannel, SequenceTheorems, TLAPS

AudioItems == [cmd : 0..27, arg : 0..7]

\* Speech, once begun, is a stain: until the power comes again nothing is said.
SpeechInv == speech => {"route", "sources"} \subseteq tainted

\* Clean: the sound is on and the holders are the power cycle's own.
Clean == audio_active /\ "route" \notin tainted

\* An announcement about to take the sound finds it free, and FM told.
TaInv == audpc = "ta" =>
            ~ch_status /\ ~ajx_active /\ ~mute /\ (Clean => chip = FM)

SwitchInv == audpc = "switch" => audio_active /\ ~ajx_active /\ ~ch_status

ChipInv  == audpc # "ta" /\ Clean => chip = Sel(Heard)
LevelInv == audpc # "ta" /\ Clean /\ lvl # "reset" =>
                lvl = (IF mute THEN FadedOut ELSE Level)

\* The tuner or drive that is on is wanted, or is the one that is being left.
SourceInv ==
    audio_active /\ "sources" \notin tainted =>
        /\ tv_on => audio_ch = DTV \/ (audpc = "switch" /\ from = DTV)
        /\ dvd_on => audio_ch = DVD \/ (audpc = "switch" /\ from = DVD)

PinInv == audio_active /\ pin => audpc = "switch" /\ Releases(audio_ch, from)

IInv == /\ TypeOK /\ SpeechInv /\ TaInv /\ SwitchInv
        /\ ChipInv /\ LevelInv /\ SourceInv /\ PinInv

\* The parts of the type invariant.
Places == /\ audpc \in {"idle", "switch", "ajx", "end", "ta"}
          /\ iopc \in {"idle", "flush"} /\ timers \in Nat
          /\ power_refcnt \in 0..255
          /\ audio_ch \in 0..7 /\ from \in 0..7
          /\ audio_ch2 \in 0..7 \cup {255}
Outputs == /\ chip \in 0..8 /\ lvl \in Levels \cup {"reset", "out", "faded"}
           /\ tainted \subseteq {"route", "sources"}
Flags == /\ audio_active \in BOOLEAN /\ speech \in BOOLEAN
         /\ ajx_active \in BOOLEAN /\ ch_status \in BOOLEAN
         /\ tv_on \in BOOLEAN /\ dvd_on \in BOOLEAN /\ pin \in BOOLEAN
         /\ mute \in BOOLEAN /\ gap0 \in BOOLEAN /\ gap1 \in BOOLEAN

-----------------------------------------------------------------------------
\* The oldest item and the rest of the queue.
LEMMA TakeFacts ==
    ASSUME audq \in Seq(AudioItems), NEW c, Take(c)
    PROVE  audpc = "idle" /\ audq' \in Seq(AudioItems) /\ Arg \in 0..7
<1>1. audq # <<>> /\ audq' = Tail(audq) /\ audpc = "idle"
  BY DEF Take
<1>2. Head(audq) \in AudioItems /\ Tail(audq) \in Seq(AudioItems)
  BY <1>1, HeadTailProperties
<1> QED
  BY <1>1, <1>2 DEF AudioItems, Arg

\* An item of another thread behind the rest.
LEMMA AddFacts ==
    ASSUME NEW q \in Seq(AudioItems), NEW c \in 0..27, NEW a \in 0..7
    PROVE  Append(q, Item(c, a)) \in Seq(AudioItems)
<1>1. Item(c, a) \in AudioItems
  BY DEF Item, AudioItems
<1> QED
  BY <1>1, AppendProperties

\* Whoever only adds to the queue, or takes from it, changes nothing of this.
LEMMA QueueOnly ==
    ASSUME IInv, audq' \in Seq(AudioItems), timers' \in Nat,
           iopc' \in {"idle", "flush"}, power_refcnt' \in 0..255,
           UNCHANGED <<audpc, from, audio_active, source, spoken, holders,
                       mutes, told, tainted>>
    PROVE  IInv'
<1>1. UNCHANGED <<audpc, from, audio_active, audio_ch, tv_on, dvd_on, speech,
                  audio_ch2, ajx_active, ch_status, mute, gap0, gap1, chip, lvl,
                  pin, tainted>>
  BY DEF source, spoken, holders, mutes, told
<1>2. TypeOK'
  BY <1>1 DEF IInv, TypeOK, AudioItems
<1>3. ChipInv' /\ LevelInv'
  BY <1>1 DEF IInv, ChipInv, LevelInv, Clean, Heard, Level, Gap,
     FadedOut, Direct, Playing
<1> QED
  BY <1>1, <1>2, <1>3 DEF IInv, SpeechInv, TaInv, SwitchInv, Clean, SourceInv,
     PinInv

\* The queue of a good state.
LEMMA QueueType == ASSUME IInv PROVE audq \in Seq(AudioItems)
  BY DEF IInv, TypeOK, AudioItems

\* power_refcnt is a byte.
LEMMA Wraps == \A n \in 0..255 : (n + 1) % 256 \in 0..255
  OBVIOUS

\* The inputs of the chip.
LEMMA SelFacts ==
    /\ \A ch \in 0..8 : Sel(ch) \in 0..8
    /\ Sel(FM) = FM
    /\ BtShared => Sel(GSM_BT) = Sel(SYS)
  BY DEF Sel, FM, GSM_BT, SYS

\* Nothing on, nothing held.
LEMMA InitInv == ASSUME Init PROVE IInv
<1> USE DEF Init
<1>1. TypeOK
  <2>1. audq \in Seq([cmd : 0..27, arg : 0..7])
    OBVIOUS
  <2>2. tainted \subseteq {"route", "sources"}
    OBVIOUS
  <2>3. /\ audio_active \in BOOLEAN /\ speech \in BOOLEAN
        /\ ajx_active \in BOOLEAN /\ ch_status \in BOOLEAN
        /\ tv_on \in BOOLEAN /\ dvd_on \in BOOLEAN /\ pin \in BOOLEAN
        /\ mute \in BOOLEAN /\ gap0 \in BOOLEAN /\ gap1 \in BOOLEAN
    OBVIOUS
  <2>4. /\ power_refcnt \in 0..255 /\ audio_ch \in 0..7 /\ from \in 0..7
        /\ audio_ch2 \in 0..7 \cup {255} /\ chip \in 0..8 /\ timers \in Nat
    BY DEF SYS
  <2> QED
    BY <2>1, <2>2, <2>3, <2>4 DEF TypeOK
<1>2. SpeechInv /\ TaInv /\ SwitchInv /\ ChipInv /\ LevelInv /\ SourceInv /\ PinInv
  BY DEF SpeechInv, TaInv, SwitchInv, ChipInv, LevelInv, SourceInv, PinInv, Clean
<1> QED
  BY <1>1, <1>2 DEF IInv

-----------------------------------------------------------------------------
(* The handlers of audio_work, one lemma each.                             *)

\* 2: Audio_Mute.
LEMMA SetMuteInv == ASSUME IInv, SetMute PROVE IInv'
<1> USE DEF SetMute, Mute, SetVolume0, Goto, source, spoken, holders, mutes,
      told, power
<1>1. audpc = "idle" /\ audq' \in Seq(AudioItems)
  BY TakeFacts DEF IInv, TypeOK, AudioItems
<1>2. Places'
  BY <1>1, AudioAssumption DEF IInv, TypeOK, Places, SYS, FM
<1>3. Outputs'
  BY SelFacts, AudioAssumption
  DEF IInv, TypeOK, Outputs, Level, Gap, Levels, FadedOut, SYS, FM
<1>4. Flags'
  <2>1. UNCHANGED <<audio_active, speech, ajx_active, ch_status, tv_on,
                  dvd_on, pin, gap0, gap1>>
    OBVIOUS
  <2>2. mute' \in BOOLEAN
    BY DEF IInv, TypeOK
  <2> QED
    BY <2>1, <2>2 DEF IInv, TypeOK, Flags
<1>5. SpeechInv' /\ TaInv' /\ SwitchInv'
  BY <1>1 DEF IInv, TypeOK, SpeechInv, TaInv, SwitchInv, Clean
<1>6. ChipInv'
  BY <1>1, SelFacts DEF IInv, TypeOK, ChipInv, TaInv, SpeechInv, Clean,
     Heard
<1>7. LevelInv'
  BY <1>1 DEF IInv, TypeOK, LevelInv, PinInv, TaInv, SpeechInv, Clean, Level, Gap,
     FadedOut, Direct, Playing
<1>8. SourceInv' /\ PinInv'
  BY <1>1 DEF IInv, TypeOK, SourceInv, PinInv, SwitchInv
<1> QED
  BY <1>1, <1>2, <1>3, <1>4, <1>5, <1>6, <1>7, <1>8
  DEF IInv, TypeOK, AudioItems, Places, Outputs, Flags

\* 3: the volume.
LEMMA VolumeInv == ASSUME IInv, Volume PROVE IInv'
<1> USE DEF Volume, SetVolume0, Goto, source, spoken, holders, mutes, told, power
<1>1. audpc = "idle" /\ audq' \in Seq(AudioItems)
  BY TakeFacts DEF IInv, TypeOK, AudioItems
<1>2. Places'
  BY <1>1, AudioAssumption DEF IInv, TypeOK, Places, SYS, FM
<1>3. Outputs'
  BY SelFacts, AudioAssumption
  DEF IInv, TypeOK, Outputs, Level, Gap, Levels, FadedOut, SYS, FM
<1>4. Flags'
  <2>1. UNCHANGED <<audio_active, speech, ajx_active, ch_status, tv_on,
                  dvd_on, pin, gap0, gap1>>
    OBVIOUS
  <2>2. mute' \in BOOLEAN
    BY DEF IInv, TypeOK
  <2> QED
    BY <2>1, <2>2 DEF IInv, TypeOK, Flags
<1>5. SpeechInv' /\ TaInv' /\ SwitchInv'
  BY <1>1 DEF IInv, TypeOK, SpeechInv, TaInv, SwitchInv, Clean
<1>6. ChipInv'
  BY <1>1, SelFacts DEF IInv, TypeOK, ChipInv, TaInv, SpeechInv, Clean,
     Heard
<1>7. LevelInv'
  BY <1>1 DEF IInv, TypeOK, LevelInv, TaInv, SpeechInv, Clean, Level, Gap,
     FadedOut, Direct, Playing
<1>8. SourceInv' /\ PinInv'
  BY <1>1 DEF IInv, TypeOK, SourceInv, PinInv, SwitchInv
<1> QED
  BY <1>1, <1>2, <1>3, <1>4, <1>5, <1>6, <1>7, <1>8
  DEF IInv, TypeOK, AudioItems, Places, Outputs, Flags

\* 7 and 17: the level again.
LEMMA RefreshInv == ASSUME IInv, Refresh PROVE IInv'
<1> USE DEF Refresh, SetVolume0, Goto, source, spoken, holders, mutes, told, power
<1>1. audpc = "idle" /\ audq' \in Seq(AudioItems)
  BY TakeFacts DEF IInv, TypeOK, AudioItems
<1>2. Places'
  BY <1>1, AudioAssumption DEF IInv, TypeOK, Places, SYS, FM
<1>3. Outputs'
  BY SelFacts, AudioAssumption
  DEF IInv, TypeOK, Outputs, Level, Gap, Levels, FadedOut, SYS, FM
<1>4. Flags'
  <2>1. UNCHANGED <<audio_active, speech, ajx_active, ch_status, tv_on,
                  dvd_on, pin, mute, gap0, gap1>>
    OBVIOUS
  <2> QED
    BY <2>1 DEF IInv, TypeOK, Flags
<1>5. SpeechInv' /\ TaInv' /\ SwitchInv'
  BY <1>1 DEF IInv, TypeOK, SpeechInv, TaInv, SwitchInv, Clean
<1>6. ChipInv'
  BY <1>1, SelFacts DEF IInv, TypeOK, ChipInv, TaInv, SpeechInv, Clean,
     Heard
<1>7. LevelInv'
  BY <1>1 DEF IInv, TypeOK, LevelInv, TaInv, SpeechInv, Clean, Level, Gap,
     FadedOut, Direct, Playing
<1>8. SourceInv' /\ PinInv'
  BY <1>1 DEF IInv, TypeOK, SourceInv, PinInv, SwitchInv
<1> QED
  BY <1>1, <1>2, <1>3, <1>4, <1>5, <1>6, <1>7, <1>8
  DEF IInv, TypeOK, AudioItems, Places, Outputs, Flags

\* 18 and 19: the source is ready, or is not.
LEMMA SourceGapInv == ASSUME IInv, SourceGap PROVE IInv'
<1> USE DEF SourceGap, SetVolume0, Goto, source, spoken, holders, mutes, told,
      power
<1>1. audpc = "idle" /\ audq' \in Seq(AudioItems)
  BY TakeFacts DEF IInv, TypeOK, AudioItems
<1>2. Places'
  BY <1>1, AudioAssumption DEF IInv, TypeOK, Places, SYS, FM
<1>3. Outputs'
  BY SelFacts, AudioAssumption
  DEF IInv, TypeOK, Outputs, Level, Gap, Levels, FadedOut, SYS, FM
<1>4. Flags'
  <2>1. UNCHANGED <<audio_active, speech, ajx_active, ch_status, tv_on,
                  dvd_on, pin, mute, gap0>>
    OBVIOUS
  <2>2. gap1' \in BOOLEAN
    BY DEF IInv, TypeOK
  <2> QED
    BY <2>1, <2>2 DEF IInv, TypeOK, Flags
<1>5. SpeechInv' /\ TaInv' /\ SwitchInv'
  BY <1>1 DEF IInv, TypeOK, SpeechInv, TaInv, SwitchInv, Clean
<1>6. ChipInv'
  BY <1>1, SelFacts DEF IInv, TypeOK, ChipInv, TaInv, SpeechInv, Clean,
     Heard
<1>7. LevelInv'
  BY <1>1 DEF IInv, TypeOK, LevelInv, TaInv, SpeechInv, Clean, Level, Gap,
     FadedOut, Direct, Playing
<1>8. SourceInv' /\ PinInv'
  BY <1>1 DEF IInv, TypeOK, SourceInv, PinInv, SwitchInv
<1> QED
  BY <1>1, <1>2, <1>3, <1>4, <1>5, <1>6, <1>7, <1>8
  DEF IInv, TypeOK, AudioItems, Places, Outputs, Flags

\* 19 when the radio is not the channel.
LEMMA SourceGapElsewhereInv == ASSUME IInv, SourceGapElsewhere PROVE IInv'
<1> USE DEF SourceGapElsewhere, Goto, source, spoken, holders, mutes, told, power
<1>1. audpc = "idle" /\ audq' \in Seq(AudioItems)
  BY TakeFacts DEF IInv, TypeOK, AudioItems
<1>2. Places'
  BY <1>1, AudioAssumption DEF IInv, TypeOK, Places, SYS, FM
<1>3. Outputs'
  BY SelFacts, AudioAssumption
  DEF IInv, TypeOK, Outputs, Level, Gap, Levels, FadedOut, SYS, FM
<1>4. Flags'
  <2>1. UNCHANGED <<audio_active, speech, ajx_active, ch_status, tv_on,
                  dvd_on, pin, mute, gap0, gap1>>
    OBVIOUS
  <2> QED
    BY <2>1 DEF IInv, TypeOK, Flags
<1>5. SpeechInv' /\ TaInv' /\ SwitchInv'
  BY <1>1 DEF IInv, TypeOK, SpeechInv, TaInv, SwitchInv, Clean
<1>6. ChipInv'
  BY <1>1, SelFacts DEF IInv, TypeOK, ChipInv, TaInv, SpeechInv, Clean,
     Heard
<1>7. LevelInv'
  BY <1>1 DEF IInv, TypeOK, LevelInv, TaInv, SpeechInv, Clean, Level, Gap,
     FadedOut, Direct, Playing
<1>8. SourceInv' /\ PinInv'
  BY <1>1 DEF IInv, TypeOK, SourceInv, PinInv, SwitchInv
<1> QED
  BY <1>1, <1>2, <1>3, <1>4, <1>5, <1>6, <1>7, <1>8
  DEF IInv, TypeOK, AudioItems, Places, Outputs, Flags

\* audio_active: what was told before no longer counts, and what the holders or
\* the sources have kept is tainted.
LEMMA ActivateFacts ==
    ASSUME IInv, Activate, audpc # "ta", UNCHANGED <<holders, spoken>>
    PROVE  audio_ch' \in 0..7 /\ Outputs' /\ ChipInv' /\ LevelInv'
<1> USE DEF Activate, holders, spoken, mutes, told
<1>1. CASE audio_active
  <2>1. UNCHANGED <<audio_active, audio_ch, speech, audio_ch2, ajx_active,
                    ch_status, mute, gap0, gap1, chip, lvl, pin, tainted>>
    BY <1>1 DEF IInv, TypeOK
  <2> QED
    BY <2>1 DEF IInv, TypeOK, Outputs, ChipInv, LevelInv, Clean, Heard, Level, Gap,
       FadedOut, Direct, Playing
<1>2. CASE ~audio_active
  <2>1. audio_ch' = SYS /\ chip' = SYS /\ ~mute'
    BY <1>2
  <2>2. lvl' \in {"reset", Level'} /\ lvl' \in Levels \cup {"reset"}
    BY <1>2 DEF Level, Gap, Levels
  <2>3. tainted' = (IF ajx_active \/ ch_status \/ speech
                       THEN {"route"} ELSE {}) \cup
                   (IF tv_on \/ dvd_on \/ speech
                       THEN {"sources"} ELSE {})
    BY <1>2
  <2>4. tainted' \subseteq {"route", "sources"}
    BY <2>3
  <2>5. "route" \notin tainted' => ~ajx_active' /\ ~ch_status'
    BY <2>3
  <2> QED
    BY <2>1, <2>2, <2>4, <2>5 DEF Outputs, ChipInv, LevelInv, Clean, Heard,
       Sel, SYS, GSM_BT
<1> QED
  BY <1>1, <1>2

\* 20: the sound goes on.
LEMMA AudioOnInv == ASSUME IInv, AudioOn PROVE IInv'
<1> USE DEF AudioOn, Activate, Goto, source, spoken, holders, mutes, told, power
<1>1. audpc = "idle" /\ audq' \in Seq(AudioItems)
  BY TakeFacts DEF IInv, TypeOK, AudioItems
<1>2. Places'
  BY <1>1, AudioAssumption DEF IInv, TypeOK, Places, SYS, FM
<1>3. Outputs'
  BY <1>1, ActivateFacts
<1>4. Flags'
  <2>1. UNCHANGED <<speech, ajx_active, ch_status, tv_on, dvd_on, gap1>>
    OBVIOUS
  <2>2. audio_active' \in BOOLEAN
    BY DEF IInv, TypeOK
  <2>3. pin' \in BOOLEAN
    BY DEF IInv, TypeOK
  <2>4. mute' \in BOOLEAN
    BY DEF IInv, TypeOK
  <2>5. gap0' \in BOOLEAN
    BY DEF IInv, TypeOK
  <2> QED
    BY <2>1, <2>2, <2>3, <2>4, <2>5 DEF IInv, TypeOK, Flags
<1>5. SpeechInv' /\ TaInv' /\ SwitchInv'
  BY <1>1 DEF IInv, TypeOK, SpeechInv, TaInv, SwitchInv, Clean
<1>6. ChipInv'
  BY <1>1, ActivateFacts
<1>7. LevelInv'
  BY <1>1, ActivateFacts
<1>8. SourceInv' /\ PinInv'
  BY <1>1 DEF IInv, TypeOK, SourceInv, PinInv, SwitchInv
<1> QED
  BY <1>1, <1>2, <1>3, <1>4, <1>5, <1>6, <1>7, <1>8
  DEF IInv, TypeOK, AudioItems, Places, Outputs, Flags

\* 21: the sound goes off.
LEMMA AudioOffInv == ASSUME IInv, AudioOff PROVE IInv'
<1> USE DEF AudioOff, Deactivate, Goto, source, spoken, holders, mutes, told,
      power
<1>1. audpc = "idle" /\ audq' \in Seq(AudioItems)
  BY TakeFacts DEF IInv, TypeOK, AudioItems
<1>2. Places'
  BY <1>1, AudioAssumption DEF IInv, TypeOK, Places, SYS, FM
<1>3. Outputs'
  BY SelFacts, AudioAssumption
  DEF IInv, TypeOK, Outputs, Level, Gap, Levels, FadedOut, SYS, FM
<1>4. Flags'
  <2>1. UNCHANGED <<speech, ajx_active, ch_status, tv_on, dvd_on, mute,
                  gap0, gap1>>
    OBVIOUS
  <2>2. audio_active' \in BOOLEAN
    BY DEF IInv, TypeOK
  <2>3. pin' \in BOOLEAN
    BY DEF IInv, TypeOK
  <2> QED
    BY <2>1, <2>2, <2>3 DEF IInv, TypeOK, Flags
<1>5. SpeechInv' /\ TaInv' /\ SwitchInv'
  BY <1>1 DEF IInv, TypeOK, SpeechInv, TaInv, SwitchInv, Clean
<1>6. ChipInv'
  BY <1>1, SelFacts DEF IInv, TypeOK, ChipInv, TaInv, SpeechInv, Clean,
     Heard
<1>7. LevelInv'
  BY <1>1 DEF IInv, TypeOK, LevelInv, TaInv, SpeechInv, Clean, Level, Gap,
     FadedOut, Direct, Playing
<1>8. SourceInv' /\ PinInv'
  BY <1>1 DEF IInv, TypeOK, SourceInv, PinInv, SwitchInv
<1> QED
  BY <1>1, <1>2, <1>3, <1>4, <1>5, <1>6, <1>7, <1>8
  DEF IInv, TypeOK, AudioItems, Places, Outputs, Flags

\* 22: the session of the outside source, then its sound.
LEMMA AjxBeginsInv == ASSUME IInv, AjxBegins PROVE IInv'
<1> USE DEF AjxBegins, AjxHeld, Activate, Goto, source, spoken, holders, mutes,
      told, power
<1>1. audpc = "idle" /\ audq' \in Seq(AudioItems)
  BY TakeFacts DEF IInv, TypeOK, AudioItems
<1>2. audio_ch' \in 0..7 /\ Outputs' /\ ChipInv' /\ LevelInv'
  <2>1. CASE Activate
    BY <1>1, <2>1, ActivateFacts
  <2>2. CASE UNCHANGED <<audio_active, audio_ch, mutes, told, tainted>>
    <3>1. audpc' # "ta" /\ UNCHANGED <<audio_active, audio_ch, speech, audio_ch2,
             ajx_active, ch_status, mute, gap0, gap1, chip, lvl, pin, tainted>>
      BY <1>1, <2>2
    <3> QED
      BY <1>1, <3>1 DEF IInv, TypeOK, Outputs, ChipInv, LevelInv, Clean, Heard,
         Level, Gap, FadedOut, Direct, Playing
  <2>3. UNCHANGED <<power, audio_ch, mutes, told, tainted>> =>
           UNCHANGED <<audio_active, audio_ch, mutes, told, tainted>>
    OBVIOUS
  <2> HIDE DEF Activate, Goto, source, spoken, holders, mutes, told, power
  <2>4. \/ UNCHANGED <<power, audio_ch, mutes, told, tainted>>
        \/ UNCHANGED <<audio_active, audio_ch, mutes, told, tainted>>
        \/ Activate
    OBVIOUS
  <2> QED
    BY <2>1, <2>2, <2>3, <2>4
<1>3. Places'
  <2>1. power_refcnt' \in 0..255
    <3>1. \/ power_refcnt' = power_refcnt
          \/ power_refcnt' = (power_refcnt + 1) % 256
      OBVIOUS
    <3>2. power_refcnt \in 0..255
      BY DEF IInv, TypeOK
    <3> QED
      BY <3>1, <3>2, Wraps
  <2>2. /\ audpc' \in {"idle", "ajx"}
        /\ UNCHANGED <<iopc, timers, from, audio_ch2>>
    OBVIOUS
  <2> QED
    BY <1>2, <2>1, <2>2 DEF IInv, TypeOK, Places
<1>4. Flags'
  <2>1. UNCHANGED <<speech, ajx_active, ch_status, tv_on, dvd_on, gap1>>
    OBVIOUS
  <2>2. audio_active' \in BOOLEAN
    BY DEF IInv, TypeOK
  <2>3. pin' \in BOOLEAN
    BY DEF IInv, TypeOK
  <2>4. mute' \in BOOLEAN
    BY DEF IInv, TypeOK
  <2>5. gap0' \in BOOLEAN
    BY DEF IInv, TypeOK
  <2> QED
    BY <2>1, <2>2, <2>3, <2>4, <2>5 DEF IInv, TypeOK, Flags
<1>5. SpeechInv' /\ TaInv' /\ SwitchInv'
  BY <1>1 DEF IInv, TypeOK, SpeechInv, TaInv, SwitchInv, Clean
<1>6. SourceInv' /\ PinInv'
  BY <1>1 DEF IInv, TypeOK, SourceInv, PinInv, SwitchInv
<1> QED
  BY <1>1, <1>2, <1>3, <1>4, <1>5, <1>6
  DEF IInv, TypeOK, AudioItems, Places, Outputs, Flags

LEMMA AjxTakesInv == ASSUME IInv, AjxTakes PROVE IInv'
<1> USE DEF AjxTakes, SetVolume0, Goto, source, spoken, holders, mutes, told,
      power
<1>1. audq' \in Seq(AudioItems)
  BY DEF IInv, TypeOK, AudioItems
<1>2. Places'
  BY <1>1, AudioAssumption DEF IInv, TypeOK, Places, SYS, FM
<1>3. Outputs'
  BY SelFacts, AudioAssumption
  DEF IInv, TypeOK, Outputs, Level, Gap, Levels, FadedOut, SYS, FM
<1>4. Flags'
  <2>1. UNCHANGED <<audio_active, speech, ch_status, tv_on, dvd_on, pin,
                  gap0>>
    OBVIOUS
  <2>2. ajx_active' \in BOOLEAN
    BY DEF IInv, TypeOK
  <2>3. mute' \in BOOLEAN
    BY DEF IInv, TypeOK
  <2>4. gap1' \in BOOLEAN
    BY DEF IInv, TypeOK
  <2> QED
    BY <2>1, <2>2, <2>3, <2>4 DEF IInv, TypeOK, Flags
<1>5. SpeechInv' /\ TaInv' /\ SwitchInv'
  BY <1>1 DEF IInv, TypeOK, SpeechInv, TaInv, SwitchInv, Clean
<1>6. ChipInv'
  BY <1>1, SelFacts DEF IInv, TypeOK, ChipInv, TaInv, SpeechInv, Clean,
     Heard
<1>7. LevelInv'
  BY <1>1 DEF IInv, TypeOK, LevelInv, TaInv, SpeechInv, Clean, Level, Gap,
     FadedOut, Direct, Playing
<1>8. SourceInv' /\ PinInv'
  BY <1>1 DEF IInv, TypeOK, SourceInv, PinInv, SwitchInv
<1> QED
  BY <1>1, <1>2, <1>3, <1>4, <1>5, <1>6, <1>7, <1>8
  DEF IInv, TypeOK, AudioItems, Places, Outputs, Flags

\* 23: the sound is given back, then the session ends.
LEMMA AjxEndsInv == ASSUME IInv, AjxEnds PROVE IInv'
<1> USE DEF AjxEnds, AjxGivesBack, SetVolume0, Goto, source, spoken, holders,
      mutes, told, power
<1>1. audpc = "idle" /\ audq' \in Seq(AudioItems)
  BY TakeFacts DEF IInv, TypeOK, AudioItems
<1>2. Places'
  BY <1>1, AudioAssumption DEF IInv, TypeOK, Places, SYS, FM
<1>3. Outputs'
  BY SelFacts, AudioAssumption
  DEF IInv, TypeOK, Outputs, Level, Gap, Levels, FadedOut, SYS, FM
<1>4. Flags'
  <2>1. UNCHANGED <<audio_active, speech, ch_status, tv_on, dvd_on, pin,
                  mute, gap0, gap1>>
    OBVIOUS
  <2>2. ajx_active' \in BOOLEAN
    BY DEF IInv, TypeOK
  <2> QED
    BY <2>1, <2>2 DEF IInv, TypeOK, Flags
<1>5. SpeechInv' /\ TaInv' /\ SwitchInv'
  BY <1>1 DEF IInv, TypeOK, SpeechInv, TaInv, SwitchInv, Clean
<1>6. ChipInv'
  BY <1>1, SelFacts DEF IInv, TypeOK, ChipInv, TaInv, SpeechInv, Clean,
     Heard
<1>7. LevelInv'
  BY <1>1 DEF IInv, TypeOK, LevelInv, TaInv, SpeechInv, Clean, Level, Gap,
     FadedOut, Direct, Playing
<1>8. SourceInv' /\ PinInv'
  BY <1>1 DEF IInv, TypeOK, SourceInv, PinInv, SwitchInv
<1> QED
  BY <1>1, <1>2, <1>3, <1>4, <1>5, <1>6, <1>7, <1>8
  DEF IInv, TypeOK, AudioItems, Places, Outputs, Flags

LEMMA SessionEndsInv == ASSUME IInv, SessionEnds PROVE IInv'
<1> USE DEF SessionEnds, OneLess, Deactivate, Goto, source, spoken, holders,
      mutes, told, power
<1>1. audq' \in Seq(AudioItems)
  BY DEF IInv, TypeOK, AudioItems
<1>2. Places'
  BY <1>1, AudioAssumption DEF IInv, TypeOK, Places, SYS, FM
<1>3. Outputs'
  BY SelFacts, AudioAssumption
  DEF IInv, TypeOK, Outputs, Level, Gap, Levels, FadedOut, SYS, FM
<1>4. Flags'
  <2>1. UNCHANGED <<speech, ajx_active, ch_status, tv_on, dvd_on, mute,
                  gap0, gap1>>
    OBVIOUS
  <2>2. audio_active' \in BOOLEAN
    BY DEF IInv, TypeOK
  <2>3. pin' \in BOOLEAN
    BY DEF IInv, TypeOK
  <2> QED
    BY <2>1, <2>2, <2>3 DEF IInv, TypeOK, Flags
<1>5. SpeechInv' /\ TaInv' /\ SwitchInv'
  BY <1>1 DEF IInv, TypeOK, SpeechInv, TaInv, SwitchInv, Clean
<1>6. ChipInv'
  BY <1>1, SelFacts DEF IInv, TypeOK, ChipInv, TaInv, SpeechInv, Clean,
     Heard
<1>7. LevelInv'
  BY <1>1 DEF IInv, TypeOK, LevelInv, TaInv, SpeechInv, Clean, Level, Gap,
     FadedOut, Direct, Playing
<1>8. SourceInv' /\ PinInv'
  BY <1>1 DEF IInv, TypeOK, SourceInv, PinInv, SwitchInv
<1> QED
  BY <1>1, <1>2, <1>3, <1>4, <1>5, <1>6, <1>7, <1>8
  DEF IInv, TypeOK, AudioItems, Places, Outputs, Flags

\* 24: an announcement.
LEMMA TaBeginsInv == ASSUME IInv, TaBegins PROVE IInv'
<1> USE DEF TaBegins, SetVolume0, SetVolume60, Goto, source, spoken, holders,
      mutes, told, power
<1>1. audpc = "idle" /\ audq' \in Seq(AudioItems)
  BY TakeFacts DEF IInv, TypeOK, AudioItems
<1>2. Places'
  BY <1>1, AudioAssumption DEF IInv, TypeOK, Places, SYS, FM
<1>3. Outputs'
  BY SelFacts, AudioAssumption
  DEF IInv, TypeOK, Outputs, Level, Gap, Levels, FadedOut, SYS, FM
<1>4. Flags'
  <2>1. UNCHANGED <<audio_active, speech, ajx_active, tv_on, dvd_on, pin,
                  gap0>>
    OBVIOUS
  <2>2. ch_status' \in BOOLEAN
    BY DEF IInv, TypeOK
  <2>3. mute' \in BOOLEAN
    BY DEF IInv, TypeOK
  <2>4. gap1' \in BOOLEAN
    BY DEF IInv, TypeOK
  <2> QED
    BY <2>1, <2>2, <2>3, <2>4 DEF IInv, TypeOK, Flags
<1>5. SpeechInv' /\ TaInv' /\ SwitchInv'
  BY <1>1 DEF IInv, TypeOK, SpeechInv, TaInv, SwitchInv, Clean
<1>6. ChipInv'
  BY <1>1, SelFacts DEF IInv, TypeOK, ChipInv, TaInv, SpeechInv, Clean,
     Heard
<1>7. LevelInv'
  BY <1>1 DEF IInv, TypeOK, LevelInv, TaInv, SpeechInv, Clean, Level, Gap,
     FadedOut, Direct, Playing
<1>8. SourceInv' /\ PinInv'
  BY <1>1 DEF IInv, TypeOK, SourceInv, PinInv, SwitchInv
<1> QED
  BY <1>1, <1>2, <1>3, <1>4, <1>5, <1>6, <1>7, <1>8
  DEF IInv, TypeOK, AudioItems, Places, Outputs, Flags

LEMMA TaTakesInv == ASSUME IInv, TaTakes PROVE IInv'
<1> USE DEF TaTakes, SetVolume0, Goto, source, spoken, holders, mutes, told, power
<1>1. audq' \in Seq(AudioItems)
  BY DEF IInv, TypeOK, AudioItems
<1>2. Places'
  BY <1>1, AudioAssumption DEF IInv, TypeOK, Places, SYS, FM
<1>3. Outputs'
  BY SelFacts, AudioAssumption
  DEF IInv, TypeOK, Outputs, Level, Gap, Levels, FadedOut, SYS, FM
<1>4. Flags'
  <2>1. UNCHANGED <<audio_active, speech, ajx_active, tv_on, dvd_on, pin,
                  mute, gap0, gap1>>
    OBVIOUS
  <2>2. ch_status' \in BOOLEAN
    BY DEF IInv, TypeOK
  <2> QED
    BY <2>1, <2>2 DEF IInv, TypeOK, Flags
<1>5. SpeechInv' /\ TaInv' /\ SwitchInv'
  BY <1>1 DEF IInv, TypeOK, SpeechInv, TaInv, SwitchInv, Clean
<1>6. ChipInv'
  BY <1>1, SelFacts DEF IInv, TypeOK, ChipInv, TaInv, SpeechInv, Clean,
     Heard
<1>7. LevelInv'
  BY <1>1 DEF IInv, TypeOK, LevelInv, TaInv, SpeechInv, Clean, Level, Gap,
     FadedOut, Direct, Playing
<1>8. SourceInv' /\ PinInv'
  BY <1>1 DEF IInv, TypeOK, SourceInv, PinInv, SwitchInv
<1> QED
  BY <1>1, <1>2, <1>3, <1>4, <1>5, <1>6, <1>7, <1>8
  DEF IInv, TypeOK, AudioItems, Places, Outputs, Flags

\* 25: its end.
LEMMA TaEndsInv == ASSUME IInv, TaEnds PROVE IInv'
<1> USE DEF TaEnds, TaGivesBack, SetVolume0, Goto, source, spoken, holders,
      mutes, told, power
<1>1. audpc = "idle" /\ audq' \in Seq(AudioItems)
  BY TakeFacts DEF IInv, TypeOK, AudioItems
<1>2. Places'
  BY <1>1, AudioAssumption DEF IInv, TypeOK, Places, SYS, FM
<1>3. Outputs'
  BY SelFacts, AudioAssumption
  DEF IInv, TypeOK, Outputs, Level, Gap, Levels, FadedOut, SYS, FM
<1>4. Flags'
  <2>1. UNCHANGED <<audio_active, speech, ajx_active, tv_on, dvd_on, pin,
                  mute, gap0, gap1>>
    OBVIOUS
  <2>2. ch_status' \in BOOLEAN
    BY DEF IInv, TypeOK
  <2> QED
    BY <2>1, <2>2 DEF IInv, TypeOK, Flags
<1>5. SpeechInv' /\ TaInv' /\ SwitchInv'
  BY <1>1 DEF IInv, TypeOK, SpeechInv, TaInv, SwitchInv, Clean
<1>6. ChipInv'
  BY <1>1, SelFacts DEF IInv, TypeOK, ChipInv, TaInv, SpeechInv, Clean,
     Heard
<1>7. LevelInv'
  BY <1>1 DEF IInv, TypeOK, LevelInv, TaInv, SpeechInv, Clean, Level, Gap,
     FadedOut, Direct, Playing
<1>8. SourceInv' /\ PinInv'
  BY <1>1 DEF IInv, TypeOK, SourceInv, PinInv, SwitchInv
<1> QED
  BY <1>1, <1>2, <1>3, <1>4, <1>5, <1>6, <1>7, <1>8
  DEF IInv, TypeOK, AudioItems, Places, Outputs, Flags

\* 26: the gap of a new channel ends.
LEMMA GapEndsInv == ASSUME IInv, GapEnds PROVE IInv'
<1> USE DEF GapEnds, SetVolume0, Goto, source, spoken, holders, mutes, told, power
<1>1. audpc = "idle" /\ audq' \in Seq(AudioItems)
  BY TakeFacts DEF IInv, TypeOK, AudioItems
<1>2. Places'
  BY <1>1, AudioAssumption DEF IInv, TypeOK, Places, SYS, FM
<1>3. Outputs'
  BY SelFacts, AudioAssumption
  DEF IInv, TypeOK, Outputs, Level, Gap, Levels, FadedOut, SYS, FM
<1>4. Flags'
  <2>1. UNCHANGED <<audio_active, speech, ajx_active, ch_status, tv_on,
                  dvd_on, pin, mute>>
    OBVIOUS
  <2>2. gap0' \in BOOLEAN
    BY DEF IInv, TypeOK
  <2>3. gap1' \in BOOLEAN
    BY DEF IInv, TypeOK
  <2> QED
    BY <2>1, <2>2, <2>3 DEF IInv, TypeOK, Flags
<1>5. SpeechInv' /\ TaInv' /\ SwitchInv'
  BY <1>1 DEF IInv, TypeOK, SpeechInv, TaInv, SwitchInv, Clean
<1>6. ChipInv'
  BY <1>1, SelFacts DEF IInv, TypeOK, ChipInv, TaInv, SpeechInv, Clean,
     Heard
<1>7. LevelInv'
  BY <1>1 DEF IInv, TypeOK, LevelInv, TaInv, SpeechInv, Clean, Level, Gap,
     FadedOut, Direct, Playing
<1>8. SourceInv' /\ PinInv'
  BY <1>1 DEF IInv, TypeOK, SourceInv, PinInv, SwitchInv
<1> QED
  BY <1>1, <1>2, <1>3, <1>4, <1>5, <1>6, <1>7, <1>8
  DEF IInv, TypeOK, AudioItems, Places, Outputs, Flags

\* 27: the voice control.
LEMMA SpeechTurnsInv == ASSUME IInv, Speech PROVE IInv'
<1> USE DEF Speech, Goto, source, spoken, holders, mutes, told, power
<1>1. audpc = "idle" /\ audq' \in Seq(AudioItems)
  BY TakeFacts DEF IInv, TypeOK, AudioItems
<1>2. Places'
  BY <1>1, AudioAssumption DEF IInv, TypeOK, Places, SYS, FM
<1>3. Outputs'
  BY SelFacts, AudioAssumption
  DEF IInv, TypeOK, Outputs, Level, Gap, Levels, FadedOut, SYS, FM
<1>4. Flags'
  <2>1. UNCHANGED <<audio_active, ajx_active, ch_status, tv_on, dvd_on, pin,
                  mute, gap0, gap1>>
    OBVIOUS
  <2>2. speech' \in BOOLEAN
    BY DEF IInv, TypeOK
  <2> QED
    BY <2>1, <2>2 DEF IInv, TypeOK, Flags
<1>5. SpeechInv' /\ TaInv' /\ SwitchInv'
  BY <1>1 DEF IInv, TypeOK, SpeechInv, TaInv, SwitchInv, Clean
<1>6. ChipInv'
  BY <1>1, SelFacts DEF IInv, TypeOK, ChipInv, TaInv, SpeechInv, Clean,
     Heard
<1>7. LevelInv'
  BY <1>1 DEF IInv, TypeOK, LevelInv, TaInv, SpeechInv, Clean, Level, Gap,
     FadedOut, Direct, Playing
<1>8. SourceInv' /\ PinInv'
  BY <1>1 DEF IInv, TypeOK, SourceInv, PinInv, SwitchInv
<1> QED
  BY <1>1, <1>2, <1>3, <1>4, <1>5, <1>6, <1>7, <1>8
  DEF IInv, TypeOK, AudioItems, Places, Outputs, Flags

\* The second part of a switch: the old source goes off.
LEMMA LeaveOldInv == ASSUME IInv, LeaveOld PROVE IInv'
<1> USE DEF LeaveOld, Goto, source, spoken, holders, mutes, told, power
<1>1. audq' \in Seq(AudioItems)
  BY DEF IInv, TypeOK, AudioItems
<1>2. Places'
  BY <1>1, AudioAssumption DEF IInv, TypeOK, Places, SYS, FM
<1>3. Outputs'
  BY SelFacts, AudioAssumption
  DEF IInv, TypeOK, Outputs, Level, Gap, Levels, FadedOut, SYS, FM
<1>4. Flags'
  <2>1. UNCHANGED <<audio_active, speech, ajx_active, ch_status, mute, gap0,
                  gap1>>
    OBVIOUS
  <2>2. tv_on' \in BOOLEAN
    BY DEF IInv, TypeOK
  <2>3. dvd_on' \in BOOLEAN
    BY DEF IInv, TypeOK
  <2>4. pin' \in BOOLEAN
    BY DEF IInv, TypeOK
  <2> QED
    BY <2>1, <2>2, <2>3, <2>4 DEF IInv, TypeOK, Flags
<1>5. SpeechInv' /\ TaInv' /\ SwitchInv'
  BY <1>1 DEF IInv, TypeOK, SpeechInv, TaInv, SwitchInv, Clean
<1>6. ChipInv'
  BY <1>1, SelFacts DEF IInv, TypeOK, ChipInv, TaInv, SpeechInv, Clean,
     Heard
<1>7. LevelInv'
  BY <1>1 DEF IInv, TypeOK, LevelInv, TaInv, SpeechInv, Clean, Level, Gap,
     FadedOut, Direct, Playing
<1>8. SourceInv' /\ PinInv'
  BY <1>1 DEF IInv, TypeOK, SourceInv, PinInv, SwitchInv
<1> QED
  BY <1>1, <1>2, <1>3, <1>4, <1>5, <1>6, <1>7, <1>8
  DEF IInv, TypeOK, AudioItems, Places, Outputs, Flags

-----------------------------------------------------------------------------
(* The channels: items 0 and 1.                                            *)

\* What all the ways through Audio_EnterChannel have in common.
InChannel(c, m) ==
    /\ IInv /\ audpc = "idle" /\ audio_active /\ c \in 0..7 /\ m \in {0, 1}
    /\ audq' \in Seq(AudioItems)
    /\ UNCHANGED <<timers, power, speech, holders, tainted>>

\* Somebody else is heard: only the sources change.
LEMMA NoteInv ==
    ASSUME NEW c, NEW m, InChannel(c, m), Held, ~speech, UNCHANGED audio_ch2,
           NEW t \in 0..7, Note(t)
    PROVE  IInv'
<1> USE DEF InChannel, Note, Goto, mutes, told, power, holders
<1>1. audq' \in Seq(AudioItems)
  OBVIOUS
<1>2. Places' /\ Outputs'
  BY DEF IInv, TypeOK, Places, Outputs
<1>3. Flags'
  <2>1. UNCHANGED <<audio_active, speech, ajx_active, ch_status, pin, mute,
                    gap0, gap1>>
    OBVIOUS
  <2>2. tv_on' \in BOOLEAN
    BY DEF IInv, TypeOK
  <2>3. dvd_on' \in BOOLEAN
    BY DEF IInv, TypeOK
  <2> QED
    BY <2>1, <2>2, <2>3 DEF IInv, TypeOK, Flags
<1>4. SpeechInv' /\ TaInv' /\ SwitchInv'
  BY DEF IInv, SpeechInv, TaInv, SwitchInv
<1>5. ChipInv' /\ LevelInv'
  BY DEF IInv, TypeOK, ChipInv, LevelInv, Clean, Heard, Held, Level, Gap,
     FadedOut, Direct, Playing
<1>6. SourceInv' /\ PinInv'
  BY DEF IInv, TypeOK, SourceInv, PinInv, DVD, DTV
<1> QED
  BY <1>1, <1>2, <1>3, <1>4, <1>5, <1>6
  DEF IInv, TypeOK, AudioItems, Places, Outputs, Flags

\* Bluetooth and SYS on one input: the chip need not be told.
LEMMA RenameInv ==
    ASSUME NEW c, NEW m, InChannel(c, m), ~Held, ~speech, UNCHANGED audio_ch2,
           NEW t \in 0..7, SharedInput(t), Rename(t)
    PROVE  IInv'
<1> USE DEF InChannel, Rename, SetVolume0, Goto, power, holders
<1>1. audq' \in Seq(AudioItems)
  OBVIOUS
<1>2. Places' /\ Outputs'
  BY DEF IInv, TypeOK, Places, Outputs, Level, Gap, Levels, FadedOut
<1>3. Flags'
  <2>1. UNCHANGED <<audio_active, speech, ajx_active, ch_status, tv_on, dvd_on,
                    pin>>
    OBVIOUS
  <2>2. mute' \in BOOLEAN /\ gap0' \in BOOLEAN /\ gap1' \in BOOLEAN
    OBVIOUS
  <2> QED
    BY <2>1, <2>2 DEF IInv, TypeOK, Flags
<1>4. SpeechInv' /\ TaInv' /\ SwitchInv'
  BY DEF IInv, SpeechInv, TaInv, SwitchInv
<1>5. Sel(t) = Sel(audio_ch)
  BY SelFacts DEF SharedInput
<1>6. ChipInv' /\ LevelInv'
  BY <1>5 DEF IInv, TypeOK, ChipInv, LevelInv, Clean, Heard, Held, Level, Gap,
     FadedOut, Direct, Playing
<1>7. SourceInv' /\ PinInv'
  <2>1. audio_ch # DTV /\ audio_ch # DVD
    BY DEF SharedInput, DVD, DTV, SYS, GSM_BT
  <2>2. UNCHANGED <<audio_active, tv_on, dvd_on, pin, tainted, audpc>>
    OBVIOUS
  <2> QED
    BY <2>1, <2>2 DEF IInv, SourceInv, PinInv
<1> QED
  BY <1>1, <1>2, <1>3, <1>4, <1>6, <1>7
  DEF IInv, TypeOK, AudioItems, Places, Outputs, Flags

\* The switch, as far as the level of the new channel.
LEMMA SwitchesInv ==
    ASSUME NEW c, NEW m, InChannel(c, m), ~Held, ~speech, UNCHANGED audio_ch2,
           NEW t \in 0..7, Switch(t, m)
    PROVE  IInv'
<1> USE DEF InChannel, Switch, SetVolume0, power, holders
<1>1. audq' \in Seq(AudioItems) /\ audpc' = "switch" /\ from' = audio_ch
      /\ audio_ch' = t /\ chip' = Sel(t)
  OBVIOUS
<1>2. Places' /\ Outputs'
  BY <1>1, SelFacts
  DEF IInv, TypeOK, Places, Outputs, Level, Gap, Levels, FadedOut
<1>3. Flags'
  <2>1. UNCHANGED <<audio_active, speech, ajx_active, ch_status>>
    OBVIOUS
  <2>2. tv_on' \in BOOLEAN /\ dvd_on' \in BOOLEAN
    BY DEF IInv, TypeOK
  <2>3. gap0' \in BOOLEAN /\ gap1' \in BOOLEAN
    BY DEF GapAfter
  <2>4. pin' \in BOOLEAN /\ mute' \in BOOLEAN
    BY DEF IInv, TypeOK
  <2> QED
    BY <2>1, <2>2, <2>3, <2>4 DEF IInv, TypeOK, Flags
<1>4. SpeechInv' /\ TaInv' /\ SwitchInv'
  BY <1>1 DEF IInv, SpeechInv, TaInv, SwitchInv, Held
<1>5. ChipInv' /\ LevelInv'
  BY <1>1 DEF IInv, TypeOK, ChipInv, LevelInv, Clean, Heard, Held
<1>6. SourceInv' /\ PinInv'
  <2>1. audio_active /\ "sources" \notin tainted =>
           (tv_on => audio_ch = DTV) /\ (dvd_on => audio_ch = DVD)
    BY DEF IInv, SourceInv
  <2>2. ~pin
    BY DEF IInv, PinInv
  <2>3. PinOn(t, audio_ch) => Releases(t, audio_ch)
    BY DEF PinOn, Releases, Pops, FM, DVD
  <2> QED
    BY <1>1, <2>1, <2>2, <2>3 DEF SourceInv, PinInv
<1> QED
  BY <1>1, <1>2, <1>3, <1>4, <1>5, <1>6
  DEF IInv, TypeOK, AudioItems, Places, Outputs, Flags

\* A second request for SYS ends its mute, and most requests change nothing.
LEMMA KeepsInv ==
    ASSUME NEW c, NEW m, InChannel(c, m),
           UNCHANGED <<source, audio_ch2, gap0, gap1, chip, pin>>, Goto("idle"),
           \/ UNCHANGED <<mute, lvl>>
           \/ mute' = FALSE /\ SetVolume0
    PROVE  IInv'
<1> USE DEF InChannel, source, Goto, power, holders
<1>1. audq' \in Seq(AudioItems)
  OBVIOUS
<1>2. Places' /\ Outputs'
  BY DEF IInv, TypeOK, Places, Outputs, SetVolume0, Level, Gap, Levels
<1>3. Flags'
  <2>1. UNCHANGED <<audio_active, speech, ajx_active, ch_status, tv_on, dvd_on,
                    pin, gap0, gap1>>
    OBVIOUS
  <2>2. mute' \in BOOLEAN
    BY DEF IInv, TypeOK
  <2> QED
    BY <2>1, <2>2 DEF IInv, TypeOK, Flags
<1>4. SpeechInv' /\ TaInv' /\ SwitchInv'
  BY DEF IInv, SpeechInv, TaInv, SwitchInv
<1>5. ChipInv'
  BY DEF IInv, ChipInv, Clean, Heard
<1>6. LevelInv'
  BY DEF IInv, TypeOK, LevelInv, Clean, SetVolume0, Level, Gap, FadedOut, Direct, Playing
<1>7. SourceInv' /\ PinInv'
  BY DEF IInv, SourceInv, PinInv
<1> QED
  BY <1>1, <1>2, <1>3, <1>4, <1>5, <1>6, <1>7
  DEF IInv, TypeOK, AudioItems, Places, Outputs, Flags

\* All the ways of Audio_EnterChannel.
LEMMA EnterInv ==
    ASSUME NEW c, NEW m, InChannel(c, m), EnterChannel(c, m)
    PROVE  IInv'
<1>1. Target(c, m) \in 0..7 /\ ~speech /\ UNCHANGED audio_ch2
  BY DEF EnterChannel, InChannel, Target, SYS
<1>2. CASE Held /\ Note(Target(c, m))
  BY <1>1, <1>2, NoteInv
<1>3. CASE ~Held /\ SharedInput(Target(c, m)) /\ Rename(Target(c, m))
  BY <1>1, <1>3, RenameInv
<1>4. CASE ~Held /\ Switch(Target(c, m), m)
  BY <1>1, <1>4, SwitchesInv
<1>5. CASE Goto("idle") /\ UNCHANGED <<source, mutes, told>>
  BY <1>1, <1>5, KeepsInv DEF mutes, told
<1>6. CASE /\ UNCHANGED <<source, gap0, gap1, chip, pin>>
           /\ mute' = FALSE /\ SetVolume0 /\ Goto("idle")
  BY <1>1, <1>6, KeepsInv
<1> QED
  BY <1>2, <1>3, <1>4, <1>5, <1>6 DEF EnterChannel

\* In speech nothing is claimed but the types.
LEMMA SpeechChannelInv ==
    ASSUME NEW c, NEW m, InChannel(c, m), SpeechChannel(c, m)
    PROVE  IInv'
<1> USE DEF InChannel, SpeechChannel, Goto, source, mutes, told, power, holders
<1>1. audq' \in Seq(AudioItems) /\ audpc' = "idle" /\ from' = from /\ iopc' = iopc
      /\ pin' = pin /\ gap0' = gap0 /\ gap1' = gap1 /\ tainted' = tainted
      /\ audio_active' = audio_active /\ speech' = speech /\ speech
  OBVIOUS
<1>2. {"route", "sources"} \subseteq tainted'
  BY <1>1 DEF IInv, SpeechInv
<1>3. audio_ch' \in 0..7
  BY DEF IInv, TypeOK, SYS, DVD
<1>4. audio_ch2' \in 0..7 \cup {255}
  BY DEF IInv, TypeOK, GSM_BT
<1>5. chip' \in 0..8
  <2>1. CASE c = GSM_BT
    <3>1. chip' = Sel(audio_ch2') /\ audio_ch2' \in 0..8
      BY <2>1 DEF IInv, TypeOK, GSM_BT
    <3> QED
      BY <3>1, SelFacts
  <2>2. CASE c # GSM_BT
    BY <2>2 DEF IInv, TypeOK
  <2> QED
    BY <2>1, <2>2
<1>6. lvl' \in Levels \cup {"reset", "out", "faded"}
  BY DEF IInv, TypeOK, SetVolume0, Level, Gap, Levels
<1>7. Flags'
  <2>1. tv_on' \in BOOLEAN
    BY DEF IInv, TypeOK
  <2>2. dvd_on' \in BOOLEAN
    BY DEF IInv, TypeOK
  <2>3. mute' \in BOOLEAN
    BY DEF IInv, TypeOK
  <2>4. UNCHANGED <<ajx_active, ch_status>>
    OBVIOUS
  <2> QED
    BY <1>1, <2>1, <2>2, <2>3, <2>4 DEF IInv, TypeOK, Flags
<1>8. TypeOK'
  BY <1>1, <1>3, <1>4, <1>5, <1>6, <1>7 DEF IInv, TypeOK, AudioItems, Flags
<1>9. PinInv'
  BY <1>1 DEF IInv, PinInv
<1> QED
  BY <1>1, <1>2, <1>8, <1>9 DEF IInv, SpeechInv, TaInv, SwitchInv, ChipInv,
     LevelInv, SourceInv, Clean

LEMMA ChannelInv == ASSUME IInv, Channel PROVE IInv'
<1>1. PICK c \in {0, 1} :
         /\ Take(c)
         /\ IF audio_active
            THEN EnterChannel(Arg, 1 - c) \/ SpeechChannel(Arg, 1 - c)
            ELSE Goto("idle") /\ UNCHANGED <<source, audio_ch2, mutes, told>>
  BY DEF Channel
<1>2. audpc = "idle" /\ audq' \in Seq(AudioItems) /\ Arg \in 0..7
  BY <1>1, TakeFacts DEF IInv, TypeOK, AudioItems
<1>3. CASE audio_active
  <2>1. InChannel(Arg, 1 - c)
    BY <1>1, <1>2, <1>3 DEF InChannel, Channel
  <2> QED
    BY <1>1, <1>3, <2>1, EnterInv, SpeechChannelInv
<1>4. CASE ~audio_active
  <2>1. UNCHANGED <<timers, threads, power, source, spoken, holders, mutes,
                    told, tainted>>
    BY <1>1, <1>2, <1>4 DEF Channel, Goto, spoken, threads
  <2> QED
    BY <1>2, <2>1, QueueOnly DEF threads, power, IInv, TypeOK
<1> QED
  BY <1>3, <1>4

-----------------------------------------------------------------------------
(* The other threads.                                                      *)

\* Every request of Android, and the two ends of the power.
LEMMA RequestInv == ASSUME IInv, NEW r \in Requests, Request(r) PROVE IInv'
<1>1. r.cmd \in 0..27 /\ r.arg \in 0..7
  BY AudioAssumption
<1>2. audq' \in Seq(AudioItems)
  <2>1. audq' = Append(audq, Item(r.cmd, r.arg))
    BY DEF Request, audio_add_work
  <2> QED
    BY <1>1, <2>1, QueueType, AddFacts
<1> QED
  BY <1>2, QueueOnly DEF Request, Rest, threads, power, IInv, TypeOK

LEMMA PowerOnInv == ASSUME IInv, PowerOn PROVE IInv'
<1>1. audq' \in Seq(AudioItems)
  <2>1. audq' = Append(audq, Item(20, 0))
    BY DEF PowerOn, audio_add_work
  <2> QED
    BY <2>1, QueueType, AddFacts
<1> QED
  BY <1>1, QueueOnly DEF PowerOn, Rest, threads, IInv, TypeOK

\* The power goes: ch_status is cleared under any handler, which is tainted
\* where it matters.
LEMMA PowerOffInv == ASSUME IInv, power_soft_off PROVE IInv'
<1>1. audq' \in Seq(AudioItems)
  <2>1. audq' = Append(audq, Item(21, 0))
    BY DEF power_soft_off, audio_add_work
  <2> QED
    BY <2>1, QueueType, AddFacts
<1>2. UNCHANGED <<timers, audpc, from, iopc, audio_active, audio_ch, tv_on,
                  dvd_on, speech, audio_ch2, ajx_active, mute, gap0, gap1, chip,
                  lvl, pin>>
      /\ ch_status' = FALSE /\ power_refcnt' = 0
  BY DEF power_soft_off, Rest, threads, source, spoken, mutes, told
<1>3. tainted' \in {tainted, tainted \cup {"route"}}
      /\ (ch_status \/ audpc = "ta" => "route" \in tainted')
  BY DEF power_soft_off
<1>4. TypeOK'
  <2>1. tainted' \subseteq {"route", "sources"}
    BY <1>3 DEF IInv, TypeOK
  <2>2. ch_status' \in BOOLEAN
    BY <1>2
  <2> QED
    BY <1>1, <1>2, <2>1, <2>2 DEF IInv, TypeOK, AudioItems
<1>5. SpeechInv' /\ TaInv' /\ SwitchInv'
  BY <1>2, <1>3 DEF IInv, SpeechInv, TaInv, SwitchInv, Clean
<1>6. ChipInv' /\ LevelInv'
  <2>1. CASE Clean'
    <3>1. Clean /\ ch_status' = ch_status
      BY <1>2, <1>3, <2>1 DEF Clean, IInv, TypeOK
    <3> QED
      BY <1>2, <3>1 DEF IInv, ChipInv, LevelInv, Clean, Heard, Level, Gap, FadedOut,
     Direct,         Playing
  <2>2. CASE ~Clean'
    BY <2>2 DEF ChipInv, LevelInv
  <2> QED
    BY <2>1, <2>2
<1>7. SourceInv' /\ PinInv'
  BY <1>2, <1>3 DEF IInv, SourceInv, PinInv
<1> QED
  BY <1>4, <1>5, <1>6, <1>7 DEF IInv

\* The ioctls and their timers.
LEMMA IoctlInv ==
    ASSUME IInv,
           \/ \E c \in {0, 1}, ch \in Channels : av_channel(c, ch)
           \/ audio_channel_switch_unmute
           \/ TimerDue
    PROVE  IInv'
<1>1. CASE \E c \in {0, 1}, ch \in Channels : av_channel(c, ch)
  <2>1. PICK c \in {0, 1}, ch \in Channels : av_channel(c, ch)
    BY <1>1
  <2>2. ch \in 0..7
    BY AudioAssumption
  <2>3. audq' \in Seq(AudioItems)
    <3>1. audq' = Append(audq, Item(c, ch))
      BY <2>1 DEF av_channel, audio_add_work
    <3>2. audq \in Seq(AudioItems) /\ c \in 0..27
      BY QueueType
    <3> QED
      BY <2>2, <3>1, <3>2, AddFacts
  <2> QED
    BY <2>1, <2>3, QueueOnly DEF av_channel, Rest, power, IInv, TypeOK
<1>2. CASE audio_channel_switch_unmute
  <2>1. audq' \in Seq(AudioItems)
    <3>1. audq' = Append(audq, Item(26, 0)) \/ audq' = audq
      BY <1>2 DEF audio_channel_switch_unmute, audio_add_work
    <3>2. audq \in Seq(AudioItems)
      BY QueueType
    <3>3. Append(audq, Item(26, 0)) \in Seq(AudioItems)
      BY <3>2, AddFacts
    <3> QED
      BY <3>1, <3>2, <3>3
  <2> QED
    BY <1>2, <2>1, QueueOnly DEF audio_channel_switch_unmute, Rest, power, IInv,
       TypeOK
<1>3. CASE TimerDue
  <2>1. audq' \in Seq(AudioItems)
    <3>1. audq' = Append(audq, Item(26, 0))
      BY <1>3 DEF TimerDue, audio_add_work
    <3> QED
      BY <1>3, <3>1, QueueType, AddFacts
  <2> QED
    BY <1>3, <2>1, QueueOnly DEF TimerDue, Rest, threads, power, IInv, TypeOK
<1> QED
  BY <1>1, <1>2, <1>3

LEMMA StutterInv == ASSUME IInv, UNCHANGED vars PROVE IInv'
  BY QueueOnly DEF vars, threads, power, IInv, TypeOK, AudioItems

\* Every state satisfies the inductive invariant.
THEOREM AudioInvariant == Spec => []IInv
<1>1. Init => IInv
  BY InitInv
<1>2. IInv /\ [Next]_vars => IInv'
  <2>1. IInv /\ audio_work => IInv'
    BY ChannelInv, LeaveOldInv, SetMuteInv, VolumeInv, RefreshInv, SourceGapInv,
       SourceGapElsewhereInv, AudioOnInv, AudioOffInv, AjxBeginsInv,
       AjxTakesInv, AjxEndsInv, SessionEndsInv, TaBeginsInv, TaTakesInv,
       TaEndsInv, GapEndsInv, SpeechTurnsInv DEF audio_work
  <2> QED
    BY <2>1, RequestInv, PowerOnInv, PowerOffInv, IoctlInv, StutterInv DEF Next
<1> QED
  BY <1>1, <1>2, PTL DEF Spec

\* Every variable keeps to its range, and no handler is left half way.
THEOREM AudioTypes == Spec => []TypeOK
  BY AudioInvariant, PTL DEF IInv

\* The chip plays what holds the sound, whatever came and went.
THEOREM AudioRoute == Spec => []ChipFollows
<1>1. IInv => ChipFollows
  BY DEF IInv, ChipInv, Clean, ChipFollows, Settled
<1> QED
  BY <1>1, AudioInvariant, PTL

\* The level last told is the one the present state calls for, or what the
\* fade of a mute ended with and nothing has raised since.
THEOREM AudioLevel == Spec => []LevelRight
<1>1. IInv => LevelRight
  BY DEF IInv, LevelInv, Clean, LevelRight, Settled
<1> QED
  BY <1>1, AudioInvariant, PTL

\* A source that is on is the one Android wants.
THEOREM AudioSources == Spec => []SourcesOff
<1>1. IInv => SourcesOff
  BY DEF IInv, SourceInv, SourcesOff, Settled
<1> QED
  BY <1>1, AudioInvariant, PTL

\* The mute pin is never left pulled.
THEOREM AudioPin == Spec => []PinReleased
<1>1. IInv => PinReleased
  BY DEF IInv, PinInv, PinReleased, Settled
<1> QED
  BY <1>1, AudioInvariant, PTL

-----------------------------------------------------------------------------
(* What is to end a gap.                                                   *)

EnterOrExit(i) == audq[i].cmd \in {0, 1}

\* As long as a switch is queued or under way the ioctl has yet to look at it.
Looks == audpc = "switch" \/ (\E i \in DOMAIN audq : EnterOrExit(i))
            => iopc = "flush"

GapInv == Looks /\ GapWatched

\* What is behind the oldest item is still there when it is taken.
LEMMA TakeKeeps ==
    ASSUME audq \in Seq(AudioItems), NEW c, Take(c)
    PROVE  /\ \A j \in DOMAIN audq' :
                 j + 1 \in DOMAIN audq /\ audq'[j] = audq[j + 1]
           /\ \A i \in DOMAIN audq :
                 audq[i].cmd = c \/ (i - 1 \in DOMAIN audq' /\ audq'[i - 1] = audq[i])
           /\ 1 \in DOMAIN audq /\ audq[1].cmd = c
<1>1. audq # <<>> /\ audq' = Tail(audq) /\ Head(audq).cmd = c
  BY DEF Take
<1>2. /\ Len(audq) \in Nat /\ Len(audq) > 0 /\ DOMAIN audq = 1..Len(audq)
      /\ Head(audq) = audq[1]
  BY <1>1
<1>3. /\ DOMAIN Tail(audq) = 1..(Len(audq) - 1)
      /\ \A j \in 1..(Len(audq) - 1) : Tail(audq)[j] = audq[j + 1]
  BY <1>1, <1>2
<1>4. \A j \in DOMAIN audq' : j + 1 \in DOMAIN audq /\ audq'[j] = audq[j + 1]
  BY <1>1, <1>2, <1>3
<1>5. ASSUME NEW i \in DOMAIN audq, i # 1
      PROVE  i - 1 \in DOMAIN audq' /\ audq'[i - 1] = audq[i]
  BY <1>1, <1>2, <1>3, <1>5
<1> QED
  BY <1>1, <1>2, <1>4, <1>5

\* What was queued stays queued when something comes behind it.
LEMMA AddKeeps ==
    ASSUME audq \in Seq(AudioItems), NEW c, NEW a, audio_add_work(c, a)
    PROVE  /\ \A j \in DOMAIN audq' :
                 (j \in DOMAIN audq /\ audq'[j] = audq[j]) \/ audq'[j].cmd = c
           /\ \A i \in DOMAIN audq : i \in DOMAIN audq' /\ audq'[i] = audq[i]
           /\ \E i \in DOMAIN audq' : audq'[i].cmd = c
<1>1. audq' = Append(audq, Item(c, a)) /\ Item(c, a).cmd = c
  BY DEF audio_add_work, Item
<1>2. /\ Len(audq) \in Nat /\ DOMAIN audq = 1..Len(audq)
      /\ DOMAIN audq' = 1..(Len(audq) + 1)
      /\ audq'[Len(audq) + 1] = Item(c, a)
      /\ \A i \in 1..Len(audq) : audq'[i] = audq[i]
  BY <1>1
<1> QED
  BY <1>1, <1>2

\* An item of audio_work that switches nothing and ends no gap.
LEMMA OtherItem ==
    ASSUME audq \in Seq(AudioItems), GapInv,
           NEW c, Take(c), c \notin {0, 1, 26},
           audpc' # "switch", gap0' => gap0, UNCHANGED <<iopc, timers>>
    PROVE  GapInv'
<1>1. Looks'
  BY TakeKeeps DEF GapInv, Looks, EnterOrExit
<1>2. ASSUME NEW i \in DOMAIN audq, audq[i].cmd = 26
      PROVE  \E j \in DOMAIN audq' : audq'[j].cmd = 26
  BY <1>2, TakeKeeps
<1>3. GapWatched'
  BY <1>2 DEF GapInv, GapWatched
<1> QED
  BY <1>1, <1>3 DEF GapInv

\* The second half of a handler.
LEMMA SecondHalf ==
    ASSUME GapInv, audpc' # "switch", gap0' => gap0,
           UNCHANGED <<audq, iopc, timers>>
    PROVE  GapInv'
  BY DEF GapInv, Looks, EnterOrExit, GapWatched

\* A request, or the power, behind the rest.
LEMMA OtherAdded ==
    ASSUME audq \in Seq(AudioItems), GapInv,
           NEW c, NEW a, audio_add_work(c, a), c \notin {0, 1},
           UNCHANGED <<audpc, gap0, iopc, timers>>
    PROVE  GapInv'
<1>1. Looks'
  BY AddKeeps DEF GapInv, Looks, EnterOrExit
<1>2. ASSUME NEW i \in DOMAIN audq, audq[i].cmd = 26
      PROVE  \E j \in DOMAIN audq' : audq'[j].cmd = 26
  BY <1>2, AddKeeps
<1>3. GapWatched'
  BY <1>2 DEF GapInv, GapWatched
<1> QED
  BY <1>1, <1>3 DEF GapInv

\* A switch is queued by an ioctl that is still waiting for it.
LEMMA ChannelGap == ASSUME audq \in Seq(AudioItems), GapInv, Channel PROVE GapInv'
<1>1. PICK c \in {0, 1} : Take(c)
  BY DEF Channel
<1>2. iopc = "flush"
  <2>1. 1 \in DOMAIN audq /\ EnterOrExit(1)
    BY <1>1, TakeKeeps DEF EnterOrExit
  <2> QED
    BY <2>1 DEF GapInv, Looks
<1>3. iopc' = iopc
  BY DEF Channel, EnterChannel, SpeechChannel, Note, Rename, Switch, Goto
<1> QED
  BY <1>2, <1>3 DEF GapInv, Looks, GapWatched

\* The other items of audio_work.
LEMMA WorkGap == ASSUME audq \in Seq(AudioItems), GapInv, audio_work PROVE GapInv'
<1>1. CASE Channel
  BY <1>1, ChannelGap
<1>2. CASE LeaveOld \/ AjxTakes \/ SessionEnds \/ TaTakes
  BY <1>2, SecondHalf
  DEF LeaveOld, AjxTakes, SessionEnds, TaTakes, Goto, mutes
<1>3. CASE SetMute
  BY <1>3, OtherItem DEF SetMute, Mute, Goto, mutes
<1>4. CASE Volume
  BY <1>4, OtherItem DEF Volume, Goto, mutes
<1>5. CASE Refresh
  BY <1>5, OtherItem DEF Refresh, Goto, mutes
<1>6. CASE SourceGap \/ SourceGapElsewhere
  BY <1>6, OtherItem DEF SourceGap, SourceGapElsewhere, Goto, mutes
<1>7. CASE AudioOn
  BY <1>7, OtherItem DEF AudioOn, Activate, Goto, mutes
<1>8. CASE AudioOff
  BY <1>8, OtherItem DEF AudioOff, Goto, mutes
<1>9. CASE AjxBegins
  BY <1>9, OtherItem DEF AjxBegins, Activate, Goto, mutes
<1>10. CASE AjxEnds
  BY <1>10, OtherItem DEF AjxEnds, Goto, mutes
<1>11. CASE TaBegins
  BY <1>11, OtherItem DEF TaBegins, Goto, mutes
<1>12. CASE TaEnds
  BY <1>12, OtherItem DEF TaEnds, Goto, mutes
<1>13. CASE Speech
  BY <1>13, OtherItem DEF Speech, Goto, mutes
<1>14. CASE GapEnds
  <2>1. ~gap0' /\ iopc' = iopc /\ audpc' = "idle" /\ Take(26)
    BY <1>14 DEF GapEnds, Goto
  <2>2. Looks'
    BY <2>1, TakeKeeps DEF GapInv, Looks, EnterOrExit
  <2> QED
    BY <2>1, <2>2 DEF GapInv, GapWatched
<1> QED
  BY <1>1, <1>2, <1>3, <1>4, <1>5, <1>6, <1>7, <1>8, <1>9, <1>10, <1>11,
     <1>12, <1>13, <1>14 DEF audio_work

\* The other threads: nobody but the ioctls queues a switch, and the ioctl that
\* has looked leaves a timer or an item 26 behind.
LEMMA EnvironmentGap ==
    ASSUME IInv, GapInv, Next, ~audio_work
    PROVE  GapInv'
<1>1. audq \in Seq(AudioItems) /\ timers \in Nat
  BY QueueType DEF IInv, TypeOK
<1>2. CASE \E r \in Requests : Request(r)
  <2>1. PICK r \in Requests : Request(r)
    BY <1>2
  <2>2. r.cmd \notin {0, 1}
    BY AudioAssumption
  <2> QED
    BY <1>1, <2>1, <2>2, OtherAdded DEF Request, threads, Rest, mutes
<1>3. CASE PowerOn
  BY <1>1, <1>3, OtherAdded DEF PowerOn, threads, Rest, mutes
<1>4. CASE power_soft_off
  BY <1>1, <1>4, OtherAdded DEF power_soft_off, threads, Rest, mutes
<1>5. CASE \E c \in {0, 1}, ch \in Channels : av_channel(c, ch)
  BY <1>5 DEF av_channel, GapInv, Looks, GapWatched
<1>6. CASE audio_channel_switch_unmute
  <2>1. audpc' # "switch" /\ \A i \in DOMAIN audq : ~EnterOrExit(i)
    BY <1>6 DEF audio_channel_switch_unmute, Flushed, EnterOrExit
  <2>2. gap0' = gap0
    BY <1>6 DEF audio_channel_switch_unmute, Rest, mutes
  <2>3. CASE UnmuteNow
    <3>1. audio_add_work(26, 0)
      BY <1>6, <2>3 DEF audio_channel_switch_unmute
    <3>2. /\ \A j \in DOMAIN audq' : ~EnterOrExit(j)'
          /\ \E i \in DOMAIN audq' : audq'[i].cmd = 26
      BY <1>1, <2>1, <3>1, AddKeeps DEF EnterOrExit
    <3> QED
      BY <2>1, <3>2 DEF GapInv, Looks, GapWatched
  <2>4. CASE ~UnmuteNow
    <3>1. audq' = audq /\ (gap0 => timers' = timers + 1)
      BY <1>6, <2>4 DEF audio_channel_switch_unmute, UnmuteNow, UnmuteLater
    <3>2. Looks'
      BY <2>1, <3>1 DEF Looks, EnterOrExit
    <3>3. GapWatched'
      BY <1>1, <2>2, <3>1 DEF GapWatched
    <3> QED
      BY <3>2, <3>3 DEF GapInv
  <2> QED
    BY <2>3, <2>4
<1>7. CASE TimerDue
  <2>1. audio_add_work(26, 0) /\ UNCHANGED <<audpc, iopc>>
    BY <1>7 DEF TimerDue, threads
  <2>2. \E i \in DOMAIN audq' : audq'[i].cmd = 26
    BY <1>1, <2>1, AddKeeps
  <2>3. Looks'
    BY <1>1, <2>1, AddKeeps DEF GapInv, Looks, EnterOrExit
  <2> QED
    BY <2>2, <2>3 DEF GapInv, GapWatched
<1> QED
  BY <1>2, <1>3, <1>4, <1>5, <1>6, <1>7 DEF Next

\* The gap of a new channel never outlives what is to end it, however many
\* timers are pending and whatever was switched meanwhile.
THEOREM AudioGap == Spec => []GapWatched
<1>1. Init => GapInv
  BY DEF Init, GapInv, Looks, EnterOrExit, GapWatched
<1>2. IInv /\ GapInv /\ [Next]_vars => GapInv'
  <2>1. IInv /\ GapInv /\ audio_work => GapInv'
    BY WorkGap, QueueType
  <2>2. GapInv /\ UNCHANGED vars => GapInv'
    BY DEF vars, threads, mutes, GapInv, Looks, EnterOrExit, GapWatched
  <2> QED
    BY <2>1, <2>2, EnvironmentGap
<1>3. GapInv => GapWatched
  BY DEF GapInv
<1> QED
  BY <1>1, <1>2, <1>3, AudioInvariant, PTL DEF Spec

===========================================================================
