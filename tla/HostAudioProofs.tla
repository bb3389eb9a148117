---------------------------- MODULE HostAudioProofs ----------------------------
(***************************************************************************)
(* For any ring, chunk and fade, any volumes and any mixer range: audio is *)
(* written where it will be heard, begins with its fade after silence, and *)
(* is never louder than a volume that is or was asked for.                 *)
(***************************************************************************)
EXTENDS HostAudio, TLAPS

-----------------------------------------------------------------------------
\* Volume arithmetic.

LEMMA DivBounds ==
  ASSUME NEW r \in Nat, NEW f \in Nat \ {0}, NEW n \in Nat, n <= 2 * r * f + f
  PROVE  n \div (2 * f) \in 0..r
<1> DEFINE d == 2 * f
           q == n \div d
<1>1. d \in Nat /\ d > 0
  OBVIOUS
<1>2. q \in Nat /\ d * q <= n
  BY <1>1
<1>3. ASSUME q > r PROVE FALSE
  <2>1. q >= r + 1
    BY <1>2, <1>3
  <2>2. d * q >= d * (r + 1)
    BY <1>1, <1>2, <2>1
  <2>3. d * (r + 1) = 2 * r * f + 2 * f
    OBVIOUS
  <2> QED BY <1>2, <2>2, <2>3
<1> QED BY <1>2, <1>3

LEMMA SliderInRange ==
  ASSUME NEW db \in MuteDb..0
  PROVE  SliderToRange(db) \in MinLevel..MaxLevel
<1> DEFINE up == IF db <= FloorDb THEN 0 ELSE db - FloorDb
           f == - FloorDb
           r == MaxLevel - MinLevel
           n == 2 * r * up - FloorDb
<1>1. /\ f \in Nat \ {0} /\ r \in Nat /\ up \in 0..f /\ db \in Int
      /\ FloorDb \in Int /\ MinLevel \in Nat /\ MaxLevel \in Nat
  BY HostAudioAssumption
<1>2. r * up \in Nat /\ r * up <= r * f
  BY <1>1
<1>3. n \in Nat /\ n <= 2 * r * f + f
  BY <1>1, <1>2
<1>4. n \div (2 * f) \in 0..r
  BY <1>1, <1>3, DivBounds
<1>5. SliderToRange(db) = MinLevel + (n \div (2 * f))
  <2>1. -2 * FloorDb = 2 * f
    BY <1>1
  <2> QED BY <2>1 DEF SliderToRange
<1> QED BY <1>1, <1>4, <1>5

LEMMA SliderAtTop == SliderToRange(0) = MaxLevel
<1> DEFINE f == - FloorDb
           r == MaxLevel - MinLevel
<1>1. f \in Nat \ {0} /\ r \in Nat /\ FloorDb \in Int /\ MinLevel \in Nat /\ MaxLevel \in Nat
  BY HostAudioAssumption
<1>2. SliderToRange(0) = MinLevel + ((2 * r * f + f) \div (2 * f))
  <2>1. -2 * FloorDb = 2 * f /\ 2 * r * (0 - FloorDb) - FloorDb = 2 * r * f + f /\ ~ (0 <= FloorDb)
    BY <1>1, HostAudioAssumption
  <2> QED BY <2>1 DEF SliderToRange
<1>3. (2 * r * f + f) \div (2 * f) = r
  <2> DEFINE n == 2 * r * f + f
             d == 2 * f
             q == n \div d
  <2>1. r * f \in Nat
    BY <1>1
  <2>2. n \in Nat /\ d \in Nat /\ d > 0
    BY <1>1, <2>1
  <2>3. q \in 0..r /\ q \in Nat /\ r \in Nat
    BY <1>1, <2>2, DivBounds
  <2>4. n < d * (q + 1)
    BY <2>2
  <2>5. ASSUME q < r PROVE FALSE
    <3>1. d * (q + 1) <= d * r
      BY <1>1, <2>2, <2>3, <2>5
    <3>2. d * r = 2 * r * f
      BY <1>1
    <3> QED BY <1>1, <2>1, <2>4, <3>1, <3>2
  <2> HIDE DEF q, r
  <2>6. q = r
    BY <2>3, <2>5
  <2> QED BY <2>6 DEF q
<1> QED BY <1>1, <1>2, <1>3

\* A volume asked for: mute, or at least the control's minimum.
Wanted == {0} \cup (1 + MinLevel)..Full

LEMMA LoudnessIs ==
  /\ Full = 1 + MaxLevel /\ Full \in Wanted /\ Full \in Nat
  /\ \A db \in Volumes : Loudness(db) \in Wanted /\ (Loudness(db) = 0 <=> db = MuteDb)
<1>1. /\ MinLevel \in Nat /\ MaxLevel \in Nat /\ MinLevel < MaxLevel /\ MuteDb # 0
      /\ Volumes \subseteq MuteDb..0
  BY HostAudioAssumption
<1>2. Full = 1 + MaxLevel
  BY <1>1, SliderAtTop DEF Full, Loudness
<1>3. \A db \in Volumes : Loudness(db) \in Wanted /\ (Loudness(db) = 0 <=> db = MuteDb)
  BY <1>1, <1>2, SliderInRange DEF Loudness, Wanted
<1> QED BY <1>1, <1>2, <1>3 DEF Wanted

-----------------------------------------------------------------------------
\* Types.  What a sample was scaled by fits the volume wanted at the time.

Fits(c, s) ==
  /\ c = "software" => s.gain <= s.want
  /\ c = "bare" /\ s.gain # 0 => s.want >= 1 + MinLevel
Scales(c) == {s \in [gain : 0..Full, want : 0..Full] : Fits(c, s)}
Frames(c) == {f \in [fade : 0..FadeLen, gain : 0..Full, want : 0..Full] : Fits(c, f)}

PcmTypes ==
  /\ device \in {"closed", "prepared", "running", "stopped"} /\ taken \in BOOLEAN
  /\ stops \in 0..MaxStops
  /\ lead \in (-MaxLag)..Size
  /\ sink \in {"none", "deaf", "playable"} /\ next \in {"none", "deaf", "playable"}
  /\ sinks \in 0..MaxSinks
  /\ pc \in {"idle", "writing"} /\ left \in 0..Chunk /\ fade \in 0..FadeLen
  /\ slip \in BOOLEAN /\ click \in BOOLEAN
FrameTypes ==
  /\ ring \in Seq(Frames(control))
  /\ Len(ring) = IF lead > 0 THEN lead ELSE 0
  /\ heard \in Frames(control) \cup {Silence}
  /\ scratch \in Scales(control)
MixerTypes ==
  /\ control \in Controls /\ gain \in 0..Full
  /\ level \in MinLevel..MaxLevel /\ switch \in BOOLEAN
  /\ set \in {"idle", "level", "on", "off"}
  /\ want \in Wanted /\ was \in Wanted /\ sets \in 0..MaxSets /\ failed \in BOOLEAN

\* The ring, the fade and the play position.
Playing ==
  /\ lead < 0 => device \in {"running", "stopped"}
  /\ device = "stopped" /\ ~ slip => fade = 0
  /\ sink # "playable" => lead <= 0 /\ pc = "idle"
  /\ WrittenAhead
  /\ heard = Silence /\ ~ slip /\ lead = 0 => fade = 0
  /\ heard = Silence /\ ~ slip /\ lead > 0 => Head(ring).fade = 0
  /\ NoClick

\* The loudest that is in force: of a set that went through, what it asked.
Ceiling == LouderOf(want, was)
InForce == IF set = "idle" /\ ~ failed THEN want ELSE Ceiling
Owed == IF set = "idle" /\ failed THEN Ceiling ELSE want

Loud ==
  /\ control = "software" => gain = want /\ set = "idle" /\ ~ failed
  /\ control = "switch" =>
       /\ set = "level" => want # 0
       /\ set = "on" => want = 1 + level
       /\ switch => 1 + level <= InForce
  /\ control = "bare" =>
       /\ set \in {"idle", "level"}
       /\ level = MinLevel \/ 1 + level <= InForce
       /\ gain # 0 => Owed >= 1 + MinLevel

Inv == PcmTypes /\ FrameTypes /\ MixerTypes /\ Playing /\ Loud

LEMMA Naturals0 ==
  /\ Size \in Nat \ {0} /\ Chunk \in Nat \ {0} /\ FadeLen \in Nat
  /\ MaxLag \in Nat /\ MaxStops \in Nat /\ MaxSinks \in Nat /\ MaxSets \in Nat
  /\ MinLevel \in Nat /\ MaxLevel \in Nat /\ MinLevel < MaxLevel
  /\ Full = 1 + MaxLevel /\ Wanted \subseteq 0..Full
BY HostAudioAssumption, LoudnessIs DEF Wanted

LEMMA UnscaledFits == \A c : Unscaled \in Scales(c)
BY Naturals0 DEF Unscaled, Scales, Fits

LEMMA ScaledFits == ASSUME MixerTypes, Loud PROVE Scaled \in Scales(control)
<1>1. /\ gain \in 0..Full /\ want \in 0..Full /\ was \in 0..Full
      /\ LouderOf(want, was) \in 0..Full
      /\ LouderOf(want, was) >= want
  BY Naturals0 DEF MixerTypes, LouderOf
<1>2. Scaled = [gain |-> gain, want |-> LouderOf(want, was)]
  BY DEF Scaled
<1>3. Scaled.gain = gain /\ Scaled.want = LouderOf(want, was)
      /\ Scaled \in [gain : 0..Full, want : 0..Full]
  BY <1>1, <1>2
<1>4. control = "software" => gain <= LouderOf(want, was)
  BY <1>1 DEF Loud
<1>5. control = "bare" /\ gain # 0 => LouderOf(want, was) >= 1 + MinLevel
  BY <1>1, Naturals0 DEF Loud, Owed, Ceiling
<1> QED BY <1>3, <1>4, <1>5 DEF Scales, Fits

LEMMA InvInit == Init => Inv
<1> SUFFICES ASSUME Init PROVE Inv
  OBVIOUS
<1>1. PcmTypes
  <2>1. lead \in (-MaxLag)..Size /\ sinks \in 0..MaxSinks /\ left \in 0..Chunk
        /\ fade \in 0..FadeLen /\ stops \in 0..MaxStops
    BY Naturals0 DEF Init
  <2> QED BY <2>1 DEF Init, PcmTypes
<1>2. FrameTypes
  BY Naturals0, UnscaledFits DEF Init, FrameTypes
<1>3. MixerTypes
  <2>1. gain \in 0..Full /\ level \in MinLevel..MaxLevel /\ sets \in 0..MaxSets
    BY Naturals0 DEF Init
  <2>2. want \in Wanted /\ was \in Wanted
    BY LoudnessIs DEF Init
  <2> QED BY <2>1, <2>2 DEF Init, MixerTypes
<1>4. Playing
  BY DEF Init, Playing, WrittenAhead, NoClick
<1>5. Loud
  BY Naturals0, LoudnessIs DEF Init, Loud, InForce, Owed, Ceiling, LouderOf
<1> QED BY <1>1, <1>2, <1>3, <1>4, <1>5 DEF Inv

-----------------------------------------------------------------------------
\* The mixer's steps.

\* What they leave to the audio.
LEMMA MixerKeepsAudio ==
  ASSUME Inv, UNCHANGED <<pcm, pointers, stream, thread, control>>
  PROVE  PcmTypes' /\ FrameTypes' /\ Playing'
BY DEF Inv, PcmTypes, FrameTypes, Playing, WrittenAhead, NoClick, pcm, pointers, stream,
       thread

LEMMA AskIs ==
  ASSUME MixerTypes, NEW db \in Volumes, Ask(db)
  PROVE  /\ set = "idle" /\ want' = Loudness(db) /\ want' \in Wanted
         /\ was' = (IF failed THEN Ceiling ELSE want) /\ was' \in Wanted
         /\ sets' \in 0..MaxSets
         /\ Ceiling' >= InForce /\ Ceiling' >= want'
         /\ Ceiling' \in Nat /\ InForce \in Nat /\ level \in Nat
<1>1. set = "idle" /\ want' = Loudness(db) /\ want' \in Wanted
  BY LoudnessIs DEF Ask
<1>2. was' = (IF failed THEN Ceiling ELSE want) /\ was' \in Wanted
  BY DEF Ask, Ceiling, LouderOf, MixerTypes
<1>3. sets' \in 0..MaxSets
  BY Naturals0 DEF Ask, MixerTypes
<1>4. want' \in Nat /\ was' \in Nat /\ want \in Nat /\ was \in Nat
  BY <1>1, <1>2, Naturals0 DEF MixerTypes
<1>5. Ceiling' >= was' /\ Ceiling' >= want' /\ Ceiling' \in Nat /\ Ceiling \in Nat
  BY <1>4 DEF Ceiling, LouderOf
<1>6. was' = InForce
  BY <1>1, <1>2 DEF InForce, MixerTypes
<1>7. level \in Nat
  BY Naturals0 DEF MixerTypes
<1> QED BY <1>1, <1>2, <1>3, <1>4, <1>5, <1>6, <1>7

LEMMA MixerSteps ==
  ASSUME Inv,
         \/ \E db \in Volumes : SetVolume(db) \/ ControlGone(db)
         \/ SetLevel \/ SetSwitch \/ SetFails
  PROVE  Inv'
<1>0. MixerTypes /\ Loud
  BY DEF Inv
<1>1. ASSUME NEW db \in Volumes, SetVolume(db) PROVE Inv'
  <2>1. Ask(db)
    BY <1>1 DEF SetVolume
  <2>2. UNCHANGED <<level, switch, failed, control>>
    BY <1>1 DEF SetVolume
  <2>3. gain' \in 0..Full
    BY <1>1, LoudnessIs, Naturals0 DEF SetVolume
  <2>4. MixerTypes'
    BY <1>0, <1>1, <2>1, <2>2, <2>3, AskIs DEF SetVolume, MixerTypes
  <2>5. CASE control = "software"
    <3>1. gain' = Loudness(db) /\ set' = "idle"
      BY <1>1, <2>5 DEF SetVolume
    <3> QED BY <1>0, <1>1, <2>1, <2>2, <2>4, <2>5, <3>1, AskIs, MixerKeepsAudio
            DEF SetVolume, Inv, Loud
  <2>6. CASE control = "switch"
    <3>1. set' = (IF db = MuteDb THEN "off" ELSE "level")
      BY <1>1, <2>6 DEF SetVolume
    <3>2. InForce' = Ceiling'
      BY <3>1 DEF InForce
    <3>3. set' = "level" => want' # 0
      BY <1>0, <2>1, <3>1, AskIs, LoudnessIs
    <3>4. switch' => 1 + level' <= InForce'
      BY <1>0, <2>1, <2>2, <2>6, <3>2, AskIs DEF Loud
    <3> QED BY <1>1, <2>2, <2>4, <2>6, <3>1, <3>3, <3>4, MixerKeepsAudio
            DEF SetVolume, Inv, Loud
  <2>7. CASE control = "bare"
    <3>1. set' = "level" /\ gain' = (IF db = MuteDb THEN 0 ELSE Full)
      BY <1>1, <2>7 DEF SetVolume
    <3>2. InForce' = Ceiling' /\ Owed' = want'
      BY <3>1 DEF InForce, Owed
    <3>3. level' = MinLevel \/ 1 + level' <= InForce'
      BY <1>0, <2>1, <2>2, <2>7, <3>2, AskIs DEF Loud
    <3>4. gain' # 0 => want' >= 1 + MinLevel
      BY <1>0, <2>1, <3>1, AskIs, LoudnessIs, Naturals0 DEF Wanted
    <3> QED BY <1>1, <2>2, <2>4, <2>7, <3>1, <3>2, <3>3, <3>4, MixerKeepsAudio
            DEF SetVolume, Inv, Loud
  <2> QED BY <1>0, <2>5, <2>6, <2>7 DEF MixerTypes, Controls
<1>2. ASSUME NEW db \in Volumes, ControlGone(db) PROVE Inv'
  <2>1. Ask(db) /\ UNCHANGED <<gain, level, switch, set, control>> /\ failed' = TRUE
        /\ control # "software"
    BY <1>2 DEF ControlGone
  <2>2. MixerTypes'
    BY <1>0, <2>1, AskIs DEF MixerTypes
  <2>3. InForce' = Ceiling' /\ Owed' = Ceiling' /\ set = "idle"
    BY <1>0, <2>1, AskIs DEF InForce, Owed
  <2>4. InForce = Owed
    BY <1>0, <2>3 DEF InForce, Owed, MixerTypes
  <2>5. Ceiling' >= InForce /\ Ceiling' \in Nat /\ InForce \in Nat /\ level \in Nat
    BY <1>0, <2>1, AskIs, Naturals0 DEF InForce, MixerTypes
  <2>6. Loud'
    BY <1>0, <2>1, <2>3, <2>4, <2>5, Naturals0 DEF Loud
  <2> QED BY <1>2, <2>2, <2>6, MixerKeepsAudio DEF ControlGone, Inv
<1>3. CASE SetLevel
  <2>1. /\ set = "level" /\ level' = Goal /\ UNCHANGED <<gain, switch, want, was, control, sets>>
        /\ set' = (IF control = "switch" THEN "on" ELSE "idle")
        /\ failed' = (failed /\ set' # "idle")
    BY <1>3 DEF SetLevel
  <2>2. level' \in MinLevel..MaxLevel /\ (want # 0 => 1 + level' = want)
        /\ (want = 0 => level' = MinLevel)
    BY <1>0, <2>1, Naturals0 DEF Goal, MixerTypes, Wanted
  <2>3. MixerTypes'
    BY <1>0, <2>1, <2>2 DEF MixerTypes
  <2>4. Ceiling' >= want' /\ want' \in Nat
    BY <2>3, Naturals0 DEF MixerTypes, Ceiling, LouderOf
  <2>5. control = "switch" => want' = 1 + level' /\ InForce' = Ceiling' /\ set' = "on"
    BY <1>0, <2>1, <2>2 DEF Loud, InForce
  <2>6. control = "bare" => set' = "idle" /\ InForce' = want' /\ Owed' = want' /\ Owed = want
    BY <1>0, <2>1 DEF InForce, Owed
  <2>7. Loud'
    BY <1>0, <2>1, <2>2, <2>4, <2>5, <2>6 DEF Loud
  <2> QED BY <1>3, <2>3, <2>7, MixerKeepsAudio DEF SetLevel, Inv
<1>4. CASE SetSwitch
  <2>1. /\ set \in {"on", "off"} /\ switch' = (set = "on") /\ set' = "idle" /\ failed' = FALSE
        /\ UNCHANGED <<gain, level, want, was, control, sets>>
    BY <1>4 DEF SetSwitch
  <2>2. MixerTypes' /\ InForce' = want'
    BY <1>0, <2>1 DEF MixerTypes, InForce
  <2>3. level \in Nat /\ want \in Nat
    BY <1>0, Naturals0 DEF MixerTypes
  <2>4. control = "switch" /\ (switch' => 1 + level' <= InForce')
    <3>1. control = "switch"
      BY <1>0, <2>1 DEF Loud, MixerTypes, Controls
    <3>2. CASE set = "on"
      BY <1>0, <2>1, <2>2, <2>3, <3>1, <3>2 DEF Loud
    <3>3. CASE set = "off"
      BY <2>1, <3>1, <3>3
    <3> QED BY <2>1, <3>1, <3>2, <3>3
  <2>5. Loud'
    BY <2>1, <2>4 DEF Loud
  <2> QED BY <1>4, <2>2, <2>5, MixerKeepsAudio DEF SetSwitch, Inv
<1>5. CASE SetFails
  <2>1. /\ set # "idle" /\ set' = "idle" /\ failed' = TRUE
        /\ UNCHANGED <<gain, level, switch, want, was, control, sets>>
    BY <1>5 DEF SetFails
  <2>2. MixerTypes' /\ InForce' = InForce /\ Owed' = Ceiling /\ Owed = want
    BY <1>0, <2>1 DEF MixerTypes, InForce, Owed, Ceiling
  <2>3. Ceiling >= want /\ Ceiling \in Nat /\ want \in Nat
    BY <1>0, Naturals0 DEF MixerTypes, Ceiling, LouderOf
  <2>4. Loud'
    BY <1>0, <2>1, <2>2, <2>3, Naturals0 DEF Loud
  <2> QED BY <1>5, <2>2, <2>4, MixerKeepsAudio DEF SetFails, Inv
<1> QED BY <1>1, <1>2, <1>3, <1>4, <1>5

-----------------------------------------------------------------------------
\* The audio's steps.

LEMMA AudioKeepsMixer ==
  ASSUME MixerTypes, Loud, UNCHANGED mixer PROVE MixerTypes' /\ Loud'
BY DEF MixerTypes, Loud, InForce, Owed, Ceiling, mixer

LEMMA RingFacts ==
  ASSUME FrameTypes, lead \in Int
  PROVE  /\ lead > 0 => /\ ring # <<>> /\ Head(ring) \in Frames(control)
                        /\ Tail(ring) \in Seq(Frames(control))
                        /\ Len(Tail(ring)) = lead - 1
         /\ lead <= 0 => ring = <<>>
BY DEF FrameTypes

LEMMA TickStep == ASSUME Inv, Tick PROVE Inv'
<1>0. /\ PcmTypes /\ FrameTypes /\ Playing /\ lead \in Int
  BY Naturals0 DEF Inv, PcmTypes
<1>1. /\ device = "running" /\ lead > -MaxLag /\ lead' = lead - 1
      /\ UNCHANGED <<device, taken, stops, sink, next, sinks, pc, left, fade, scratch, control>>
  BY DEF Tick, pcm, stream, mixer
<1>2. slip' = (lead <= 0 /\ (slip \/ pc # "idle"))
      /\ click' = (click \/ (lead > 0 /\ heard = Silence /\ Head(ring).fade > 0 /\ ~ slip))
  BY DEF Tick
<1>3. lead' \in (-MaxLag)..Size
  BY <1>0, <1>1, Naturals0 DEF PcmTypes
<1>4. PcmTypes'
  BY <1>0, <1>1, <1>2, <1>3 DEF PcmTypes
<1>5. CASE lead > 0
  <2>1. heard' = Head(ring) /\ ring' = Tail(ring)
    BY <1>5 DEF Tick
  <2>2. Head(ring) \in Frames(control) /\ Tail(ring) \in Seq(Frames(control))
        /\ Len(Tail(ring)) = lead - 1
    BY <1>0, <1>5, RingFacts
  <2>3. FrameTypes'
    BY <1>0, <1>1, <1>5, <2>1, <2>2 DEF FrameTypes
  <2>4. heard' # Silence
    <3>1. heard'.fade >= 0
      BY <2>1, <2>2 DEF Frames
    <3>2. Silence.fade = -1
      BY DEF Silence
    <3> QED BY <3>1, <3>2
  <2>5. ~ click'
    <3>1. ~ (heard = Silence /\ ~ slip /\ Head(ring).fade > 0)
      BY <1>0, <1>5 DEF Playing
    <3>2. ~ click
      BY <1>0 DEF Playing, NoClick
    <3> QED BY <1>2, <3>1, <3>2
  <2>6. Playing'
    BY <1>0, <1>1, <1>5, <2>4, <2>5 DEF Playing, WrittenAhead, NoClick
  <2> QED BY <1>4, <2>3, <2>6, AudioKeepsMixer DEF Inv, Tick
<1>6. CASE lead <= 0
  <2>1. heard' = Silence /\ ring' = ring /\ lead' < 0
    BY <1>0, <1>1, <1>6 DEF Tick
  <2>2. FrameTypes'
    BY <1>0, <1>1, <1>6, <2>1 DEF FrameTypes
  <2>3. ~ click'
    <3>1. ~ click /\ ~ (lead > 0)
      BY <1>0, <1>6 DEF Playing, NoClick
    <3> QED BY <1>2, <3>1
  <2>4. WrittenAhead'
    BY <1>0, <1>1, <1>2, <1>6 DEF WrittenAhead
  <2>5. Playing'
    BY <1>0, <1>1, <1>6, <2>1, <2>3, <2>4 DEF Playing, NoClick
  <2> QED BY <1>4, <2>2, <2>5, AudioKeepsMixer DEF Inv, Tick
<1> QED BY <1>0, <1>5, <1>6

LEMMA QuietSteps == ASSUME Inv, OtherProcess \/ Attach PROVE Inv'
<1>1. UNCHANGED <<pointers, sink, thread, mixer>> /\ (device = "running" => device' = "running")
      /\ (device = "stopped" <=> device' = "stopped") /\ stops' = stops
  BY DEF OtherProcess, Attach, pcm, stream
<1>2. PcmTypes'
  <2>1. sinks' \in 0..MaxSinks
    BY Naturals0 DEF Inv, PcmTypes, OtherProcess, Attach, stream
  <2> QED BY <2>1 DEF Inv, PcmTypes, OtherProcess, Attach, pointers, thread, stream
<1>3. FrameTypes'
  BY <1>1 DEF Inv, FrameTypes, pointers, thread, mixer
<1>4. Playing'
  BY <1>1 DEF Inv, Playing, WrittenAhead, NoClick, pointers, thread
<1> QED BY <1>1, <1>2, <1>3, <1>4, AudioKeepsMixer DEF Inv

\* An empty ring, or one rewound to the play position.
LEMMA Emptied ==
  ASSUME PcmTypes, FrameTypes, Discard
  PROVE  /\ lead' \in (-MaxLag)..Size /\ lead' \in Int /\ lead' <= 0
         /\ (lead' < 0 => lead < 0)
         /\ ring' \in Seq(Frames(control)) /\ Len(ring') = 0
BY Naturals0 DEF PcmTypes, FrameTypes, Discard

LEMMA FlushStep == ASSUME Inv, Flush PROVE Inv'
<1>0. /\ PcmTypes /\ FrameTypes /\ Playing
  BY DEF Inv
<1>1. /\ pc = "idle" /\ fade' = 0 /\ slip' = FALSE /\ Discard
      /\ UNCHANGED <<device, taken, stops, heard, click, sink, next, sinks, pc, left, scratch,
                     control>>
  BY DEF Flush, pcm, stream, mixer
<1>2. PcmTypes'
  <2>1. fade' \in 0..FadeLen /\ lead' \in (-MaxLag)..Size
    BY <1>0, <1>1, Emptied, Naturals0
  <2> QED BY <1>0, <1>1, <2>1 DEF PcmTypes
<1>3. FrameTypes'
  BY <1>0, <1>1, Emptied DEF FrameTypes
<1>4. Playing'
  BY <1>0, <1>1, Emptied DEF Playing, WrittenAhead, NoClick
<1> QED BY <1>2, <1>3, <1>4, AudioKeepsMixer DEF Inv, Flush

LEMMA DetachStep == ASSUME Inv, Detach PROVE Inv'
<1>0. /\ PcmTypes /\ FrameTypes /\ Playing /\ lead \in Int
  BY Naturals0 DEF Inv, PcmTypes
<1>1. /\ pc = "idle" /\ fade' = 0 /\ slip' = FALSE /\ sink' = next /\ next' = "none"
      /\ UNCHANGED <<device, taken, stops, heard, click, sinks, pc, left, scratch, control>>
  BY DEF Detach, pcm, mixer
<1>2. /\ lead' \in (-MaxLag)..Size /\ lead' \in Int /\ lead' <= 0 /\ (lead' < 0 => lead < 0)
      /\ ring' \in Seq(Frames(control)) /\ Len(ring') = 0
  <2>1. CASE sink = "playable"
    BY <1>0, <2>1, Emptied DEF Detach
  <2>2. CASE sink # "playable"
    <3>1. UNCHANGED <<lead, ring>> /\ lead <= 0
      BY <1>0, <2>2 DEF Detach, Playing
    <3> QED BY <1>0, <3>1 DEF FrameTypes, PcmTypes
  <2> QED BY <2>1, <2>2
<1>3. PcmTypes'
  <2>1. fade' \in 0..FadeLen
    BY <1>1, Naturals0
  <2> QED BY <1>0, <1>1, <1>2, <2>1 DEF PcmTypes
<1>4. FrameTypes'
  BY <1>0, <1>1, <1>2 DEF FrameTypes
<1>5. Playing'
  BY <1>0, <1>1, <1>2 DEF Playing, WrittenAhead, NoClick
<1> QED BY <1>3, <1>4, <1>5, AudioKeepsMixer DEF Inv, Detach

LEMMA ResyncStep == ASSUME Inv, Resync PROVE Inv'
<1>0. /\ PcmTypes /\ FrameTypes /\ Playing /\ lead \in Int
  BY Naturals0 DEF Inv, PcmTypes
<1>1. /\ pc = "idle" /\ pc' = "writing" /\ left' = Chunk /\ scratch' = Scaled
      /\ sink = "playable"
      /\ UNCHANGED <<device, taken, stops, ring, heard, click, sink, next, sinks, control>>
  BY DEF Resync, pcm, stream, mixer
<1>2. scratch' \in Scales(control)
  BY <1>1, ScaledFits DEF Inv
<1>3. CASE device = "running" /\ lead < 0
  <2>1. lead' = 0 /\ fade' = 0 /\ slip' = FALSE
    BY <1>3 DEF Resync
  <2>2. PcmTypes'
    <3>1. fade' \in 0..FadeLen /\ lead' \in (-MaxLag)..Size /\ left' \in 0..Chunk
      BY <1>1, <2>1, Naturals0
    <3> QED BY <1>0, <1>1, <2>1, <3>1 DEF PcmTypes
  <2>3. FrameTypes'
    BY <1>0, <1>1, <1>2, <1>3, <2>1 DEF FrameTypes
  <2>4. Playing'
    BY <1>0, <1>1, <2>1 DEF Playing, WrittenAhead, NoClick
  <2> QED BY <2>2, <2>3, <2>4, AudioKeepsMixer DEF Inv, Resync
<1>4. CASE ~ (device = "running" /\ lead < 0)
  <2>1. UNCHANGED <<lead, fade, slip>>
    BY <1>4 DEF Resync
  <2>2. PcmTypes'
    <3>1. left' \in 0..Chunk
      BY <1>1, Naturals0
    <3> QED BY <1>0, <1>1, <2>1, <3>1 DEF PcmTypes
  <2>3. FrameTypes'
    BY <1>0, <1>1, <1>2, <2>1 DEF FrameTypes
  <2>4. Playing'
    BY <1>0, <1>1, <1>4, <2>1 DEF Playing, WrittenAhead, NoClick
  <2> QED BY <2>2, <2>3, <2>4, AudioKeepsMixer DEF Inv, Resync
<1> QED BY <1>3, <1>4

LEMMA ResyncFailsStep == ASSUME Inv, ResyncFails PROVE Inv'
<1>0. /\ PcmTypes /\ FrameTypes /\ Playing /\ lead \in Int
  BY Naturals0 DEF Inv, PcmTypes
<1>1. /\ pc' = "writing" /\ left' = Chunk /\ scratch' = Scaled /\ fade' = 0 /\ slip' = TRUE
      /\ sink = "playable"
      /\ UNCHANGED <<device, taken, stops, lead, ring, heard, click, sink, next, sinks, control>>
  BY DEF ResyncFails, pcm, pointers, stream, mixer
<1>2. scratch' \in Scales(control)
  BY <1>1, ScaledFits DEF Inv
<1>3. PcmTypes'
  <2>1. fade' \in 0..FadeLen /\ left' \in 0..Chunk
    BY <1>1, Naturals0
  <2> QED BY <1>0, <1>1, <2>1 DEF PcmTypes
<1>4. FrameTypes'
  BY <1>0, <1>1, <1>2 DEF FrameTypes
<1>5. Playing'
  BY <1>0, <1>1 DEF Playing, WrittenAhead, NoClick
<1> QED BY <1>3, <1>4, <1>5, AudioKeepsMixer DEF Inv, ResyncFails

LEMMA StopsStep == ASSUME Inv, Stops PROVE Inv'
<1>0. /\ PcmTypes /\ FrameTypes /\ Playing
  BY DEF Inv
<1>1. /\ device' = "stopped" /\ stops < MaxStops /\ stops' = stops + 1
      /\ heard' = Silence /\ slip' = TRUE
      /\ UNCHANGED <<taken, lead, ring, click, sink, next, sinks, pc, left, fade, scratch, control>>
  BY DEF Stops, stream, mixer
<1>2. PcmTypes'
  <2>1. stops' \in 0..MaxStops
    BY <1>0, <1>1, Naturals0 DEF PcmTypes
  <2> QED BY <1>0, <1>1, <2>1 DEF PcmTypes
<1>3. FrameTypes'
  BY <1>0, <1>1 DEF FrameTypes
<1>4. Playing'
  BY <1>0, <1>1 DEF Playing, WrittenAhead, NoClick
<1> QED BY <1>2, <1>3, <1>4, AudioKeepsMixer DEF Inv, Stops

LEMMA FadedInRange ==
  ASSUME fade \in 0..FadeLen, NEW n \in Nat PROVE Faded(n) \in 0..FadeLen
BY Naturals0 DEF Faded

LEMMA WriteStep == ASSUME Inv, WriteFrame PROVE Inv'
<1>0. /\ PcmTypes /\ FrameTypes /\ Playing /\ lead \in Int
  BY Naturals0 DEF Inv, PcmTypes
<1> DEFINE f == [fade |-> fade, gain |-> scratch.gain, want |-> scratch.want]
<1>1. /\ pc = "writing" /\ left > 0 /\ device # "stopped" /\ lead < Size /\ lead' = lead + 1
      /\ ring' = (IF lead >= 0 THEN Append(ring, f) ELSE ring)
      /\ device' = Started /\ left' = left - 1
      /\ fade' = Faded(1)
      /\ UNCHANGED <<taken, stops, heard, click, sink, next, sinks, slip, control>>
  BY DEF WriteFrame, Queue, stream, mixer
<1>2. pc' \in {"idle", "writing"} /\ scratch' \in Scales(control)
  BY <1>0, UnscaledFits DEF WriteFrame, Idle, FrameTypes
<1>3. f \in Frames(control) /\ f.fade = fade
  BY <1>0 DEF FrameTypes, Scales, Frames, Fits, PcmTypes
<1> HIDE DEF f
<1>4. device' \in {"closed", "prepared", "running"} /\ (device = "running" => device' = "running")
  BY <1>0, <1>1 DEF Started, PcmTypes
<1>5. PcmTypes'
  <2>1. lead' \in (-MaxLag)..Size /\ left' \in 0..Chunk /\ fade' \in 0..FadeLen
    BY <1>0, <1>1, Naturals0, FadedInRange DEF PcmTypes
  <2> QED BY <1>0, <1>1, <1>2, <1>4, <2>1 DEF PcmTypes
<1>6. ring' \in Seq(Frames(control)) /\ Len(ring') = IF lead' > 0 THEN lead' ELSE 0
  <2>1. CASE lead >= 0
    <3>1. ring \in Seq(Frames(control)) /\ Len(ring) = lead
      BY <1>0, <2>1 DEF FrameTypes
    <3> QED BY <1>0, <1>1, <1>3, <2>1, <3>1
  <2>2. CASE ~ (lead >= 0)
    BY <1>0, <1>1, <2>2 DEF FrameTypes
  <2> QED BY <2>1, <2>2
<1>7. FrameTypes'
  BY <1>0, <1>1, <1>2, <1>6 DEF FrameTypes
<1>8. sink = "playable"
  BY <1>0, <1>1 DEF Playing
<1>9. CASE lead < 0
  <2>1. slip' /\ slip
    BY <1>0, <1>1, <1>9 DEF Playing, WrittenAhead
  <2>2. Playing'
    BY <1>0, <1>1, <1>4, <1>8, <1>9, <2>1 DEF Playing, WrittenAhead, NoClick
  <2> QED BY <1>5, <1>7, <2>2, AudioKeepsMixer DEF Inv, WriteFrame
<1>10. CASE ~ (lead < 0)
  <2>1. lead' > 0
    BY <1>0, <1>1, <1>10
  <2>2. heard = Silence /\ ~ slip => Head(ring').fade = 0
    <3>1. CASE lead = 0
      <4>1. ring = <<>>
        BY <1>0, <3>1, RingFacts
      <4>2. ring' = <<f>>
        BY <1>1, <3>1, <4>1
      <4> QED BY <1>0, <1>3, <3>1, <4>2 DEF Playing
    <3>2. CASE lead > 0
      <4>1. ring \in Seq(Frames(control)) /\ ring # <<>> /\ ring' = Append(ring, f)
        BY <1>0, <1>1, <3>2, RingFacts DEF FrameTypes
      <4>2. Head(ring') = Head(ring)
        BY <1>3, <4>1
      <4> QED BY <1>0, <3>2, <4>2 DEF Playing
    <3> QED BY <1>0, <1>10, <3>1, <3>2
  <2>3. Playing'
    BY <1>0, <1>1, <1>4, <1>8, <2>1, <2>2 DEF Playing, WrittenAhead, NoClick
  <2> QED BY <1>5, <1>7, <2>3, AudioKeepsMixer DEF Inv, WriteFrame
<1> QED BY <1>9, <1>10

LEMMA ErrorSteps == ASSUME Inv, Recover \/ GiveUp PROVE Inv'
<1>0. /\ PcmTypes /\ FrameTypes /\ Playing /\ lead \in Int
  BY Naturals0 DEF Inv, PcmTypes
<1>1. CASE Recover
  <2>1. /\ device = "stopped" /\ device' = "prepared" /\ lead' = 0 /\ ring' = <<>>
        /\ UNCHANGED <<taken, stops, heard, click, sink, next, sinks, pc, left, fade, scratch,
                       slip, control>>
    BY <1>1 DEF Recover, stream, thread, mixer
  <2>2. lead' \in (-MaxLag)..Size
    BY <2>1, Naturals0
  <2>3. PcmTypes'
    BY <1>0, <2>1, <2>2 DEF PcmTypes
  <2>4. FrameTypes'
    BY <1>0, <2>1 DEF FrameTypes
  <2>5. Playing'
    BY <1>0, <2>1 DEF Playing, WrittenAhead, NoClick
  <2> QED BY <1>1, <2>3, <2>4, <2>5, AudioKeepsMixer DEF Inv, Recover
<1>2. CASE GiveUp
  <2>1. /\ device = "stopped" /\ pc' = "idle" /\ scratch' = Unscaled /\ left' = 0
        /\ fade' = Faded(left) /\ slip' = TRUE
        /\ UNCHANGED <<device, taken, stops, lead, ring, heard, click, sink, next, sinks, control>>
    BY <1>2 DEF GiveUp, Idle, pcm, pointers, stream, mixer
  <2>2. fade' \in 0..FadeLen /\ left' \in 0..Chunk
    <3>1. left \in Nat /\ fade \in 0..FadeLen
      BY <1>0, Naturals0 DEF PcmTypes
    <3> QED BY <2>1, <3>1, FadedInRange, Naturals0
  <2>3. PcmTypes'
    BY <1>0, <2>1, <2>2 DEF PcmTypes
  <2>4. FrameTypes'
    BY <1>0, <2>1, UnscaledFits DEF FrameTypes
  <2>5. Playing'
    BY <1>0, <2>1 DEF Playing, WrittenAhead, NoClick
  <2> QED BY <1>2, <2>3, <2>4, <2>5, AudioKeepsMixer DEF Inv, GiveUp
<1> QED BY <1>1, <1>2

LEMMA InvNext == Inv /\ [Next]_vars => Inv'
<1> SUFFICES ASSUME Inv, [Next]_vars PROVE Inv'
  OBVIOUS
<1>1. CASE UNCHANGED vars
  BY <1>1, MixerKeepsAudio, AudioKeepsMixer
     DEF vars, Inv, pcm, pointers, stream, thread, mixer
<1>2. CASE Next
  BY <1>2, TickStep, StopsStep, QuietSteps, FlushStep, DetachStep, ResyncStep, ResyncFailsStep,
     WriteStep, ErrorSteps, MixerSteps
     DEF Next
<1> QED BY <1>1, <1>2

THEOREM Invariance == Spec => []Inv
BY InvInit, InvNext, PTL DEF Spec

-----------------------------------------------------------------------------
\* Every variable keeps its type, for any ring, chunk, fade and mixer range.
THEOREM TypeCorrect == Spec => []TypeOK
<1>1. Inv => TypeOK
  <2> SUFFICES ASSUME Inv PROVE TypeOK
    OBVIOUS
  <2>1. \A i \in 1..Len(ring) : ring[i] \in Frames(control)
    BY DEF Inv, FrameTypes
  <2>2. \A i \in 1..Len(ring) :
          ring[i].fade \in 0..FadeLen /\ ring[i].gain \in 0..Full /\ ring[i].want \in 0..Full
    BY <2>1 DEF Frames
  <2>3. want \in 0..Full /\ was \in 0..Full
    BY Naturals0 DEF Inv, MixerTypes
  <2>4. scratch \in [gain : 0..Full, want : 0..Full]
    BY DEF Inv, FrameTypes, Scales
  <2>5. Len(ring) = IF lead > 0 THEN lead ELSE 0
    BY DEF Inv, FrameTypes
  <2> QED BY <2>2, <2>3, <2>4, <2>5 DEF Inv, PcmTypes, MixerTypes, TypeOK
<1> QED BY <1>1, Invariance, PTL

\* After silence audio begins with its fade, but for the first beginning after a
\* gap in the middle of a write, after pointers that could not be brought
\* together, or after a stream that stopped.
THEOREM FadesIn == Spec => []NoClick
<1>1. Inv => NoClick
  BY DEF Inv, Playing
<1> QED BY <1>1, Invariance, PTL

\* A write goes where it will be heard, unless the ring ran dry in the middle of
\* it or the pointers could not be brought together; and that ends with the next
\* frame that is heard.
THEOREM AheadOfHardware == Spec => []WrittenAhead
<1>1. Inv => WrittenAhead
  BY DEF Inv, Playing
<1> QED BY <1>1, Invariance, PTL

\* No order of gain, level and switch, and no failure of one of them, makes
\* anything louder than a volume that is or was in force.
THEOREM NeverLouder == Spec => []NoBurst
<1>1. Inv => NoBurst
  <2> SUFFICES ASSUME Inv, heard # Silence
               PROVE  Audible(heard.gain) <= LouderOf(heard.want, Ceiling)
    BY DEF NoBurst, Ceiling
  <2>1. /\ heard \in Frames(control) /\ level \in Nat /\ control \in Controls
        /\ want \in Nat /\ was \in Nat /\ MixerTypes /\ Loud
    BY Naturals0 DEF Inv, FrameTypes, MixerTypes
  <2>2. heard.gain \in Nat /\ heard.want \in Nat /\ Fits(control, heard)
    BY <2>1, Naturals0 DEF Frames
  <2>3. Ceiling \in Nat /\ Ceiling >= want /\ Ceiling >= InForce /\ InForce \in Nat
    BY <2>1 DEF Ceiling, LouderOf, InForce
  <2>4. LouderOf(heard.want, Ceiling) >= heard.want /\ LouderOf(heard.want, Ceiling) >= Ceiling
        /\ LouderOf(heard.want, Ceiling) \in Nat
    BY <2>2, <2>3 DEF LouderOf
  <2>5. CASE control = "software"
    BY <2>2, <2>4, <2>5 DEF Audible, Fits
  <2>6. CASE control = "switch"
    <3>1. Audible(heard.gain) = (IF heard.gain = 0 \/ ~ switch THEN 0 ELSE 1 + level)
      BY <2>6 DEF Audible
    <3>2. switch => 1 + level <= InForce
      BY <2>1, <2>6 DEF Loud
    <3> QED BY <2>1, <2>3, <2>4, <3>1, <3>2
  <2>7. CASE control = "bare"
    <3>1. Audible(heard.gain) = (IF heard.gain = 0 \/ ~ switch THEN 0 ELSE 1 + level)
      BY <2>7 DEF Audible
    <3>2. heard.gain # 0 => heard.want >= 1 + MinLevel
      BY <2>2, <2>7 DEF Fits
    <3>3. level = MinLevel \/ 1 + level <= InForce
      BY <2>1, <2>7 DEF Loud
    <3> QED BY <2>1, <2>2, <2>3, <2>4, <3>1, <3>2, <3>3
  <2> QED BY <2>1, <2>5, <2>6, <2>7 DEF Controls
<1> QED BY <1>1, Invariance, PTL
=============================================================================
