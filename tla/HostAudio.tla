----------------------------- MODULE HostAudio -----------------------------
(***************************************************************************)
(* The receiver program's audio output: the streams' sinks over the one    *)
(* ALSA stream that is opened once and never stopped                       *)
(* (openairplay2-receiver/src/player.rs), and the volume, scaled into the  *)
(* samples or set on a mixer control (mixer.rs).                           *)
(*                                                                         *)
(* Only the distance between the two pointers of the ring matters: lead is *)
(* the application pointer minus the hardware's.  A frame is its place in  *)
(* a fade-in, the gain it was scaled by and the volume wanted at the time. *)
(* The kernel's ring and mixer are modelled as the code relies on them.    *)
(***************************************************************************)
EXTENDS Integers, Sequences

CONSTANTS
  Size,     \* frames in the ring (0.5 s)
  Chunk,    \* frames in a write of the playback thread
  FadeLen,  \* frames of a fade-in (5 ms)
  Volumes,  \* volumes in dB a sender may set; MuteDb mutes
  MuteDb, FloorDb, \* -144; the bottom of the slider, -30
  MinLevel, MaxLevel, \* the range of the mixer control
  MaxLag,   \* bound: how far the application pointer may fall behind
  MaxStops, \* bound: times the stream stops by itself
  MaxSinks, \* bound: streams
  MaxSets   \* bound: volume events

ASSUME HostAudioAssumption ==
  /\ Size \in Nat \ {0} /\ Chunk \in Nat \ {0} /\ FadeLen \in Nat
  /\ MuteDb \in Int /\ FloorDb \in Int /\ MuteDb < FloorDb /\ FloorDb < 0
  /\ Volumes \subseteq MuteDb..0
  /\ MinLevel \in Nat /\ MaxLevel \in Nat /\ MinLevel < MaxLevel
  /\ MaxLag \in Nat /\ MaxStops \in Nat /\ MaxSinks \in Nat /\ MaxSets \in Nat

Controls == {"software", "switch", "bare"} \* no mixer; one with a switch; without
Silence == [fade |-> -1, gain |-> 0, want |-> 0] \* no frame
Unscaled == [gain |-> 0, want |-> 0]

VARIABLES
  device,  \* the PCM: "closed", "prepared", "running" or "stopped"
  taken,   \* another process has the device
  stops,   \* times it has stopped by itself
  lead,    \* application pointer minus hardware pointer
  ring,    \* frames written and not yet heard
  sink,    \* the stream that plays: "none", "deaf" or "playable"
  next,    \* its successor, attached before it is dropped
  sinks,   \* streams so far
  pc,      \* where the playback thread is
  left,    \* frames of its chunk still to be written
  fade,    \* fade_pos
  scratch, \* what its samples were scaled by, and the volume wanted then
  heard,   \* what the hardware played last
  slip,    \* history: the place to write at was lost where no fade follows
  click,   \* history: audio began at full scale after silence
  control, \* what drives the volume
  gain,    \* the SharedGain, 0 or full when a control is driven
  level, switch, \* the control's level and switch
  set,     \* where HwVolume::set is
  want, was, \* volume being set, the loudest that may still be in force
  failed,  \* history: no set has gone through since one failed
  sets     \* volumes set so far

vars == <<device, taken, stops, lead, ring, sink, next, sinks, pc, left, fade, scratch, heard,
          slip, click, control, gain, level, switch, set, want, was, failed, sets>>
pcm == <<device, taken, stops>>
pointers == <<lead, ring, heard, click>>
stream == <<sink, next, sinks>>
thread == <<pc, left, fade, scratch, slip>>
mixer == <<control, gain, level, switch, set, want, was, failed, sets>>

-----------------------------------------------------------------------------
\* Volume arithmetic.

\* slider_to_range: the slider's place in [FloorDb, 0], rounded to a step.
SliderToRange(db) ==
  LET up == IF db <= FloorDb THEN 0 ELSE db - FloorDb
  IN  MinLevel + ((2 * (MaxLevel - MinLevel) * up - FloorDb) \div (-2 * FloorDb))

\* How loud a volume is meant to be; the control's minimum is not silence.
Loudness(db) == IF db = MuteDb THEN 0 ELSE 1 + SliderToRange(db)
Full == Loudness(0)

\* What the listener hears of a frame scaled by g.
Audible(g) == CASE control = "software" -> g
                [] control # "software" /\ (g = 0 \/ ~ switch) -> 0
                [] OTHER -> 1 + level

LouderOf(a, b) == IF a > b THEN a ELSE b

-----------------------------------------------------------------------------
Init ==
  /\ device \in {"closed", "prepared"} /\ taken = FALSE /\ stops = 0
  /\ lead = 0 /\ ring = <<>>
  /\ sink = "none" /\ next = "none" /\ sinks = 0
  /\ pc = "idle" /\ left = 0 /\ fade = 0 /\ scratch = Unscaled
  /\ heard = Silence /\ slip = FALSE /\ click = FALSE
  /\ control \in Controls
  /\ level = MaxLevel /\ switch = TRUE /\ set = "idle"
  /\ gain = Full /\ want = Full /\ was = Full /\ failed = FALSE /\ sets = 0

-----------------------------------------------------------------------------
\* The hardware and the rest of the machine.

OtherProcess ==
  /\ device = "closed" /\ taken' = ~ taken
  /\ UNCHANGED <<device, stops, pointers, stream, thread, mixer>>

\* A frame is played, or the silence the ring is filled with.
Tick ==
  /\ device = "running" /\ lead > -MaxLag
  /\ lead' = lead - 1
  /\ heard' = IF lead > 0 THEN Head(ring) ELSE Silence
  /\ ring' = IF lead > 0 THEN Tail(ring) ELSE ring
  /\ click' = (click \/ (lead > 0 /\ heard = Silence /\ Head(ring).fade > 0 /\ ~ slip))
  /\ slip' = (lead <= 0 /\ (slip \/ pc # "idle"))
  /\ UNCHANGED <<pcm, stream, pc, left, fade, scratch, mixer>>

\* An error stops the stream (a driver's reset, a suspend, a card that is
\* gone); nothing plays until it is prepared anew.
Stops ==
  /\ device \in {"prepared", "running"} /\ stops < MaxStops
  /\ device' = "stopped" /\ stops' = stops + 1
  /\ heard' = Silence /\ slip' = TRUE
  /\ UNCHANGED <<taken, lead, ring, click, stream, pc, left, fade, scratch, mixer>>

-----------------------------------------------------------------------------
\* Streams.

\* AlsaSink::new and SharedOutput::ensure: the first stream that can opens the
\* device for good; one that cannot plays nowhere.
Attach ==
  /\ next = "none" /\ sinks < MaxSinks
  /\ sinks' = sinks + 1
  /\ next' = IF device # "closed" \/ ~ taken THEN "playable" ELSE "deaf"
  /\ device' = IF device = "closed" /\ ~ taken THEN "prepared" ELSE device
  /\ UNCHANGED <<taken, stops, pointers, sink, thread, mixer>>

\* snd_pcm_rewind: nothing that was queued is heard any more.
Discard == lead' = (IF lead > 0 THEN 0 ELSE lead) /\ ring' = <<>>

\* The old stream is dropped before its successor's first write (Takeover's
\* OneDevice; Session's Spawn and Joined).
Detach ==
  /\ pc = "idle" /\ (sink # "none" \/ next # "none")
  /\ IF sink = "playable" THEN Discard ELSE UNCHANGED <<lead, ring>>
  /\ sink' = next /\ next' = "none" /\ fade' = 0 /\ slip' = FALSE
  /\ UNCHANGED <<pcm, heard, click, sinks, pc, left, scratch, mixer>>

-----------------------------------------------------------------------------
\* The playback thread in its sink.

\* Mutant of Flush: the next audio goes on where the fade was.
FlushUnfaded ==
  /\ pc = "idle" /\ sink = "playable" /\ next = "none"
  /\ Discard
  /\ slip' = FALSE
  /\ UNCHANGED <<pcm, heard, click, stream, pc, left, fade, scratch, mixer>>

Flush ==
  /\ pc = "idle" /\ sink = "playable" /\ next = "none"
  /\ fade' = 0 /\ slip' = FALSE
  /\ Discard
  /\ UNCHANGED <<pcm, heard, click, stream, pc, left, scratch, mixer>>

\* apply_gain, of a whole chunk at once.
Scaled == [gain |-> gain, want |-> LouderOf(want, was)]

\* Mutant of Resync: the pointer is left where it is.
ResyncNever ==
  /\ pc = "idle" /\ sink = "playable" /\ next = "none"
  /\ pc' = "writing" /\ left' = Chunk /\ scratch' = Scaled
  /\ UNCHANGED <<pcm, pointers, stream, fade, slip, mixer>>

\* write, first lock: a running stream that is ahead of the application is
\* caught up with, and what follows is faded in; then the gain.
Resync ==
  /\ pc = "idle" /\ sink = "playable" /\ next = "none"
  /\ pc' = "writing" /\ left' = Chunk /\ scratch' = Scaled
  /\ IF device = "running" /\ lead < 0
     THEN lead' = 0 /\ fade' = 0 /\ slip' = FALSE
     ELSE UNCHANGED <<lead, fade, slip>>
  /\ UNCHANGED <<pcm, ring, heard, click, stream, mixer>>

\* The pointer cannot be moved: a warning, and the write goes on behind.
ResyncFails ==
  /\ pc = "idle" /\ sink = "playable" /\ next = "none"
  /\ device = "running" /\ lead < 0
  /\ pc' = "writing" /\ left' = Chunk /\ scratch' = Scaled
  /\ fade' = 0 /\ slip' = TRUE
  /\ UNCHANGED <<pcm, pointers, stream, mixer>>

\* A frame behind the play position is never heard.  Writing fills the ring,
\* and a full ring starts the stream.
Queue(f) ==
  /\ lead < Size
  /\ lead' = lead + 1
  /\ ring' = IF lead >= 0 THEN Append(ring, f) ELSE ring

\* Mutant of Started: the stream starts only when told to.
StartedNever == device

Started == IF device = "prepared" /\ lead' = Size THEN "running" ELSE device

\* The write is over.
Idle == pc' = "idle" /\ scratch' = Unscaled

\* fade_pos, n frames on.
Faded(n) == IF fade + n < FadeLen THEN fade + n ELSE FadeLen

\* ... second lock: the samples, scaled and faded, as there is room for them.
WriteFrame ==
  /\ pc = "writing" /\ left > 0 /\ device # "stopped"
  /\ Queue([fade |-> fade, gain |-> scratch.gain, want |-> scratch.want])
  /\ device' = Started
  /\ fade' = Faded(1)
  /\ left' = left - 1
  /\ IF left = 1 THEN Idle ELSE UNCHANGED <<pc, scratch>>
  /\ UNCHANGED <<taken, stops, heard, click, stream, slip, mixer>>

\* snd_pcm_writei fails and snd_pcm_recover prepares the stream, empty: the same
\* frames are tried again, with the fade they have.
Recover ==
  /\ pc = "writing" /\ device = "stopped"
  /\ device' = "prepared" /\ lead' = 0 /\ ring' = <<>>
  /\ UNCHANGED <<taken, stops, heard, click, stream, thread, mixer>>

\* An unrecoverable error: the rest of the chunk is dropped, faded as it is.
GiveUp ==
  /\ pc = "writing" /\ device = "stopped"
  /\ Idle /\ left' = 0 /\ fade' = Faded(left) /\ slip' = TRUE
  /\ UNCHANGED <<pcm, pointers, stream, mixer>>

-----------------------------------------------------------------------------
\* Event::Volume.

\* The host's event task: one set at a time.
Ask(db) ==
  /\ set = "idle" /\ sets < MaxSets
  /\ sets' = sets + 1
  /\ want' = Loudness(db) /\ was' = IF failed THEN LouderOf(want, was) ELSE want

\* Without a mixer the gain is the volume; with one it only makes a mute
\* without a switch complete.
SetVolume(db) ==
  /\ Ask(db)
  /\ gain' = CASE control = "software" -> Loudness(db)
               [] control = "bare" /\ db = MuteDb -> 0
               [] OTHER -> Full
  /\ set' = CASE control = "software" -> "idle"
              [] control = "switch" /\ db = MuteDb -> "off"
              [] OTHER -> "level"
  /\ UNCHANGED <<pcm, pointers, stream, thread, control, level, switch, failed>>

Goal == IF want = 0 THEN MinLevel ELSE want - 1

\* Mutant of SetLevel: the switch first, then the level.
SetLevelLast ==
  /\ set = "level"
  /\ IF control = "switch" /\ ~ switch
     THEN switch' = TRUE /\ UNCHANGED <<level, set>>
     ELSE level' = Goal /\ set' = "idle" /\ UNCHANGED switch
  /\ failed' = (failed /\ set' # "idle")
  /\ UNCHANGED <<pcm, pointers, stream, thread, control, gain, want, was, sets>>

\* set_playback_db_all, or set_playback_volume_all without a dB scale.
SetLevel ==
  /\ set = "level"
  /\ level' = Goal
  /\ set' = IF control = "switch" THEN "on" ELSE "idle"
  /\ failed' = (failed /\ set' # "idle")
  /\ UNCHANGED <<pcm, pointers, stream, thread, control, gain, switch, want, was, sets>>

\* set_playback_switch_all.
SetSwitch ==
  /\ set \in {"on", "off"}
  /\ switch' = (set = "on") /\ set' = "idle" /\ failed' = FALSE
  /\ UNCHANGED <<pcm, pointers, stream, thread, control, gain, level, want, was, sets>>

\* The card lost the control: nothing is set.
ControlGone(db) ==
  /\ control # "software" /\ Ask(db)
  /\ failed' = TRUE
  /\ UNCHANGED <<pcm, pointers, stream, thread, control, gain, level, switch, set>>

\* A mixer write fails: the set is dropped.
SetFails ==
  /\ set # "idle" /\ set' = "idle" /\ failed' = TRUE
  /\ UNCHANGED <<pcm, pointers, stream, thread, control, gain, level, switch,
                 want, was, sets>>

-----------------------------------------------------------------------------
Next ==
  \/ OtherProcess \/ Tick \/ Stops \/ Attach \/ Detach
  \/ Flush \/ Resync \/ ResyncFails \/ WriteFrame \/ Recover \/ GiveUp
  \/ \E db \in Volumes : SetVolume(db) \/ ControlGone(db)
  \/ SetLevel \/ SetSwitch \/ SetFails

Spec == Init /\ [][Next]_vars

\* The hardware clock runs, and a write goes on when it has room or fails; audio
\* and events come when the sender likes.
FairSpec == Spec /\ WF_vars(Tick) /\ WF_vars(WriteFrame \/ Recover \/ GiveUp)

-----------------------------------------------------------------------------
TypeOK ==
  /\ device \in {"closed", "prepared", "running", "stopped"} /\ taken \in BOOLEAN
  /\ stops \in 0..MaxStops
  /\ lead \in (-MaxLag)..Size
  /\ Len(ring) = IF lead > 0 THEN lead ELSE 0
  /\ \A i \in 1..Len(ring) :
       ring[i].fade \in 0..FadeLen /\ ring[i].gain \in 0..Full /\ ring[i].want \in 0..Full
  /\ sink \in {"none", "deaf", "playable"} /\ next \in {"none", "deaf", "playable"}
  /\ sinks \in 0..MaxSinks
  /\ pc \in {"idle", "writing"} /\ left \in 0..Chunk /\ fade \in 0..FadeLen
  /\ scratch \in [gain : 0..Full, want : 0..Full]
  /\ control \in Controls /\ gain \in 0..Full
  /\ level \in MinLevel..MaxLevel /\ switch \in BOOLEAN
  /\ set \in {"idle", "level", "on", "off"}
  /\ want \in 0..Full /\ was \in 0..Full /\ sets \in 0..MaxSets
  /\ failed \in BOOLEAN /\ slip \in BOOLEAN /\ click \in BOOLEAN

\* Audio never begins at full scale after silence, whether that came from a
\* pause, a flush, a stall or the stream before.  A gap may be followed by one
\* such beginning if it came in the middle of a write, if the pointers could not
\* be brought together after it, or if the stream stopped: prepared anew, it goes
\* on with the fade it had.
NoClick == ~ click

\* A frame is written ahead of the play position, where it will be heard,
\* except when the ring ran dry after the resync, or the pointers could not be
\* brought together; once a frame has been heard, that is over (player.rs,
\* resync: it runs before every write and heals whatever caused it).
WrittenAhead == pc = "writing" /\ device # "stopped" /\ lead < 0 => slip

\* Nothing is heard louder than the louder of the volume being left and the
\* volume being set, or than what was wanted when the frame was queued: no
\* order of gain, level and switch lets a burst through, and no failed write
\* makes a later set louder than what was in force.
NoBurst ==
  heard # Silence =>
    Audible(heard.gain) <= LouderOf(heard.want, LouderOf(want, was))

\* The blocking write returns, though the stream may stop under it: a ring that
\* is full is a ring that plays.
WriteReturns == pc = "writing" ~> pc = "idle"

=============================================================================
