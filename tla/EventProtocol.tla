--------------------------- MODULE EventProtocol ---------------------------
(***************************************************************************)
(* What the library promises a host about the order of one session's       *)
(* events (openairplay2/src/events.rs): metadata and artwork only between  *)
(* SessionStarted and SessionEnded, an end only for a start, every volume  *)
(* within AirPlay's range, and nothing at all once the session is gone.    *)
(* It does not promise that progress, pause, flush or volume fall inside a *)
(* session, nor that every start has an end of its own.                    *)
(***************************************************************************)
EXTENDS Integers

CONSTANTS
  Values,  \* payloads of metadata and artwork
  Loudness \* the volumes a host may be told

VARIABLES
  open,  \* between SessionStarted and SessionEnded
  last,  \* the last event
  over   \* the session is gone

vars == <<open, last, over>>

Event(t, v) == [type |-> t, val |-> v]

Init == open = FALSE /\ last = Event("none", 0) /\ over = FALSE

Start == ~ over /\ open' = TRUE /\ last' = Event("started", 0) /\ over' = over

Item ==
  /\ open /\ ~ over
  /\ \E k \in {"metadata", "artwork"}, v \in Values : last' = Event(k, v)
  /\ UNCHANGED <<open, over>>

Report ==
  /\ ~ over
  /\ \/ \E k \in {"progress", "paused", "resumed", "flushed"} : last' = Event(k, 0)
     \/ \E v \in Loudness : last' = Event("volume", v)
  /\ UNCHANGED <<open, over>>

End == open /\ ~ over /\ open' = FALSE /\ last' = Event("ended", 0) /\ over' = over

Close == ~ open /\ over' = TRUE /\ UNCHANGED <<open, last>>

Next == Start \/ Item \/ Report \/ End \/ Close

Spec == Init /\ [][Next]_vars
=============================================================================
