--------------------------- MODULE PlaybackQueue ---------------------------
(***************************************************************************)
(* What a playback queue promises its caller (the module documentation of  *)
(* openairplay2/src/player.rs), whatever threads and flags it is made of:  *)
(* packets start sounding oldest first, only while the gate is open; the   *)
(* closing of the gate silences the sink; audio is discarded only in       *)
(* silence; a stopped queue is empty and silent for good.                  *)
(***************************************************************************)
EXTENDS Naturals

VARIABLES queue,     \* packets accepted and not yet started, by number
          last,      \* the number of packets offered so far
          gate,      \* TRUE: audio is held
          sounding,  \* packets the sink has not been told to forget
          up         \* FALSE once stopped

vars == <<queue, last, gate, sounding, up>>

Init == /\ queue = {} /\ last = 0 /\ gate = FALSE
        /\ sounding = {} /\ up = TRUE

Offer == /\ last' = last + 1
         /\ queue' = IF up THEN queue \cup {last + 1} ELSE queue
         /\ UNCHANGED <<gate, sounding, up>>

Start == \E p \in queue :
           /\ ~ gate /\ up
           /\ \A q \in queue : p <= q
           /\ queue' = queue \ {p}
           /\ sounding' = sounding \cup {p}
           /\ UNCHANGED <<last, gate, up>>

Close == gate' = TRUE /\ sounding' = {} /\ UNCHANGED <<queue, last, up>>

\* Leaving the gate open, or opening it, may silence the sink too (a flush).
Open == /\ gate' = FALSE /\ sounding' \in {sounding, {}}
        /\ UNCHANGED <<queue, last, up>>

Discard == /\ sounding = {}
           /\ queue' \in SUBSET queue
           /\ UNCHANGED <<last, gate, sounding, up>>

Halt == /\ up' = FALSE /\ queue' = {} /\ sounding' = {}
        /\ UNCHANGED <<last, gate>>

Next == Offer \/ Start \/ Close \/ Open \/ Discard \/ Halt

Spec == Init /\ [][Next]_vars
=============================================================================
