----------------------------- MODULE PsgEvents -----------------------------
(***************************************************************************)
(* What a sound chip tells the plugins about its voices                    *)
(* (machine/AudioPipeline.hpp), and what PsgMidiPlugin makes of it: which  *)
(* notes are held after an event.                                          *)
(***************************************************************************)
EXTENDS Integers, Sequences

\* A change of a voice, whether the voice sounds then, and the sample frame.
PsgEvent(voice, kind, gate, at) == [voice |-> voice, kind |-> kind, gate |-> gate, at |-> at]

Ends == {"GateOff"}
Starts == {"StateSnapshot", "GateOn", "Retrigger", "PitchChange"}

\* processEvent: an event that starts a voice holds its note while the gate is
\* open; a change of level only lets go; routing, timbre and raw writes do
\* neither.
HeldAfter(held, e) ==
    CASE e.kind \in Starts -> [held EXCEPT ![e.voice] = e.gate]
      [] e.kind \in Ends -> [held EXCEPT ![e.voice] = FALSE]
      [] e.kind = "LevelChange" -> [held EXCEPT ![e.voice] = @ /\ e.gate]
      [] OTHER -> held

\* An event that leaves the voice's note as its gate says.
Settles(e) == e.kind \in Starts \cup Ends \/ (e.kind = "LevelChange" /\ ~e.gate)

\* The notes held after none, one, two, ... of the events.
HeldAfterEach(held, events) ==
    LET after[n \in 0 .. Len(events)] == IF n = 0 THEN held ELSE HeldAfter(after[n - 1], events[n])
    IN  after

HeldAfterAll(held, events) == HeldAfterEach(held, events)[Len(events)]

\* The members of S in the order they have in a sequence, as SelectSeq builds it.
KeptOfEach(order, S) ==
    LET kept[n \in 0 .. Len(order)] ==
          IF n = 0 THEN << >>
          ELSE IF order[n] \in S THEN Append(kept[n - 1], order[n]) ELSE kept[n - 1]
    IN  kept

Kept(order, S) == KeptOfEach(order, S)[Len(order)]
=============================================================================
