--------------------------- MODULE LockstepEngine ---------------------------
(***************************************************************************)
(* LockstepEngine of src/machine/plugins/input/netplay: the bounded window *)
(* that collects both peers' input packets of a frame, recognises replayed *)
(* ones, and says when a frame may be played.  An engine is a record; each *)
(* method is an operator from engines to engines.  A digest of the machine *)
(* is whatever the caller puts in a packet's "before".                     *)
(***************************************************************************)
EXTENDS Naturals

CONSTANTS
  Window,     \* frames_.size() = history_.size(): 128 in the code
  NoPacket    \* a packet that has not arrived

\* A peer may be one frame ahead of the other: a window of one frame is no window.
ASSUME WindowAssumption == Window \in Nat /\ Window >= 2

Peer == {0, 1}

EmptySlot == [number |-> 0, occupied |-> FALSE,
              packets |-> [q \in Peer |-> NoPacket]]

NewEngine(b) ==
  [binding |-> b, next |-> 0, fault |-> "None", ready |-> FALSE,
   frames  |-> [i \in 0..(Window - 1) |-> EmptySlot],
   history |-> [i \in 0..(Window - 1) |-> EmptySlot]]

Holds(slot, n) == slot.occupied /\ slot.number = n

Both(slot) == \A q \in Peer : slot.packets[q] # NoPacket

\* The first fault is the one that stays.
Fail(e, f) == IF e.fault = "None" THEN [e EXCEPT !.fault = f] ELSE e

\* The slot a packet of frame n is compared with, and what a packet leaves in it.
SlotOf(e, n) == IF n < e.next THEN e.history[n % Window] ELSE e.frames[n % Window]

\* Mutant: the slot of an older frame is renumbered and keeps its packets.
Claimed_KeepsPackets(slot, n) == [slot EXCEPT !.number = n, !.occupied = TRUE]

Claimed(slot, n) ==
  IF Holds(slot, n) THEN slot ELSE [EmptySlot EXCEPT !.number = n, !.occupied = TRUE]

Differs(slot, p) == slot.packets[p.peer] \notin {NoPacket, p}

(***************************************************************************)
(* accept.  Frames already played are only compared with the history; a    *)
(* packet that differs from the one already held is a conflict.  Packets   *)
(* out of range or outside the sender's ownership are not built here       *)
(* (localPacket and decode refuse them).                                   *)
(***************************************************************************)
Accept(e, p) ==
  LET n == p.frame
      claimed == Claimed(SlotOf(e, n), n)
  IN IF e.fault # "None" THEN e
     ELSE IF p.binding # e.binding THEN Fail(e, "BindingMismatch")
     ELSE IF n >= e.next + Window THEN Fail(e, "WindowExhausted")
     ELSE IF Differs(claimed, p) THEN Fail(e, "ConflictingInput")
     ELSE IF n < e.next THEN e
     ELSE [e EXCEPT !.frames[n % Window] = [claimed EXCEPT !.packets[p.peer] = p]]

\* The slot of the next frame, and whether both packets of that frame are here.
Current(e) == e.frames[e.next % Window]

Complete(e) == Holds(Current(e), e.next) /\ Both(Current(e))

(***************************************************************************)
(* ready: nothing until both packets are here; then both peers must have   *)
(* seen the machine state this one has.                                    *)
(***************************************************************************)
Ready(e, before) ==
  IF e.fault # "None" \/ ~Complete(e) THEN e
  ELSE IF \E q \in Peer : Current(e).packets[q].before # before
       THEN Fail(e, "FingerprintMismatch")
       ELSE [e EXCEPT !.ready = TRUE]

\* Mutant: the masks are combined with & instead of |.
ReadyInput_And(e) == Current(e).packets[0].input \cap Current(e).packets[1].input

\* The mask ready returns when it sets the flag.
ReadyInput(e) == Current(e).packets[0].input \cup Current(e).packets[1].input

\* completeFrame refuses unless ready said so and the frame is still complete.
MayComplete(e) == e.ready /\ e.fault = "None" /\ Complete(e)

CompleteFrame(e) ==
  [e EXCEPT !.history[e.next % Window] = Current(e), !.next = @ + 1, !.ready = FALSE]

=============================================================================
