------------------------ MODULE RealtimeVideoMailbox ------------------------
(***************************************************************************)
(* machine/plugins/video/RealtimeVideoMailbox.hpp: the three-slot mailbox  *)
(* between the emulation lane (publish) and the render lane                *)
(* (tryConsumeLatest).  VideoEngine's mailbox (submitPresentPacket,        *)
(* tryConsumeLatestFrame) is the same algorithm.                           *)
(*                                                                         *)
(* A frame is its publication number.  Filling a slot and moving a packet  *)
(* out of one take time, so each is two steps with the slot Torn, or in    *)
(* use, in between; the exchange on shared_ is one step.  Packet contents, *)
(* time stamps and the statistics are left out.                            *)
(***************************************************************************)
EXTENDS Integers

CONSTANT MaxFrames  \* bound: frames ever published

ASSUME MailboxAssumption == MaxFrames \in Nat

Slots   == 0 .. 2
NoFrame == 0        \* an empty or moved-from slot
Torn    == -1       \* a slot that is being written
Frames  == 1 .. MaxFrames

VARIABLES
  slots,         \* slots_
  shared,        \* shared_: [slot, dirty]
  producerSlot,  \* producerSlot_, private to the emulation lane
  consumerSlot,  \* consumerSlot_, private to the render lane
  producer,      \* where the emulation lane is in publish
  consumer,      \* where the render lane is in tryConsumeLatest
  published,     \* history: number of the last frame handed to the exchange
  consumed       \* history: what the last tryConsumeLatest returned, 0 before

vars == <<slots, shared, producerSlot, consumerSlot, producer, consumer, published, consumed>>

\* The constructor calls resetQuiescent.
Init ==
  /\ slots = [i \in Slots |-> NoFrame]
  /\ shared = [slot |-> 2, dirty |-> FALSE]
  /\ producerSlot = 0 /\ consumerSlot = 1
  /\ producer = "idle" /\ consumer = "idle"
  /\ published = 0 /\ consumed = 0

-----------------------------------------------------------------------------
(* publish *)

PublishBegin ==
  /\ producer = "idle" /\ published < MaxFrames
  /\ producer' = "writing"
  /\ slots' = [slots EXCEPT ![producerSlot] = Torn]
  /\ UNCHANGED <<shared, producerSlot, consumerSlot, consumer, published, consumed>>

PublishWritten ==
  /\ producer = "writing"
  /\ producer' = "written"
  /\ slots' = [slots EXCEPT ![producerSlot] = published + 1]
  /\ UNCHANGED <<shared, producerSlot, consumerSlot, consumer, published, consumed>>

\* Mutant: the exchanged slot index is dropped and the producer reuses its own.
PublishExchange_KeepsSlot ==
  /\ producer = "written"
  /\ producer' = "idle"
  /\ shared' = [slot |-> producerSlot, dirty |-> TRUE]
  /\ published' = published + 1
  /\ UNCHANGED <<slots, producerSlot, consumerSlot, consumer, consumed>>

\* Mutant: the slot is offered before it has been filled.
PublishExchange_Early ==
  /\ producer = "writing"
  /\ producer' = "idle"
  /\ shared' = [slot |-> producerSlot, dirty |-> TRUE]
  /\ producerSlot' = shared.slot
  /\ published' = published + 1
  /\ UNCHANGED <<slots, consumerSlot, consumer, consumed>>

\* Mutant: the slot is offered without kDirty.
PublishExchange_Clean ==
  /\ producer = "written"
  /\ producer' = "idle"
  /\ shared' = [slot |-> producerSlot, dirty |-> FALSE]
  /\ producerSlot' = shared.slot
  /\ published' = published + 1
  /\ UNCHANGED <<slots, consumerSlot, consumer, consumed>>

\* shared_.exchange(kDirty | producerSlot_): the slot it held is the next to fill.
PublishExchange ==
  /\ producer = "written"
  /\ producer' = "idle"
  /\ shared' = [slot |-> producerSlot, dirty |-> TRUE]
  /\ producerSlot' = shared.slot
  /\ published' = published + 1
  /\ UNCHANGED <<slots, consumerSlot, consumer, consumed>>

-----------------------------------------------------------------------------
(* tryConsumeLatest *)

\* shared_ is loaded; without the dirty flag the call returns nothing.
ConsumeLoad ==
  /\ consumer = "idle" /\ shared.dirty
  /\ consumer' = "loaded"
  /\ UNCHANGED <<slots, shared, producerSlot, consumerSlot, producer, published, consumed>>

\* Mutant: the slot given back still carries the dirty flag.
ConsumeExchange_StaysDirty ==
  /\ consumer = "loaded"
  /\ shared' = [slot |-> consumerSlot, dirty |-> TRUE]
  /\ consumerSlot' = shared.slot
  /\ consumer' = "taken"
  /\ UNCHANGED <<slots, producerSlot, producer, published, consumed>>

\* Mutant: the index taken is not masked, and keeps the dirty bit (0x80).
ConsumeExchange_NoMask ==
  /\ consumer = "loaded"
  /\ shared' = [slot |-> consumerSlot, dirty |-> FALSE]
  /\ consumerSlot' = shared.slot + 128
  /\ consumer' = "taken"
  /\ UNCHANGED <<slots, producerSlot, producer, published, consumed>>

\* shared_.exchange(consumerSlot_); the second look at the flag may end the call.
ConsumeExchange ==
  /\ consumer = "loaded"
  /\ shared' = [slot |-> consumerSlot, dirty |-> FALSE]
  /\ IF shared.dirty
     THEN consumerSlot' = shared.slot /\ consumer' = "taken"
     ELSE UNCHANGED consumerSlot /\ consumer' = "idle"
  /\ UNCHANGED <<slots, producerSlot, producer, published, consumed>>

\* The packet is moved out of the slot the lane now owns.
ConsumeMove ==
  /\ consumer = "taken"
  /\ consumed' = slots[consumerSlot]
  /\ slots' = [slots EXCEPT ![consumerSlot] = NoFrame]
  /\ consumer' = "idle"
  /\ UNCHANGED <<shared, producerSlot, consumerSlot, producer, published>>

-----------------------------------------------------------------------------
Produce == PublishBegin \/ PublishWritten \/ PublishExchange
Consume == ConsumeLoad \/ ConsumeExchange \/ ConsumeMove

Next == Produce \/ Consume

Spec == Init /\ [][Next]_vars

(* Both lanes keep running: the emulation lane finishes a publication it   *)
(* began, the render lane polls the mailbox from its service loop.         *)
Fairness == WF_vars(PublishWritten \/ PublishExchange) /\ WF_vars(Consume)

FairSpec == Spec /\ Fairness

-----------------------------------------------------------------------------
(* Properties *)

\* Every variable keeps its range.
TypeOK ==
  /\ slots \in [Slots -> Frames \cup {NoFrame, Torn}]
  /\ shared \in [slot : Slots, dirty : BOOLEAN]
  /\ producerSlot \in Slots /\ consumerSlot \in Slots
  /\ producer \in {"idle", "writing", "written"}
  /\ consumer \in {"idle", "loaded", "taken"}
  /\ published \in 0 .. MaxFrames
  /\ consumed \in Frames \cup {NoFrame, Torn}

\* The three slots are always shared out: one with each lane and one between
\* them, whatever exchanges of the two lanes interleave.
SlotsDisjoint ==
  /\ producerSlot # consumerSlot
  /\ producerSlot # shared.slot
  /\ consumerSlot # shared.slot

\* The render lane never gets a packet the emulation lane is still writing, nor
\* one that was already moved out.
NoTornFrame == consumer = "taken" => slots[consumerSlot] \in Frames

\* A frame the render lane gets is newer than the one it got before.
NeverBackwards == [][consumed' # consumed => consumed' > consumed]_vars

\* Every published frame, or a newer one, reaches the render lane.
FrameArrives == \A f \in Frames : published = f ~> consumed >= f

\* The inductive invariant behind the properties above: what the slot of each lane
\* and the shared slot hold, and how their frames are ordered.
MailboxInv ==
  /\ TypeOK
  /\ SlotsDisjoint
  /\ producer # "idle" => published < MaxFrames
  /\ producer = "written" => slots[producerSlot] = published + 1
  /\ consumer = "loaded" => shared.dirty
  /\ shared.dirty => slots[shared.slot] = published /\ published > consumed
  /\ consumer = "taken" => /\ slots[consumerSlot] > consumed
                           /\ slots[consumerSlot] <= published
                           /\ shared.dirty => slots[consumerSlot] < published
  /\ consumed >= 0 /\ consumed <= published

\* The frame a take would return; the frame the render lane took last, also while
\* it is still moving it out.
LatestFrame == IF shared.dirty THEN slots[shared.slot] ELSE NoFrame
TakenFrame  == IF consumer = "taken" THEN slots[consumerSlot] ELSE consumed

Register == INSTANCE LatestValue
              WITH latest <- LatestFrame, taken <- TakenFrame, NoFrame <- NoFrame

\* The mailbox implements the latest-value register: publications and takes appear
\* to happen at their exchanges.
ImplementsRegister == Register!Spec
=============================================================================
