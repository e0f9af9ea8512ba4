---------------------------- MODULE NetplayProofs ----------------------------
(***************************************************************************)
(* Proofs about Netplay: two peers play one game, no datagram that is lost,*)
(* repeated or overtaken ends it, and who reports that it passed has a peer*)
(* that played it, for any window and queues of two packets or more, any   *)
(* number of frames, any masks and any bindings.                           *)
(***************************************************************************)
EXTENDS Netplay, SequenceTheorems, TLAPS

\* The packets in a cache, and those in a queue.
Held(c) == {c[i] : i \in Slots} \ {NoPacket}
Queued(s) == {s[i] : i \in 1 .. Len(s)}

\* How many of its packets peer q has handed to its worker's socket.
Left(q) == Len(entered[q]) - Len(outgoing[q])

\* The machine after n frames of the one game, and the packet of frame n of peer q.
PlayedUpTo(n) == [i \in 1 .. n |-> entered[0][i] \cup entered[1][i]]
PacketOf(q, n) ==
  [binding |-> engine[q].binding, frame |-> n, before |-> PlayedUpTo(n),
   input |-> entered[q][n + 1], peer |-> q]

\* k is a packet peer q has made; it has left the machine lane of q.
Made(q, k) == k.frame \in 0 .. Len(entered[q]) - 1 /\ k = PacketOf(q, k.frame)
Gone(q, k) == k.frame \in 0 .. Left(q) - 1 /\ k = PacketOf(q, k.frame)

\* The worker of p has received the other peer's packet of frame n, or a later one.
SeenFrame(p, n) ==
  /\ receivedCache[p][n % Window] # NoPacket
  /\ n <= receivedCache[p][n % Window].frame

Fields == {"binding", "next", "fault", "ready", "frames", "history"}
SlotShape(slot) ==
  {"number", "occupied", "packets"} \subseteq DOMAIN slot /\ DOMAIN slot.packets = Peer
EngineShape(e) ==
  /\ Fields \subseteq DOMAIN e
  /\ DOMAIN e.frames = Slots /\ DOMAIN e.history = Slots
  /\ \A i \in Slots : SlotShape(e.frames[i]) /\ SlotShape(e.history[i])
SlotsOf(e) == {e.frames[i] : i \in Slots} \cup {e.history[i] : i \in Slots}

Domains ==
  /\ DOMAIN pc = Peer /\ DOMAIN engine = Peer /\ DOMAIN machine = Peer
  /\ DOMAIN pad = Peer /\ DOMAIN entered = Peer /\ DOMAIN incoming = Peer
  /\ DOMAIN outgoing = Peer /\ DOMAIN failure = Peer /\ DOMAIN published = Peer
  /\ DOMAIN worker = Peer /\ DOMAIN cache = Peer /\ DOMAIN receivedCache = Peer
  /\ DOMAIN network = Peer

EngineRight(p) == EngineShape(engine[p]) /\ engine[p].binding \in Bindings

Sequences(p) ==
  /\ machine[p] \in Seq(Masks) /\ entered[p] \in Seq(Inputs[p])
  /\ incoming[p] \in Seq(Packets) /\ outgoing[p] \in Seq(Packets)
  /\ DOMAIN cache[p] = Slots /\ DOMAIN receivedCache[p] = Slots

\* A peer enters the mask of a frame after playing the frame before it.
FrameCounts(p) ==
  /\ engine[p].next = Len(machine[p]) /\ Len(machine[p]) <= Frames
  /\ Len(machine[p]) <= Len(entered[p]) /\ Len(entered[p]) <= Len(machine[p]) + 1
  /\ pc[p] = "submit" => Len(entered[p]) = Len(machine[p])
  /\ pc[p] \in {"run", "ack"} => Len(entered[p]) = Len(machine[p]) + 1
  /\ pc[p] = "run" => Len(machine[p]) < Frames
  /\ pc[p] = "ack" => Len(machine[p]) = Frames
  /\ Live(p) => worker[p] = "running"

\* It plays a frame after the other's packet of it has left the other's lane.
Played(p) ==
  /\ Len(machine[p]) <= Left(Other(p))
  /\ machine[p] = PlayedUpTo(Len(machine[p]))

PadRight(p) ==
  pad[p] # NoInput =>
    /\ \A q \in Peer : Len(machine[p]) < Len(entered[q])
    /\ pad[p] = entered[0][Len(machine[p]) + 1] \cup entered[1][Len(machine[p]) + 1]

\* The packets on their way are those their sender made, one for a frame.
ToSend(p) ==
  /\ Len(outgoing[p]) <= Len(entered[p])
  /\ \A i \in 1 .. Len(outgoing[p]) : outgoing[p][i] = PacketOf(p, Left(p) + i - 1)
OnTheWay(p) ==
  /\ \A k \in Held(cache[p]) : Gone(p, k)
  /\ \A k \in network[p] \cup Held(receivedCache[p]) \cup Queued(incoming[p]) :
       Gone(Other(p), k)

\* What an engine holds of the other peer has gone through the cache of the receiver.
SlotRight(p, slot) ==
  \A r \in Peer : slot.packets[r] # NoPacket =>
    /\ slot.packets[r].frame = slot.number
    /\ Made(r, slot.packets[r])
    /\ r # p => /\ Gone(r, slot.packets[r])
                /\ worker[p] = "running" => SeenFrame(p, slot.number)
SlotsRight(p) == \A slot \in SlotsOf(engine[p]) : SlotRight(p, slot)

\* Frames already played are not received again; what waits is not twice there.
Arrived(p) ==
  /\ worker[p] = "running" => \A n \in 0 .. Len(machine[p]) - 1 : SeenFrame(p, n)
  /\ \A k \in Queued(incoming[p]) :
       Len(machine[p]) <= k.frame /\ receivedCache[p][k.frame % Window] = k
  /\ \A i, j \in 1 .. Len(incoming[p]) :
       incoming[p][i].frame = incoming[p][j].frame => i = j

FaultsRight(p) ==
  /\ failure[p] \in {"None", "Disconnected"}
  /\ \/ engine[p].fault \in Outside
     \/ engine[p].fault = "BindingMismatch" /\ engine[0].binding # engine[1].binding

PeerPlayed(p) ==
  pc[p] = "done" => Len(machine[p]) = Frames /\ Len(machine[Other(p)]) = Frames

PeerInv(p) ==
  /\ EngineRight(p) /\ Sequences(p) /\ FrameCounts(p) /\ Played(p) /\ PadRight(p)
  /\ ToSend(p) /\ OnTheWay(p) /\ SlotsRight(p) /\ Arrived(p) /\ FaultsRight(p)
  /\ PeerPlayed(p)

\* The inductive invariant.
NetInv == Domains /\ \A p \in Peer : PeerInv(p)
-----------------------------------------------------------------------------
(* Peers, slots and sequences.                                              *)

\* Each peer has one other.
LEMMA Others ==
  ASSUME NEW p \in Peer
  PROVE  /\ Other(p) \in Peer /\ Other(p) # p /\ Other(Other(p)) = p
         /\ \A q \in Peer : q = p \/ q = Other(p)
BY DEF Peer, Other

\* A frame has a slot of the window.
LEMMA SlotIndex ==
  ASSUME NEW n \in Nat
  PROVE  n % Window \in Slots /\ n = (Window * (n \div Window)) + (n % Window)
         /\ n \div Window \in Nat
BY WindowAssumption DEF Slots

\* No multiple of the window is one more than another.
LEMMA MultiplesApart ==
  ASSUME NEW c \in Int, NEW d \in Int, Window * c = Window * d + 1
  PROVE  FALSE
<1>1. CASE c <= d
  <2>1. Window * c <= Window * d
    BY <1>1, WindowAssumption
  <2> QED BY <2>1, WindowAssumption
<1>2. CASE c >= d + 1
  <2>1. Window * c >= Window * (d + 1)
    BY <1>2, WindowAssumption
  <2>2. Window * (d + 1) = Window * d + Window
    BY WindowAssumption
  <2> QED BY <2>1, <2>2, WindowAssumption
<1> QED BY <1>1, <1>2

\* Two frames that follow each other have different slots.
LEMMA SlotsApart ==
  ASSUME NEW n \in Nat
  PROVE  (n + 1) % Window # n % Window
<1> DEFINE a == Window * ((n + 1) \div Window)
           b == Window * (n \div Window)
           m == n % Window
<1>1. m \in Nat /\ a \in Int /\ b \in Int
  BY SlotIndex, WindowAssumption
<1>2. n + 1 = a + ((n + 1) % Window) /\ n = b + m
  BY SlotIndex
<1> SUFFICES ASSUME (n + 1) % Window = m PROVE FALSE
  OBVIOUS
<1>3. n + 1 = a + m
  BY <1>2
<1>4. a = b + 1
  <2> HIDE DEF a, b, m
  <2> QED BY <1>1, <1>2, <1>3
<1>5. (n + 1) \div Window \in Int /\ n \div Window \in Int
  BY SlotIndex
<1> QED BY <1>4, <1>5, MultiplesApart

\* Appending to a sequence.
LEMMA Appended ==
  ASSUME NEW S, NEW s \in Seq(S), NEW x \in S
  PROVE  /\ Append(s, x) \in Seq(S) /\ Len(s) \in Nat /\ Len(Append(s, x)) = Len(s) + 1
         /\ \A i \in 1 .. Len(s) : Append(s, x)[i] = s[i]
         /\ Append(s, x)[Len(s) + 1] = x
         /\ Queued(Append(s, x)) = Queued(s) \cup {x}
<1>1. /\ Append(s, x) \in Seq(S) /\ Len(s) \in Nat /\ Len(Append(s, x)) = Len(s) + 1
      /\ \A i \in 1 .. Len(s) : Append(s, x)[i] = s[i]
      /\ Append(s, x)[Len(s) + 1] = x
  BY AppendProperties, LenProperties
<1>2. \A i : i \in 1 .. Len(s) + 1 <=> i \in 1 .. Len(s) \/ i = Len(s) + 1
  BY <1>1
<1> QED BY <1>1, <1>2 DEF Queued

\* Taking the first element of a sequence.
LEMMA HeadAndTail ==
  ASSUME NEW S, NEW s \in Seq(S), s # <<>>
  PROVE  /\ Len(s) \in Nat \ {0} /\ Head(s) = s[1] /\ Head(s) \in S /\ Head(s) \in Queued(s)
         /\ Tail(s) \in Seq(S) /\ Len(Tail(s)) = Len(s) - 1
         /\ \A i \in 1 .. Len(Tail(s)) : i + 1 \in 1 .. Len(s) /\ Tail(s)[i] = s[i + 1]
         /\ Queued(Tail(s)) \subseteq Queued(s)
<1>1. Len(s) \in Nat
  BY LenProperties
<1>2. Len(s) \in Nat \ {0} /\ 1 \in 1 .. Len(s)
  BY <1>1, EmptySeq
<1>3. Head(s) = s[1]
  BY HeadTailProperties
<1>4. /\ Tail(s) \in Seq(S) /\ Len(Tail(s)) = Len(s) - 1
      /\ \A i \in 1 .. Len(Tail(s)) : Tail(s)[i] = s[i + 1]
  BY HeadTailProperties
<1>5. \A i \in 1 .. Len(Tail(s)) : i + 1 \in 1 .. Len(s)
  BY <1>2, <1>4
<1>6. s[1] \in S
  BY <1>2
<1> QED BY <1>2, <1>3, <1>4, <1>5, <1>6 DEF Queued

\* The lengths of what a peer has played, made and sent.
LEMMA Lengths ==
  ASSUME NetInv, NEW p \in Peer
  PROVE  /\ Len(machine[p]) \in Nat /\ Len(entered[p]) \in Nat /\ Len(outgoing[p]) \in Nat
         /\ Len(incoming[p]) \in Nat /\ Left(p) \in Nat /\ engine[p].next = Len(machine[p])
         /\ Left(p) <= Len(entered[p]) /\ Len(entered[p]) <= Len(machine[p]) + 1
         /\ Len(machine[p]) <= Len(entered[p])
         /\ Len(machine[p]) <= Left(Other(p)) /\ Len(machine[p]) <= Frames
         /\ Frames \in Nat
<1>1. PeerInv(p)
  BY DEF NetInv
<1>2. /\ Len(machine[p]) \in Nat /\ Len(entered[p]) \in Nat /\ Len(outgoing[p]) \in Nat
      /\ Len(incoming[p]) \in Nat
  BY <1>1, LenProperties DEF PeerInv, Sequences
<1>3. Len(outgoing[p]) <= Len(entered[p])
  BY <1>1 DEF PeerInv, ToSend
<1>4. Left(p) \in Nat /\ Left(p) <= Len(entered[p])
  <2>1. \A a, b \in Nat : b <= a => a - b \in Nat /\ a - b <= a
    OBVIOUS
  <2>2. Left(p) = Len(entered[p]) - Len(outgoing[p])
    BY DEF Left
  <2> QED BY <1>2, <1>3, <2>1, <2>2, Zenon
<1>5. Len(machine[p]) <= Left(Other(p))
  BY <1>1 DEF PeerInv, Played
<1> QED BY <1>1, <1>2, <1>4, <1>5, FramesAssumption DEF PeerInv, FrameCounts
-----------------------------------------------------------------------------
(* Packets stay what they are when the game goes on.                        *)

\* Inputs are entered, packets leave and frames are played, and none is taken back.
Grows == \A q \in Peer :
  /\ engine'[q].binding = engine[q].binding
  /\ entered'[q] \in Seq(Inputs[q])
  /\ Len(entered[q]) <= Len(entered'[q])
  /\ \A i \in 1 .. Len(entered[q]) : entered'[q][i] = entered[q][i]
  /\ Left(q) <= Left(q)'
  /\ Len(machine[q]) <= Len(machine'[q]) /\ Len(machine'[q]) <= Frames

\* The game up to frame n once both peers have entered their masks.
LEMMA SamePast ==
  ASSUME NetInv, Grows, NEW n \in Nat, n <= Len(entered[0]), n <= Len(entered[1])
  PROVE  PlayedUpTo(n)' = PlayedUpTo(n)
<1>1. Len(entered[0]) \in Nat /\ Len(entered[1]) \in Nat
  BY Lengths DEF Peer
<1>2. \A i \in 1 .. n : entered'[0][i] = entered[0][i] /\ entered'[1][i] = entered[1][i]
  BY <1>1 DEF Grows, Peer
<1> QED BY <1>2 DEF PlayedUpTo

\* A peer makes the packet of frame n after both have entered the frames before n.
LEMMA MadeInTime ==
  ASSUME NetInv, NEW q \in Peer, NEW n \in 0 .. Len(entered[q]) - 1
  PROVE  n \in Nat /\ n + 1 \in 1 .. Len(entered[q])
         /\ n <= Len(entered[0]) /\ n <= Len(entered[1])
<1>1. n <= Len(machine[q])
  BY Lengths
<1>2. Len(machine[q]) <= Len(entered[q]) /\ Len(machine[q]) <= Len(entered[Other(q)])
  BY Lengths, Others
<1>3. \A r \in Peer : n <= Len(entered[r])
  BY <1>1, <1>2, Lengths, Others
<1> QED BY <1>3, Lengths DEF Peer

LEMMA SamePacket ==
  ASSUME NetInv, Grows, NEW q \in Peer, NEW n \in 0 .. Len(entered[q]) - 1
  PROVE  PacketOf(q, n)' = PacketOf(q, n)
<1>1. PlayedUpTo(n)' = PlayedUpTo(n)
  BY MadeInTime, SamePast
<1>2. entered'[q][n + 1] = entered[q][n + 1] /\ engine'[q].binding = engine[q].binding
  BY MadeInTime DEF Grows
<1> QED BY <1>1, <1>2 DEF PacketOf

LEMMA Kept ==
  ASSUME NetInv, Grows, NEW q \in Peer, NEW k
  PROVE  (Made(q, k) => Made(q, k)') /\ (Gone(q, k) => Gone(q, k)')
<1>1. /\ Len(entered[q]) \in Nat /\ Left(q) \in Nat /\ Left(q) <= Len(entered[q])
      /\ Len(entered'[q]) \in Nat /\ Len(entered[q]) <= Len(entered'[q])
      /\ Left(q) <= Left(q)'
  BY Lengths, LenProperties DEF Grows
<1>2. ASSUME k.frame \in 0 .. Len(entered[q]) - 1, k = PacketOf(q, k.frame)
      PROVE  k.frame \in 0 .. Len(entered'[q]) - 1 /\ k = PacketOf(q, k.frame)'
  <2>1. PacketOf(q, k.frame)' = PacketOf(q, k.frame)
    BY <1>2, SamePacket
  <2> QED BY <1>1, <1>2, <2>1
<1>3. Made(q, k) => Made(q, k)'
  BY <1>2 DEF Made
<1>4. ASSUME Gone(q, k) PROVE Gone(q, k)'
  <2>1. k.frame \in 0 .. Left(q) - 1 /\ k = PacketOf(q, k.frame)
    BY <1>4 DEF Gone
  <2>2. k.frame \in 0 .. Len(entered[q]) - 1
    BY <1>1, <2>1
  <2>3. k = PacketOf(q, k.frame)'
    BY <1>2, <2>1, <2>2
  <2>4. Left(q)' \in Int
    <3>1. Left(q)' = Len(entered'[q]) - Len(outgoing'[q])
      BY DEF Left
    <3> QED BY <1>1, <3>1
  <2>5. k.frame \in 0 .. Left(q)' - 1
    BY <1>1, <2>1, <2>4
  <2> QED BY <2>3, <2>5 DEF Gone
<1> QED BY <1>3, <1>4

\* What a made packet is.
LEMMA MadePacket ==
  ASSUME NetInv, NEW q \in Peer, NEW k, Made(q, k)
  PROVE  /\ k \in Packets /\ k # NoPacket /\ k.peer = q /\ k.frame \in Nat
         /\ k.binding = engine[q].binding /\ k.frame <= Len(machine[q])
         /\ k.before = PlayedUpTo(k.frame) /\ k.input = entered[q][k.frame + 1]
<1>1. PICK n \in 0 .. Len(entered[q]) - 1 : n = k.frame /\ k = PacketOf(q, n)
  BY DEF Made
<1>2. n \in Nat /\ n + 1 \in 1 .. Len(entered[q]) /\ n <= Len(entered[0]) /\ n <= Len(entered[1])
  BY MadeInTime
<1>3. entered[0] \in Seq(Inputs[0]) /\ entered[1] \in Seq(Inputs[1])
      /\ entered[q] \in Seq(Inputs[q]) /\ engine[q].binding \in Bindings
  BY DEF NetInv, PeerInv, Sequences, EngineRight, Peer
<1>4. entered[q][n + 1] \in Inputs[0] \cup Inputs[1]
  <2>1. entered[q][n + 1] \in Inputs[q]
    BY <1>2, <1>3, ElementOfSeq
  <2> QED BY <2>1 DEF Peer
<1>5. PlayedUpTo(n) \in Seq(Masks)
  <2>1. ASSUME NEW i \in 1 .. n PROVE entered[0][i] \cup entered[1][i] \in Masks
    <3>1. entered[0][i] \in Inputs[0] /\ entered[1][i] \in Inputs[1]
      <4>1. Len(entered[0]) \in Nat /\ Len(entered[1]) \in Nat
        BY <1>3, LenProperties
      <4>2. i \in 1 .. Len(entered[0]) /\ i \in 1 .. Len(entered[1])
        BY <1>2, <4>1
      <4> QED BY <1>3, <4>2, ElementOfSeq
    <3> QED BY <3>1 DEF Masks
  <2>2. PlayedUpTo(n) \in [1 .. n -> Masks]
    BY <2>1 DEF PlayedUpTo
  <2> QED BY <1>2, <2>2, SeqDef
<1>6. k \in Packets /\ k.peer = q /\ k.binding = engine[q].binding
      /\ k.before = PlayedUpTo(n) /\ k.input = entered[q][n + 1]
  BY <1>1, <1>2, <1>3, <1>4, <1>5 DEF PacketOf, Packets
<1>7. n <= Len(machine[q])
  BY Lengths
<1> QED BY <1>1, <1>2, <1>6, <1>7, NoPacketAssumption

LEMMA GoneIsMade ==
  ASSUME NetInv, NEW q \in Peer, NEW k, Gone(q, k)
  PROVE  Made(q, k)
<1>1. Left(q) \in Nat /\ Len(entered[q]) \in Nat /\ Left(q) <= Len(entered[q])
  BY Lengths
<1>2. k.frame \in 0 .. Len(entered[q]) - 1
  BY <1>1 DEF Gone
<1> QED BY <1>2 DEF Gone, Made

\* Of a frame there is one packet of each peer.
LEMMA OnePacket ==
  ASSUME NEW q \in Peer, NEW j, NEW k, Made(q, j), Made(q, k), j.frame = k.frame
  PROVE  j = k
BY DEF Made
-----------------------------------------------------------------------------
(* What a peer keeps while it neither enters nor plays.                     *)

LEMMA GrownLengths ==
  ASSUME NetInv, Grows, NEW q \in Peer
  PROVE  /\ Len(entered'[q]) \in Nat /\ Left(q)' \in Int /\ Left(q) \in Nat
         /\ Left(q) <= Left(q)' /\ Len(entered[q]) <= Len(entered'[q])
<1>1. Len(entered'[q]) \in Nat
  BY LenProperties DEF Grows
<1>2. Left(q)' = Len(entered'[q]) - Len(outgoing'[q])
  BY DEF Left
<1>3. Left(q) \in Nat /\ Len(entered[q]) \in Nat
  BY Lengths
<1>4. Left(q) <= Left(q)' /\ Len(entered[q]) <= Len(entered'[q])
  BY DEF Grows
<1>5. Left(q)' \in Int
  BY <1>1, <1>2
<1> QED BY <1>1, <1>3, <1>4, <1>5

LEMMA QuietGame ==
  ASSUME NetInv, Grows, NEW r \in Peer, machine'[r] = machine[r]
  PROVE  Played(r)'
<1>1. Len(machine[r]) \in Nat /\ Len(machine[r]) <= Left(Other(r)) /\ Other(r) \in Peer
      /\ Left(r) <= Len(entered[r]) /\ Len(machine[r]) <= Len(entered[r])
      /\ Left(Other(r)) <= Len(entered[Other(r)]) /\ Len(entered[Other(r)]) \in Nat
      /\ Left(Other(r)) \in Nat
  BY Lengths, Others
<1>2. \A q \in Peer : Len(machine[r]) <= Len(entered[q])
  BY <1>1, Others
<1>3. PICK n \in Nat : n = Len(machine[r])
  BY <1>1
<1>4. PlayedUpTo(n)' = PlayedUpTo(n)
  BY <1>2, <1>3, SamePast DEF Peer
<1>5. machine[r] = PlayedUpTo(n)
  BY <1>3 DEF NetInv, PeerInv, Played
<1>6. Len(machine'[r]) <= Left(Other(r))'
  BY <1>1, GrownLengths
<1>7. (machine[r] = PlayedUpTo(Len(machine[r])))'
  BY <1>3, <1>4, <1>5 DEF PlayedUpTo
<1> QED BY <1>6, <1>7 DEF Played

LEMMA QuietPad ==
  ASSUME NetInv, Grows, NEW r \in Peer, machine'[r] = machine[r],
         pad'[r] = pad[r] \/ pad'[r] = NoInput
  PROVE  PadRight(r)'
<1> SUFFICES ASSUME pad'[r] # NoInput PROVE PadRight(r)'
  BY DEF PadRight
<1>1. pad'[r] = pad[r] /\ pad[r] # NoInput
  OBVIOUS
<1>2. PICK n \in Nat : n = Len(machine[r])
  BY Lengths
<1>3. /\ \A q \in Peer : n < Len(entered[q])
      /\ pad[r] = entered[0][n + 1] \cup entered[1][n + 1]
  BY <1>1, <1>2 DEF NetInv, PeerInv, PadRight
<1>4. \A q \in Peer : n < Len(entered'[q]) /\ entered'[q][n + 1] = entered[q][n + 1]
  <2> SUFFICES ASSUME NEW q \in Peer
               PROVE  n < Len(entered'[q]) /\ entered'[q][n + 1] = entered[q][n + 1]
    OBVIOUS
  <2>1. Len(entered[q]) \in Nat /\ Len(entered'[q]) \in Nat
        /\ Len(entered[q]) <= Len(entered'[q]) /\ n < Len(entered[q])
    BY <1>3, Lengths, GrownLengths
  <2>2. n + 1 \in 1 .. Len(entered[q])
    BY <2>1
  <2> QED BY <2>1, <2>2 DEF Grows
<1> QED BY <1>1, <1>2, <1>3, <1>4 DEF PadRight, Peer

LEMMA QuietQueues ==
  ASSUME NetInv, Grows, NEW r \in Peer, entered'[r] = entered[r],
         outgoing'[r] = outgoing[r] \/ outgoing'[r] = <<>>
  PROVE  ToSend(r)'
<1>0. Len(<<>>) = 0
  BY EmptySeq
<1>1. CASE outgoing'[r] = <<>>
  <2>1. Len(outgoing'[r]) <= Len(entered'[r])
    BY <1>0, <1>1, GrownLengths
  <2>2. 1 .. Len(outgoing'[r]) = {}
    BY <1>0, <1>1
  <2> QED BY <2>1, <2>2 DEF ToSend
<1>2. CASE outgoing'[r] = outgoing[r]
  <2>1. PICK l \in Nat : l = Left(r)
    BY Lengths
  <2>2. Left(r)' = l
    BY <1>2, <2>1 DEF Left
  <2>3. /\ Len(outgoing[r]) <= Len(entered[r])
        /\ \A i \in 1 .. Len(outgoing[r]) : outgoing[r][i] = PacketOf(r, l + i - 1)
    BY <2>1 DEF NetInv, PeerInv, ToSend
  <2>4. ASSUME NEW i \in 1 .. Len(outgoing[r])
        PROVE  outgoing'[r][i] = PacketOf(r, l + i - 1)'
    <3>1. l + i - 1 \in 0 .. Len(entered[r]) - 1
      <4> DEFINE a == Len(entered[r])
                 b == Len(outgoing[r])
      <4>1. a \in Nat /\ b \in Nat /\ l = a - b /\ i \in 1 .. b
        BY <2>1, Lengths DEF Left
      <4> HIDE DEF a, b
      <4>2. l + i - 1 \in 0 .. a - 1
        BY <4>1
      <4> QED BY <4>2 DEF a
    <3>2. PICK n \in 0 .. Len(entered[r]) - 1 : n = l + i - 1
      BY <3>1
    <3>3. PacketOf(r, n)' = PacketOf(r, n)
      BY SamePacket
    <3>4. outgoing[r][i] = PacketOf(r, n)
      BY <2>3, <3>2
    <3> QED BY <1>2, <3>2, <3>3, <3>4
  <2> QED BY <1>2, <2>2, <2>3, <2>4 DEF ToSend
<1> QED BY <1>1, <1>2

\* No packet is held by an empty cache, and none waits in an empty queue.
LEMMA NothingHeld ==
  Held(NoPackets) = {} /\ Queued(<<>>) = {} /\ Len(<<>>) = 0
BY EmptySeq DEF Held, Queued, NoPackets

LEMMA QuietPackets ==
  ASSUME NetInv, Grows, NEW r \in Peer,
         \A k \in Held(cache'[r]) : k \in Held(cache[r]) \/ Gone(r, k)',
         \A k \in network'[r] : k \in network[r] \/ Gone(Other(r), k)',
         \A k \in Held(receivedCache'[r]) :
            k \in Held(receivedCache[r]) \cup network[r] \/ Gone(Other(r), k)',
         \A k \in Queued(incoming'[r]) :
            k \in Queued(incoming[r]) \cup network[r] \/ Gone(Other(r), k)'
  PROVE  OnTheWay(r)'
<1>1. Other(r) \in Peer
  BY Others
<1>2. \A k : (Gone(r, k) => Gone(r, k)') /\ (Gone(Other(r), k) => Gone(Other(r), k)')
  BY <1>1, Kept
<1>3. OnTheWay(r)
  BY DEF NetInv, PeerInv
<1>4. \A k \in Held(cache'[r]) : Gone(r, k)'
  BY <1>2, <1>3 DEF OnTheWay
<1>5. \A k \in network'[r] \cup Held(receivedCache'[r]) \cup Queued(incoming'[r]) :
        Gone(Other(r), k)'
  BY <1>2, <1>3 DEF OnTheWay
<1>6. Held(cache[r])' = Held(cache'[r]) /\ Held(receivedCache[r])' = Held(receivedCache'[r])
      /\ Queued(incoming[r])' = Queued(incoming'[r])
  BY DEF Held, Queued
<1> QED BY <1>4, <1>5, <1>6 DEF OnTheWay

\* A slot stays right while its receiver forgets no frame.
LEMMA SlotKept ==
  ASSUME NetInv, Grows, NEW r \in Peer, NEW slot, SlotRight(r, slot),
         worker'[r] = "running" => worker[r] = "running",
         \A n \in Nat : worker'[r] = "running" /\ SeenFrame(r, n) => SeenFrame(r, n)'
  PROVE  SlotRight(r, slot)'
<1> SUFFICES ASSUME NEW q \in Peer, slot.packets[q] # NoPacket
             PROVE  /\ slot.packets[q].frame = slot.number
                    /\ Made(q, slot.packets[q])'
                    /\ q # r => /\ Gone(q, slot.packets[q])'
                                /\ worker'[r] = "running" => SeenFrame(r, slot.number)'
  BY DEF SlotRight
<1>1. PICK k, n : k = slot.packets[q] /\ n = slot.number
  OBVIOUS
<1>2. k.frame = n /\ Made(q, k) /\ (q # r => Gone(q, k) /\ (worker[r] = "running" => SeenFrame(r, n)))
  BY <1>1 DEF SlotRight
<1>3. Made(q, k)' /\ (q # r => Gone(q, k)')
  BY <1>2, Kept
<1>4. n \in Nat
  BY <1>2, MadePacket
<1>5. q # r /\ worker'[r] = "running" => SeenFrame(r, n)'
  BY <1>2, <1>4
<1> QED BY <1>1, <1>2, <1>3, <1>5

LEMMA QuietSlots ==
  ASSUME NetInv, Grows, NEW r \in Peer,
         \A slot \in SlotsOf(engine'[r]) :
            slot \in SlotsOf(engine[r]) \/ SlotRight(r, slot)',
         worker'[r] = "running" => worker[r] = "running",
         \A n \in Nat : worker'[r] = "running" /\ SeenFrame(r, n) => SeenFrame(r, n)'
  PROVE  SlotsRight(r)'
<1>1. ASSUME NEW slot \in SlotsOf(engine'[r]) PROVE SlotRight(r, slot)'
  <2>1. CASE slot \in SlotsOf(engine[r])
    <3>1. SlotRight(r, slot)
      BY <2>1 DEF NetInv, PeerInv, SlotsRight
    <3> QED BY <3>1, SlotKept
  <2> QED BY <2>1
<1>2. SlotsOf(engine[r])' = SlotsOf(engine'[r])
  BY DEF SlotsOf
<1> QED BY <1>1, <1>2 DEF SlotsRight

\* The transport of r does nothing, or ends.
SameTransport(r) ==
  /\ incoming'[r] = incoming[r] /\ outgoing'[r] = outgoing[r] /\ cache'[r] = cache[r]
  /\ receivedCache'[r] = receivedCache[r] /\ worker'[r] = worker[r]
EndedTransport(r) ==
  /\ incoming'[r] = <<>> /\ outgoing'[r] = <<>> /\ cache'[r] = NoPackets
  /\ receivedCache'[r] = NoPackets /\ worker'[r] = "stopped"
\* What comes to r has left the other peer.
OnlyGone(r) == \A k \in network'[r] : k \in network[r] \/ Gone(Other(r), k)'

LEMMA QuietArrived ==
  ASSUME NetInv, NEW r \in Peer, machine'[r] = machine[r],
         SameTransport(r) \/ EndedTransport(r)
  PROVE  Arrived(r)'
<1>1. CASE EndedTransport(r)
  <2>1. Queued(incoming[r])' = {} /\ (1 .. Len(incoming[r]))' = {} /\ ~(worker'[r] = "running")
    BY <1>1, NothingHeld DEF EndedTransport, Queued
  <2> QED BY <2>1 DEF Arrived
<1>2. CASE SameTransport(r)
  <2>1. Arrived(r)
    BY DEF NetInv, PeerInv
  <2>2. /\ incoming'[r] = incoming[r] /\ worker'[r] = worker[r]
        /\ receivedCache'[r] = receivedCache[r]
    BY <1>2 DEF SameTransport
  <2> QED BY <2>1, <2>2 DEF Arrived, Queued, SeenFrame
<1> QED BY <1>1, <1>2

\* Only the pad, the fault and the place in main change, or the transport ends.
LEMMA QuietPeer ==
  ASSUME NetInv, Grows, NEW r \in Peer,
         machine'[r] = machine[r], entered'[r] = entered[r],
         EngineShape(engine'[r]), engine'[r].next = engine[r].next,
         engine'[r].frames = engine[r].frames, engine'[r].history = engine[r].history,
         SameTransport(r) \/ EndedTransport(r), OnlyGone(r),
         PadRight(r)', FrameCounts(r)', FaultsRight(r)', PeerPlayed(r)'
  PROVE  PeerInv(r)'
<1>0. PeerInv(r)
  BY DEF NetInv
<1>1. EngineRight(r)'
  BY <1>0 DEF EngineRight, PeerInv, Grows, Bindings, EngineShape, SlotShape
<1>2. Sequences(r)'
  <2>1. /\ incoming'[r] \in {incoming[r], <<>>} /\ outgoing'[r] \in {outgoing[r], <<>>}
        /\ cache'[r] \in {cache[r], NoPackets} /\ receivedCache'[r] \in {receivedCache[r], NoPackets}
    BY DEF SameTransport, EndedTransport
  <2>2. <<>> \in Seq(Packets) /\ DOMAIN NoPackets = Slots
    BY EmptySeq DEF NoPackets
  <2>3. Sequences(r) /\ Packets' = Packets /\ Masks' = Masks
    BY <1>0 DEF PeerInv, Packets, Masks
  <2> QED BY <2>1, <2>2, <2>3 DEF Sequences
<1>3. Played(r)'
  BY QuietGame
<1>4. ToSend(r)'
  BY QuietQueues DEF SameTransport, EndedTransport
<1>5. OnTheWay(r)'
  <2>1. /\ \A k \in Held(cache'[r]) : k \in Held(cache[r])
        /\ \A k \in Held(receivedCache'[r]) : k \in Held(receivedCache[r])
        /\ \A k \in Queued(incoming'[r]) : k \in Queued(incoming[r])
    BY NothingHeld DEF SameTransport, EndedTransport
  <2> QED BY <2>1, QuietPackets DEF OnlyGone
<1>6. SlotsRight(r)'
  <2>1. SlotsOf(engine'[r]) = SlotsOf(engine[r])
    BY DEF SlotsOf
  <2>2. CASE EndedTransport(r)
    <3>1. worker'[r] # "running"
      BY <2>2 DEF EndedTransport
    <3> QED BY <2>1, <3>1, QuietSlots
  <2>3. CASE SameTransport(r)
    <3>1. /\ worker'[r] = worker[r]
          /\ \A n \in Nat : SeenFrame(r, n) => SeenFrame(r, n)'
      BY <2>3 DEF SameTransport, SeenFrame
    <3> QED BY <2>1, <3>1, QuietSlots
  <2> QED BY <2>2, <2>3
<1>7. Arrived(r)'
  BY QuietArrived
<1> QED BY <1>1, <1>2, <1>3, <1>4, <1>5, <1>6, <1>7 DEF PeerInv

\* Nothing of peer r changes but what the network brings it.
SamePeer(r) ==
  /\ pc'[r] = pc[r] /\ engine'[r] = engine[r] /\ machine'[r] = machine[r]
  /\ pad'[r] = pad[r] /\ entered'[r] = entered[r] /\ failure'[r] = failure[r]
  /\ SameTransport(r) /\ OnlyGone(r)

LEMMA QuietOther ==
  ASSUME NetInv, Grows, NEW r \in Peer, SamePeer(r)
  PROVE  PeerInv(r)'
<1>0. PeerInv(r) /\ PeerInv(Other(r)) /\ Other(r) \in Peer
  BY Others DEF NetInv
<1>1. EngineShape(engine'[r])
  BY <1>0 DEF SamePeer, PeerInv, EngineRight
<1>2. FrameCounts(r)'
  BY <1>0 DEF SamePeer, SameTransport, PeerInv, FrameCounts, Live
<1>3. PadRight(r)'
  BY QuietPad DEF SamePeer
<1>4. FaultsRight(r)'
  <2>1. engine'[0].binding = engine[0].binding /\ engine'[1].binding = engine[1].binding
    BY DEF Grows, Peer
  <2> QED BY <1>0, <2>1 DEF SamePeer, PeerInv, FaultsRight
<1>5. PeerPlayed(r)'
  <2>1. /\ Len(machine[Other(r)]) <= Len(machine'[Other(r)])
        /\ Len(machine'[Other(r)]) <= Frames /\ Frames \in Nat
        /\ Len(machine[Other(r)]) \in Nat
    BY <1>0, Lengths DEF Grows
  <2>2. pc[r] = "done" => Len(machine'[Other(r)]) = Frames
    BY <1>0, <2>1 DEF PeerInv, PeerPlayed
  <2> QED BY <1>0, <2>2 DEF SamePeer, PeerInv, PeerPlayed
<1> QED BY <1>1, <1>2, <1>3, <1>4, <1>5, QuietPeer DEF SamePeer
-----------------------------------------------------------------------------
(* The steps in which nobody enters or plays a frame.                       *)

\* What a fault leaves alone.
SameButFault(e, d) ==
  /\ EngineShape(d) /\ d.binding = e.binding /\ d.next = e.next
  /\ d.frames = e.frames /\ d.history = e.history

LEMMA FailKeeps ==
  ASSUME NEW e, EngineShape(e), NEW f
  PROVE  /\ SameButFault(e, Fail(e, f)) /\ Fail(e, f).ready = e.ready
         /\ Fail(e, f).fault \in {e.fault, f}
BY DEF EngineShape, SameButFault, Fail, Fields, SlotShape

\* A frame both peers have sent their packet of is played with the same machine.
LEMMA CurrentPackets ==
  ASSUME NetInv, NEW p \in Peer, Complete(engine[p]), NEW n \in Nat, n = Len(machine[p])
  PROVE  /\ \A q \in Peer : Current(engine[p]).packets[q] = PacketOf(q, n) /\ n < Len(entered[q])
         /\ n < Left(Other(p))
         /\ worker[p] = "running" => SeenFrame(p, n)
         /\ Current(engine[p]) \in SlotsOf(engine[p])
         /\ Current(engine[p]).number = n
         /\ Ready(engine[p], machine[p]) = IF engine[p].fault # "None" THEN engine[p]
                                           ELSE [engine[p] EXCEPT !.ready = TRUE]
         /\ ReadyInput(engine[p]) = entered[0][n + 1] \cup entered[1][n + 1]
<1> DEFINE slot == Current(engine[p])
<1>1. engine[p].next = n /\ n % Window \in Slots /\ Other(p) \in Peer /\ Other(p) # p
  BY Lengths, SlotIndex, Others
<1>2. slot = engine[p].frames[n % Window] /\ slot \in SlotsOf(engine[p])
  BY <1>1 DEF Current, SlotsOf
<1>3. slot.number = n /\ \A q \in Peer : slot.packets[q] # NoPacket
  BY <1>1 DEF Complete, Holds, Both
<1>4. SlotRight(p, slot)
  BY <1>2 DEF NetInv, PeerInv, SlotsRight
<1>5. ASSUME NEW q \in Peer
      PROVE  slot.packets[q].frame = n /\ Made(q, slot.packets[q])
             /\ slot.packets[q] = PacketOf(q, n) /\ n < Len(entered[q])
  <2>1. slot.packets[q].frame = n /\ Made(q, slot.packets[q])
    BY <1>3, <1>4 DEF SlotRight
  <2>2. slot.packets[q] = PacketOf(q, n) /\ n \in 0 .. Len(entered[q]) - 1
    BY <2>1 DEF Made
  <2>3. n < Len(entered[q])
    BY <2>2, Lengths
  <2> QED BY <2>1, <2>2, <2>3
<1>6. n < Left(Other(p)) /\ (worker[p] = "running" => SeenFrame(p, n))
  <2>1. Gone(Other(p), slot.packets[Other(p)]) /\ (worker[p] = "running" => SeenFrame(p, n))
    BY <1>1, <1>3, <1>4 DEF SlotRight
  <2>2. n \in 0 .. Left(Other(p)) - 1
    BY <1>1, <1>5, <2>1 DEF Gone
  <2> QED BY <1>1, <2>1, <2>2, Lengths
<1>7. machine[p] = PlayedUpTo(n)
  BY DEF NetInv, PeerInv, Played
<1>8. \A q \in Peer : slot.packets[q].before = machine[p]
  <2>1. \A q \in Peer : PacketOf(q, n).before = PlayedUpTo(n)
    BY DEF PacketOf
  <2> HIDE DEF slot
  <2> QED BY <1>5, <1>7, <2>1
<1>9. Ready(engine[p], machine[p]) = IF engine[p].fault # "None" THEN engine[p]
                                     ELSE [engine[p] EXCEPT !.ready = TRUE]
  BY <1>8 DEF Ready
<1>10. ReadyInput(engine[p]) = entered[0][n + 1] \cup entered[1][n + 1]
  BY <1>5 DEF ReadyInput, PacketOf, Peer
<1> QED BY <1>2, <1>3, <1>5, <1>6, <1>9, <1>10

LEMMA QuietGrows ==
  ASSUME NetInv, entered' = entered, machine' = machine,
         \A q \in Peer : /\ engine'[q].binding = engine[q].binding
                         /\ Len(outgoing'[q]) \in Nat /\ Len(outgoing'[q]) <= Len(outgoing[q])
  PROVE  Grows
<1> SUFFICES ASSUME NEW q \in Peer
             PROVE  /\ entered'[q] \in Seq(Inputs[q])
                    /\ Len(entered[q]) <= Len(entered'[q])
                    /\ Left(q) <= Left(q)'
                    /\ Len(machine[q]) <= Len(machine'[q]) /\ Len(machine'[q]) <= Frames
  BY DEF Grows
<1>1. entered[q] \in Seq(Inputs[q])
  BY DEF NetInv, PeerInv, Sequences
<1>2. Len(entered[q]) \in Nat /\ Len(machine[q]) \in Nat /\ Len(machine[q]) <= Frames
      /\ Len(outgoing[q]) \in Nat
  BY Lengths
<1>3. Left(q) <= Left(q)'
  <2>1. \A a, b, c \in Nat : c <= b => a - b <= a - c
    OBVIOUS
  <2>2. Left(q) = Len(entered[q]) - Len(outgoing[q])
        /\ Left(q)' = Len(entered[q]) - Len(outgoing'[q])
    BY DEF Left
  <2> QED BY <1>2, <2>1, <2>2, Zenon
<1> QED BY <1>1, <1>2, <1>3

\* A step of peer p in which nobody enters or plays.
LEMMA QuietStep ==
  ASSUME NetInv, Domains', NEW p \in Peer, entered' = entered, machine' = machine,
         SamePeer(Other(p)), SameButFault(engine[p], engine'[p]),
         SameTransport(p) \/ EndedTransport(p), OnlyGone(p),
         pad'[p] = pad[p] \/ PadRight(p)',
         FrameCounts(p)', FaultsRight(p)', PeerPlayed(p)'
  PROVE  NetInv'
<1>1. \A q \in Peer : q = p \/ q = Other(p)
  BY Others
<1>2. Grows
  <2>1. ASSUME NEW q \in Peer
        PROVE  /\ engine'[q].binding = engine[q].binding
               /\ Len(outgoing'[q]) \in Nat /\ Len(outgoing'[q]) <= Len(outgoing[q])
    <3>1. engine'[q].binding = engine[q].binding
      BY <1>1 DEF SamePeer, SameButFault
    <3>2. Len(outgoing[q]) \in Nat /\ Len(<<>>) = 0
      BY Lengths, NothingHeld
    <3>3. outgoing'[q] = outgoing[q] \/ outgoing'[q] = <<>>
      BY <1>1 DEF SamePeer, SameTransport, EndedTransport
    <3> QED BY <3>1, <3>2, <3>3
  <2> QED BY <2>1, QuietGrows
<1>3. PadRight(p)'
  BY <1>2, QuietPad
<1>4. PeerInv(p)'
  BY <1>2, <1>3, QuietPeer DEF SameButFault
<1>5. PeerInv(Other(p))'
  BY <1>2, QuietOther, Others
<1> QED BY <1>1, <1>4, <1>5 DEF NetInv

LEMMA SameCounts ==
  ASSUME NetInv, NEW p \in Peer, machine' = machine, entered' = entered,
         engine'[p].next = engine[p].next, pc'[p] = pc[p], worker'[p] = worker[p]
  PROVE  FrameCounts(p)' /\ PeerPlayed(p)'
BY DEF NetInv, PeerInv, FrameCounts, PeerPlayed, Live

\* Bindings do not change, so who is bound to another session stays so.
LEMMA SameFaults ==
  ASSUME NetInv, NEW p \in Peer, failure'[p] \in {failure[p], "Disconnected"},
         \A q \in Peer : engine'[q].binding = engine[q].binding,
         engine'[p].fault = engine[p].fault \/ engine'[p].fault \in Outside
  PROVE  FaultsRight(p)'
<1>1. engine'[0].binding = engine[0].binding /\ engine'[1].binding = engine[1].binding
  BY DEF Peer
<1> QED BY <1>1 DEF NetInv, PeerInv, FaultsRight, Outside

\* The machine lane of p does something to its engine, its pad or its place in main.
LEMMA LaneAlone ==
  ASSUME NetInv, NEW p \in Peer, NEW e, SameButFault(engine[p], e),
         e.fault = engine[p].fault \/ e.fault \in Outside,
         SetEngine(p, e), Domains', UNCHANGED <<machine, entered, pc, transport, network>>,
         pad'[Other(p)] = pad[Other(p)], pad'[p] = pad[p] \/ PadRight(p)'
  PROVE  NetInv'
<1>1. Other(p) \in Peer /\ Other(p) # p /\ \A q \in Peer : q = p \/ q = Other(p)
  BY Others
<1>2. engine'[p] = e /\ engine'[Other(p)] = engine[Other(p)]
  BY <1>1 DEF SetEngine, NetInv, Domains
<1>3. SameTransport(p) /\ OnlyGone(p) /\ SamePeer(Other(p))
  BY <1>2 DEF SamePeer, SameTransport, OnlyGone, transport
<1>4. FrameCounts(p)' /\ PeerPlayed(p)'
  BY <1>2, SameCounts DEF SameButFault, transport
<1>5. FaultsRight(p)'
  <2>1. \A q \in Peer : engine'[q].binding = engine[q].binding
    BY <1>1, <1>2 DEF SameButFault
  <2> QED BY <1>2, <2>1, SameFaults DEF transport
<1> QED BY <1>2, <1>3, <1>4, <1>5, QuietStep

LEMMA ShapeOfEngine ==
  ASSUME NetInv, NEW p \in Peer
  PROVE  EngineShape(engine[p]) /\ SameButFault(engine[p], engine[p])
BY DEF NetInv, PeerInv, EngineRight, SameButFault

\* pump fails the engine with what the transport failed with.
LEMMA PumpFaultStep ==
  ASSUME NetInv, NEW p \in Peer, PumpFault(p)
  PROVE  NetInv'
<1> DEFINE e == Fail(engine[p], failure[p])
<1>1. SameButFault(engine[p], e) /\ e.fault \in {engine[p].fault, failure[p]}
  BY ShapeOfEngine, FailKeeps
<1>2. failure[p] \in Outside
  BY DEF NetInv, PeerInv, FaultsRight, Outside
<1>3. e.fault = engine[p].fault \/ e.fault \in Outside
  BY <1>1, <1>2
<1>4. SetEngine(p, e) /\ UNCHANGED <<pc, machine, pad, entered, transport, network>>
  BY DEF PumpFault
<1> HIDE DEF e
<1>5. Domains'
  BY <1>4 DEF NetInv, Domains, SetEngine, transport
<1> QED BY <1>1, <1>3, <1>4, <1>5, LaneAlone

\* A failed instruction fails the engine.
LEMMA ExecutionFailureStep ==
  ASSUME NetInv, NEW p \in Peer, SetEngine(p, Fail(engine[p], "ExecutionFailure")),
         UNCHANGED <<pc, machine, pad, entered, transport, network>>
  PROVE  NetInv'
<1> DEFINE e == Fail(engine[p], "ExecutionFailure")
<1>1. SameButFault(engine[p], e) /\ e.fault \in {engine[p].fault, "ExecutionFailure"}
  BY ShapeOfEngine, FailKeeps
<1>2. e.fault = engine[p].fault \/ e.fault \in Outside
  BY <1>1 DEF Outside
<1>3. SetEngine(p, e)
  OBVIOUS
<1> HIDE DEF e
<1>4. Domains'
  BY <1>3 DEF NetInv, Domains, SetEngine, transport
<1> QED BY <1>1, <1>2, <1>3, <1>4, LaneAlone

\* ready finds what both peers entered for the frame.
LEMMA StartFrameStep ==
  ASSUME NetInv, NEW p \in Peer, StartFrame(p)
  PROVE  NetInv'
<1> DEFINE e == Ready(engine[p], machine[p])
<1>1. PICK n \in Nat : n = Len(machine[p])
  BY Lengths
<1>2. /\ engine[p].fault = "None" /\ Complete(engine[p]) /\ SetEngine(p, e)
      /\ pad' = [pad EXCEPT ![p] = IF e.ready THEN ReadyInput(e) ELSE @]
      /\ UNCHANGED <<pc, machine, entered, transport, network>>
  BY DEF StartFrame, Pumped
<1>3. /\ e = [engine[p] EXCEPT !.ready = TRUE]
      /\ \A q \in Peer : n < Len(entered[q])
      /\ ReadyInput(engine[p]) = entered[0][n + 1] \cup entered[1][n + 1]
  BY <1>1, <1>2, CurrentPackets
<1>4. SameButFault(engine[p], e) /\ e.fault = engine[p].fault /\ e.ready
      /\ ReadyInput(e) = ReadyInput(engine[p])
  BY <1>3, ShapeOfEngine DEF EngineShape, SameButFault, Fields, ReadyInput, Current
<1> HIDE DEF e
<1>5. Other(p) \in Peer /\ Other(p) # p
  BY Others
<1>6. /\ pad'[p] = entered[0][n + 1] \cup entered[1][n + 1]
      /\ pad'[Other(p)] = pad[Other(p)]
  BY <1>2, <1>3, <1>4, <1>5 DEF NetInv, Domains
<1>7. PadRight(p)'
  BY <1>1, <1>2, <1>3, <1>6 DEF PadRight
<1>8. Domains'
  BY <1>2 DEF NetInv, Domains, SetEngine, transport
<1> QED BY <1>2, <1>4, <1>6, <1>7, <1>8, LaneAlone

\* A process ends, and with it its transport.
LEMMA StopStep ==
  ASSUME NetInv, NEW p \in Peer, NEW l \in {"done", "failed"}, StopTransport(p), Goto(p, l),
         SameButFault(engine[p], engine'[p]),
         engine'[p].fault = engine[p].fault \/ engine'[p].fault \in Outside,
         engine'[Other(p)] = engine[Other(p)], DOMAIN engine' = Peer,
         UNCHANGED <<machine, pad, entered>>,
         l = "done" => \A q \in Peer : Len(machine[q]) = Frames
  PROVE  NetInv'
<1>1. Other(p) \in Peer /\ Other(p) # p /\ \A q \in Peer : q = p \/ q = Other(p)
  BY Others
<1>2. Domains'
  BY DEF NetInv, Domains, StopTransport, Goto
<1>3. EndedTransport(p) /\ pc'[p] = l /\ failure'[p] = "Disconnected" /\ network'[p] = {}
  BY DEF NetInv, Domains, StopTransport, Goto, EndedTransport
<1>4. SamePeer(Other(p))
  BY <1>1 DEF NetInv, Domains, StopTransport, Goto, SamePeer, SameTransport, OnlyGone
<1>5. FrameCounts(p)'
  BY <1>3 DEF NetInv, PeerInv, FrameCounts, Live, SameButFault
<1>6. PeerPlayed(p)'
  BY <1>1, <1>3 DEF PeerPlayed
<1>7. FaultsRight(p)'
  <2>1. \A q \in Peer : engine'[q].binding = engine[q].binding
    BY <1>1 DEF SameButFault
  <2> QED BY <1>3, <2>1, SameFaults
<1>8. OnlyGone(p)
  BY <1>3 DEF OnlyGone
<1> QED BY <1>2, <1>3, <1>4, <1>5, <1>6, <1>7, <1>8, QuietStep

LEMMA ThrowStep ==
  ASSUME NetInv, NEW p \in Peer, Throw(p)
  PROVE  NetInv'
<1>1. SameButFault(engine[p], engine'[p]) /\ engine' = engine /\ DOMAIN engine' = Peer
  BY ShapeOfEngine DEF Throw, NetInv, Domains
<1>2. Goto(p, "failed") /\ StopTransport(p) /\ UNCHANGED <<machine, pad, entered>>
  BY DEF Throw
<1> QED BY <1>1, <1>2, StopStep

\* A peer whose last packet is here has played all the frames.
LEMMA AcknowledgeStep ==
  ASSUME NetInv, NEW p \in Peer, Acknowledge(p)
  PROVE  NetInv'
<1> DEFINE e == Ready(engine[p], machine[p])
           d == Fail(e, "Disconnected")
<1>1. PICK n \in Nat : n = Len(machine[p])
  BY Lengths
<1>2. /\ pc[p] = "ack" /\ engine[p].fault = "None" /\ Complete(engine[p])
      /\ UNCHANGED <<machine, pad, entered>>
      /\ \/ e.fault # "None"
         \/ SetEngine(p, d) /\ Goto(p, "done") /\ StopTransport(p)
  BY DEF Acknowledge, Pumped
<1>3. e = [engine[p] EXCEPT !.ready = TRUE] /\ \A q \in Peer : n < Len(entered[q])
  BY <1>1, <1>2, CurrentPackets
<1>4. SameButFault(engine[p], e) /\ e.fault = "None"
  BY <1>2, <1>3, ShapeOfEngine DEF EngineShape, SameButFault, Fields
<1>5. SetEngine(p, d) /\ Goto(p, "done") /\ StopTransport(p)
  BY <1>2, <1>4
<1>6. SameButFault(engine[p], d) /\ d.fault \in Outside
  <2>1. SameButFault(e, d) /\ d.fault \in {e.fault, "Disconnected"}
    BY <1>4, FailKeeps DEF SameButFault
  <2> QED BY <1>4, <2>1 DEF SameButFault, Outside
<1>7. \A q \in Peer : Len(machine[q]) = Frames
  <2> SUFFICES ASSUME NEW q \in Peer PROVE Len(machine[q]) = Frames
    OBVIOUS
  <2>1. n = Frames
    BY <1>1, <1>2 DEF NetInv, PeerInv, FrameCounts
  <2>2. /\ n < Len(entered[q]) /\ Len(entered[q]) <= Len(machine[q]) + 1
        /\ Len(machine[q]) <= Frames /\ Len(machine[q]) \in Nat /\ Len(entered[q]) \in Nat
    BY <1>3, Lengths
  <2> QED BY <2>1, <2>2
<1> HIDE DEF d, e
<1>8. Other(p) # p /\ Other(p) \in Peer
  BY Others
<1>9. engine'[p] = d /\ engine'[Other(p)] = engine[Other(p)] /\ DOMAIN engine' = Peer
  BY <1>5, <1>8 DEF SetEngine, NetInv, Domains
<1> QED BY <1>2, <1>5, <1>6, <1>7, <1>9, StopStep

-----------------------------------------------------------------------------
(* The steps of the worker.                                                 *)

LEMMA WorkerFailStep ==
  ASSUME NetInv, NEW p \in Peer, WorkerFail(p)
  PROVE  NetInv'
<1>1. Other(p) \in Peer /\ Other(p) # p
  BY Others
<1>2. Domains'
  BY DEF NetInv, Domains, WorkerFail, lane
<1>3. engine' = engine /\ machine' = machine /\ entered' = entered /\ pad' = pad /\ pc' = pc
  BY DEF WorkerFail, lane
<1>4. SameTransport(p) /\ OnlyGone(p) /\ SamePeer(Other(p))
  BY <1>1, <1>3 DEF WorkerFail, SamePeer, SameTransport, OnlyGone, NetInv, Domains
<1>5. FrameCounts(p)' /\ PeerPlayed(p)'
  BY <1>3, SameCounts DEF WorkerFail
<1>6. FaultsRight(p)'
  <2>1. failure'[p] = "Disconnected"
    BY DEF WorkerFail, NetInv, Domains
  <2> QED BY <1>3, <2>1, SameFaults
<1>7. SameButFault(engine[p], engine'[p])
  BY <1>3, ShapeOfEngine
<1> QED BY <1>2, <1>3, <1>4, <1>5, <1>6, <1>7, QuietStep

\* What is transmitted arrives at the other peer or nowhere.
LEMMA Transmitted ==
  ASSUME NetInv, NEW p \in Peer, NEW S, TransmitSome(p, S)
  PROVE  /\ DOMAIN network' = Peer /\ DOMAIN published' = Peer
         /\ network'[p] = network[p]
         /\ \A k \in network'[Other(p)] : k \in network[Other(p)] \cup S
<1>1. Other(p) \in Peer /\ Other(p) # p
  BY Others
<1>2. PICK sent \in SUBSET S : \E arrive \in SUBSET sent : Transmit(p, sent, arrive)
  BY DEF TransmitSome
<1> QED BY <1>1, <1>2 DEF Transmit, NetInv, Domains

LEMMA WorkerRetryStep ==
  ASSUME NetInv, NEW p \in Peer, WorkerRetry(p)
  PROVE  NetInv'
<1>1. Other(p) \in Peer /\ Other(p) # p /\ Other(Other(p)) = p
  BY Others
<1>2. /\ engine' = engine /\ machine' = machine /\ entered' = entered /\ pad' = pad /\ pc' = pc
      /\ UNCHANGED <<incoming, outgoing, failure, worker, cache, receivedCache>>
      /\ TransmitSome(p, Held(cache[p]))
  BY DEF WorkerRetry, lane, Cached, Held
<1>3. Domains'
  BY <1>2, Transmitted DEF NetInv, Domains
<1>4. SameTransport(p) /\ SameTransport(Other(p)) /\ OnlyGone(p)
  BY <1>2, Transmitted DEF SameTransport, OnlyGone
<1>5. OnlyGone(Other(p))
  <2>1. \A k \in Held(cache[p]) : Gone(p, k)
    BY DEF NetInv, PeerInv, OnTheWay
  <2>2. \A k : Gone(p, k)' <=> Gone(p, k)
    BY <1>2 DEF Gone, Left, PacketOf, PlayedUpTo
  <2>3. \A k \in network'[Other(p)] : k \in network[Other(p)] \/ Gone(p, k)'
    BY <1>2, <2>1, <2>2, Transmitted
  <2> QED BY <1>1, <2>3 DEF OnlyGone
<1>6. SamePeer(Other(p))
  BY <1>2, <1>4, <1>5 DEF SamePeer
<1>7. FrameCounts(p)' /\ PeerPlayed(p)' /\ FaultsRight(p)'
  BY <1>2, SameCounts, SameFaults
<1>8. SameButFault(engine[p], engine'[p])
  BY <1>2, ShapeOfEngine
<1> QED BY <1>2, <1>3, <1>4, <1>6, <1>7, <1>8, QuietStep

\* The packet of the worker's turn leaves the machine lane.
LEMMA WorkerSendStep ==
  ASSUME NetInv, NEW p \in Peer, WorkerSend(p)
  PROVE  NetInv'
<1>1. Other(p) \in Peer /\ Other(p) # p /\ Other(Other(p)) = p /\ \A q \in Peer : q = p \/ q = Other(p)
  BY Others
<1>2. PICK k : k = Head(outgoing[p])
  OBVIOUS
<1>3. PICK c : c = cache[p]
  OBVIOUS
<1>4. /\ engine' = engine /\ machine' = machine /\ entered' = entered /\ pad' = pad /\ pc' = pc
      /\ UNCHANGED <<incoming, failure, worker, receivedCache>>
      /\ outgoing[p] # <<>> /\ outgoing' = [outgoing EXCEPT ![p] = Tail(@)]
      /\ \E x : cache' = [cache EXCEPT ![p] = [c EXCEPT ![k.frame % Window] = x]]
                /\ x \in {k, c[k.frame % Window]}
      /\ \E S : TransmitSome(p, S) /\ S \subseteq {k}
  <2>1. /\ engine' = engine /\ machine' = machine /\ entered' = entered /\ pad' = pad /\ pc' = pc
        /\ UNCHANGED <<incoming, failure, worker, receivedCache>>
        /\ outgoing[p] # <<>> /\ outgoing' = [outgoing EXCEPT ![p] = Tail(@)]
    BY DEF WorkerSend, lane
  <2> DEFINE i == k.frame % Window
             older == c[i] # NoPacket /\ k.frame < c[i].frame
             x == IF older THEN c[i] ELSE k
             S == IF older THEN {} ELSE {k}
  <2>2. cache' = [cache EXCEPT ![p] = [c EXCEPT ![i] = x]] /\ TransmitSome(p, S)
    BY <1>2, <1>3 DEF WorkerSend
  <2> QED BY <2>1, <2>2
<1>5. PICK o : o = outgoing[p]
  OBVIOUS
<1>6. /\ o \in Seq(Packets) /\ o # <<>> /\ outgoing'[p] = Tail(o) /\ DOMAIN outgoing' = Peer
      /\ outgoing'[Other(p)] = outgoing[Other(p)]
  BY <1>1, <1>4, <1>5 DEF NetInv, Domains, PeerInv, Sequences
<1>7. /\ Len(o) \in Nat \ {0} /\ k = o[1] /\ k \in Packets /\ Tail(o) \in Seq(Packets)
      /\ Len(Tail(o)) = Len(o) - 1
      /\ \A i \in 1 .. Len(Tail(o)) : i + 1 \in 1 .. Len(o) /\ Tail(o)[i] = o[i + 1]
  BY <1>2, <1>5, <1>6, HeadAndTail
<1>8. Grows
  <2>1. ASSUME NEW q \in Peer
        PROVE  /\ engine'[q].binding = engine[q].binding
               /\ Len(outgoing'[q]) \in Nat /\ Len(outgoing'[q]) <= Len(outgoing[q])
    <3>1. Len(outgoing[q]) \in Nat
      BY Lengths
    <3>2. CASE q = p
      BY <1>4, <1>5, <1>6, <1>7, <3>2
    <3>3. CASE q = Other(p)
      BY <1>4, <1>6, <3>1, <3>3
    <3> QED BY <1>1, <3>2, <3>3
  <2> QED BY <1>4, <2>1, QuietGrows
<1>9. PICK l \in Nat : l = Left(p)
  BY Lengths
<1>10. /\ Len(entered[p]) \in Nat /\ Len(entered[p]) = l + Len(o) /\ Left(p)' = l + 1
       /\ \A i \in 1 .. Len(o) : o[i] = PacketOf(p, l + i - 1)
  <2> DEFINE a == Len(entered[p])
             b == Len(o)
             d == Len(Tail(o))
  <2>1. a \in Nat /\ b \in Nat /\ d = b - 1 /\ l = a - b /\ Left(p)' = a - d
    BY <1>4, <1>5, <1>6, <1>7, <1>9, Lengths DEF Left
  <2>2. \A i \in 1 .. Len(o) : o[i] = PacketOf(p, l + i - 1)
    BY <1>5, <1>9 DEF NetInv, PeerInv, ToSend
  <2> HIDE DEF a, b, d
  <2>3. a = l + b /\ Left(p)' = l + 1
    BY <2>1
  <2> QED BY <2>1, <2>2, <2>3 DEF a, b
<1>11. \A n : PacketOf(p, n)' = PacketOf(p, n)
  BY <1>4 DEF PacketOf, PlayedUpTo
<1>12. Gone(p, k)'
  <2>1. k = PacketOf(p, l)
    <3>1. 1 \in 1 .. Len(o) /\ l + 1 - 1 = l
      BY <1>7
    <3> QED BY <1>7, <1>10, <3>1
  <2>2. k.frame = l
    BY <2>1 DEF PacketOf
  <2>3. k.frame \in 0 .. Left(p)' - 1
    BY <1>10, <2>2
  <2> QED BY <1>11, <2>1, <2>2, <2>3 DEF Gone
<1>13. ToSend(p)'
  <2>1. Len(outgoing'[p]) <= Len(entered'[p])
    BY <1>4, <1>6, <1>7, <1>10
  <2>2. ASSUME NEW i \in 1 .. Len(Tail(o)) PROVE Tail(o)[i] = PacketOf(p, (l + 1) + i - 1)'
    <3>1. l + (i + 1) - 1 = (l + 1) + i - 1
      BY <1>7
    <3>2. o[i + 1] = PacketOf(p, l + (i + 1) - 1)
      BY <1>7, <1>10
    <3> QED BY <1>7, <1>11, <3>1, <3>2
  <2> QED BY <1>6, <1>10, <2>1, <2>2 DEF ToSend
<1>14. k.frame % Window \in Slots
  <2>1. k.frame \in Nat
    BY <1>6, <1>7 DEF Packets
  <2> QED BY <2>1, SlotIndex
<1>15. PICK x \in {k, c[k.frame % Window]} :
         cache' = [cache EXCEPT ![p] = [c EXCEPT ![k.frame % Window] = x]]
  BY <1>4
<1>16. /\ DOMAIN cache' = Peer /\ cache'[Other(p)] = cache[Other(p)] /\ DOMAIN cache'[p] = Slots
       /\ \A i \in Slots : cache'[p][i] \in {c[i], k}
  <2>1. DOMAIN c = Slots
    BY <1>3 DEF NetInv, PeerInv, Sequences
  <2> QED BY <1>1, <1>15, <2>1 DEF NetInv, Domains
<1>17. PICK S \in SUBSET {k} : TransmitSome(p, S)
  BY <1>4
<1>18. Domains'
  BY <1>4, <1>6, <1>16, <1>17, Transmitted DEF NetInv, Domains
<1>19. SamePeer(Other(p))
  <2>1. OnlyGone(Other(p))
    BY <1>1, <1>12, <1>17, Transmitted DEF OnlyGone
  <2> QED BY <1>4, <1>6, <1>16, <2>1 DEF SamePeer, SameTransport
<1>20. PeerInv(Other(p))'
  BY <1>1, <1>8, <1>19, QuietOther
<1>21. OnTheWay(p)'
  <2>1. \A j \in Held(cache'[p]) : j \in Held(cache[p]) \/ Gone(p, j)'
    BY <1>3, <1>12, <1>16 DEF Held
  <2> QED BY <1>4, <1>8, <1>17, <2>1, Transmitted, QuietPackets
<1>22. SlotsRight(p)' /\ Arrived(p)'
  <2>1. \A n \in Nat : SeenFrame(p, n) => SeenFrame(p, n)'
    BY <1>4 DEF SeenFrame
  <2>2. SlotsRight(p)'
    BY <1>4, <1>8, <2>1, QuietSlots
  <2>3. Arrived(p)'
    BY <1>4 DEF NetInv, PeerInv, Arrived, Queued, SeenFrame
  <2> QED BY <2>2, <2>3
<1>23. Played(p)' /\ PadRight(p)' /\ FrameCounts(p)' /\ PeerPlayed(p)' /\ FaultsRight(p)'
  BY <1>4, <1>8, QuietGame, QuietPad, SameCounts, SameFaults
<1>24. EngineRight(p)'
  BY <1>4 DEF NetInv, PeerInv, EngineRight, EngineShape, SlotShape, Bindings
<1>25. Sequences(p)'
  <2>1. Sequences(p) /\ Packets' = Packets /\ Masks' = Masks
    BY DEF NetInv, PeerInv, Packets, Masks
  <2> QED BY <1>4, <1>6, <1>7, <1>16, <2>1 DEF Sequences
<1>26. PeerInv(p)'
  BY <1>13, <1>21, <1>22, <1>23, <1>24, <1>25 DEF PeerInv
<1> QED BY <1>1, <1>18, <1>20, <1>26 DEF NetInv

\* A datagram that is new is of the frame to be played or the one after it, and there
\* is room for it.
LEMMA NewPacket ==
  ASSUME NetInv, NEW p \in Peer, NEW k \in network[p], ~Seen(p, k), worker[p] = "running",
         NEW n \in Nat, n = Len(machine[p])
  PROVE  /\ k \in Packets /\ k # NoPacket /\ k.frame \in {n, n + 1} /\ k.frame % Window \in Slots
         /\ receivedCache[p][k.frame % Window] # NoPacket =>
              /\ receivedCache[p][k.frame % Window].frame \in Nat
              /\ receivedCache[p][k.frame % Window].frame < k.frame
         /\ \A j \in Queued(incoming[p]) : j.frame \in {n, n + 1} /\ j.frame # k.frame
         /\ Len(incoming[p]) <= 1
<1> DEFINE q == Other(p)
           i == k.frame % Window
<1>1. q \in Peer /\ Other(q) = p
  BY Others
<1>2. PICK seen : seen = receivedCache[p][i]
  OBVIOUS
<1>3. OnTheWay(p) /\ Arrived(p)
  BY DEF NetInv, PeerInv
<1>4. ASSUME NEW j, Gone(q, j)
      PROVE  Made(q, j) /\ j \in Packets /\ j # NoPacket /\ j.frame \in Nat /\ j.frame <= n + 1
  <2>1. Made(q, j)
    BY <1>1, <1>4, GoneIsMade
  <2>2. j \in Packets /\ j # NoPacket /\ j.frame \in Nat /\ j.frame <= Len(machine[q])
    BY <1>1, <2>1, MadePacket
  <2>3. /\ Len(machine[q]) \in Nat /\ Left(p) \in Nat /\ Len(entered[p]) \in Nat
        /\ Len(machine[q]) <= Left(p) /\ Left(p) <= Len(entered[p]) /\ Len(entered[p]) <= n + 1
    BY <1>1, Lengths
  <2> QED BY <2>1, <2>2, <2>3
<1>5. Gone(q, k)
  BY <1>3 DEF OnTheWay
<1>6. k \in Packets /\ k # NoPacket /\ k.frame \in Nat /\ k.frame <= n + 1 /\ i \in Slots
  BY <1>4, <1>5, SlotIndex
<1>7. seen # NoPacket => Gone(q, seen)
  BY <1>2, <1>3, <1>6 DEF OnTheWay, Held
<1>8. seen # NoPacket => seen # k /\ ~(k.frame < seen.frame)
  BY <1>2 DEF Seen
<1>9. seen # NoPacket => seen.frame \in Nat /\ seen.frame < k.frame
  <2> SUFFICES ASSUME seen # NoPacket PROVE seen.frame \in Nat /\ seen.frame < k.frame
    OBVIOUS
  <2>1. Made(q, seen) /\ seen.frame \in Nat /\ Made(q, k)
    BY <1>4, <1>5, <1>7
  <2>2. seen.frame # k.frame
    BY <1>1, <1>8, <2>1, OnePacket
  <2> QED BY <1>6, <1>8, <2>1, <2>2
<1>10. n <= k.frame
  <2>1. ~SeenFrame(p, k.frame)
    BY <1>2, <1>6, <1>9 DEF SeenFrame
  <2>2. k.frame \notin 0 .. n - 1
    BY <1>3, <2>1 DEF Arrived
  <2> QED BY <1>6, <2>2
<1>11. ASSUME NEW j \in Queued(incoming[p])
       PROVE  j.frame \in {n, n + 1} /\ j.frame # k.frame
  <2>1. Gone(q, j)
    BY <1>3 DEF OnTheWay
  <2>2. Made(q, j) /\ j # NoPacket /\ j.frame \in Nat /\ j.frame <= n + 1 /\ Made(q, k)
    BY <1>4, <1>5, <2>1
  <2>3. n <= j.frame /\ receivedCache[p][j.frame % Window] = j
    BY <1>3 DEF Arrived
  <2>4. j.frame # k.frame
    <3> SUFFICES ASSUME j.frame = k.frame PROVE FALSE
      OBVIOUS
    <3>1. seen = j
      BY <1>2, <2>3
    <3>2. j = k
      BY <1>1, <2>2, OnePacket
    <3> QED BY <1>8, <2>2, <3>1, <3>2
  <2> QED BY <2>2, <2>3, <2>4
<1>12. Len(incoming[p]) <= 1
  <2>1. Len(incoming[p]) \in Nat
    BY Lengths
  <2> SUFFICES ASSUME Len(incoming[p]) >= 2 PROVE FALSE
    BY <2>1
  <2>2. 1 \in 1 .. Len(incoming[p]) /\ 2 \in 1 .. Len(incoming[p])
    BY <2>1
  <2>3. incoming[p][1] \in Queued(incoming[p]) /\ incoming[p][2] \in Queued(incoming[p])
    BY <2>2 DEF Queued
  <2>4. incoming[p][1].frame = incoming[p][2].frame
    BY <1>6, <1>10, <1>11, <2>3
  <2>5. 1 = 2
    BY <1>3, <2>2, <2>4 DEF Arrived
  <2> QED BY <2>5
<1>13. k.frame \in {n, n + 1}
  BY <1>6, <1>10
<1> QED BY <1>2, <1>6, <1>9, <1>11, <1>12, <1>13

LEMMA WorkerReceiveStep ==
  ASSUME NetInv, NEW p \in Peer, NEW k \in network[p], WorkerReceive(p, k)
  PROVE  NetInv'
<1>1. Other(p) \in Peer /\ Other(p) # p /\ \A q \in Peer : q = p \/ q = Other(p)
  BY Others
<1>2. /\ worker[p] = "running"
      /\ engine' = engine /\ machine' = machine /\ entered' = entered /\ pad' = pad /\ pc' = pc
      /\ UNCHANGED <<outgoing, published, worker, cache>>
  BY DEF WorkerReceive, Working, lane
<1>3. /\ DOMAIN network' = Peer /\ network'[p] \subseteq network[p]
      /\ network'[Other(p)] = network[Other(p)]
  BY <1>1 DEF WorkerReceive, NetInv, Domains
<1>4. OnlyGone(p) /\ OnlyGone(Other(p))
  BY <1>3 DEF OnlyGone
<1>5. Grows
  BY <1>2, Lengths, QuietGrows
<1>6. CASE Seen(p, k)
  <2>1. UNCHANGED <<incoming, receivedCache, failure>>
    BY <1>6 DEF WorkerReceive
  <2>2. Domains' /\ SameTransport(p) /\ SamePeer(Other(p))
    BY <1>2, <1>3, <1>4, <2>1 DEF NetInv, Domains, SameTransport, SamePeer
  <2>3. FrameCounts(p)' /\ PeerPlayed(p)' /\ FaultsRight(p)' /\ SameButFault(engine[p], engine'[p])
    BY <1>2, <2>1, SameCounts, SameFaults, ShapeOfEngine
  <2> QED BY <1>2, <1>4, <2>2, <2>3, QuietStep
<1>7. CASE ~Seen(p, k)
  <2>1. PICK n \in Nat : n = Len(machine[p])
    BY Lengths
  <2>2. PICK i \in Slots : i = k.frame % Window
    BY <1>2, <1>7, <2>1, NewPacket
  <2>3. /\ k \in Packets /\ k # NoPacket /\ k.frame \in {n, n + 1}
        /\ receivedCache[p][i] # NoPacket =>
             receivedCache[p][i].frame \in Nat /\ receivedCache[p][i].frame < k.frame
        /\ \A j \in Queued(incoming[p]) : j.frame \in {n, n + 1} /\ j.frame # k.frame
        /\ Len(incoming[p]) <= 1
    BY <1>2, <1>7, <2>1, <2>2, NewPacket
  <2>4. Len(incoming[p]) \in Nat /\ Len(incoming[p]) # QueueCapacity
    BY <2>3, Lengths, CapacityAssumption
  <2>5. /\ incoming' = [incoming EXCEPT ![p] = Append(@, k)] /\ failure' = failure
        /\ receivedCache' = [receivedCache EXCEPT ![p][i] = k]
    BY <1>7, <2>2, <2>4 DEF WorkerReceive
  <2>6. PICK s : s = incoming[p]
    OBVIOUS
  <2>7. /\ s \in Seq(Packets) /\ incoming'[p] = Append(s, k) /\ DOMAIN incoming' = Peer
        /\ incoming'[Other(p)] = incoming[Other(p)]
    BY <1>1, <2>5, <2>6 DEF NetInv, Domains, PeerInv, Sequences
  <2>8. /\ Append(s, k) \in Seq(Packets) /\ Len(s) \in Nat /\ Len(Append(s, k)) = Len(s) + 1
        /\ \A j \in 1 .. Len(s) : Append(s, k)[j] = s[j]
        /\ Append(s, k)[Len(s) + 1] = k /\ Queued(Append(s, k)) = Queued(s) \cup {k}
    BY <2>3, <2>7, Appended
  <2>9. /\ DOMAIN receivedCache' = Peer /\ DOMAIN receivedCache'[p] = Slots
        /\ receivedCache'[Other(p)] = receivedCache[Other(p)]
        /\ receivedCache'[p][i] = k
        /\ \A j \in Slots : j # i => receivedCache'[p][j] = receivedCache[p][j]
    BY <1>1, <2>5 DEF NetInv, Domains, PeerInv, Sequences
  <2>10. Domains' /\ SamePeer(Other(p))
    BY <1>2, <1>3, <1>4, <2>5, <2>7, <2>9 DEF NetInv, Domains, SamePeer, SameTransport
  <2>11. PeerInv(Other(p))'
    BY <1>1, <1>5, <2>10, QuietOther
  <2>12. OnTheWay(p)'
    <3>1. \A j \in Held(receivedCache'[p]) : j \in Held(receivedCache[p]) \cup network[p]
      BY <2>9 DEF Held
    <3>2. \A j \in Queued(incoming'[p]) : j \in Queued(incoming[p]) \cup network[p]
      BY <2>6, <2>7, <2>8
    <3> QED BY <1>2, <1>3, <1>5, <3>1, <3>2, QuietPackets
  <2>13. ASSUME NEW m \in Nat, SeenFrame(p, m) PROVE SeenFrame(p, m)'
    <3>1. m % Window \in Slots
      BY SlotIndex
    <3>2. CASE m % Window = i
      <4>1. m <= receivedCache[p][i].frame /\ receivedCache[p][i] # NoPacket
        BY <2>13, <3>2 DEF SeenFrame
      <4>2. m <= k.frame
        BY <2>1, <2>3, <4>1
      <4> QED BY <2>3, <2>9, <3>2, <4>2 DEF SeenFrame
    <3>3. CASE m % Window # i
      BY <2>9, <2>13, <3>1, <3>3 DEF SeenFrame
    <3> QED BY <3>2, <3>3
  <2>14. SlotsRight(p)'
    BY <1>2, <1>5, <2>13, QuietSlots
  <2>15. Arrived(p)'
    <3>1. Arrived(p)
      BY DEF NetInv, PeerInv
    <3>2. \A m \in 0 .. Len(machine'[p]) - 1 : SeenFrame(p, m)'
      <4>1. \A m \in 0 .. n - 1 : m \in Nat /\ SeenFrame(p, m)
        BY <1>2, <2>1, <3>1 DEF Arrived
      <4> QED BY <1>2, <2>1, <2>13, <4>1
    <3>3. ASSUME NEW j \in Queued(Append(s, k))
          PROVE  n <= j.frame /\ receivedCache'[p][j.frame % Window] = j
      <4>1. CASE j = k
        BY <2>1, <2>2, <2>3, <2>9, <4>1
      <4>2. CASE j \in Queued(s)
        <5>1. /\ n <= j.frame /\ receivedCache[p][j.frame % Window] = j
              /\ j.frame \in {n, n + 1} /\ j.frame # k.frame
          BY <2>1, <2>3, <2>6, <3>1, <4>2 DEF Arrived
        <5>2. j.frame % Window # i
          <6>1. (n + 1) % Window # n % Window
            BY SlotsApart
          <6>2. \/ j.frame = n /\ k.frame = n + 1
                \/ j.frame = n + 1 /\ k.frame = n
            BY <2>3, <5>1
          <6> QED BY <2>2, <6>1, <6>2
        <5>3. j.frame % Window \in Slots
          BY <5>1, SlotIndex
        <5> QED BY <2>9, <5>1, <5>2, <5>3
      <4> QED BY <2>8, <4>1, <4>2
    <3>4. ASSUME NEW a \in 1 .. Len(Append(s, k)), NEW b \in 1 .. Len(Append(s, k)),
                 Append(s, k)[a].frame = Append(s, k)[b].frame
          PROVE  a = b
      <4>1. \A c \in 1 .. Len(s) : s[c] \in Queued(s) /\ s[c].frame # k.frame
        BY <2>3, <2>6 DEF Queued
      <4>2. \A c, d \in 1 .. Len(s) : s[c].frame = s[d].frame => c = d
        BY <2>6, <3>1 DEF Arrived
      <4>3. (a \in 1 .. Len(s) \/ a = Len(s) + 1) /\ (b \in 1 .. Len(s) \/ b = Len(s) + 1)
        BY <2>8
      <4> QED BY <2>8, <3>4, <4>1, <4>2, <4>3
    <3>5. Queued(incoming[p])' = Queued(Append(s, k))
      BY <2>7 DEF Queued
    <3> QED BY <1>2, <2>1, <2>7, <3>2, <3>3, <3>4, <3>5 DEF Arrived
  <2>16. Played(p)' /\ PadRight(p)' /\ FrameCounts(p)' /\ PeerPlayed(p)' /\ FaultsRight(p)'
    BY <1>2, <1>5, <2>5, QuietGame, QuietPad, SameCounts, SameFaults
  <2>17. EngineRight(p)' /\ ToSend(p)'
    <3>1. ToSend(p)'
      BY <1>2, <1>5, QuietQueues
    <3> QED BY <1>2, <3>1 DEF NetInv, PeerInv, EngineRight, EngineShape, SlotShape, Bindings
  <2>18. Sequences(p)'
    <3>1. Sequences(p) /\ Packets' = Packets /\ Masks' = Masks
      BY DEF NetInv, PeerInv, Packets, Masks
    <3> QED BY <1>2, <2>7, <2>8, <2>9, <3>1 DEF Sequences
  <2>19. PeerInv(p)'
    BY <2>12, <2>14, <2>15, <2>16, <2>17, <2>18 DEF PeerInv
  <2> QED BY <1>1, <2>10, <2>11, <2>19 DEF NetInv
<1> QED BY <1>6, <1>7
-----------------------------------------------------------------------------
(* The engine takes a packet.                                               *)

LEMMA ClaimedShape ==
  ASSUME NEW slot, SlotShape(slot), NEW n
  PROVE  /\ SlotShape(Claimed(slot, n)) /\ Claimed(slot, n).number = n
         /\ \A q \in Peer : Claimed(slot, n).packets[q] # NoPacket =>
              Holds(slot, n) /\ slot.number = n /\ Claimed(slot, n).packets[q] = slot.packets[q]
         /\ Holds(slot, n) => Claimed(slot, n) = slot
BY DEF SlotShape, Claimed, Holds, EmptySlot

LEMMA AcceptKeeps ==
  ASSUME NEW e, EngineShape(e), e.next \in Nat, NEW k, k.frame \in Nat, k.peer \in Peer
  PROVE  /\ EngineShape(Accept(e, k)) /\ Accept(e, k).binding = e.binding
         /\ Accept(e, k).next = e.next /\ Accept(e, k).history = e.history
<1>1. PICK i \in Slots : i = k.frame % Window
  BY SlotIndex
<1>2. PICK slot : slot = SlotOf(e, k.frame)
  OBVIOUS
<1>3. SlotShape(slot)
  BY <1>1, <1>2 DEF SlotOf, EngineShape
<1>4. PICK claimed : claimed = Claimed(slot, k.frame) /\ SlotShape(claimed)
  BY <1>3, ClaimedShape
<1>5. PICK filled : filled = [claimed EXCEPT !.packets[k.peer] = k]
  OBVIOUS
<1>6. PICK a : a = [e EXCEPT !.frames[i] = filled]
  OBVIOUS
<1>7. /\ EngineShape(a) /\ a.binding = e.binding /\ a.next = e.next /\ a.history = e.history
  <2>1. SlotShape(filled)
    BY <1>4, <1>5 DEF SlotShape
  <2> QED BY <1>6, <2>1 DEF EngineShape, Fields
<1>8. Accept(e, k) \in {e, Fail(e, "BindingMismatch"), Fail(e, "WindowExhausted"),
                        Fail(e, "ConflictingInput"), a}
  BY <1>1, <1>2, <1>4, <1>5, <1>6 DEF Accept
<1> QED BY <1>7, <1>8, FailKeeps DEF SameButFault

\* A packet of a frame in the window, of this session and no conflict, is kept.
LEMMA AcceptPacket ==
  ASSUME NEW e, EngineShape(e), e.next \in Nat, NEW k, k.frame \in Nat, k.peer \in Peer,
         e.fault = "None", k.binding = e.binding,
         e.next <= k.frame, k.frame < e.next + Window,
         NEW i \in Slots, i = k.frame % Window,
         Holds(e.frames[i], k.frame) => e.frames[i].packets[k.peer] \in {NoPacket, k}
  PROVE  /\ Accept(e, k).fault = "None"
         /\ \A j \in Slots : j # i => Accept(e, k).frames[j] = e.frames[j]
         /\ Accept(e, k).frames[i].number = k.frame
         /\ Accept(e, k).frames[i].packets[k.peer] = k
         /\ \A q \in Peer : q # k.peer /\ Accept(e, k).frames[i].packets[q] # NoPacket =>
              /\ e.frames[i].number = k.frame
              /\ Accept(e, k).frames[i].packets[q] = e.frames[i].packets[q]
<1>1. PICK slot : slot = e.frames[i] /\ SlotShape(slot)
  BY DEF EngineShape
<1>2. SlotOf(e, k.frame) = slot
  BY <1>1 DEF SlotOf
<1>3. PICK claimed : /\ claimed = Claimed(slot, k.frame) /\ SlotShape(claimed)
                     /\ claimed.number = k.frame
                     /\ \A q \in Peer : claimed.packets[q] # NoPacket =>
                          /\ Holds(slot, k.frame) /\ slot.number = k.frame
                          /\ claimed.packets[q] = slot.packets[q]
  BY <1>1, ClaimedShape
<1>4. ~Differs(claimed, k)
  BY <1>1, <1>3 DEF Differs
<1>5. PICK filled : filled = [claimed EXCEPT !.packets[k.peer] = k]
  OBVIOUS
<1>6. /\ filled.number = k.frame /\ filled.packets[k.peer] = k
      /\ \A q \in Peer : q # k.peer => filled.packets[q] = claimed.packets[q]
  BY <1>3, <1>5 DEF SlotShape
<1>7. Accept(e, k) = [e EXCEPT !.frames[i] = filled]
  <2>1. ~(k.frame >= e.next + Window) /\ ~(k.frame < e.next)
    BY WindowAssumption
  <2> QED BY <1>2, <1>3, <1>4, <1>5, <2>1 DEF Accept
<1>8. /\ Accept(e, k).fault = "None" /\ Accept(e, k).frames[i] = filled
      /\ \A j \in Slots : j # i => Accept(e, k).frames[j] = e.frames[j]
  BY <1>7 DEF EngineShape, Fields
<1> QED BY <1>1, <1>3, <1>6, <1>8

\* Peer p takes a packet of peer r of the frame it is to play, or of the next.
LEMMA AcceptedSlots ==
  ASSUME NetInv, Grows, NEW p \in Peer, NEW r \in Peer, NEW k,
         engine'[p] = Accept(engine[p], k), engine[p].fault = "None",
         Made(r, k)', k.peer = r, k.frame \in Nat, k.binding = engine[p].binding,
         engine[p].next <= k.frame, k.frame <= engine[p].next + 1,
         r # p => Gone(r, k)' /\ SeenFrame(p, k.frame)',
         worker'[p] = worker[p], receivedCache'[p] = receivedCache[p]
  PROVE  SlotsRight(p)' /\ engine'[p].fault = "None"
<1>1. PICK e : e = engine[p] /\ EngineShape(e) /\ e.next \in Nat
  BY ShapeOfEngine, Lengths
<1>2. PICK i \in Slots : i = k.frame % Window
  BY SlotIndex
<1>3. PICK old : old = e.frames[i] /\ old \in SlotsOf(e)
  BY DEF SlotsOf
<1>4. SlotRight(p, old) /\ SlotRight(p, old)'
  <2>1. SlotRight(p, old)
    BY <1>1, <1>3 DEF NetInv, PeerInv, SlotsRight
  <2>2. \A n \in Nat : SeenFrame(p, n) => SeenFrame(p, n)'
    BY DEF SeenFrame
  <2> QED BY <2>1, <2>2, SlotKept
<1>5. Holds(old, k.frame) => old.packets[r] \in {NoPacket, k}
  <2> SUFFICES ASSUME Holds(old, k.frame), old.packets[r] # NoPacket PROVE old.packets[r] = k
    OBVIOUS
  <2>1. PICK j : j = old.packets[r]
    OBVIOUS
  <2>2. j.frame = k.frame /\ Made(r, j)
    BY <1>4, <2>1 DEF SlotRight, Holds
  <2>3. Made(r, j)'
    BY <2>2, Kept
  <2> QED BY <2>1, <2>2, <2>3 DEF Made
<1>6. k.frame < e.next + Window
  BY <1>1, WindowAssumption
<1>7. PICK a : a = Accept(e, k)
  OBVIOUS
<1>8. /\ a.fault = "None" /\ \A j \in Slots : j # i => a.frames[j] = e.frames[j]
      /\ a.frames[i].number = k.frame /\ a.frames[i].packets[r] = k
      /\ \A q \in Peer : q # r /\ a.frames[i].packets[q] # NoPacket =>
           old.number = k.frame /\ a.frames[i].packets[q] = old.packets[q]
  <2>1. /\ e.fault = "None" /\ k.binding = e.binding /\ k.peer \in Peer
        /\ e.next <= k.frame /\ k.frame < e.next + Window
        /\ Holds(e.frames[i], k.frame) => e.frames[i].packets[k.peer] \in {NoPacket, k}
    BY <1>1, <1>3, <1>5, <1>6
  <2>2. /\ Accept(e, k).fault = "None"
        /\ \A j \in Slots : j # i => Accept(e, k).frames[j] = e.frames[j]
        /\ Accept(e, k).frames[i].number = k.frame
        /\ Accept(e, k).frames[i].packets[k.peer] = k
        /\ \A q \in Peer : q # k.peer /\ Accept(e, k).frames[i].packets[q] # NoPacket =>
              /\ e.frames[i].number = k.frame
              /\ Accept(e, k).frames[i].packets[q] = e.frames[i].packets[q]
    BY <1>1, <1>2, <2>1, AcceptPacket, SMTT(30)
  <2> QED BY <1>3, <1>7, <2>2
<1>9. a.history = e.history
  BY <1>1, <1>7, AcceptKeeps
<1>10. PICK new : new = a.frames[i]
  OBVIOUS
<1>11. SlotRight(p, new)'
  <2> SUFFICES ASSUME NEW q \in Peer, new.packets[q] # NoPacket
               PROVE  /\ new.packets[q].frame = new.number
                      /\ Made(q, new.packets[q])'
                      /\ q # p => /\ Gone(q, new.packets[q])'
                                  /\ worker'[p] = "running" => SeenFrame(p, new.number)'
    BY DEF SlotRight
  <2>1. PICK j, n : j = new.packets[q] /\ n = new.number /\ n = k.frame
    BY <1>8, <1>10
  <2>2. CASE q = r
    <3>1. j = k
      BY <1>8, <1>10, <2>1, <2>2
    <3> QED BY <2>1, <2>2, <3>1
  <2>3. CASE q # r
    <3>1. j = old.packets[q] /\ j # NoPacket /\ old.number = n
      BY <1>8, <1>10, <2>1, <2>3
    <3>2. /\ j.frame = n /\ Made(q, j)'
          /\ q # p => Gone(q, j)' /\ (worker'[p] = "running" => SeenFrame(p, n)')
      BY <1>4, <3>1 DEF SlotRight
    <3> QED BY <2>1, <3>2
  <2> QED BY <2>2, <2>3
<1>12. \A slot \in SlotsOf(engine'[p]) : slot \in SlotsOf(engine[p]) \/ slot = new
  BY <1>1, <1>7, <1>8, <1>9, <1>10 DEF SlotsOf
<1>13. SlotsRight(p)'
  <2>1. \A n \in Nat : SeenFrame(p, n) => SeenFrame(p, n)'
    BY DEF SeenFrame
  <2> QED BY <1>11, <1>12, <2>1, QuietSlots
<1> QED BY <1>1, <1>7, <1>8, <1>13

LEMMA PumpAcceptStep ==
  ASSUME NetInv, NEW p \in Peer, PumpAccept(p)
  PROVE  NetInv'
<1>1. Other(p) \in Peer /\ Other(p) # p /\ \A q \in Peer : q = p \/ q = Other(p)
  BY Others
<1>2. PICK s, k : s = incoming[p] /\ k = Head(s)
  OBVIOUS
<1>3. PICK n \in Nat : n = Len(machine[p])
  BY Lengths
<1>4. /\ Live(p) /\ engine[p].fault = "None" /\ s # <<>>
      /\ SetEngine(p, IF k.peer = p THEN Fail(engine[p], "InvalidPacket") ELSE Accept(engine[p], k))
      /\ incoming' = [incoming EXCEPT ![p] = Tail(@)]
      /\ UNCHANGED <<pc, machine, pad, entered, outgoing, failure, published, worker,
                     cache, receivedCache, network>>
  BY <1>2 DEF PumpAccept
<1>5. s \in Seq(Packets) /\ OnTheWay(p) /\ Arrived(p) /\ worker[p] = "running"
  BY <1>2, <1>4 DEF NetInv, PeerInv, Sequences, FrameCounts
<1>6. /\ Len(s) \in Nat \ {0} /\ k = s[1] /\ k \in Queued(s)
      /\ Tail(s) \in Seq(Packets) /\ Len(Tail(s)) = Len(s) - 1
      /\ \A i \in 1 .. Len(Tail(s)) : i + 1 \in 1 .. Len(s) /\ Tail(s)[i] = s[i + 1]
      /\ Queued(Tail(s)) \subseteq Queued(s)
  BY <1>2, <1>4, <1>5, HeadAndTail
<1>7. Gone(Other(p), k) /\ Made(Other(p), k)
  BY <1>1, <1>2, <1>5, <1>6, GoneIsMade DEF OnTheWay
<1>8. /\ k # NoPacket /\ k.peer = Other(p) /\ k.frame \in Nat
      /\ k.binding = engine[Other(p)].binding /\ k.frame <= n + 1
  <2>1. /\ k # NoPacket /\ k.peer = Other(p) /\ k.frame \in Nat
        /\ k.binding = engine[Other(p)].binding /\ k.frame <= Len(machine[Other(p)])
    BY <1>1, <1>7, MadePacket
  <2>2. /\ Len(machine[Other(p)]) \in Nat /\ Left(p) \in Nat /\ Len(entered[p]) \in Nat
        /\ Len(machine[Other(p)]) <= Left(p) /\ Left(p) <= Len(entered[p])
        /\ Len(entered[p]) <= n + 1
    BY <1>1, <1>3, Lengths, Others
  <2> QED BY <2>1, <2>2
<1>9. n <= k.frame /\ SeenFrame(p, k.frame)
  BY <1>2, <1>3, <1>5, <1>6, <1>8 DEF Arrived, SeenFrame
<1>10. /\ engine'[p] = Accept(engine[p], k) /\ engine'[Other(p)] = engine[Other(p)]
       /\ DOMAIN engine' = Peer
  BY <1>1, <1>4, <1>8 DEF SetEngine, NetInv, Domains
<1>11. /\ EngineShape(engine'[p]) /\ engine'[p].binding = engine[p].binding
       /\ engine'[p].next = engine[p].next /\ engine[p].next = n
  BY <1>1, <1>3, <1>8, <1>10, ShapeOfEngine, Lengths, AcceptKeeps
<1>12. /\ incoming'[p] = Tail(s) /\ incoming'[Other(p)] = incoming[Other(p)]
       /\ DOMAIN incoming' = Peer
  BY <1>1, <1>2, <1>4 DEF NetInv, Domains
<1>13. Domains' /\ OnlyGone(p) /\ OnlyGone(Other(p))
  BY <1>4, <1>10, <1>12 DEF NetInv, Domains, OnlyGone
<1>14. Grows
  <2>1. \A q \in Peer : engine'[q].binding = engine[q].binding
    BY <1>1, <1>10, <1>11
  <2> QED BY <1>4, <2>1, Lengths, QuietGrows
<1>15. PeerInv(Other(p))'
  <2>1. SamePeer(Other(p))
    BY <1>4, <1>10, <1>12, <1>13 DEF SamePeer, SameTransport
  <2> QED BY <1>1, <1>14, <2>1, QuietOther
<1>16. SlotsRight(p)' /\ FaultsRight(p)'
  <2>1. CASE k.binding = engine[p].binding
    <3>1. Gone(Other(p), k)' /\ Made(Other(p), k)' /\ SeenFrame(p, k.frame)'
      BY <1>1, <1>4, <1>7, <1>9, <1>14, Kept DEF SeenFrame
    <3>2. SlotsRight(p)' /\ engine'[p].fault = "None"
      BY <1>1, <1>4, <1>8, <1>9, <1>10, <1>11, <1>14, <2>1, <3>1, AcceptedSlots
    <3>3. FaultsRight(p)'
      BY <1>4, <3>2 DEF NetInv, PeerInv, FaultsRight, Outside
    <3> QED BY <3>2, <3>3
  <2>2. CASE k.binding # engine[p].binding
    <3>1. engine'[p] = Fail(engine[p], "BindingMismatch")
      BY <1>4, <1>10, <2>2 DEF Accept
    <3>2. SameButFault(engine[p], engine'[p]) /\ engine'[p].fault \in {"None", "BindingMismatch"}
      BY <1>4, <3>1, ShapeOfEngine, FailKeeps
    <3>3. SlotsOf(engine'[p]) = SlotsOf(engine[p])
      BY <3>2 DEF SlotsOf, SameButFault
    <3>4. \A m \in Nat : SeenFrame(p, m) => SeenFrame(p, m)'
      BY <1>4 DEF SeenFrame
    <3>5. SlotsRight(p)'
      BY <1>4, <1>14, <3>3, <3>4, QuietSlots
    <3>6. engine'[0].binding # engine'[1].binding
      BY <1>1, <1>8, <1>10, <1>11, <2>2 DEF Peer, Other
    <3>7. FaultsRight(p)'
      BY <1>4, <3>2, <3>6 DEF NetInv, PeerInv, FaultsRight, Outside
    <3> QED BY <3>5, <3>7
  <2> QED BY <2>1, <2>2
<1>17. OnTheWay(p)'
  <2>1. \A j \in Queued(incoming'[p]) : j \in Queued(incoming[p])
    BY <1>2, <1>6, <1>12
  <2> QED BY <1>4, <1>14, <2>1, QuietPackets
<1>18. Arrived(p)'
  <2>1. \A j \in Queued(Tail(s)) : n <= j.frame /\ receivedCache[p][j.frame % Window] = j
    BY <1>2, <1>3, <1>5, <1>6 DEF Arrived
  <2>2. ASSUME NEW a \in 1 .. Len(Tail(s)), NEW b \in 1 .. Len(Tail(s)),
               Tail(s)[a].frame = Tail(s)[b].frame
        PROVE  a = b
    <3>1. a + 1 \in 1 .. Len(s) /\ b + 1 \in 1 .. Len(s) /\ s[a + 1].frame = s[b + 1].frame
      BY <1>6, <2>2
    <3>2. a + 1 = b + 1
      BY <1>2, <1>5, <3>1 DEF Arrived
    <3> QED BY <3>2
  <2>3. \A m \in 0 .. n - 1 : SeenFrame(p, m)'
    BY <1>3, <1>4, <1>5 DEF Arrived, SeenFrame
  <2>4. Queued(incoming[p])' = Queued(Tail(s))
    BY <1>12 DEF Queued
  <2>5. machine'[p] = machine[p] /\ receivedCache'[p] = receivedCache[p]
    BY <1>4
  <2>6. \A m \in 0 .. Len(machine'[p]) - 1 : SeenFrame(p, m)'
    BY <1>3, <2>3, <2>5
  <2>7. \A j \in Queued(incoming[p])' :
          Len(machine'[p]) <= j.frame /\ receivedCache'[p][j.frame % Window] = j
    BY <1>3, <2>1, <2>4, <2>5
  <2>8. \A a, b \in 1 .. Len(incoming'[p]) :
          incoming'[p][a].frame = incoming'[p][b].frame => a = b
    BY <1>12, <2>2
  <2> QED BY <2>6, <2>7, <2>8 DEF Arrived
<1>19. Played(p)' /\ PadRight(p)' /\ FrameCounts(p)' /\ PeerPlayed(p)' /\ ToSend(p)'
  BY <1>4, <1>11, <1>14, QuietGame, QuietPad, QuietQueues, SameCounts
<1>20. EngineRight(p)'
  <2>1. engine[p].binding \in Bindings
    BY DEF NetInv, PeerInv, EngineRight
  <2> QED BY <1>11, <2>1 DEF EngineRight, EngineShape, SlotShape, Bindings
<1>21. Sequences(p)'
  <2>1. Sequences(p) /\ Packets' = Packets /\ Masks' = Masks
    BY DEF NetInv, PeerInv, Packets, Masks
  <2> QED BY <1>4, <1>6, <1>12, <2>1 DEF Sequences
<1>22. PeerInv(p)'
  BY <1>16, <1>17, <1>18, <1>19, <1>20, <1>21 DEF PeerInv
<1> QED BY <1>1, <1>13, <1>15, <1>22 DEF NetInv
-----------------------------------------------------------------------------
(* The steps of the game.                                                   *)

\* Of the packets a peer made, at most one waits when it makes the next: the other
\* peer could not have entered the frame before without the packets before.
LEMMA FewWait ==
  ASSUME NetInv, NEW p \in Peer, Len(entered[p]) = Len(machine[p])
  PROVE  Len(outgoing[p]) # QueueCapacity
<1> DEFINE q == Other(p)
           a == Len(entered[p])
           b == Len(outgoing[p])
           c == Left(q)
           d == Len(entered[q])
           f == Len(machine[q])
           l == Left(p)
<1>1. /\ a \in Nat /\ b \in Nat /\ c \in Nat /\ d \in Nat /\ f \in Nat /\ l \in Nat
      /\ l = a - b /\ f <= l /\ c <= d /\ d <= f + 1 /\ a <= c
  BY Others, Lengths DEF Left
<1> HIDE DEF a, b, c, d, f, l
<1>2. b <= 1
  BY <1>1
<1> QED BY <1>1, <1>2, CapacityAssumption DEF b

LEMMA SubmitLocalStep ==
  ASSUME NetInv, NEW p \in Peer, NEW m \in Inputs[p], SubmitLocal(p, m)
  PROVE  NetInv'
<1>1. Other(p) \in Peer /\ Other(p) # p /\ \A q \in Peer : q = p \/ q = Other(p)
  BY Others
<1>2. PICK n \in Nat : n = Len(machine[p])
  BY Lengths
<1>3. PICK k, a : k = Packet(p, m) /\ a = Accept(engine[p], k)
  OBVIOUS
<1>4. pc[p] = "submit" /\ engine[p].fault = "None" /\ engine[p].next = n /\ Len(entered[p]) = n
  BY <1>2 DEF SubmitLocal, Pumped, NetInv, PeerInv, FrameCounts
<1>5. Len(outgoing[p]) # QueueCapacity
  BY <1>2, <1>4, FewWait
<1>6. /\ SetEngine(p, a) /\ UNCHANGED failure
      /\ outgoing' = [outgoing EXCEPT ![p] = IF a.fault = "None" THEN Append(@, k) ELSE @]
      /\ entered' = [entered EXCEPT ![p] = Append(@, m)]
      /\ Goto(p, IF n = Frames THEN "ack" ELSE "run")
      /\ UNCHANGED <<machine, pad, incoming, published, worker, cache, receivedCache, network>>
  BY <1>3, <1>4, <1>5 DEF SubmitLocal
<1>7. PICK s, o : s = entered[p] /\ o = outgoing[p]
  OBVIOUS
<1>8. /\ machine[p] \in Seq(Masks) /\ s \in Seq(Inputs[p]) /\ o \in Seq(Packets)
      /\ engine[p].binding \in Bindings
  BY <1>7 DEF NetInv, PeerInv, Sequences, EngineRight
<1>9. k \in Packets /\ k.frame = n /\ k.peer = p /\ k.binding = engine[p].binding
  BY <1>3, <1>4, <1>8 DEF Packet, Packets, Peer
<1>10. /\ engine'[p] = a /\ engine'[Other(p)] = engine[Other(p)] /\ DOMAIN engine' = Peer
       /\ entered'[p] = Append(s, m) /\ entered'[Other(p)] = entered[Other(p)]
       /\ DOMAIN entered' = Peer /\ DOMAIN outgoing' = Peer /\ DOMAIN pc' = Peer
       /\ outgoing'[p] = IF a.fault = "None" THEN Append(o, k) ELSE o
       /\ outgoing'[Other(p)] = outgoing[Other(p)] /\ pc'[Other(p)] = pc[Other(p)]
       /\ pc'[p] = IF n = Frames THEN "ack" ELSE "run"
  BY <1>1, <1>6, <1>7 DEF SetEngine, Goto, NetInv, Domains
<1>11. /\ EngineShape(a) /\ a.binding = engine[p].binding /\ a.next = n
  BY <1>2, <1>3, <1>4, <1>9, ShapeOfEngine, AcceptKeeps
<1>12. /\ Append(s, m) \in Seq(Inputs[p]) /\ Len(s) = n /\ Len(Append(s, m)) = n + 1
       /\ \A i \in 1 .. n : Append(s, m)[i] = s[i]
       /\ Append(s, m)[n + 1] = m
  <2>1. Len(s) = n
    BY <1>4, <1>7
  <2>2. /\ Append(s, m) \in Seq(Inputs[p]) /\ Len(Append(s, m)) = Len(s) + 1
        /\ \A i \in 1 .. Len(s) : Append(s, m)[i] = s[i]
        /\ Append(s, m)[Len(s) + 1] = m
    BY <1>8, Appended
  <2> QED BY <2>1, <2>2
<1>13. /\ Append(o, k) \in Seq(Packets) /\ Len(o) \in Nat /\ Len(Append(o, k)) = Len(o) + 1
       /\ \A i \in 1 .. Len(o) : Append(o, k)[i] = o[i]
       /\ Append(o, k)[Len(o) + 1] = k
  BY <1>8, <1>9, Appended
<1>14. Left(p) = n - Len(o) /\ Left(p)' = (n + 1) - Len(outgoing'[p])
  BY <1>4, <1>7, <1>10, <1>12 DEF Left
<1>15. Grows
  <2> SUFFICES ASSUME NEW q \in Peer
               PROVE  /\ engine'[q].binding = engine[q].binding
                      /\ entered'[q] \in Seq(Inputs[q])
                      /\ Len(entered[q]) <= Len(entered'[q])
                      /\ \A i \in 1 .. Len(entered[q]) : entered'[q][i] = entered[q][i]
                      /\ Left(q) <= Left(q)'
                      /\ Len(machine[q]) <= Len(machine'[q]) /\ Len(machine'[q]) <= Frames
    BY DEF Grows
  <2>1. Len(machine[q]) <= Len(machine'[q]) /\ Len(machine'[q]) <= Frames
    BY <1>6, Lengths
  <2>2. CASE q = p
    <3>1. Left(p) <= Left(p)'
      <4>1. Len(outgoing'[p]) \in {Len(o), Len(o) + 1}
        BY <1>10, <1>13
      <4> QED BY <1>13, <1>14, <4>1
    <3>2. engine'[p].binding = engine[p].binding /\ entered'[p] \in Seq(Inputs[p])
      BY <1>10, <1>11, <1>12
    <3>3. /\ Len(entered[p]) <= Len(entered'[p])
          /\ \A i \in 1 .. Len(entered[p]) : entered'[p][i] = entered[p][i]
      BY <1>4, <1>7, <1>10, <1>12
    <3> QED BY <2>1, <2>2, <3>1, <3>2, <3>3
  <2>3. CASE q = Other(p)
    <3>1. Left(q)' = Left(q)
      BY <1>10, <2>3 DEF Left
    <3>2. Left(q) \in Nat /\ Len(entered[q]) \in Nat /\ entered[q] \in Seq(Inputs[q])
      BY Lengths DEF NetInv, PeerInv, Sequences
    <3> QED BY <1>10, <2>1, <2>3, <3>1, <3>2
  <2> QED BY <1>1, <2>2, <2>3
<1>16. Made(p, k)' /\ PacketOf(p, n)' = k
  <2>1. PlayedUpTo(n)' = PlayedUpTo(n)
    <3>1. n <= Len(entered[p]) /\ n <= Len(entered[Other(p)])
      <4>1. /\ n <= Left(Other(p)) /\ Left(Other(p)) <= Len(entered[Other(p)])
            /\ Left(Other(p)) \in Nat /\ Len(entered[Other(p)]) \in Nat
        BY <1>1, <1>2, Lengths
      <4> QED BY <1>4, <4>1
    <3>2. \A q \in Peer : n <= Len(entered[q])
      BY <1>1, <3>1
    <3> QED BY <1>15, <3>2, SamePast DEF Peer
  <2>2. machine[p] = PlayedUpTo(n)
    BY <1>2 DEF NetInv, PeerInv, Played
  <2>3. k = PacketOf(p, n)'
    BY <1>3, <1>4, <1>10, <1>11, <1>12, <2>1, <2>2 DEF Packet, PacketOf
  <2>4. k.frame \in 0 .. Len(entered'[p]) - 1
    BY <1>9, <1>10, <1>12
  <2> QED BY <1>9, <2>3, <2>4 DEF Made
<1>17. SlotsRight(p)' /\ a.fault = "None"
  BY <1>2, <1>3, <1>4, <1>6, <1>9, <1>10, <1>15, <1>16, AcceptedSlots, SMTT(20)
<1>18. Domains' /\ OnlyGone(p) /\ OnlyGone(Other(p))
  BY <1>6, <1>10 DEF NetInv, Domains, OnlyGone
<1>19. PeerInv(Other(p))'
  <2>1. SamePeer(Other(p))
    BY <1>6, <1>10, <1>18 DEF SamePeer, SameTransport
  <2> QED BY <1>1, <1>15, <2>1, QuietOther
<1>20. ToSend(p)'
  <2>1. PICK l \in Nat : l = Left(p)
    BY Lengths
  <2>2. outgoing'[p] = Append(o, k)
    BY <1>10, <1>17
  <2>3. l = n - Len(o) /\ Left(p)' = l
    BY <1>13, <1>14, <2>1, <2>2
  <2>4. Len(outgoing'[p]) <= Len(entered'[p])
    BY <1>10, <1>12, <1>13, <2>2, <2>3
  <2>5. ASSUME NEW i \in 1 .. Len(o) + 1
        PROVE  Append(o, k)[i] = PacketOf(p, l + i - 1)'
    <3>1. CASE i \in 1 .. Len(o)
      <4>1. PICK j \in 0 .. n - 1 : j = l + i - 1
        <5>1. PICK b \in Nat : b = Len(o)
          BY <1>13
        <5>2. i \in 1 .. b /\ l = n - b
          BY <2>3, <3>1, <5>1
        <5>3. l + i - 1 \in 0 .. n - 1
          BY <5>2
        <5> QED BY <5>3
      <4>2. PacketOf(p, j)' = PacketOf(p, j)
        BY <1>4, <1>15, SamePacket
      <4>3. o[i] = PacketOf(p, j)
        BY <1>7, <2>1, <3>1, <4>1 DEF NetInv, PeerInv, ToSend
      <4> QED BY <1>13, <3>1, <4>1, <4>2, <4>3
    <3>2. CASE i = Len(o) + 1
      <4>1. l + i - 1 = n
        BY <1>13, <2>3, <3>2
      <4> QED BY <1>13, <1>16, <3>2, <4>1
    <3> QED BY <1>13, <3>1, <3>2
  <2> QED BY <1>13, <2>2, <2>3, <2>4, <2>5 DEF ToSend
<1>21. OnTheWay(p)' /\ Arrived(p)' /\ Played(p)' /\ PadRight(p)'
  <2>1. Arrived(p)'
    BY <1>6 DEF NetInv, PeerInv, Arrived, Queued, SeenFrame
  <2> QED BY <1>6, <1>15, <2>1, QuietPackets, QuietGame, QuietPad
<1>22. FrameCounts(p)' /\ PeerPlayed(p)' /\ FaultsRight(p)'
  <2>1. FrameCounts(p)'
    <3>1. n <= Frames /\ Frames \in Nat /\ worker[p] = "running"
      BY <1>2, <1>4, Lengths DEF NetInv, PeerInv, FrameCounts, Live
    <3> QED BY <1>2, <1>6, <1>10, <1>11, <1>12, <3>1 DEF FrameCounts, Live
  <2>2. FaultsRight(p)'
    BY <1>6, <1>10, <1>17 DEF NetInv, PeerInv, FaultsRight, Outside
  <2> QED BY <1>10, <2>1, <2>2 DEF PeerPlayed
<1>23. EngineRight(p)' /\ Sequences(p)'
  <2>1. EngineRight(p)'
    BY <1>8, <1>10, <1>11 DEF EngineRight, EngineShape, SlotShape, Bindings
  <2>2. Sequences(p) /\ Packets' = Packets /\ Masks' = Masks
    BY DEF NetInv, PeerInv, Packets, Masks
  <2>3. outgoing'[p] \in Seq(Packets)
    BY <1>8, <1>10, <1>13
  <2> QED BY <1>6, <1>10, <1>12, <2>1, <2>2, <2>3 DEF Sequences
<1>24. PeerInv(p)'
  BY <1>17, <1>20, <1>21, <1>22, <1>23 DEF PeerInv
<1> QED BY <1>1, <1>18, <1>19, <1>24 DEF NetInv

\* The frame is over: the mask of both is what the machine was given.
LEMMA FinishFrameStep ==
  ASSUME NetInv, NEW p \in Peer, FinishFrame(p)
  PROVE  NetInv'
<1>1. Other(p) \in Peer /\ Other(p) # p /\ \A q \in Peer : q = p \/ q = Other(p)
  BY Others
<1>2. PICK n \in Nat : n = Len(machine[p])
  BY Lengths
<1>3. CASE ~MayComplete(engine[p])
  <2>1. /\ SetEngine(p, Fail(engine[p], "ExecutionFailure"))
        /\ UNCHANGED <<pc, machine, pad, entered, transport, network>>
    BY <1>3 DEF FinishFrame
  <2> QED BY <2>1, ExecutionFailureStep
<1>4. CASE MayComplete(engine[p])
  <2>1. /\ pc[p] = "run" /\ incoming[p] = <<>> /\ pad[p] # NoInput /\ Complete(engine[p])
        /\ engine[p].fault = "None"
        /\ SetEngine(p, CompleteFrame(engine[p]))
        /\ machine' = [machine EXCEPT ![p] = Append(@, pad[p])]
        /\ pad' = [pad EXCEPT ![p] = NoInput]
        /\ Goto(p, "submit")
        /\ UNCHANGED <<entered, transport, network>>
    BY <1>4 DEF FinishFrame, Pumped, MayComplete
  <2>2. /\ \A q \in Peer : n < Len(entered[q])
        /\ n < Left(Other(p)) /\ (worker[p] = "running" => SeenFrame(p, n))
        /\ Current(engine[p]) \in SlotsOf(engine[p])
    BY <1>2, <2>1, CurrentPackets
  <2>3. /\ machine[p] \in Seq(Masks) /\ machine[p] = PlayedUpTo(n)
        /\ pad[p] = entered[0][n + 1] \cup entered[1][n + 1]
        /\ Len(entered[p]) = n + 1 /\ n < Frames /\ engine[p].next = n
        /\ worker[p] = "running"
    BY <1>2, <2>1 DEF NetInv, PeerInv, Sequences, Played, PadRight, FrameCounts, Live
  <2>4. pad[p] \in Masks
    <3>1. \A q \in Peer : entered[q][n + 1] \in Inputs[q]
      <4>1. \A q \in Peer : n + 1 \in 1 .. Len(entered[q]) /\ entered[q] \in Seq(Inputs[q])
        BY <2>2, Lengths DEF NetInv, PeerInv, Sequences
      <4> QED BY <4>1, ElementOfSeq
    <3> QED BY <2>3, <3>1 DEF Masks, Peer
  <2>5. PICK s : s = machine[p]
    OBVIOUS
  <2>6. /\ Append(s, pad[p]) \in Seq(Masks) /\ Len(s) = n /\ Len(Append(s, pad[p])) = n + 1
        /\ \A i \in 1 .. n : Append(s, pad[p])[i] = s[i]
        /\ Append(s, pad[p])[n + 1] = pad[p]
    <3>1. /\ Append(s, pad[p]) \in Seq(Masks) /\ Len(Append(s, pad[p])) = Len(s) + 1
          /\ \A i \in 1 .. Len(s) : Append(s, pad[p])[i] = s[i]
          /\ Append(s, pad[p])[Len(s) + 1] = pad[p]
      BY <2>3, <2>4, <2>5, Appended
    <3> QED BY <1>2, <2>5, <3>1
  <2>7. Append(s, pad[p]) = PlayedUpTo(n + 1)
    <3>1. \A i \in 1 .. n + 1 : i \in 1 .. n \/ i = n + 1
      OBVIOUS
    <3>2. \A i \in 1 .. n : s[i] = entered[0][i] \cup entered[1][i]
      BY <2>3, <2>5 DEF PlayedUpTo
    <3>3. \A i \in 1 .. n + 1 : Append(s, pad[p])[i] = entered[0][i] \cup entered[1][i]
      BY <2>3, <2>6, <3>1, <3>2
    <3>4. Append(s, pad[p]) \in [1 .. n + 1 -> Masks]
      BY <2>6, LenProperties
    <3> QED BY <3>3, <3>4 DEF PlayedUpTo
  <2>8. PICK e : e = CompleteFrame(engine[p])
    OBVIOUS
  <2>9. /\ engine'[p] = e /\ engine'[Other(p)] = engine[Other(p)]
        /\ machine'[p] = Append(s, pad[p]) /\ machine'[Other(p)] = machine[Other(p)]
        /\ pad'[p] = NoInput /\ pad'[Other(p)] = pad[Other(p)]
        /\ pc'[p] = "submit" /\ pc'[Other(p)] = pc[Other(p)] /\ Domains'
    BY <1>1, <2>1, <2>5, <2>8 DEF SetEngine, Goto, NetInv, Domains, transport
  <2>10. /\ EngineShape(e) /\ e.binding = engine[p].binding /\ e.next = n + 1
         /\ e.fault = "None" /\ SlotsOf(e) \subseteq SlotsOf(engine[p])
    <3>1. PICK c : c = Current(engine[p])
      OBVIOUS
    <3>2. SlotShape(c) /\ EngineShape(engine[p])
      BY <2>2, <3>1, ShapeOfEngine DEF SlotsOf, EngineShape
    <3>3. PICK h : h = [engine[p].history EXCEPT ![engine[p].next % Window] = c]
      OBVIOUS
    <3>4. /\ DOMAIN h = Slots
          /\ \A i \in Slots : h[i] = engine[p].history[i] \/ h[i] = c
      BY <3>2, <3>3 DEF EngineShape
    <3>5. /\ e.history = h /\ e.frames = engine[p].frames /\ e.next = n + 1
          /\ e.binding = engine[p].binding /\ e.fault = engine[p].fault
          /\ DOMAIN e = DOMAIN engine[p]
      BY <2>3, <2>8, <3>1, <3>2, <3>3 DEF CompleteFrame, EngineShape, Fields
    <3>6. EngineShape(e)
      BY <3>2, <3>4, <3>5 DEF EngineShape
    <3>7. SlotsOf(e) \subseteq SlotsOf(engine[p])
      BY <2>2, <3>1, <3>4, <3>5 DEF SlotsOf
    <3> QED BY <2>1, <3>5, <3>6, <3>7
  <2>11. /\ entered' = entered /\ outgoing' = outgoing /\ incoming' = incoming
         /\ failure' = failure /\ worker' = worker /\ cache' = cache
         /\ receivedCache' = receivedCache /\ network' = network
    BY <2>1 DEF transport
  <2>12. \A q \in Peer : Left(q)' = Left(q)
    BY <2>11 DEF Left
  <2>13. Grows
    <3> SUFFICES ASSUME NEW q \in Peer
                 PROVE  /\ engine'[q].binding = engine[q].binding
                        /\ entered'[q] \in Seq(Inputs[q])
                        /\ Len(entered[q]) <= Len(entered'[q])
                        /\ Left(q) <= Left(q)'
                        /\ Len(machine[q]) <= Len(machine'[q]) /\ Len(machine'[q]) <= Frames
      BY <2>11 DEF Grows
    <3>1. entered[q] \in Seq(Inputs[q])
      BY DEF NetInv, PeerInv, Sequences
    <3>2. Left(q) \in Nat /\ Len(entered[q]) \in Nat /\ Len(machine[q]) \in Nat
          /\ Len(machine[q]) <= Frames /\ Frames \in Nat
      BY Lengths
    <3>3. engine'[q].binding = engine[q].binding
      BY <1>1, <2>9, <2>10
    <3>4. Len(machine[q]) <= Len(machine'[q]) /\ Len(machine'[q]) <= Frames
      <4>1. CASE q = p
        <5>1. Len(machine[q]) = n /\ Len(machine'[q]) = n + 1
          BY <1>2, <2>6, <2>9, <4>1
        <5>2. n <= n + 1 /\ n + 1 <= Frames
          BY <2>3, <3>2
        <5> QED BY <5>1, <5>2
      <4>2. CASE q = Other(p)
        BY <2>9, <3>2, <4>2
      <4> QED BY <1>1, <4>1, <4>2
    <3> QED BY <2>11, <2>12, <3>1, <3>2, <3>3, <3>4
  <2>14. OnlyGone(p) /\ OnlyGone(Other(p))
    BY <2>11 DEF OnlyGone
  <2>15. PeerInv(Other(p))'
    <3>1. SamePeer(Other(p))
      BY <2>9, <2>11, <2>14 DEF SamePeer, SameTransport
    <3> QED BY <1>1, <2>13, <3>1, QuietOther
  <2>16. Played(p)'
    <3>1. PlayedUpTo(n + 1)' = PlayedUpTo(n + 1)
      BY <2>11 DEF PlayedUpTo
    <3>2. Len(machine'[p]) <= Left(Other(p))'
      BY <1>1, <2>2, <2>6, <2>9, <2>12, Lengths
    <3>3. (machine[p] = PlayedUpTo(Len(machine[p])))'
      BY <2>6, <2>7, <2>9, <3>1 DEF PlayedUpTo
    <3> QED BY <3>2, <3>3 DEF Played
  <2>17. Arrived(p)'
    <3>1. Arrived(p)
      BY DEF NetInv, PeerInv
    <3>2. \A m \in 0 .. n : SeenFrame(p, m)
      <4>1. \A m \in 0 .. n : m \in 0 .. n - 1 \/ m = n
        OBVIOUS
      <4> QED BY <1>2, <2>2, <2>3, <3>1, <4>1 DEF Arrived
    <3>3. \A m \in 0 .. Len(machine'[p]) - 1 : SeenFrame(p, m)'
      BY <2>6, <2>9, <2>11, <3>2 DEF SeenFrame
    <3>4. Queued(incoming[p])' = {} /\ 1 .. Len(incoming'[p]) = {}
      BY <2>1, <2>11, NothingHeld
    <3> QED BY <3>3, <3>4 DEF Arrived
  <2>18. SlotsRight(p)' /\ OnTheWay(p)' /\ ToSend(p)' /\ PadRight(p)'
    <3>1. \A m \in Nat : SeenFrame(p, m) => SeenFrame(p, m)'
      BY <2>11 DEF SeenFrame
    <3>2. SlotsRight(p)'
      BY <2>9, <2>10, <2>11, <2>13, <3>1, QuietSlots
    <3>3. PadRight(p)'
      BY <2>9 DEF PadRight
    <3> QED BY <2>11, <2>13, <3>2, <3>3, QuietPackets, QuietQueues
  <2>19. FrameCounts(p)' /\ PeerPlayed(p)' /\ FaultsRight(p)'
    <3>1. FrameCounts(p)'
      BY <2>3, <2>6, <2>9, <2>10, <2>11, FramesAssumption DEF FrameCounts, Live
    <3>2. FaultsRight(p)'
      BY <2>9, <2>10, <2>11 DEF NetInv, PeerInv, FaultsRight, Outside
    <3> QED BY <2>9, <3>1, <3>2 DEF PeerPlayed
  <2>20. EngineRight(p)' /\ Sequences(p)'
    <3>1. engine[p].binding \in Bindings
      BY DEF NetInv, PeerInv, EngineRight
    <3>2. EngineRight(p)'
      BY <2>9, <2>10, <3>1 DEF EngineRight, EngineShape, SlotShape, Bindings
    <3>3. Sequences(p) /\ Packets' = Packets /\ Masks' = Masks
      BY DEF NetInv, PeerInv, Packets, Masks
    <3> QED BY <2>6, <2>9, <2>11, <3>2, <3>3 DEF Sequences
  <2>21. PeerInv(p)'
    BY <2>16, <2>17, <2>18, <2>19, <2>20 DEF PeerInv
  <2> QED BY <1>1, <2>9, <2>15, <2>21 DEF NetInv
<1> QED BY <1>3, <1>4
-----------------------------------------------------------------------------
(* The invariant holds, and what follows from it.                           *)

LEMMA NetInit ==
  Init => NetInv
<1> SUFFICES ASSUME Init PROVE NetInv
  OBVIOUS
<1>1. PICK b \in BindingChoices : engine = [p \in Peer |-> NewEngine(b[p])]
  BY DEF Init
<1>2. Domains
  BY <1>1 DEF Init, Domains
<1> SUFFICES ASSUME NEW p \in Peer PROVE PeerInv(p)
  BY <1>2 DEF NetInv
<1>3. Other(p) \in Peer
  BY Others
<1>4. \A q \in Peer :
        /\ pc[q] = "submit" /\ machine[q] = <<>> /\ pad[q] = NoInput /\ entered[q] = <<>>
        /\ incoming[q] = <<>> /\ outgoing[q] = <<>> /\ failure[q] = "None"
        /\ worker[q] = "running" /\ cache[q] = NoPackets /\ receivedCache[q] = NoPackets
        /\ network[q] = {} /\ engine[q] = NewEngine(b[q])
  BY <1>1 DEF Init
<1>5. \A S : <<>> \in Seq(S)
  BY EmptySeq
<1>6. Len(<<>>) = 0 /\ Queued(<<>>) = {} /\ Held(NoPackets) = {}
  BY NothingHeld
<1>7. /\ EngineShape(NewEngine(b[p])) /\ NewEngine(b[p]).binding = b[p]
      /\ NewEngine(b[p]).next = 0 /\ NewEngine(b[p]).fault = "None"
      /\ \A slot \in SlotsOf(NewEngine(b[p])) : \A r \in Peer : slot.packets[r] = NoPacket
  BY DEF NewEngine, EngineShape, Fields, SlotShape, EmptySlot, SlotsOf, Slots
<1>8. EngineRight(p)
  BY <1>4, <1>7 DEF EngineRight, Bindings
<1>9. Sequences(p)
  BY <1>4, <1>5 DEF Sequences, NoPackets
<1>10. FrameCounts(p) /\ PeerPlayed(p)
  BY <1>4, <1>6, <1>7, FramesAssumption DEF FrameCounts, PeerPlayed, Live
<1>11. Played(p)
  <2>1. PlayedUpTo(0) = <<>>
    <3>1. PlayedUpTo(0) \in [1 .. 0 -> Masks] /\ <<>> \in [1 .. 0 -> Masks]
      <4>1. 1 .. 0 = {}
        OBVIOUS
      <4>2. <<>> \in Seq(Masks) /\ Len(<<>>) = 0
        BY EmptySeq
      <4>3. <<>> \in [1 .. Len(<<>>) -> Masks]
        BY <4>2, LenProperties
      <4>4. PlayedUpTo(0) \in [1 .. 0 -> Masks]
        BY <4>1 DEF PlayedUpTo
      <4> QED BY <4>2, <4>3, <4>4
    <3>2. 1 .. 0 = {}
      OBVIOUS
    <3> QED BY <3>1, <3>2
  <2>2. Left(Other(p)) = 0
    <3>1. Len(entered[Other(p)]) = 0 /\ Len(outgoing[Other(p)]) = 0
      BY <1>3, <1>4, <1>6
    <3> QED BY <3>1 DEF Left
  <2>3. Len(machine[p]) = 0
    BY <1>4, <1>6
  <2> QED BY <1>4, <2>1, <2>2, <2>3 DEF Played
<1>12. PadRight(p) /\ ToSend(p) /\ OnTheWay(p) /\ FaultsRight(p) /\ Arrived(p)
  <2>1. ToSend(p)
    BY <1>4, <1>6 DEF ToSend
  <2>2. OnTheWay(p)
    BY <1>4, <1>6 DEF OnTheWay
  <2>3. Arrived(p)
    BY <1>4, <1>6 DEF Arrived
  <2>4. FaultsRight(p)
    BY <1>4, <1>7 DEF FaultsRight, Outside
  <2> QED BY <1>4, <2>1, <2>2, <2>3, <2>4 DEF PadRight
<1>13. SlotsRight(p)
  BY <1>4, <1>7 DEF SlotsRight, SlotRight
<1> QED BY <1>8, <1>9, <1>10, <1>11, <1>12, <1>13 DEF PeerInv

LEMMA NetStutter ==
  ASSUME NetInv, UNCHANGED vars
  PROVE  NetInv'
<1>1. /\ pc' = pc /\ engine' = engine /\ machine' = machine /\ pad' = pad /\ entered' = entered
      /\ incoming' = incoming /\ outgoing' = outgoing /\ failure' = failure
      /\ published' = published /\ worker' = worker /\ cache' = cache
      /\ receivedCache' = receivedCache /\ network' = network
  BY DEF vars, lane, transport
<1>2. Grows
  BY <1>1, Lengths, QuietGrows
<1>3. \A q \in Peer : SamePeer(q)
  BY <1>1 DEF SamePeer, SameTransport, OnlyGone
<1>4. \A q \in Peer : PeerInv(q)'
  BY <1>2, <1>3, QuietOther
<1>5. Domains'
  BY <1>1 DEF NetInv, Domains
<1> QED BY <1>4, <1>5 DEF NetInv

LEMMA NetNext ==
  NetInv /\ [Next]_vars => NetInv'
<1> SUFFICES ASSUME NetInv, [Next]_vars PROVE NetInv'
  OBVIOUS
<1>1. ASSUME NEW p \in Peer, LaneStep(p) PROVE NetInv'
  <2>1. CASE PumpFault(p)
    BY <2>1, PumpFaultStep
  <2>2. CASE PumpAccept(p)
    BY <2>2, PumpAcceptStep
  <2>3. ASSUME NEW m \in Inputs[p], SubmitLocal(p, m) PROVE NetInv'
    BY <2>3, SubmitLocalStep
  <2>4. CASE StartFrame(p)
    BY <2>4, StartFrameStep
  <2>5. CASE FinishFrame(p)
    BY <2>5, FinishFrameStep
  <2>6. CASE Acknowledge(p)
    BY <2>6, AcknowledgeStep
  <2>7. CASE Throw(p)
    BY <2>7, ThrowStep
  <2> QED BY <1>1, <2>1, <2>2, <2>3, <2>4, <2>5, <2>6, <2>7 DEF LaneStep
<1>2. ASSUME NEW p \in Peer, ExecutionFailure(p) PROVE NetInv'
  BY <1>2, ExecutionFailureStep DEF ExecutionFailure
<1>3. ASSUME NEW p \in Peer, WorkerSend(p) PROVE NetInv'
  BY <1>3, WorkerSendStep
<1>4. ASSUME NEW p \in Peer, WorkerRetry(p) PROVE NetInv'
  BY <1>4, WorkerRetryStep
<1>5. ASSUME NEW p \in Peer, NEW k \in network[p], WorkerReceive(p, k) PROVE NetInv'
  BY <1>5, WorkerReceiveStep
<1>6. ASSUME NEW p \in Peer, WorkerFail(p) PROVE NetInv'
  BY <1>6, WorkerFailStep
<1>7. CASE UNCHANGED vars
  BY <1>7, NetStutter
<1> QED BY <1>1, <1>2, <1>3, <1>4, <1>5, <1>6, <1>7 DEF Next

LEMMA NetInvariant ==
  Spec => []NetInv
<1>1. Init => NetInv
  BY NetInit
<1>2. NetInv /\ [Next]_vars => NetInv'
  BY NetNext
<1> QED BY <1>1, <1>2, PTL DEF Spec

\* Datagrams that are lost, repeated or overtaken fault nobody: the window and the two
\* queues (LockstepEngine::accept, RemoteTransport) never overflow, no replayed packet
\* is a conflict and the digests of the peers agree.
THEOREM NetworkFaultsNobody == Spec => []NoFalseFault
<1>1. NetInv => NoFalseFault
  BY DEF NetInv, PeerInv, FaultsRight, NoFalseFault
<1> QED BY <1>1, NetInvariant, PTL

\* Who leaves main.cpp with "passed" has a peer that played all the frames and whose
\* machine is the same.
THEOREM PassedTogether == Spec => []PassedMeansPeerPlayed
<1>1. NetInv => PassedMeansPeerPlayed
  <2> SUFFICES ASSUME NetInv, NEW p \in Peer, pc[p] = "done"
               PROVE  Len(machine[Other(p)]) = Frames /\ machine[0] = machine[1]
    BY DEF PassedMeansPeerPlayed
  <2>1. Len(machine[p]) = Frames /\ Len(machine[Other(p)]) = Frames
    BY DEF NetInv, PeerInv, PeerPlayed
  <2>2. \A q \in Peer : machine[q] = PlayedUpTo(Len(machine[q]))
    BY DEF NetInv, PeerInv, Played
  <2>3. machine[p] = machine[Other(p)] /\ Other(p) \in Peer
    BY <2>1, <2>2, Others
  <2> QED BY <2>1, <2>3 DEF Peer, Other
<1> QED BY <1>1, NetInvariant, PTL

\* A step of the two processes enters a mask, plays a frame, or is none of the game.
LEMMA StepOfTheGame ==
  NetInv /\ [Next]_vars => [Game!Next]_(Game!vars)
<1> SUFFICES ASSUME NetInv, [Next]_vars PROVE Game!Next \/ UNCHANGED Game!vars
  OBVIOUS
<1>1. ASSUME NEW p \in Peer, NEW m \in Inputs[p], SubmitLocal(p, m) PROVE Game!Next
  <2>1. Len(entered[p]) = Len(machine[p])
    BY <1>1 DEF SubmitLocal, NetInv, PeerInv, FrameCounts
  <2>2. Game!Enter(p, m)
    BY <1>1, <2>1 DEF SubmitLocal, Game!Enter
  <2> QED BY <2>2 DEF Game!Next, Game!Player, Peer
<1>2. ASSUME NEW p \in Peer, FinishFrame(p) PROVE Game!Next \/ UNCHANGED Game!vars
  <2>1. CASE MayComplete(engine[p])
    <3>1. PICK n \in Nat : n = Len(machine[p])
      BY Lengths
    <3>2. /\ pc[p] = "run" /\ pad[p] # NoInput /\ UNCHANGED entered
          /\ machine' = [machine EXCEPT ![p] = Append(@, pad[p])]
      BY <1>2, <2>1 DEF FinishFrame
    <3>3. /\ \A q \in Peer : n < Len(entered[q])
          /\ pad[p] = entered[0][n + 1] \cup entered[1][n + 1] /\ n < Frames
      BY <3>1, <3>2 DEF NetInv, PeerInv, PadRight, FrameCounts
    <3>4. n + 1 <= Frames /\ \A q \in Peer : n + 1 <= Len(entered[q])
      BY <3>3, Lengths
    <3>5. Game!Play(p)
      BY <3>1, <3>2, <3>3, <3>4 DEF Game!Play, Game!Player, Peer
    <3> QED BY <3>5 DEF Game!Next, Game!Player, Peer
  <2>2. CASE ~MayComplete(engine[p])
    BY <1>2, <2>2 DEF FinishFrame, Game!vars
  <2> QED BY <2>1, <2>2
<1>3. ASSUME NEW p \in Peer, LaneStep(p) PROVE Game!Next \/ UNCHANGED Game!vars
  <2>1. CASE PumpFault(p) \/ PumpAccept(p) \/ StartFrame(p) \/ Acknowledge(p) \/ Throw(p)
    BY <2>1 DEF PumpFault, PumpAccept, StartFrame, Acknowledge, Throw, Game!vars
  <2> QED BY <1>1, <1>2, <1>3, <2>1 DEF LaneStep
<1>4. ASSUME NEW p \in Peer,
             \/ WorkerSend(p) \/ WorkerRetry(p) \/ (\E k \in network[p] : WorkerReceive(p, k))
             \/ ExecutionFailure(p) \/ WorkerFail(p)
      PROVE  UNCHANGED Game!vars
  BY <1>4 DEF WorkerSend, WorkerRetry, WorkerReceive, ExecutionFailure, WorkerFail, lane, Game!vars
<1>5. CASE UNCHANGED vars
  BY <1>5 DEF vars, lane, Game!vars
<1> QED BY <1>3, <1>4, <1>5 DEF Next

\* The two processes of netplay play the one game of SharedGame: a frame is played by
\* both with the masks both submitted for that frame, whatever becomes of the datagrams.
THEOREM TwoPeersOneGame == Spec => ImplementsSharedGame
<1>1. Init => Game!Init
  BY DEF Init, Game!Init, Game!Player, Peer
<1>2. NetInv /\ [Next]_vars => [Game!Next]_(Game!vars)
  BY StepOfTheGame
<1> QED BY <1>1, <1>2, NetInvariant, PTL DEF Spec, ImplementsSharedGame, Game!Spec
=============================================================================
