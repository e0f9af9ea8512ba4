------------------------------ MODULE Netplay -------------------------------
(***************************************************************************)
(* Two netplay processes (src/machine/plugins/input/netplay): each is the  *)
(* loop of main.cpp driving a LockstepService on its machine lane and the  *)
(* worker thread of its RemoteTransport, joined by two single-producer     *)
(* queues; between the processes there are datagrams that may be lost,     *)
(* repeated and reordered.                                                 *)
(*                                                                         *)
(* The machine is deterministic and its digest injective, so the machine   *)
(* of a peer is the sequence of the inputs its frames were played with, and*)
(* so is its digest.                                                       *)
(*                                                                         *)
(* pump (read the transport's fault, pop until the queue is empty) starts  *)
(* every call of the service.  It is PumpFault and PumpAccept here, and an *)
(* operation needs Pumped: what the worker does between the last empty pop *)
(* and the end of the operation commutes with the operation.               *)
(***************************************************************************)
EXTENDS LockstepEngine, Integers, Sequences, FiniteSetsExt

CONSTANTS
  Frames,          \* --frames
  Inputs,          \* Inputs[p] = the masks the caller of peer p may submit
  QueueCapacity,   \* capacity of incoming and of outgoing: 64 in the code
  BindingChoices,  \* how the two processes may have been configured
  NoInput          \* no input is published: started_ is false

ASSUME FramesAssumption == Frames \in Nat \ {0}
ASSUME CapacityAssumption == QueueCapacity \in Nat /\ QueueCapacity >= 2
ASSUME InputsAssumption == /\ DOMAIN Inputs = Peer
                           /\ \A p \in Peer : {} \in Inputs[p] /\ NoInput \notin Inputs[p]

\* The masks a frame may be played with, and the packets there can be.
Masks == {a \cup b : a \in Inputs[0], b \in Inputs[1]}
Bindings == {b[p] : b \in BindingChoices, p \in Peer}
Packets == [binding : Bindings, frame : Nat, before : Seq(Masks),
            input : Inputs[0] \cup Inputs[1], peer : Peer]

ASSUME NoPacketAssumption == NoPacket \notin Packets

VARIABLES
  pc,              \* where main.cpp is: submit, run, ack, done or failed
  engine,          \* engine_
  machine,         \* inputs of the frames played: machine_, and its digest before_
  pad,             \* the input published for the running frame (adapter_->input, started_)
  entered,         \* the masks submitLocal was given, frame by frame
  incoming, outgoing,   \* the queues between the lane and the worker
  failure,         \* Impl::failure
  published,       \* publishedFrame, -1 until publishedAny
  worker,          \* Impl::run: running, or stopped and joined
  cache,           \* cache: packets sent, by frame modulo the window
  receivedCache,   \* receivedCache
  network          \* network[p] = datagrams on their way to p

lane == <<pc, engine, machine, pad, entered>>
transport == <<incoming, outgoing, failure, published, worker, cache, receivedCache>>
vars == <<lane, transport, network>>

Other(p) == 1 - p
Slots == 0..(Window - 1)
NoPackets == [i \in Slots |-> NoPacket]
Packet(p, m) == [binding |-> engine[p].binding, frame |-> engine[p].next,
                 before |-> machine[p], input |-> m, peer |-> p]

Init ==
  /\ pc = [p \in Peer |-> "submit"]
  /\ \E b \in BindingChoices : engine = [p \in Peer |-> NewEngine(b[p])]
  /\ machine = [p \in Peer |-> <<>>]
  /\ pad = [p \in Peer |-> NoInput]
  /\ entered = [p \in Peer |-> <<>>]
  /\ incoming = [p \in Peer |-> <<>>]
  /\ outgoing = [p \in Peer |-> <<>>]
  /\ failure = [p \in Peer |-> "None"]
  /\ published = [p \in Peer |-> -1]
  /\ worker = [p \in Peer |-> "running"]
  /\ cache = [p \in Peer |-> NoPackets]
  /\ receivedCache = [p \in Peer |-> NoPackets]
  /\ network = [p \in Peer |-> {}]

-----------------------------------------------------------------------------
(* The machine lane: main.cpp and LockstepService.                          *)

Live(p) == pc[p] \notin {"done", "failed"}

Pumped(p) == failure[p] = "None" /\ incoming[p] = <<>> /\ engine[p].fault = "None"

SetEngine(p, e) == engine' = [engine EXCEPT ![p] = e]
Goto(p, l) == pc' = [pc EXCEPT ![p] = l]

\* Mutant: pump does not look at the transport's fault.
PumpFault_Ignored(p) == Live(p) /\ failure[p] # "None" /\ FALSE /\ UNCHANGED vars

\* pump: a transport that has failed fails the engine.
PumpFault(p) ==
  /\ Live(p)
  /\ failure[p] # "None" /\ engine[p].fault = "None"
  /\ SetEngine(p, Fail(engine[p], failure[p]))
  /\ UNCHANGED <<pc, machine, pad, entered, transport, network>>

\* pump: pop one packet and acceptRemote it.
PumpAccept(p) ==
  /\ Live(p)
  /\ failure[p] = "None" /\ engine[p].fault = "None" /\ incoming[p] # <<>>
  /\ SetEngine(p, IF Head(incoming[p]).peer = p
                  THEN Fail(engine[p], "InvalidPacket")
                  ELSE Accept(engine[p], Head(incoming[p])))
  /\ incoming' = [incoming EXCEPT ![p] = Tail(@)]
  /\ UNCHANGED <<pc, machine, pad, entered, outgoing, failure, published, worker,
                 cache, receivedCache, network>>

(***************************************************************************)
(* submitLocal: the packet of the next frame goes to the engine and to the *)
(* worker.  After the last frame main.cpp submits one more packet, with no *)
(* input, that tells the peer which state was reached.                     *)
(***************************************************************************)
SubmitLocal(p, m) ==
  LET e == Accept(engine[p], Packet(p, m))
      full == Len(outgoing[p]) = QueueCapacity
      last == engine[p].next = Frames
  IN
  /\ pc[p] = "submit" /\ Pumped(p) /\ pad[p] = NoInput
  /\ last => m = {}
  /\ SetEngine(p, IF e.fault = "None" /\ full THEN Fail(e, "HandoffOverflow") ELSE e)
  /\ IF e.fault = "None" /\ full
     THEN failure' = [failure EXCEPT ![p] = "HandoffOverflow"] /\ UNCHANGED outgoing
     ELSE /\ outgoing' = [outgoing EXCEPT ![p] =
                            IF e.fault = "None" THEN Append(@, Packet(p, m)) ELSE @]
          /\ UNCHANGED failure
  /\ entered' = [entered EXCEPT ![p] = Append(@, m)]
  /\ Goto(p, IF last THEN "ack" ELSE "run")
  /\ UNCHANGED <<machine, pad, incoming, published, worker, cache, receivedCache, network>>

\* run, not started: publish the input of the frame once both packets agree.
StartFrame(p) ==
  LET e == Ready(engine[p], machine[p]) IN
  /\ pc[p] = "run" /\ Pumped(p) /\ pad[p] = NoInput
  /\ Complete(engine[p])
  /\ SetEngine(p, e)
  /\ pad' = [pad EXCEPT ![p] = IF e.ready THEN ReadyInput(e) ELSE @]
  /\ UNCHANGED <<pc, machine, entered, transport, network>>

\* run, started: the instructions of the frame, up to the one that ends it.
FinishFrame(p) ==
  /\ pc[p] = "run" /\ Pumped(p) /\ pad[p] # NoInput
  /\ IF MayComplete(engine[p])
     THEN /\ SetEngine(p, CompleteFrame(engine[p]))
          /\ machine' = [machine EXCEPT ![p] = Append(@, pad[p])]
          /\ pad' = [pad EXCEPT ![p] = NoInput]
          /\ Goto(p, "submit")
     ELSE /\ SetEngine(p, Fail(engine[p], "ExecutionFailure"))
          /\ UNCHANGED <<machine, pad, pc>>
  /\ UNCHANGED <<entered, transport, network>>

\* run: an instruction throws, or retires no cycle, or too many (FrameOverrun).
ExecutionFailure(p) ==
  /\ pc[p] = "run" /\ Pumped(p) /\ pad[p] # NoInput
  /\ SetEngine(p, Fail(engine[p], "ExecutionFailure"))
  /\ UNCHANGED <<pc, machine, pad, entered, transport, network>>

\* The transport's destructor: stop, join the worker, close the socket.
StopTransport(p) ==
  /\ worker' = [worker EXCEPT ![p] = "stopped"]
  /\ failure' = [failure EXCEPT ![p] = "Disconnected"]
  /\ incoming' = [incoming EXCEPT ![p] = <<>>]
  /\ outgoing' = [outgoing EXCEPT ![p] = <<>>]
  /\ cache' = [cache EXCEPT ![p] = NoPackets]
  /\ receivedCache' = [receivedCache EXCEPT ![p] = NoPackets]
  /\ network' = [network EXCEPT ![p] = {}]
  /\ UNCHANGED published

\* Mutant: only the transmission of the last packet is waited for.
Acknowledge_OnTransmit(p) ==
  /\ pc[p] = "ack" /\ Pumped(p)
  /\ published[p] >= Frames
  /\ SetEngine(p, Fail(engine[p], "Disconnected"))
  /\ Goto(p, "done")
  /\ StopTransport(p)
  /\ UNCHANGED <<machine, pad, entered>>

\* acknowledged, and hasTransmittedFrame of the last packet: the session passed.
Acknowledge(p) ==
  LET e == Ready(engine[p], machine[p]) IN
  /\ pc[p] = "ack" /\ Pumped(p)
  /\ Complete(engine[p])
  /\ IF e.fault # "None"
     THEN SetEngine(p, e) /\ UNCHANGED <<pc, transport, network>>
     ELSE /\ published[p] >= Frames
          /\ SetEngine(p, Fail(e, "Disconnected"))
          /\ Goto(p, "done")
          /\ StopTransport(p)
  /\ UNCHANGED <<machine, pad, entered>>

\* A fault of the engine ends every loop of main.cpp with an exception.
Throw(p) ==
  /\ Live(p) /\ engine[p].fault # "None"
  /\ Goto(p, "failed")
  /\ StopTransport(p)
  /\ UNCHANGED <<engine, machine, pad, entered>>

-----------------------------------------------------------------------------
(***************************************************************************)
(* The worker: Impl::run.  A round of its loop sends what the lane queued, *)
(* receives what has come (up to 64 datagrams, perhaps none) and replays   *)
(* the cache when its time has come; rounds being this short, sends,       *)
(* receives and replays follow each other in any order.                    *)
(***************************************************************************)

Working(p) == worker[p] = "running" /\ failure[p] = "None"

(***************************************************************************)
(* transmit: of the packets S, sendto takes those of "sent" (the others    *)
(* would block) and the network delivers those of "arrive", if there still *)
(* is a socket to deliver them to.                                         *)
(***************************************************************************)
Transmit(p, sent, arrive) ==
  /\ published' = [published EXCEPT ![p] = Max({@} \cup {k.frame : k \in sent})]
  /\ network' = [network EXCEPT ![Other(p)] =
                    IF worker[Other(p)] = "stopped" THEN @ ELSE @ \cup arrive]

TransmitSome(p, S) == \E sent \in SUBSET S : \E arrive \in SUBSET sent : Transmit(p, sent, arrive)

\* Mutant: the packet is sent but not kept for the replay.
WorkerSend_NotCached(p) ==
  /\ Working(p) /\ outgoing[p] # <<>>
  /\ outgoing' = [outgoing EXCEPT ![p] = Tail(@)]
  /\ TransmitSome(p, {Head(outgoing[p])})
  /\ UNCHANGED <<lane, incoming, failure, worker, cache, receivedCache>>

\* Pop a packet of the machine lane, cache it, send it.
WorkerSend(p) ==
  LET k == Head(outgoing[p])
      i == k.frame % Window
      older == cache[p][i] # NoPacket /\ k.frame < cache[p][i].frame
  IN
  /\ Working(p) /\ outgoing[p] # <<>>
  /\ outgoing' = [outgoing EXCEPT ![p] = Tail(@)]
  /\ cache' = [cache EXCEPT ![p][i] = IF older THEN @ ELSE k]
  /\ TransmitSome(p, IF older THEN {} ELSE {k})
  /\ UNCHANGED <<lane, incoming, failure, worker, receivedCache>>

\* recvmsg returns a datagram, which the network may deliver again.
Seen(p, k) ==
  LET seen == receivedCache[p][k.frame % Window]
  IN seen # NoPacket /\ (seen = k \/ k.frame < seen.frame)

WorkerReceive(p, k) ==
  /\ Working(p)
  /\ \E again \in BOOLEAN :
       /\ network' = [network EXCEPT ![p] = IF again THEN @ ELSE @ \ {k}]
       /\ IF Seen(p, k)
          THEN UNCHANGED <<incoming, receivedCache, failure>>
          ELSE IF Len(incoming[p]) = QueueCapacity
          THEN /\ failure' = [failure EXCEPT ![p] = "HandoffOverflow"]
               /\ UNCHANGED <<incoming, receivedCache>>
          ELSE /\ incoming' = [incoming EXCEPT ![p] = Append(@, k)]
               /\ receivedCache' = [receivedCache EXCEPT ![p][k.frame % Window] = k]
               /\ UNCHANGED failure
  /\ UNCHANGED <<lane, outgoing, published, worker, cache>>

\* The socket fails, a datagram does not decode, or nothing came for the timeout.
WorkerFail(p) ==
  /\ Working(p)
  /\ failure' = [failure EXCEPT ![p] = "Disconnected"]
  /\ UNCHANGED <<lane, incoming, outgoing, published, worker, cache, receivedCache, network>>

\* 100 ms have passed: the whole cache is sent again.
Cached(p) == {cache[p][i] : i \in Slots} \ {NoPacket}

WorkerRetry(p) ==
  /\ Working(p)
  /\ TransmitSome(p, Cached(p))
  /\ UNCHANGED <<lane, incoming, outgoing, failure, worker, cache, receivedCache>>

-----------------------------------------------------------------------------
LaneStep(p) ==
  \/ PumpFault(p)
  \/ PumpAccept(p)
  \/ \E m \in Inputs[p] : SubmitLocal(p, m)
  \/ StartFrame(p)
  \/ FinishFrame(p)
  \/ Acknowledge(p)
  \/ Throw(p)

Next == \E p \in Peer :
  \/ LaneStep(p)
  \/ WorkerSend(p)
  \/ WorkerRetry(p)
  \/ \E k \in network[p] : WorkerReceive(p, k)
  \/ ExecutionFailure(p)
  \/ WorkerFail(p)

(***************************************************************************)
(* Both threads of a process keep running, and a round of the worker ends  *)
(* (it takes at most 64 datagrams).  A packet replayed again and again gets*)
(* through; one on its way is received; a worker whose peer is gone times  *)
(* out (the copies of a datagram end).                                     *)
(***************************************************************************)
ReceiveNew(p) == \E k \in network[p] : ~Seen(p, k) /\ WorkerReceive(p, k)

RetryThrough(p) ==
  LET new == {k \in Cached(p) : ~Seen(Other(p), k) /\ k \notin network[Other(p)]}
  IN /\ Working(p)
     /\ \E k \in new : \E sent \in SUBSET Cached(p) : k \in sent /\ Transmit(p, sent, {k})
     /\ UNCHANGED <<lane, incoming, outgoing, failure, worker, cache, receivedCache>>

TimeoutAlone(p) ==
  /\ worker[Other(p)] = "stopped"
  /\ \A k \in network[p] : Seen(p, k)
  /\ WorkerFail(p)

Fairness == \A p \in Peer :
  /\ WF_vars(LaneStep(p))
  /\ WF_vars(WorkerSend(p))
  /\ SF_vars(ReceiveNew(p))
  /\ SF_vars(RetryThrough(p))
  /\ SF_vars(TimeoutAlone(p))

Spec == Init /\ [][Next]_vars /\ Fairness

-----------------------------------------------------------------------------
(***************************************************************************)
(* The two processes play one game: every frame is played by both with the *)
(* union of what both submitted for it, whatever the network does to the   *)
(* datagrams; no frame is played with an input missing or left over        *)
(* (LockstepService.hpp, "it never reuses the preceding frame's input").   *)
(***************************************************************************)
Game == INSTANCE SharedGame WITH played <- machine

ImplementsSharedGame == Game!Spec

(***************************************************************************)
(* Loss, repetition and reordering alone never fault a session: the replay *)
(* of the cache and the bounded windows never make a packet look like a    *)
(* conflict, the window and the two queues never overflow, and the machines*)
(* never differ.  Peers bound to different sessions do fault.              *)
(***************************************************************************)
Outside == {"None", "Disconnected", "ExecutionFailure"}

NoFalseFault == \A p \in Peer :
  \/ engine[p].fault \in Outside
  \/ engine[p].fault = "BindingMismatch" /\ engine[0].binding # engine[1].binding

(***************************************************************************)
(* A process that reports "passed" has a peer that played all the frames   *)
(* and ended in the same state (the last packet of main.cpp).              *)
(***************************************************************************)
PassedMeansPeerPlayed == \A p \in Peer :
  pc[p] = "done" => Len(machine[Other(p)]) = Frames /\ machine[0] = machine[1]

(***************************************************************************)
(* Nobody waits for ever: each process passes or reports a fault.          *)
(***************************************************************************)
Terminates == \A p \in Peer : <>(~Live(p))

(***************************************************************************)
(* Replaying the cache gets every lost packet through: unless a process    *)
(* fails while its peer is still there, both play all the frames.          *)
(***************************************************************************)
Undisturbed == \A p \in Peer :
  /\ engine[p].fault # "None" => \E q \in Peer : pc[q] = "done"
  /\ failure[p] # "None" => \E q \in Peer : pc[q] = "done"

LossIsRepaired ==
  []Undisturbed => <>(\A p \in Peer : Len(machine[p]) = Frames)

=============================================================================
