-------------------------- MODULE VideoServiceProofs --------------------------
(***************************************************************************)
(* Proofs about VideoService: for any number of transitions, retries, ROMs *)
(* and reasons, no frame of an earlier session is presented, and a picture *)
(* is lost for one of four causes only.                                    *)
(***************************************************************************)
EXTENDS VideoService, TLAPS

\* What the proofs need of the types.
Shape ==
  /\ {"pc", "wasActive"} \subseteq DOMAIN lane
  /\ {"pc", "epoch", "frame"} \subseteq DOMAIN ui
  /\ {"queued", "lastValid"} \subseteq DOMAIN engine
  /\ epoch \in Nat /\ ui.epoch \in Nat /\ ui.epoch <= epoch

\* The session is ahead of the epoch: a ROM's event has not arrived, or a transition
\* without a presenter, which moves no epoch on when it pauses, is about to.
Unsettled == lane.pc = "romLoaded" \/ (lane.pc = "bump" /\ presenter = "none")

\* Paused with a presenter: the epoch has moved on, and nothing is published.
Quiet == lane.pc \in {"mutate", "bump"} /\ presenter # "none"

\* A frame wherever it is: it is blank, or of an earlier epoch, or of this session.
Known(f) ==
  /\ f.epoch \in Nat /\ f.epoch <= epoch
  /\ f.epoch = epoch =>
        f.session = 0 \/ Unsettled \/ (~Quiet /\ f.session = session)

EveryFrameKnown ==
  /\ Known(mailbox) /\ Known(engine.queued) /\ Known(engine.lastValid)
  /\ Known(lastProcessed) /\ Known(ui.frame)
  /\ ui.pc = "check" => ui.frame.epoch = ui.epoch

\* The coordinator runs on the emulation thread alone.
LaneOnThread == lane.pc # "idle" => thread = "running"

\* As long as nothing of the four has happened, an attached presenter is open outside of
\* transitions, and one that a transition has closed is one it will open.
PictureHeld ==
  lost = {} =>
    /\ lane.pc \in {"idle", "romLoaded", "pause"} =>
          presenter = "none" \/ (presenter = "open" /\ state \in {"Active", "Faulted"})
    /\ lane.pc \in {"paused", "mutate", "bump", "resume"} =>
          presenter = "none" \/ (presenter = "closed" /\ lane.wasActive)

VideoInv == Shape /\ EveryFrameKnown /\ LaneOnThread /\ PictureHeld

\* Frames are stamped between transitions, with the session and the epoch of then.
LEMMA PublishRealtimeVideoPacketInv ==
  ASSUME VideoInv, PublishRealtimeVideoPacket PROVE VideoInv'
BY DEF VideoInv, Shape, EveryFrameKnown, Known, Unsettled, Quiet, LaneOnThread, PictureHeld,
       service, frames, host, laneFrame, laneOnly, uiFrame, hostFrame,
       IdleLane, IdleUi, NoFrame, NewFrame, Blank, laneIdle, PublishRealtimeVideoPacket

\* A debug frame is stamped in the same way.
LEMMA SubmitFrameInv ==
  ASSUME VideoInv, SubmitFrame PROVE VideoInv'
BY DEF VideoInv, Shape, EveryFrameKnown, Known, Unsettled, Quiet, LaneOnThread, PictureHeld,
       service, frames, host, laneFrame, laneOnly, uiFrame, hostFrame,
       IdleLane, IdleUi, NoFrame, NewFrame, Blank, laneIdle, SubmitFrame

\* The session is ahead until the event arrives ...
LEMMA LoadRomInv ==
  ASSUME VideoInv, LoadRom PROVE VideoInv'
<1>1. lane' = [lane EXCEPT !.pc = "romLoaded"] /\ lane.pc = "idle" /\ thread = "running"
  BY DEF LoadRom, laneIdle
<1>2. UNCHANGED <<ui, lastProcessed, shown, state, presenter, epoch, pending, mailbox, engine, lost, thread>>
  BY DEF LoadRom, laneFrame, service
<1>3. lane'.pc = "romLoaded" /\ {"pc", "wasActive"} \subseteq DOMAIN lane'
  BY <1>1 DEF VideoInv, Shape
<1>4. Shape' /\ LaneOnThread' /\ PictureHeld'
  BY <1>1, <1>2, <1>3 DEF VideoInv, Shape, LaneOnThread, PictureHeld
<1>5. EveryFrameKnown'
  BY <1>2, <1>3 DEF VideoInv, EveryFrameKnown, Known, Unsettled
<1>6. QED
  BY <1>4, <1>5 DEF VideoInv

\* ... which leaves every frame behind.
LEMMA RomLoadedEventInv ==
  ASSUME VideoInv, RomLoadedEvent PROVE VideoInv'
BY DEF VideoInv, Shape, EveryFrameKnown, Known, Unsettled, Quiet, LaneOnThread, PictureHeld,
       service, frames, host, laneFrame, laneOnly, uiFrame, hostFrame,
       IdleLane, IdleUi, NoFrame, NewFrame, Blank, laneIdle, RomLoadedEvent

\* Beginning or rejecting a transition touches no frame and no presenter.
LEMMA BeginTransitionInv ==
  ASSUME VideoInv, NEW reason \in Reasons, BeginTransition(reason) PROVE VideoInv'
BY DEF VideoInv, Shape, EveryFrameKnown, Known, Unsettled, Quiet, LaneOnThread, PictureHeld,
       service, frames, host, laneFrame, laneOnly, uiFrame, hostFrame,
       IdleLane, IdleUi, NoFrame, NewFrame, Blank, laneIdle, BeginTransition

LEMMA RejectTransitionInv ==
  ASSUME VideoInv, RejectTransition PROVE VideoInv'
BY DEF VideoInv, Shape, EveryFrameKnown, Known, Unsettled, Quiet, LaneOnThread, PictureHeld,
       service, frames, host, laneFrame, laneOnly, uiFrame, hostFrame,
       IdleLane, IdleUi, NoFrame, NewFrame, Blank, laneIdle, RejectTransition

\* What is closed was open and is remembered, unless the service was Faulted.
LEMMA PauseCloseInv ==
  ASSUME VideoInv, PauseClose PROVE VideoInv'
<1>1. /\ lane.pc = "pause" /\ lane'.pc = (IF presenter = "none" THEN "mutate" ELSE "paused")
      /\ lane'.wasActive <=> state = "Active"
      /\ {"pc", "wasActive"} \subseteq DOMAIN lane'
  BY DEF PauseClose, VideoInv, Shape
<1>2. /\ presenter = "none" => presenter' = "none"
      /\ presenter # "none" => presenter' = "closed"
      /\ lost' = (IF state = "Faulted" THEN lost \cup {"faulted"} ELSE lost)
      /\ UNCHANGED <<ui, lastProcessed, pending, mailbox, engine, thread, epoch, session>>
  BY DEF PauseClose, laneOnly, laneFrame, host
<1>3. Shape' /\ LaneOnThread'
  BY <1>1, <1>2 DEF VideoInv, Shape, LaneOnThread
<1>4. EveryFrameKnown'
  <2>1. ~Unsettled
    BY <1>1 DEF Unsettled
  <2>2. Quiet' <=> FALSE
    BY <1>1, <1>2 DEF Quiet
  <2>3. \A f : Known(f) => Known(f)'
    BY <1>2, <2>1, <2>2 DEF Known
  <2>4. QED
    BY <1>2, <2>3 DEF VideoInv, EveryFrameKnown
<1>5. PictureHeld'
  BY <1>1, <1>2 DEF VideoInv, PictureHeld
<1>6. QED
  BY <1>3, <1>4, <1>5 DEF VideoInv

\* From here on no frame is of the present epoch.
LEMMA PauseFinishInv ==
  ASSUME VideoInv, PauseFinish PROVE VideoInv'
BY DEF VideoInv, Shape, EveryFrameKnown, Known, Unsettled, Quiet, LaneOnThread, PictureHeld,
       service, frames, host, laneFrame, laneOnly, uiFrame, hostFrame,
       IdleLane, IdleUi, NoFrame, NewFrame, Blank, laneIdle, PauseFinish

\* The engine's frames are dropped, and the epoch moves on.
LEMMA MutationConfiguresInv ==
  ASSUME VideoInv, MutationConfigures PROVE VideoInv'
BY DEF VideoInv, Shape, EveryFrameKnown, Known, Unsettled, Quiet, LaneOnThread, PictureHeld,
       service, frames, host, laneFrame, laneOnly, uiFrame, hostFrame,
       IdleLane, IdleUi, NoFrame, NewFrame, Blank, laneIdle, MutationConfigures

\* A new session meets no frame of the present epoch, or no presenter.
LEMMA MutationSucceedsInv ==
  ASSUME VideoInv, MutationSucceeds PROVE VideoInv'
BY DEF VideoInv, Shape, EveryFrameKnown, Known, Unsettled, Quiet, LaneOnThread, PictureHeld,
       service, frames, host, laneFrame, laneOnly, uiFrame, hostFrame,
       IdleLane, IdleUi, NoFrame, NewFrame, Blank, laneIdle, MutationSucceeds

\* A retry and a throw are recorded as causes.
LEMMA MutationFailsInv ==
  ASSUME VideoInv, MutationFails PROVE VideoInv'
BY ZenonT(20)
   DEF VideoInv, Shape, EveryFrameKnown, Known, Unsettled, Quiet, LaneOnThread, PictureHeld,
       service, frames, host, laneFrame, laneOnly, uiFrame, hostFrame,
       IdleLane, IdleUi, NoFrame, NewFrame, Blank, laneIdle, MutationFails

LEMMA MutationThrowsInv ==
  ASSUME VideoInv, MutationThrows PROVE VideoInv'
BY DEF VideoInv, Shape, EveryFrameKnown, Known, Unsettled, Quiet, LaneOnThread, PictureHeld,
       service, frames, host, laneFrame, laneOnly, uiFrame, hostFrame,
       IdleLane, IdleUi, NoFrame, NewFrame, Blank, laneIdle, MutationThrows

\* Every frame is left behind.
LEMMA BumpEpochsInv ==
  ASSUME VideoInv, BumpEpochs PROVE VideoInv'
BY DEF VideoInv, Shape, EveryFrameKnown, Known, Unsettled, Quiet, LaneOnThread, PictureHeld,
       service, frames, host, laneFrame, laneOnly, uiFrame, hostFrame,
       IdleLane, IdleUi, NoFrame, NewFrame, Blank, laneIdle, BumpEpochs

\* A presenter that was open is opened, or the failure is recorded.
LEMMA ResumeLanesInv ==
  ASSUME VideoInv, ResumeLanes PROVE VideoInv'
BY DEF VideoInv, Shape, EveryFrameKnown, Known, Unsettled, Quiet, LaneOnThread, PictureHeld,
       service, frames, host, laneFrame, laneOnly, uiFrame, hostFrame,
       IdleLane, IdleUi, NoFrame, NewFrame, Blank, laneIdle, ResumeLanes, Finish, Outcome

\* The steps of the UI lane up to its frame.
LEMMA PollPendingInv ==
  ASSUME VideoInv, PollPending PROVE VideoInv'
BY DEF VideoInv, Shape, EveryFrameKnown, Known, Unsettled, Quiet, LaneOnThread, PictureHeld,
       service, frames, host, laneFrame, laneOnly, uiFrame, hostFrame,
       IdleLane, IdleUi, NoFrame, NewFrame, Blank, laneIdle, PollPending, UiGoTo

LEMMA ApplyPendingInv ==
  ASSUME VideoInv, ApplyPending PROVE VideoInv'
BY DEF VideoInv, Shape, EveryFrameKnown, Known, Unsettled, Quiet, LaneOnThread, PictureHeld,
       service, frames, host, laneFrame, laneOnly, uiFrame, hostFrame,
       IdleLane, IdleUi, NoFrame, NewFrame, Blank, laneIdle, ApplyPending, Advanced, UiGoTo

LEMMA RecheckPendingInv ==
  ASSUME VideoInv, RecheckPending PROVE VideoInv'
BY DEF VideoInv, Shape, EveryFrameKnown, Known, Unsettled, Quiet, LaneOnThread, PictureHeld,
       service, frames, host, laneFrame, laneOnly, uiFrame, hostFrame,
       IdleLane, IdleUi, NoFrame, NewFrame, Blank, laneIdle, RecheckPending, UiGoTo

LEMMA LoadEpochInv ==
  ASSUME VideoInv, LoadEpoch PROVE VideoInv'
BY DEF VideoInv, Shape, EveryFrameKnown, Known, Unsettled, Quiet, LaneOnThread, PictureHeld,
       service, frames, host, laneFrame, laneOnly, uiFrame, hostFrame,
       IdleLane, IdleUi, NoFrame, NewFrame, Blank, laneIdle, LoadEpoch, UiGoTo

\* A frame is taken only when it is of the epoch loaded.
LEMMA ConsumeMailboxInv ==
  ASSUME VideoInv, ConsumeMailbox PROVE VideoInv'
BY DEF VideoInv, Shape, EveryFrameKnown, Known, Unsettled, Quiet, LaneOnThread, PictureHeld,
       service, frames, host, laneFrame, laneOnly, uiFrame, hostFrame,
       IdleLane, IdleUi, NoFrame, NewFrame, Blank, laneIdle, ConsumeMailbox, Take, UiGoTo

LEMMA MailboxEmptyInv ==
  ASSUME VideoInv, MailboxEmpty PROVE VideoInv'
BY DEF VideoInv, Shape, EveryFrameKnown, Known, Unsettled, Quiet, LaneOnThread, PictureHeld,
       service, frames, host, laneFrame, laneOnly, uiFrame, hostFrame,
       IdleLane, IdleUi, NoFrame, NewFrame, Blank, laneIdle, MailboxEmpty, UiGoTo

LEMMA ConsumeEngineInv ==
  ASSUME VideoInv, ConsumeEngine PROVE VideoInv'
BY DEF VideoInv, Shape, EveryFrameKnown, Known, Unsettled, Quiet, LaneOnThread, PictureHeld,
       service, frames, host, laneFrame, laneOnly, uiFrame, hostFrame,
       IdleLane, IdleUi, NoFrame, NewFrame, Blank, laneIdle, ConsumeEngine, Take, UiGoTo

\* So is the one that stands in for it.
LEMMA UseFallbackInv ==
  ASSUME VideoInv, UseFallback PROVE VideoInv'
<1>1. /\ ui' = [ui EXCEPT !.pc = "check", !.frame = Fallback, !.fallback = TRUE]
      /\ UNCHANGED <<uiFrame, state, frames, shown>>
  BY DEF UseFallback
<1>2. ui'.pc = "check" /\ ui'.frame = Fallback /\ ui'.epoch = ui.epoch
      /\ {"pc", "epoch", "frame"} \subseteq DOMAIN ui'
  BY <1>1 DEF VideoInv, Shape
<1>3. Fallback.epoch = ui.epoch /\ Known(Fallback)
  <2>1. Blank(ui.epoch).session = 0 /\ Blank(ui.epoch).epoch = ui.epoch
    BY DEF Blank
  <2>2. ui.epoch \in Nat /\ ui.epoch <= epoch
    BY DEF VideoInv, Shape, EveryFrameKnown, Known
  <2>3. QED
    BY <2>1, <2>2 DEF VideoInv, EveryFrameKnown, Known, Fallback
<1>4. Shape' /\ LaneOnThread' /\ PictureHeld'
  BY <1>1, <1>2 DEF VideoInv, Shape, LaneOnThread, PictureHeld, uiFrame, frames, host
<1>5. EveryFrameKnown'
  BY <1>1, <1>2, <1>3 DEF VideoInv, EveryFrameKnown, Known, Unsettled, Quiet, uiFrame, frames, host
<1>6. QED
  BY <1>4, <1>5 DEF VideoInv

\* What is remembered was known; the state is written without a presenter only.
LEMMA CheckEpochInv ==
  ASSUME VideoInv, CheckEpoch PROVE VideoInv'
<1>1. /\ UNCHANGED <<uiFrame, pending, mailbox, engine, shown>>
      /\ ui.pc = "check" /\ ui'.pc \in {"idle", "ready"}
      /\ ui' \in {IdleUi, [ui EXCEPT !.pc = "ready"]}
      /\ lastProcessed' \in {lastProcessed, ui.frame}
      /\ state' = state \/ presenter = "none"
  BY DEF CheckEpoch, UiGoTo, VideoInv, Shape, IdleUi
<1>2. /\ {"pc", "epoch", "frame"} \subseteq DOMAIN ui'
      /\ ui'.epoch \in {0, ui.epoch} /\ ui'.frame \in {NoFrame, ui.frame}
  BY <1>1 DEF VideoInv, Shape, IdleUi
<1>3. Shape' /\ LaneOnThread' /\ PictureHeld'
  BY <1>1, <1>2 DEF VideoInv, Shape, LaneOnThread, PictureHeld, uiFrame, host
<1>4. Known(NoFrame)
  BY DEF VideoInv, Shape, Known, NoFrame
<1>5. EveryFrameKnown'
  BY <1>1, <1>2, <1>4 DEF VideoInv, EveryFrameKnown, Known, Unsettled, Quiet, uiFrame, host
<1>6. QED
  BY <1>3, <1>5 DEF VideoInv

\* The presentation touches no frame, and its failure leaves the presenter open.
LEMMA CheckReadyInv ==
  ASSUME VideoInv, CheckReady PROVE VideoInv'
BY DEF VideoInv, Shape, EveryFrameKnown, Known, Unsettled, Quiet, LaneOnThread, PictureHeld,
       service, frames, host, laneFrame, laneOnly, uiFrame, hostFrame,
       IdleLane, IdleUi, NoFrame, NewFrame, Blank, laneIdle, CheckReady, UiGoTo

LEMMA PresentInv ==
  ASSUME VideoInv, Present PROVE VideoInv'
BY DEF VideoInv, Shape, EveryFrameKnown, Known, Unsettled, Quiet, LaneOnThread, PictureHeld,
       service, frames, host, laneFrame, laneOnly, uiFrame, hostFrame,
       IdleLane, IdleUi, NoFrame, NewFrame, Blank, laneIdle, Present, UiGoTo

LEMMA RecordFaultInv ==
  ASSUME VideoInv, RecordFault PROVE VideoInv'
BY DEF VideoInv, Shape, EveryFrameKnown, Known, Unsettled, Quiet, LaneOnThread, PictureHeld,
       service, frames, host, laneFrame, laneOnly, uiFrame, hostFrame,
       IdleLane, IdleUi, NoFrame, NewFrame, Blank, laneIdle, RecordFault, UiGoTo

\* The main thread attaches and detaches while the emulation thread does not run.
LEMMA AttachPresenterInv ==
  ASSUME VideoInv, AttachPresenter PROVE VideoInv'
<1>1. /\ UNCHANGED hostFrame /\ lane.pc = "idle" /\ thread' \in {"none", "joined"}
      /\ epoch' \in {epoch + 2, epoch + 4, epoch + 5}
      /\ presenter' = "none" \/ (presenter' = "open" /\ state' = "Active")
      /\ engine' \in {engine, [queued |-> NoFrame, lastValid |-> NoFrame]}
  BY DEF AttachPresenter, VideoInv, LaneOnThread
<1>2. /\ Shape' /\ LaneOnThread' /\ PictureHeld'
      /\ epoch' \in Nat /\ epoch < epoch'
  BY <1>1 DEF VideoInv, Shape, LaneOnThread, PictureHeld, hostFrame
<1>3. /\ engine'.queued \in {engine.queued, NoFrame} /\ engine'.lastValid \in {engine.lastValid, NoFrame}
      /\ NoFrame.epoch = 0
  BY <1>1 DEF NoFrame
<1>4. EveryFrameKnown'
  BY <1>1, <1>2, <1>3 DEF VideoInv, Shape, EveryFrameKnown, Known, hostFrame
<1>5. QED
  BY <1>2, <1>4 DEF VideoInv

LEMMA StartEmulationInv ==
  ASSUME VideoInv, StartEmulation PROVE VideoInv'
BY DEF VideoInv, Shape, EveryFrameKnown, Known, Unsettled, Quiet, LaneOnThread, PictureHeld,
       service, frames, host, laneFrame, laneOnly, uiFrame, hostFrame,
       IdleLane, IdleUi, NoFrame, NewFrame, Blank, laneIdle, StartEmulation

LEMMA JoinEmulationInv ==
  ASSUME VideoInv, JoinEmulation PROVE VideoInv'
BY DEF VideoInv, Shape, EveryFrameKnown, Known, Unsettled, Quiet, LaneOnThread, PictureHeld,
       service, frames, host, laneFrame, laneOnly, uiFrame, hostFrame,
       IdleLane, IdleUi, NoFrame, NewFrame, Blank, laneIdle, JoinEmulation

LEMMA DetachPresenterInv ==
  ASSUME VideoInv, DetachPresenter PROVE VideoInv'
<1>1. /\ UNCHANGED hostFrame /\ lane.pc = "idle" /\ thread' \in {"none", "joined"}
      /\ epoch' \in {epoch + 2, epoch + 4, epoch + 5}
      /\ presenter' = "none" \/ (presenter' = "open" /\ state' = "Active")
      /\ engine' \in {engine, [queued |-> NoFrame, lastValid |-> NoFrame]}
  BY DEF DetachPresenter, VideoInv, LaneOnThread
<1>2. /\ Shape' /\ LaneOnThread' /\ PictureHeld'
      /\ epoch' \in Nat /\ epoch < epoch'
  BY <1>1 DEF VideoInv, Shape, LaneOnThread, PictureHeld, hostFrame
<1>3. /\ engine'.queued \in {engine.queued, NoFrame} /\ engine'.lastValid \in {engine.lastValid, NoFrame}
      /\ NoFrame.epoch = 0
  BY <1>1 DEF NoFrame
<1>4. EveryFrameKnown'
  BY <1>1, <1>2, <1>3 DEF VideoInv, Shape, EveryFrameKnown, Known, hostFrame
<1>5. QED
  BY <1>2, <1>4 DEF VideoInv

\* A machine that has no presenter yet.
LEMMA InitInv == Init => VideoInv
BY DEF Init, VideoInv, Shape, EveryFrameKnown, Known, LaneOnThread, PictureHeld,
       IdleLane, IdleUi, NoFrame

\* Every step keeps the invariant.
LEMMA NextInv == VideoInv /\ [Next]_vars => VideoInv'
<1> SUFFICES ASSUME VideoInv, [Next]_vars PROVE VideoInv'
    OBVIOUS
<1>1. CASE UNCHANGED vars
  BY <1>1 DEF vars, service, frames, host, VideoInv, Shape, EveryFrameKnown, Known, Unsettled,
              Quiet, LaneOnThread, PictureHeld
<1>2. CASE TransitionStep
  BY <1>2, PauseCloseInv, PauseFinishInv, MutationConfiguresInv, MutationSucceedsInv,
     MutationFailsInv, MutationThrowsInv, BumpEpochsInv, ResumeLanesInv, RomLoadedEventInv
     DEF TransitionStep
<1>3. CASE LaneCall \/ PublishRealtimeVideoPacket
  BY <1>3, SubmitFrameInv, LoadRomInv, RejectTransitionInv, BeginTransitionInv,
     PublishRealtimeVideoPacketInv DEF LaneCall
<1>4. CASE UiStep
  BY <1>4, PollPendingInv, ApplyPendingInv, RecheckPendingInv, LoadEpochInv, ConsumeMailboxInv,
     MailboxEmptyInv, ConsumeEngineInv, UseFallbackInv, CheckEpochInv, CheckReadyInv,
     PresentInv, RecordFaultInv DEF UiStep
<1>5. CASE AttachPresenter \/ StartEmulation \/ JoinEmulation \/ DetachPresenter
  BY <1>5, AttachPresenterInv, StartEmulationInv, JoinEmulationInv, DetachPresenterInv
<1>6. QED
  BY <1>1, <1>2, <1>3, <1>4, <1>5 DEF Next

\* The inductive invariant holds in every reachable state.
LEMMA VideoInvariant == Spec => []VideoInv
BY InitInv, NextInv, PTL DEF Spec
-----------------------------------------------------------------------------
\* Between transitions an attached presenter is closed only if a transition was retried,
\* threw, began Faulted or could not open it (runTransition's second pause reads the state
\* the first one left; the UI lane writes that state without the lock).
THEOREM PictureLostForACause == Spec => []PictureLostOnlyIf
<1>1. VideoInv => PictureLostOnlyIf
  BY DEF VideoInv, PictureHeld, PictureLostOnlyIf
<1>2. QED
  BY VideoInvariant, <1>1, PTL

\* The step that passes consumeAndProcessFrame's last check is CheckEpoch, with the epoch
\* loaded still current and a presenter attached.
LEMMA OnlyCheckEpochPasses ==
  ASSUME [Next]_vars, ui.pc = "check", ui'.pc = "ready"
  PROVE  CheckEpoch /\ epoch = ui.epoch /\ presenter # "none"
<1>1. ui' # ui
  OBVIOUS
<1>2. ~ UNCHANGED vars
  BY <1>1 DEF vars
<1>3. ~ TransitionStep
  BY <1>1 DEF TransitionStep, PauseClose, PauseFinish, MutationConfigures, MutationSucceeds,
     MutationFails, MutationThrows, BumpEpochs, ResumeLanes, RomLoadedEvent, laneOnly, laneFrame
<1>4. ~ LaneCall /\ ~ PublishRealtimeVideoPacket
  BY <1>1 DEF LaneCall, SubmitFrame, LoadRom, RejectTransition, BeginTransition,
     PublishRealtimeVideoPacket, laneOnly, laneFrame
<1>5. ~ (AttachPresenter \/ StartEmulation \/ JoinEmulation \/ DetachPresenter)
  BY <1>1 DEF AttachPresenter, StartEmulation, JoinEmulation, DetachPresenter, hostFrame
<1>6. UiStep => CheckEpoch
  BY DEF UiStep, PollPending, ApplyPending, RecheckPending, LoadEpoch, ConsumeMailbox,
     MailboxEmpty, ConsumeEngine, UseFallback, CheckReady, Present, RecordFault
<1>7. CheckEpoch
  BY <1>2, <1>3, <1>4, <1>5, <1>6 DEF Next
<1>8. QED
  BY <1>7 DEF CheckEpoch, IdleUi

\* A frame that passes the last check of consumeAndProcessFrame was drawn in the session
\* the machine is in, or is blank, through whichever mailbox, engine or fallback it came.
THEOREM SessionsNeverMix == Spec => NoFrameAcrossSessions
<1>1. ASSUME VideoInv, [Next]_vars,
             ui.pc = "check" /\ ui'.pc = "ready" /\ lane.pc # "romLoaded"
      PROVE  ui.frame.session \in {0, session}
  <2>1. epoch = ui.epoch /\ presenter # "none"
    BY <1>1, OnlyCheckEpochPasses
  <2>2. ui.frame.epoch = epoch /\ Known(ui.frame)
    BY <1>1, <2>1 DEF VideoInv, EveryFrameKnown
  <2>3. QED
    BY <1>1, <2>1, <2>2 DEF Known, Unsettled
<1>2. VideoInv /\ [Next]_vars =>
        [(ui.pc = "check" /\ ui'.pc = "ready" /\ lane.pc # "romLoaded")
            => ui.frame.session \in {0, session}]_vars
  BY <1>1
<1>3. QED
  BY VideoInvariant, <1>2, PTL DEF Spec, NoFrameAcrossSessions

\* The service says Active while the presenter is open only, or a pause is half done
\* (pause, resume and recordPresentOutcome write the state from two lanes).
THEOREM ActiveIsOpen == Spec => []ActiveMeansOpen
<1> DEFINE Inv == VideoInv /\ ActiveMeansOpen
<1>1. Init => ActiveMeansOpen
  BY DEF Init, ActiveMeansOpen
<1>2. Inv /\ [Next]_vars => ActiveMeansOpen'
  <2> SUFFICES ASSUME Inv, [Next]_vars PROVE ActiveMeansOpen'
      OBVIOUS
  <2> USE DEF ActiveMeansOpen
  <2>1. CASE UNCHANGED vars
    BY <2>1 DEF vars, service
  <2>2. CASE TransitionStep
    BY <2>2 DEF TransitionStep, PauseClose, PauseFinish, MutationConfigures, MutationSucceeds,
       MutationFails, MutationThrows, BumpEpochs, ResumeLanes, RomLoadedEvent, Finish, laneOnly,
       service, IdleLane, VideoInv, Shape
  <2>3. CASE LaneCall \/ PublishRealtimeVideoPacket
    BY <2>3 DEF LaneCall, SubmitFrame, LoadRom, RejectTransition, BeginTransition,
       PublishRealtimeVideoPacket, service, laneIdle
  <2>4. CASE UiStep
    BY <2>4 DEF UiStep, PollPending, ApplyPending, RecheckPending, LoadEpoch, ConsumeMailbox,
       MailboxEmpty, ConsumeEngine, UseFallback, CheckEpoch, CheckReady, Present, RecordFault, uiFrame
  <2>5. CASE AttachPresenter \/ StartEmulation \/ JoinEmulation \/ DetachPresenter
    BY <2>5 DEF AttachPresenter, StartEmulation, JoinEmulation, DetachPresenter, hostFrame, service
  <2>6. QED
    BY <2>1, <2>2, <2>3, <2>4, <2>5 DEF Next
<1>3. QED
  BY VideoInvariant, <1>1, <1>2, PTL DEF Spec
=============================================================================
