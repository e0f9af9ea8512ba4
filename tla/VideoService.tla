---------------------------- MODULE VideoService ----------------------------
(***************************************************************************)
(* machine/VideoService.hpp with the VideoEngine behind it, driven by      *)
(* machine/MachineLifecycleCoordinator.cpp.  Two lanes:                    *)
(*                                                                         *)
(*   emulation lane   publishes frames, loads ROMs, and runs the           *)
(*                    coordinator's transitions                            *)
(*   UI/render lane   the host main thread: presentOneFrame, and attaching *)
(*                    or detaching the presenter                           *)
(*                                                                         *)
(* The lanes share the realtime mailbox, the lifecycle epoch, the engine   *)
(* (under engineMutex_) and, with no common lock, the presenter and the    *)
(* lifecycle state.  A frame's content is the session (the loaded ROM or   *)
(* restored state) it was drawn in; the mailbox is the latest-value        *)
(* register that RealtimeVideoMailbox is shown to implement.  Pixels,      *)
(* frame processors, captures and statistics are left out.                 *)
(***************************************************************************)
EXTENDS Integers

CONSTANTS
  MaxTransitions,  \* bound: transitions begun (one more may be rejected)
  MaxLoads,        \* bound: ROMs loaded without a transition
  Reasons          \* the MachineTransitionReasons transitions are run for

ASSUME VideoAssumption ==
  /\ MaxTransitions \in Nat /\ MaxLoads \in Nat
  /\ Reasons \subseteq {"RomLoad", "HardReset", "AudioBackendRestart",
                         "VideoBackendRestart", "ConfigReconfigure"}

VARIABLES
  state,           \* state_
  presenter,       \* presenter_: "none", "closed" or "open"
  epoch,           \* realtimeLifecycleEpoch_
  pending,         \* pendingEngineGenerationAdvances_
  mailbox,         \* realtimeMailbox_
  engine,          \* VideoEngine: [queued, lastValid]
  lastProcessed,   \* lastProcessedFrame_
  ui,              \* [pc, epoch, frame, fallback]: consumeAndProcessFrame's locals
  depth,           \* transitionDepth_
  stats,           \* stats_: [transitions, successes, degraded, failures]
  lane,            \* [pc, reason, attempts, wasActive, success, missing, configured]:
                   \* runTransition's locals
  session,         \* history: what the machine plays
  shown,           \* history: the session of the last frame given to the presenter
  lost,            \* history: why a picture may not have come back after a transition
  loads,           \* history: ROMs loaded, for the bound
  thread           \* the emulation thread: "none", "running" or "joined"

service == <<state, presenter, epoch>>
frames  == <<pending, mailbox, engine, lastProcessed>>
host    == <<loads, thread>>
vars == <<service, frames, ui, depth, stats, lane, session, shown, lost, host>>

NoFrame  == [session |-> 0, epoch |-> 0]
Blank(e) == [session |-> 0, epoch |-> e]
NewFrame == [session |-> session, epoch |-> epoch]

\* policies_: retries, and what may be missing for the outcome to be Degraded.
maxRetries(reason) == IF reason \in {"RomLoad", "HardReset"} THEN 0 ELSE 1
mayMiss(reason) ==
  CASE reason \in {"RomLoad", "HardReset"} -> {}
    [] reason = "AudioBackendRestart"      -> {"audio"}
    [] reason = "VideoBackendRestart"      -> {"video"}
    [] reason = "ConfigReconfigure"        -> {"audio", "video"}

IdleLane == [pc |-> "idle", reason |-> "RomLoad", attempts |-> 0, wasActive |-> FALSE,
             success |-> FALSE, missing |-> {}, configured |-> FALSE]
IdleUi == [pc |-> "idle", epoch |-> 0, frame |-> NoFrame, fallback |-> FALSE]

Init ==
  /\ state = "Headless" /\ presenter = "none" /\ epoch = 1
  /\ pending = 0 /\ mailbox = NoFrame /\ lastProcessed = NoFrame
  /\ engine = [queued |-> NoFrame, lastValid |-> NoFrame]
  /\ ui = IdleUi /\ depth = 0 /\ lane = IdleLane
  /\ session = 1 /\ shown = 0 /\ lost = {}
  /\ stats = [transitions |-> 0, successes |-> 0, degraded |-> 0, failures |-> 0]
  /\ loads = 0 /\ thread = "none"

-----------------------------------------------------------------------------
(* The emulation lane: frames and ROMs *)

laneIdle == thread = "running" /\ lane.pc = "idle"
laneFrame == <<ui, lastProcessed, shown>>

\* publishRealtimeVideoPacket: stamped with the epoch, replacing an unseen frame.
PublishRealtimeVideoPacket ==
  /\ laneIdle
  /\ mailbox' = NewFrame
  /\ UNCHANGED <<laneFrame, service, pending, engine, depth, stats, lane, session, lost, host>>

\* advanceGeneration of the engine, as often as it is pending, drops the queued frame.
Advanced(e) == IF pending = 0 THEN e ELSE [e EXCEPT !.queued = NoFrame]

\* submitFrame: a debug frame goes to the engine's own mailbox.
SubmitFrame ==
  /\ laneIdle
  /\ pending' = 0
  /\ engine' = [queued |-> NewFrame, lastValid |-> NewFrame]
  /\ UNCHANGED <<laneFrame, service, mailbox, depth, stats, lane, session, lost, host>>

\* loadRom of a machine that runs in the host: the machine changes at once ...
LoadRom ==
  /\ laneIdle /\ loads < MaxLoads
  /\ loads' = loads + 1
  /\ session' = session + 1
  /\ lane' = [lane EXCEPT !.pc = "romLoaded"]
  /\ UNCHANGED <<laneFrame, service, pending, mailbox, engine, depth, stats, lost, thread>>

\* ... and the RomLoaded event reaches submitRealtimeVideoPacket.
RomLoadedEvent ==
  /\ lane.pc = "romLoaded"
  /\ pending' = pending + 1
  /\ epoch' = epoch + 1
  /\ lane' = IdleLane
  /\ UNCHANGED <<laneFrame, state, presenter, mailbox, engine, depth, stats, session, lost, host>>

-----------------------------------------------------------------------------
(* The emulation lane: runTransition *)

laneOnly == <<laneFrame, pending, mailbox, host>>

\* runTransition begins: transitionDepth_ is zero.
BeginTransition(reason) ==
  /\ laneIdle /\ depth = 0 /\ stats.transitions < MaxTransitions
  /\ stats' = [stats EXCEPT !.transitions = @ + 1]
  /\ depth' = 1
  /\ lane' = [IdleLane EXCEPT !.pc = "pause", !.reason = reason]
  /\ UNCHANGED <<laneOnly, service, engine, session, lost>>

\* It is rejected: called by a mutation, or after a transition whose mutation threw.
RejectTransition ==
  /\ laneIdle \/ lane.pc = "mutate"
  /\ depth # 0 /\ stats.transitions <= MaxTransitions
  /\ stats' = [stats EXCEPT !.transitions = @ + 1, !.failures = @ + 1]
  /\ UNCHANGED <<laneOnly, service, engine, depth, lane, session, lost>>

\* pauseLanesLocked: remember whether video was active; pause() closes the presenter ...
PauseClose ==
  /\ lane.pc = "pause"
  /\ IF presenter = "none"
     THEN state' = "Headless" /\ UNCHANGED presenter
     ELSE presenter' = "closed" /\ UNCHANGED state
  /\ lane' = [lane EXCEPT !.pc = IF presenter = "none" THEN "mutate" ELSE "paused",
                          !.wasActive = (state = "Active")]
  /\ lost' = IF state = "Faulted" THEN lost \cup {"faulted"} ELSE lost
  /\ UNCHANGED <<laneOnly, epoch, engine, depth, stats, session>>

\* Mutant: pause() leaves the state alone.
PauseFinish_StaysActive ==
  /\ lane.pc = "paused"
  /\ epoch' = epoch + 1
  /\ lane' = [lane EXCEPT !.pc = "mutate"]
  /\ UNCHANGED <<laneOnly, state, presenter, engine, depth, session, stats, lost>>

\* ... then moves the epoch on and says Paused.
PauseFinish ==
  /\ lane.pc = "paused"
  /\ epoch' = epoch + 1
  /\ state' = "Paused"
  /\ lane' = [lane EXCEPT !.pc = "mutate"]
  /\ UNCHANGED <<laneOnly, presenter, engine, depth, session, stats, lost>>

\* The mutation calls configure, which the paused state allows.
MutationConfigures ==
  /\ lane.pc = "mutate" /\ ~lane.configured
  /\ state \in {"Paused", "Headless", "Faulted"}
  /\ engine' = [queued |-> NoFrame, lastValid |-> NoFrame]
  /\ epoch' = epoch + 1
  /\ lane' = [lane EXCEPT !.configured = TRUE]
  /\ UNCHANGED <<laneOnly, state, presenter, depth, session, stats, lost>>

\* The mutation succeeds: a ROM or a state took effect, or a backend was restarted.
MutationSucceeds ==
  /\ lane.pc = "mutate"
  /\ session' \in {session, session + 1}
  /\ lane' = [lane EXCEPT !.pc = "bump", !.success = TRUE]
  /\ UNCHANGED <<laneOnly, service, engine, depth, stats, lost>>

\* It fails, with a part not ready: once more from the pause, as the policy has it.
MutationFails ==
  /\ lane.pc = "mutate"
  /\ \E missing \in SUBSET {"audio", "video"} :
       IF lane.attempts < maxRetries(lane.reason)
       THEN /\ lane' = [lane EXCEPT !.pc = "pause", !.attempts = @ + 1]
            /\ lost' = lost \cup {"retried"}
       ELSE /\ lane' = [lane EXCEPT !.pc = "bump", !.missing = missing]
            /\ UNCHANGED lost
  /\ UNCHANGED <<laneOnly, service, engine, depth, stats, session>>

\* It throws: the locks and the scope unwind, transitionDepth_ does not.
MutationThrows ==
  /\ lane.pc = "mutate"
  /\ lane' = IdleLane
  /\ lost' = lost \cup {"thrown"}
  /\ UNCHANGED <<laneOnly, service, engine, depth, stats, session>>

\* bumpEpochsLocked: bumpLifecycleEpochBarrier.
BumpEpochs ==
  /\ lane.pc = "bump"
  /\ epoch' = epoch + 1
  /\ lane' = [lane EXCEPT !.pc = "resume"]
  /\ UNCHANGED <<laneOnly, state, presenter, engine, depth, session, stats, lost>>

canDegrade == lane.missing \cap mayMiss(lane.reason) # {}

\* The counter of the outcome: Succeeded, Degraded or Failed.
Outcome ==
  IF lane.success THEN "successes" ELSE IF canDegrade THEN "degraded" ELSE "failures"

\* The transition is over; loadRom emits RomLoaded after a successful one.
Finish ==
  /\ depth' = 0
  /\ stats' = [stats EXCEPT ![Outcome] = @ + 1]
  /\ lane' = IF lane.reason = "RomLoad" /\ lane.success
             THEN [IdleLane EXCEPT !.pc = "romLoaded"] ELSE IdleLane

\* Mutant: video is never resumed.
ResumeLanes_Forgets ==
  /\ lane.pc = "resume"
  /\ Finish /\ UNCHANGED <<service, lost>>
  /\ UNCHANGED <<laneOnly, engine, session>>

\* resumeLanesLocked: resume() opens the presenter again if video was active before;
\* a presenter that does not open leaves the service Faulted and the outcome Failed.
ResumeLanes ==
  /\ lane.pc = "resume"
  /\ \/ ~lane.wasActive /\ Finish /\ UNCHANGED <<service, lost>>
     \/ /\ lane.wasActive
        /\ presenter' = "open" /\ state' = "Active" /\ epoch' = epoch + 1
        /\ Finish /\ UNCHANGED lost
     \/ /\ lane.wasActive /\ presenter # "open"
        /\ state' = "Faulted" /\ UNCHANGED <<presenter, epoch>>
        /\ depth' = 0 /\ lane' = IdleLane
        /\ stats' = [stats EXCEPT !.failures = @ + 1]
        /\ lost' = lost \cup {"notOpened"}
  /\ UNCHANGED <<laneOnly, engine, session>>

-----------------------------------------------------------------------------
(* The UI lane: presentOneFrame, with consumeAndProcessFrame inlined *)

uiFrame == <<presenter, epoch, depth, stats, lane, session, lost, host>>

UiGoTo(pc) == ui' = [ui EXCEPT !.pc = pc]

\* serviceFrontend presents only if a realtime frame is pending.
PollPending ==
  /\ ui.pc = "idle" /\ mailbox # NoFrame
  /\ UiGoTo("apply")
  /\ UNCHANGED <<uiFrame, state, frames, shown>>

ApplyPending ==
  /\ ui.pc = "apply"
  /\ engine' = Advanced(engine) /\ pending' = 0
  /\ UiGoTo("recheck")
  /\ UNCHANGED <<uiFrame, state, mailbox, lastProcessed, shown>>

\* Another ROM was loaded since: no frame this time.
RecheckPending ==
  /\ ui.pc = "recheck"
  /\ ui' = IF pending # 0 THEN IdleUi ELSE [ui EXCEPT !.pc = "loadEpoch"]
  /\ UNCHANGED <<uiFrame, state, frames, shown>>

LoadEpoch ==
  /\ ui.pc = "loadEpoch"
  /\ ui' = [ui EXCEPT !.pc = "mailbox", !.epoch = epoch]
  /\ UNCHANGED <<uiFrame, state, frames, shown>>

\* Mutant: frames of the epoch loaded are the ones that are dropped.
Take_Swapped(frame) ==
  ui' = IF frame.epoch = ui.epoch THEN ui ELSE [ui EXCEPT !.pc = "check", !.frame = frame]

\* A fresh frame is taken, or dropped when its epoch is not the one loaded.
Take(frame) ==
  ui' = IF frame.epoch = ui.epoch THEN [ui EXCEPT !.pc = "check", !.frame = frame] ELSE ui

ConsumeMailbox ==
  /\ ui.pc = "mailbox" /\ mailbox # NoFrame
  /\ Take(mailbox)
  /\ mailbox' = NoFrame
  /\ UNCHANGED <<uiFrame, state, pending, engine, lastProcessed, shown>>

MailboxEmpty ==
  /\ ui.pc = "mailbox" /\ mailbox = NoFrame
  /\ UiGoTo("engine")
  /\ UNCHANGED <<uiFrame, state, frames, shown>>

ConsumeEngine ==
  /\ ui.pc = "engine" /\ engine.queued # NoFrame
  /\ Take(engine.queued)
  /\ engine' = [engine EXCEPT !.queued = NoFrame]
  /\ UNCHANGED <<uiFrame, state, pending, mailbox, lastProcessed, shown>>

\* Mutant: the engine's last valid frame is shown whatever its epoch.
Fallback_AnyEpoch ==
  IF lastProcessed.epoch = ui.epoch THEN lastProcessed
  ELSE IF engine.lastValid # NoFrame THEN engine.lastValid
  ELSE Blank(ui.epoch)

\* The last processed frame, the engine's last valid frame, or a blank one.
Fallback ==
  IF lastProcessed.epoch = ui.epoch THEN lastProcessed
  ELSE IF engine.lastValid.epoch = ui.epoch THEN engine.lastValid
  ELSE Blank(ui.epoch)

UseFallback ==
  /\ ui.pc = "engine" /\ engine.queued = NoFrame
  /\ ui' = [ui EXCEPT !.pc = "check", !.frame = Fallback, !.fallback = TRUE]
  /\ UNCHANGED <<uiFrame, state, frames, shown>>

\* The epoch moved on while the frame was processed: dropped.  Without a presenter
\* the frame is only remembered.
CheckEpoch ==
  /\ ui.pc = "check"
  /\ IF epoch # ui.epoch THEN ui' = IdleUi /\ UNCHANGED <<lastProcessed, state>>
     ELSE /\ lastProcessed' = IF ui.fallback THEN lastProcessed ELSE ui.frame
          /\ IF presenter = "none" THEN state' = "Headless" /\ ui' = IdleUi
             ELSE UiGoTo("ready") /\ UNCHANGED state
  /\ UNCHANGED <<uiFrame, pending, mailbox, engine, shown>>

CheckReady ==
  /\ ui.pc = "ready"
  /\ UiGoTo(IF presenter = "open" THEN "presenting" ELSE "fault")
  /\ UNCHANGED <<uiFrame, state, frames, shown>>

\* presenter_->present returns, true or false.
Present ==
  /\ ui.pc = "presenting"
  /\ shown' = ui.frame.session
  /\ \/ ui' = IdleUi
     \/ UiGoTo("fault")
  /\ UNCHANGED <<uiFrame, state, frames>>

\* recordPresentOutcome(false)
RecordFault ==
  /\ ui.pc = "fault"
  /\ state' = "Faulted"
  /\ ui' = IdleUi
  /\ UNCHANGED <<uiFrame, frames, shown>>

-----------------------------------------------------------------------------
(* The main thread around the emulation thread's life *)

hostFrame == <<pending, mailbox, lastProcessed, ui, depth, stats, lane, session, shown, lost,
               loads>>

\* onAttach: configure, configurePresenter, attachPresenter and resume each move the
\* epoch on; a presenter that does not open is paused and detached again.
AttachPresenter ==
  /\ thread = "none" /\ presenter = "none" /\ epoch = 1
  /\ engine' = [queued |-> NoFrame, lastValid |-> NoFrame]
  /\ \/ presenter' = "open" /\ state' = "Active" /\ epoch' = epoch + 4
     \/ state' = "Headless" /\ epoch' = epoch + 5 /\ UNCHANGED presenter
  /\ UNCHANGED <<hostFrame, thread>>

StartEmulation ==
  /\ thread = "none"
  /\ thread' = "running"
  /\ UNCHANGED <<service, engine, hostFrame>>

JoinEmulation ==
  /\ laneIdle /\ ui.pc = "idle"
  /\ thread' = "joined"
  /\ UNCHANGED <<service, engine, hostFrame>>

\* detachServices: pause and detachPresenter.
DetachPresenter ==
  /\ thread = "joined" /\ ui.pc = "idle" /\ presenter # "none"
  /\ presenter' = "none" /\ state' = "Headless" /\ epoch' = epoch + 2
  /\ UNCHANGED <<hostFrame, engine, thread>>

-----------------------------------------------------------------------------
TransitionStep ==
  \/ PauseClose \/ PauseFinish \/ MutationConfigures
  \/ MutationSucceeds \/ MutationFails \/ MutationThrows \/ BumpEpochs \/ ResumeLanes
  \/ RomLoadedEvent
LaneCall ==
  \/ SubmitFrame \/ LoadRom \/ RejectTransition
  \/ \E reason \in Reasons : BeginTransition(reason)
UiStep ==
  \/ PollPending \/ ApplyPending \/ RecheckPending \/ LoadEpoch \/ ConsumeMailbox
  \/ MailboxEmpty \/ ConsumeEngine \/ UseFallback \/ CheckEpoch \/ CheckReady
  \/ Present \/ RecordFault
Next ==
  \/ TransitionStep \/ LaneCall \/ PublishRealtimeVideoPacket \/ UiStep
  \/ AttachPresenter \/ StartEmulation \/ JoinEmulation \/ DetachPresenter

Spec == Init /\ [][Next]_vars

(* The UI loop polls, a transition that has begun goes on, and the machine keeps  *)
(* reaching VBlank.  A frame takes milliseconds to arrive and microseconds to be  *)
(* dropped, so the loops that drop stale frames find both mailboxes empty at last. *)
Fairness ==
  /\ WF_vars(UiStep) /\ WF_vars(TransitionStep) /\ WF_vars(PublishRealtimeVideoPacket)
  /\ SF_vars(MailboxEmpty) /\ SF_vars(UseFallback)

FairSpec == Spec /\ Fairness

-----------------------------------------------------------------------------
(* Properties *)

Frame == [session : Nat, epoch : Nat]

\* Every variable keeps its range.
TypeOK ==
  /\ state \in {"Headless", "Paused", "Active", "Faulted"}
  /\ presenter \in {"none", "closed", "open"}
  /\ epoch \in Nat \ {0} /\ pending \in Nat /\ depth \in {0, 1}
  /\ mailbox \in Frame /\ lastProcessed \in Frame
  /\ engine \in [queued : Frame, lastValid : Frame]
  /\ ui \in [pc : {"idle", "apply", "recheck", "loadEpoch", "mailbox", "engine", "check",
                   "ready", "presenting", "fault"},
             epoch : Nat, frame : Frame, fallback : BOOLEAN]
  /\ lane \in [pc : {"idle", "romLoaded", "pause", "paused", "mutate", "bump", "resume"},
               reason : Reasons \cup {"RomLoad"}, attempts : {0, 1}, wasActive : BOOLEAN, success : BOOLEAN,
               missing : SUBSET {"audio", "video"}, configured : BOOLEAN]
  /\ stats \in [transitions : Nat, successes : Nat, degraded : Nat, failures : Nat]
  /\ session \in Nat /\ shown \in Nat
  /\ lost \subseteq {"faulted", "retried", "thrown", "notOpened"}
  /\ loads \in Nat /\ thread \in {"none", "running", "joined"}

\* A frame that passes consumeAndProcessFrame's last epoch check was drawn in the
\* session the machine is in (or is blank), whichever of the mailbox, the engine and
\* the two fallbacks it came from and however often the epoch moved on meanwhile.
NoFrameAcrossSessions ==
  [][(ui.pc = "check" /\ ui'.pc = "ready" /\ lane.pc # "romLoaded")
       => ui.frame.session \in {0, session}]_vars

\* The service says Active only while the presenter is open, although the UI lane
\* writes the state without the lock that transitions hold.
ActiveMeansOpen == state = "Active" => presenter = "open" \/ lane.pc = "paused"

\* Between transitions an attached presenter is closed only if some transition was
\* retried, threw, began in the Faulted state or could not open it again.
PictureLostOnlyIf ==
  (lane.pc = "idle" /\ presenter = "closed") => lost # {}

\* Once transitions and loads are over and the presenter is open, the picture shows
\* the session the machine is in, again and again.
PictureComesBack ==
  <>[](laneIdle /\ presenter = "open") => []<>(shown = session)

\* Violated: the presenter is not closed while the UI lane presents with it.
NoReconfigurationWhilePresenting == ui.pc = "presenting" => presenter = "open"
=============================================================================
