--------------------------- MODULE MCHostServices ---------------------------
(***************************************************************************)
(* What the host runs around a machine, checked together: the background   *)
(* pool (BackgroundThreadPool), what its tasks do (CartridgeSaves,         *)
(* VisualOverrides, VisualCapture), the controller's thread                *)
(* (ControllerInput) and the machine lane's control (TimingLane).  They    *)
(* share no state, so a behaviour moves one of them.                       *)
(***************************************************************************)
EXTENDS BackgroundThreadPool, CartridgeSaves, ControllerInput, VisualOverrides, VisualCapture,
        TimingLane

VARIABLE focus      \* the part that moves

Services == {"pool", "saves", "controller", "visuals", "capture", "timing"}

\* A part that does not move has one initial state, whichever.
HostInit ==
    /\ focus \in Services
    /\ Init
    /\ SavesInit /\ (focus # "saves" => core = "gameboy")
    /\ ControllerInit /\ (focus # "controller" => device.plugged)
    /\ VisualInit
    /\ CaptureInit
    /\ TimingInit /\ (focus # "timing" => control.paused /\ control.throttled)

\* Every part but s stays as it is.
Others(s) ==
    /\ IF s = "pool" THEN TRUE ELSE UNCHANGED vars
    /\ IF s = "saves" THEN TRUE ELSE UNCHANGED saveVars
    /\ IF s = "controller" THEN TRUE ELSE UNCHANGED controllerVars
    /\ IF s = "visuals" THEN TRUE ELSE UNCHANGED visualVars
    /\ IF s = "capture" THEN TRUE ELSE UNCHANGED captureVars
    /\ IF s = "timing" THEN TRUE ELSE UNCHANGED timingVars

HostNext ==
    /\ UNCHANGED focus
    /\ \/ focus = "pool" /\ Next /\ Others("pool")
       \/ focus = "saves" /\ SavesNext /\ Others("saves")
       \/ focus = "controller" /\ ControllerNext /\ Others("controller")
       \/ focus = "visuals" /\ VisualNext /\ Others("visuals")
       \/ focus = "capture" /\ CaptureNext /\ Others("capture")
       \/ focus = "timing" /\ TimingNext /\ Others("timing")

hostVars ==
    <<focus, vars, saveVars, controllerVars, visualVars, captureVars, timingVars>>

\* Each part is scheduled as its module says (BackgroundThreadPool's Fairness,
\* ControllerFairness, VisualFairness), in the behaviours that are about it.
HostFairness ==
    /\ \A w \in Workers : WF_vars(focus = "pool" /\ WorkerNext(w))
    /\ \A s \in Submitters :
          WF_vars(focus = "pool" /\ (SubmitEnter(s) \/ SubmitScan(s) \/ SubmitRelease(s)))
    /\ WF_vars(focus = "pool" /\ (StartReturn \/ ShutdownJoined \/ ShutdownReturn))
    /\ WF_vars(focus = "pool" /\ (CancelQueue \/ CancelFinish \/ CancelNotify))
    /\ \A u \in Waiters : WF_vars(focus = "pool" /\ WaitWake(u))
    /\ WF_controllerVars(focus = "controller" /\ WorkerStep)
    /\ WF_controllerVars(focus = "controller" /\ SampleStep)
    /\ WF_controllerVars(focus = "controller" /\ JoinWorker)
    /\ WF_visualVars(focus = "visuals" /\ PollVisualPackReload(TRUE, TRUE))
    /\ WF_visualVars(focus = "visuals" /\ Resolve)
    /\ SF_visualVars(focus = "visuals" /\ Decode(FALSE))
    /\ WF_visualVars(focus = "visuals" /\ ProbeRuns)
    /\ WF_visualVars(focus = "visuals" /\ ReloadTask)

HostSpec == HostInit /\ [][HostNext]_hostVars /\ HostFairness
=============================================================================
