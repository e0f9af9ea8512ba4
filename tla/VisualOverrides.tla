-------------------------- MODULE VisualOverrides ---------------------------
(***************************************************************************)
(* Replacement graphics while their author works on them: a probe on the   *)
(* pool watches the write times of the manifest and the image, a second    *)
(* task reloads the pack, a third decodes the image, and the emulation     *)
(* lane, which never waits for any of them, starts them and takes what     *)
(* they found.                                                             *)
(*                                                                         *)
(* A file is a version, which is its contents and its write time.  The     *)
(* pack is one manifest with one image.                                    *)
(***************************************************************************)
EXTENDS Integers

CONSTANT MaxEdits       \* bound: times the author saves a file

\* The bound is a number.
ASSUME EditsAssumption == MaxEdits \in Nat

VARIABLES
    file,       \* the author's files: versions, and whether the manifest loads
    pack,       \* packs_: the manifest it was loaded from and its time stamps
    generation, \* generation_
    image,      \* imageCache_: the version of the decoded image, or NoImage
    decode,     \* pendingImageDecodes_ and the task behind it
    reload,     \* pendingReload_ and the task behind it
    probe,      \* visualReloadPollState
    missed      \* history: the manifest was saved after the running reload
                \* had read it

visualVars == <<file, pack, generation, image, decode, reload, probe, missed>>

NoImage == -1
NoDecode == [step |-> "none", generation |-> 0, version |-> NoImage]
NoReload == [step |-> "none", base |-> 0, from |-> 0, pack |-> [manifest |-> 0,
             manifestTime |-> 0, imageTime |-> 0], outcome |-> "none"]

\* A pack has been loaded and its image shown.
VisualInit ==
    /\ file = [manifest |-> 0, image |-> 0, good |-> TRUE, edits |-> 0]
    /\ pack = [manifest |-> 0, manifestTime |-> 0, imageTime |-> 0]
    /\ generation = 1 /\ image = 0
    /\ decode = NoDecode /\ reload = NoReload
    /\ probe = [running |-> FALSE, manifestTime |-> 0, imageTime |-> 0, requested |-> FALSE]
    /\ missed = FALSE

-----------------------------------------------------------------------------
(* The author.                                                             *)

Saves(f) ==
    /\ file.edits < MaxEdits
    /\ file' = [f EXCEPT !.edits = @ + 1]
    /\ UNCHANGED <<pack, generation, image, decode, reload, probe>>

EditImage == Saves([file EXCEPT !.image = @ + 1]) /\ UNCHANGED missed

\* The manifest may be saved in a form that does not load.
EditManifest ==
    /\ \E good \in BOOLEAN : Saves([file EXCEPT !.manifest = @ + 1, !.good = good])
    /\ missed' = (missed \/ reload.step \in {"stamp", "done"})

-----------------------------------------------------------------------------
(* The emulation lane.                                                     *)

\* The reload the lane takes is a change, and the packs are still those it
\* started from.
Applies == reload.step = "done" /\ reload.outcome = "changed" /\ reload.base = generation

\* pollVisualPackReload: take the result of a reload, and if it replaced the
\* packs drop what was cached from them and watch the new ones' files from
\* their present times on; start a probe if it is time and the pool takes it
\* (probed); answer a probe's request with a reload, unless one is pending or
\* the pool refuses it (accepted), when the request stands.
PollVisualPackReload(probed, accepted) ==
    LET free == reload.step \in {"none", "done"}
        starts == probe.requested /\ free /\ accepted IN
    /\ pack' = IF Applies THEN reload.pack ELSE pack
    /\ generation' = IF Applies THEN generation + 1 ELSE generation
    /\ image' = IF Applies THEN NoImage ELSE image
    /\ probe' = [running |-> probe.running \/ probed,
                 manifestTime |-> IF Applies THEN file.manifest ELSE probe.manifestTime,
                 imageTime |-> IF Applies THEN file.image ELSE probe.imageTime,
                 requested |-> probe.requested /\ ~starts]
    /\ reload' = IF starts THEN [NoReload EXCEPT !.step = "check", !.base = generation',
                                                 !.pack = pack']
                 ELSE IF free THEN NoReload ELSE reload
    /\ UNCHANGED <<file, decode, missed>>

\* Mutant: a decoded image is cached whatever the packs have become.
Resolve_AnyGeneration ==
    /\ image = NoImage
    /\ \/ /\ decode.step = "none"
          /\ decode' = [NoDecode EXCEPT !.step = "queued", !.generation = generation]
          /\ UNCHANGED image
       \/ /\ decode.step = "ready" /\ decode' = NoDecode
          /\ image' = decode.version
    /\ UNCHANGED <<file, pack, generation, reload, probe, missed>>

\* resolve, for each frame that shows the resource: the cached image is
\* returned; otherwise a decode is started, or its result taken, unless the
\* packs have been replaced since it was started or it failed.
Resolve ==
    /\ image = NoImage
    /\ \/ /\ decode.step = "none"
          /\ decode' = [NoDecode EXCEPT !.step = "queued", !.generation = generation]
          /\ UNCHANGED image
       \/ /\ decode.step = "ready" /\ decode' = NoDecode
          /\ image' = IF decode.generation = generation THEN decode.version ELSE NoImage
    /\ UNCHANGED <<file, pack, generation, reload, probe, missed>>

-----------------------------------------------------------------------------
(* The tasks on the pool.                                                  *)

\* decodeFileAsync reads the file, or fails, or is refused.
Decode(fails) ==
    /\ decode.step = "queued"
    /\ decode' = [decode EXCEPT !.step = "ready",
                                !.version = IF fails THEN NoImage ELSE file.image]
    /\ UNCHANGED <<file, pack, generation, image, reload, probe, missed>>

\* Mutant: a probe that finds nothing new takes back what the last one asked for.
ProbeRuns_OnlyLast ==
    LET changed == probe.manifestTime # file.manifest \/ probe.imageTime # file.image IN
    /\ probe.running
    /\ probe' = [running |-> FALSE, manifestTime |-> file.manifest, imageTime |-> file.image,
                 requested |-> changed]
    /\ UNCHANGED <<file, pack, generation, image, decode, reload, missed>>

\* The probe compares the write times with those it saw last.
ProbeRuns ==
    LET changed == probe.manifestTime # file.manifest \/ probe.imageTime # file.image IN
    /\ probe.running
    /\ probe' = [running |-> FALSE, manifestTime |-> file.manifest, imageTime |-> file.image,
                 requested |-> probe.requested \/ changed]
    /\ UNCHANGED <<file, pack, generation, image, decode, reload, missed>>

Reloads(r) ==
    /\ reload' = r
    /\ UNCHANGED <<file, pack, generation, image, decode, probe>>

\* The reload task: nothing to do if the pack has the present write times, ...
ReloadChecks ==
    /\ reload.step = "check" /\ UNCHANGED missed
    /\ Reloads(IF reload.pack.manifestTime = file.manifest /\ reload.pack.imageTime = file.image
               THEN [reload EXCEPT !.step = "done", !.outcome = "same"]
               ELSE [reload EXCEPT !.step = "load"])

\* ... else it loads the manifest; one that does not load leaves the packs, ...
ReloadLoads ==
    /\ reload.step = "load"
    /\ Reloads(IF file.good THEN [reload EXCEPT !.step = "stamp", !.from = file.manifest]
                            ELSE [reload EXCEPT !.step = "done", !.outcome = "error"])
    /\ missed' = (missed /\ ~file.good)

\* ... and then it stamps the new pack with the write times it finds.
ReloadStamps ==
    /\ reload.step = "stamp" /\ UNCHANGED missed
    /\ Reloads([reload EXCEPT !.step = "done", !.outcome = "changed",
                              !.pack = [manifest |-> reload.from,
                                        manifestTime |-> file.manifest,
                                        imageTime |-> file.image]])

ReloadTask == ReloadChecks \/ ReloadLoads \/ ReloadStamps

VisualNext ==
    \/ EditImage \/ EditManifest
    \/ \E probed, accepted \in BOOLEAN : PollVisualPackReload(probed, accepted)
    \/ Resolve
    \/ \E fails \in BOOLEAN : Decode(fails)
    \/ ProbeRuns \/ ReloadTask

\* The lane polls in every round of its loop; the pool runs what it accepts,
\* and is not full, nor a readable file unreadable, for ever.
VisualFairness ==
    /\ WF_visualVars(PollVisualPackReload(TRUE, TRUE))
    /\ WF_visualVars(Resolve)
    /\ SF_visualVars(Decode(FALSE))
    /\ WF_visualVars(ProbeRuns)
    /\ WF_visualVars(ReloadTask)

VisualSpec == VisualInit /\ [][VisualNext]_visualVars /\ VisualFairness

-----------------------------------------------------------------------------
\* A change that is still on its way: the next probe will see it, a probe has
\* asked for a reload, or one runs or has a new pack.
ChangePending ==
    \/ probe.manifestTime # file.manifest \/ probe.imageTime # file.image
    \/ probe.requested
    \/ reload.step \in {"check", "load", "stamp"} \/ Applies

\* No saved change is lost between the probe, the reload, the watch list and
\* the decodes (pollVisualPackReload, resolve): when none is on its way and the
\* manifest loads, no other image is shown, now or by a decode not yet taken,
\* than the one in the file, and the manifest in use is the one in the file, but
\* for the one case below.
NoChangeLost ==
    file.good /\ ~ChangePending =>
        /\ image \in {NoImage, file.image}
        /\ decode.step = "ready" /\ decode.generation = generation =>
               decode.version \in {NoImage, file.image}
        /\ missed \/ pack.manifest = file.manifest

\* When the author stops and the manifest loads, the program comes to show the
\* image that is in the file and to use the manifest as it is: no image
\* decoded before a reload is cached after it, and no change is left unseen
\* between the probe, the reload and the watch list.  One change can be: a
\* manifest saved after a reload has read it and before its result is taken
\* gets its new time stamped on the old contents.
EditsReachTheScreen ==
    <>[](file.good => /\ image = file.image
                      /\ missed \/ pack.manifest = file.manifest)
=============================================================================
