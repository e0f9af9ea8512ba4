--------------------------- MODULE VisualCapture ----------------------------
(***************************************************************************)
(* Capture of the graphics a game shows: the lane observes a resource and  *)
(* hands it to the pool, whose task writes the image file and leaves a     *)
(* completion; the lane picks completions up, and the end of the capture   *)
(* waits for the writes and lists the images in the manifest.              *)
(***************************************************************************)
EXTENDS Integers, FiniteSets

CONSTANTS
    Resources,          \* what the game may show
    MaxFailures         \* bound: image writes that fail

\* Counting writes needs a finite set of resources.
ASSUME CaptureAssumption == IsFiniteSet(Resources) /\ MaxFailures \in Nat

VARIABLES
    seen,       \* captureSeen_
    queued,     \* resources whose task waits or runs
    writing,    \* tasks past the image file: [resource, success]
    pendingWrites,
    completed,  \* completions nobody has taken yet
    entries,    \* captureEntries_
    manifestDirty,
    images,     \* files on the disk
    manifest,   \* what the manifest on the disk lists
    capture,    \* "on", then what endCapture has got to
    failures,   \* image writes that have failed so far
    captureExcuse   \* the wait ran out, or the manifest could not be written

captureVars == <<seen, queued, writing, pendingWrites, completed, entries, manifestDirty,
                 images, manifest, capture, failures, captureExcuse>>

\* beginCapture has written an empty manifest.
CaptureInit ==
    /\ seen = {} /\ queued = {} /\ writing = {} /\ pendingWrites = 0 /\ completed = {}
    /\ entries = {} /\ manifestDirty = FALSE
    /\ images = {} /\ manifest = {}
    /\ capture = "on" /\ failures = 0 /\ captureExcuse = {}

Completion(r, success) == [resource |-> r, success |-> success]

\* observe: the first sight of a resource is counted and submitted; if the
\* pool refuses it, it is forgotten, to be tried at its next sight.
Observe(r) ==
    /\ capture = "on" /\ r \notin seen
    /\ seen' = seen \cup {r}
    /\ queued' = queued \cup {r} /\ pendingWrites' = pendingWrites + 1
    /\ UNCHANGED <<writing, completed, entries, manifestDirty, images, manifest, capture,
                   failures, captureExcuse>>

\* The task writes the image, one task at a time, or fails to.
WriteImage(r) ==
    /\ r \in queued /\ writing = {}
    /\ queued' = queued \ {r}
    /\ \/ writing' = {Completion(r, TRUE)} /\ images' = images \cup {r} /\ UNCHANGED failures
       \/ /\ failures < MaxFailures /\ failures' = failures + 1
          /\ writing' = {Completion(r, FALSE)} /\ UNCHANGED images
    /\ UNCHANGED <<seen, pendingWrites, completed, entries, manifestDirty, manifest, capture,
                   captureExcuse>>

\* It leaves its completion and counts itself out under the same lock.
Complete(c) ==
    /\ c \in writing
    /\ writing' = {} /\ completed' = completed \cup {c} /\ pendingWrites' = pendingWrites - 1
    /\ UNCHANGED <<seen, queued, entries, manifestDirty, images, manifest, capture, failures,
                   captureExcuse>>

\* The second half of pollBackgroundWork: successes are entered, failures are
\* forgotten, to be tried again.
TakeCompletions ==
    LET succeeded == {c.resource : c \in {d \in completed : d.success}}
        failed == {c.resource : c \in {d \in completed : ~d.success}} IN
    /\ completed' = {}
    /\ entries' = entries \cup succeeded
    /\ seen' = seen \ failed
    /\ manifestDirty' = (manifestDirty \/ succeeded # {})

PollCompletions ==
    /\ capture = "on" /\ TakeCompletions
    /\ UNCHANGED <<queued, writing, pendingWrites, images, manifest, capture, failures,
                   captureExcuse>>

\* endCapture on the host thread, once the lane has ended: it waits for the
\* writes, ten seconds at most, ...
EndCaptureWaits ==
    /\ capture = "on" /\ capture' = "waiting"
    /\ UNCHANGED <<seen, queued, writing, pendingWrites, completed, entries, manifestDirty,
                   images, manifest, failures, captureExcuse>>

EndCaptureTimesOut ==
    /\ capture = "waiting" /\ pendingWrites # 0 /\ "timeout" \notin captureExcuse
    /\ captureExcuse' = captureExcuse \cup {"timeout"}
    /\ UNCHANGED <<seen, queued, writing, pendingWrites, completed, entries, manifestDirty,
                   images, manifest, capture, failures>>

\* Mutant: the manifest is written from the completions taken so far.
EndCapture_NoPoll ==
    /\ capture = "waiting" /\ (pendingWrites = 0 \/ "timeout" \in captureExcuse)
    /\ capture' = "over"
    /\ manifest' = IF manifestDirty THEN entries ELSE manifest
    /\ UNCHANGED <<seen, queued, writing, pendingWrites, completed, entries, manifestDirty,
                   images, failures, captureExcuse>>

\* ... takes what has completed, and writes the manifest if it has changed.
EndCapture ==
    /\ capture = "waiting" /\ (pendingWrites = 0 \/ "timeout" \in captureExcuse)
    /\ capture' = "over"
    /\ TakeCompletions
    /\ \/ /\ manifest' = IF manifestDirty' THEN entries' ELSE manifest
          /\ UNCHANGED captureExcuse
       \/ /\ manifestDirty' /\ captureExcuse' = captureExcuse \cup {"manifest failed"}
          /\ UNCHANGED manifest
    /\ UNCHANGED <<queued, writing, pendingWrites, images, failures>>

CaptureNext ==
    \/ \E r \in Resources : Observe(r) \/ WriteImage(r)
    \/ \E c \in writing : Complete(c)
    \/ PollCompletions
    \/ EndCaptureWaits \/ EndCaptureTimesOut \/ EndCapture

CaptureSpec == CaptureInit /\ [][CaptureNext]_captureVars

\* Once the capture is over, the manifest lists exactly the images that were
\* written, those of a second attempt too, if the wait did not run out and
\* the manifest could be written.
CaptureComplete == capture = "over" /\ captureExcuse = {} => manifest = images
=============================================================================
