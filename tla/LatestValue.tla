----------------------------- MODULE LatestValue -----------------------------
(***************************************************************************)
(* What the realtime video mailbox promises ("latest-only"): a register    *)
(* that a producer overwrites and a consumer empties.  A taken frame is    *)
(* complete and newer than every frame taken before it; a frame published  *)
(* over an untaken one replaces it.                                        *)
(***************************************************************************)
EXTENDS Integers

CONSTANT NoFrame   \* the register is empty

VARIABLES
  latest,    \* the frame a take would return, or NoFrame
  taken,     \* the last frame taken
  published  \* the number of the last frame published

Init == latest = NoFrame /\ taken = 0 /\ published = 0

Publish ==
  /\ published' = published + 1
  /\ latest' = published'
  /\ UNCHANGED taken

Take ==
  /\ latest # NoFrame
  /\ taken' = latest
  /\ latest' = NoFrame
  /\ UNCHANGED published

Next == Publish \/ Take

Spec == Init /\ [][Next]_<<latest, taken, published>>
=============================================================================
