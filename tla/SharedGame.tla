----------------------------- MODULE SharedGame -----------------------------
(***************************************************************************)
(* What netplay promises (src/machine/plugins/input/netplay): two players  *)
(* play one game.  A player enters the input of a frame only after playing *)
(* all frames before it; a frame is played with the union of what both     *)
(* entered for that very frame, and with nothing else.                     *)
(***************************************************************************)
EXTENDS Naturals, Sequences

CONSTANTS
  Frames,     \* frames of the session; the entry after the last one is not played
  Inputs      \* Inputs[p] = the masks player p may enter

Player == {0, 1}

VARIABLES
  entered,    \* entered[p] = the inputs p entered, frame by frame
  played      \* played[p]  = the inputs the frames p played were played with

vars == <<entered, played>>

Init == /\ entered = [p \in Player |-> <<>>]
        /\ played = [p \in Player |-> <<>>]

Enter(p, m) ==
  /\ Len(entered[p]) = Len(played[p])
  /\ entered' = [entered EXCEPT ![p] = Append(@, m)]
  /\ UNCHANGED played

Play(p) ==
  LET n == Len(played[p]) + 1 IN
  /\ n <= Frames
  /\ \A q \in Player : n <= Len(entered[q])
  /\ played' = [played EXCEPT ![p] = Append(@, entered[0][n] \cup entered[1][n])]
  /\ UNCHANGED entered

Next == \E p \in Player : (\E m \in Inputs[p] : Enter(p, m)) \/ Play(p)

Spec == Init /\ [][Next]_vars

=============================================================================
