----------------------------- MODULE MCNetplay ------------------------------
(* Netplay with concrete inputs and the two ways of configuring a session. *)
EXTENDS Netplay

MCInputs == [p \in Peer |-> IF p = 0 THEN {{}, {"A"}} ELSE {{}}]

\* The same session, ROM and configuration on both sides, or not.
MCBindings == {[p \in Peer |-> "s1"], [p \in Peer |-> IF p = 0 THEN "s1" ELSE "s2"]}

=============================================================================
