----------------------- MODULE MCBackgroundThreadPool -----------------------
(* The small instance of the background thread pool for its safety properties. *)
EXTENDS BackgroundThreadPool, TLC

CONSTANTS t1, t2, t3, t4, s1, s2, u1, nobody

FourTasks  == {t1, t2, t3, t4}
TwoSubmitters == {s1, s2}
OneWaiter  == {u1}

\* Tasks and submitters are interchangeable in every action and every invariant.
Symmetry == Permutations(Tasks) \cup Permutations(Submitters)
=============================================================================
