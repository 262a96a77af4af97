--------------------------- MODULE MCVerificationLoop ---------------------------
(***************************************************************************)
(* Small instances of the verification loop for TLC.                       *)
(***************************************************************************)
EXTENDS VerificationLoop, TLC

CONSTANTS j1, j2, w1, w2, a1

OneJob == {j1}
TwoJobs == {j1, j2}
TwoWorkers == {w1, w2}
OneRequest == {a1}
NoRequest == {}
TwoAttempts == [j \in Job |-> 2]
OneAttempt == [j \in Job |-> 1]

Symmetry == Permutations(Worker) \cup Permutations(Job)
=============================================================================
