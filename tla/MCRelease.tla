----------------------------- MODULE MCRelease -----------------------------
(* TLC instances of Release: which slots there are and what each may run.  *)
EXTENDS Release, TLC

(* Releases are interchangeable: nothing in the code compares them.  Only   *)
(* runs without liveness use it.                                            *)
Symmetry == Permutations(Commits)

=============================================================================
