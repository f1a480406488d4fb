---------------------------- MODULE MCCwbSession ----------------------------
(* CwbSession for TLC: requests, buffers and tasks are interchangeable; the *)
(* symmetry is used by the run that checks no liveness.                     *)
EXTENDS CwbSession

Symmetry == Permutations(Requests) \cup Permutations(Buffers) \cup Permutations(Tasks)
=============================================================================
