--------------------------- MODULE MCCommitWorker ---------------------------
(* CommitWorker for TLC.  The client threads are interchangeable; the      *)
(* symmetry is used by the run that checks no liveness.                    *)
EXTENDS CommitWorker, TLC

Symmetry == Permutations(Clients)
=============================================================================
