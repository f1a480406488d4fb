--------------------------- MODULE FramePipeline ---------------------------
(***************************************************************************)
(* What the asynchronous commit of a display promises its callers: a       *)
(* pipeline of one place.  A frame is accepted only when the one before it *)
(* is done, an accepted frame is performed exactly once, a frame may be    *)
(* performed by its caller instead, and the pipeline closes only when it   *)
(* is empty.                                                               *)
(***************************************************************************)
EXTENDS Naturals

CONSTANT MaxFrames

VARIABLES
  inFlight,  \* frames accepted and not performed: 0 or 1
  done,      \* frames performed
  closed

vars == <<inFlight, done, closed>>

Init == inFlight = 0 /\ done = 0 /\ closed = FALSE

Room == inFlight = 0 /\ ~closed /\ done < MaxFrames

Accept == Room /\ inFlight' = 1 /\ UNCHANGED <<done, closed>>

Perform == inFlight = 1 /\ inFlight' = 0 /\ done' = done + 1 /\ UNCHANGED closed

PerformInCaller == Room /\ done' = done + 1 /\ UNCHANGED <<inFlight, closed>>

Close == inFlight = 0 /\ ~closed /\ closed' = TRUE /\ UNCHANGED <<inFlight, done>>

Next == Accept \/ Perform \/ PerformInCaller \/ Close

Spec == Init /\ [][Next]_vars /\ WF_vars(Perform)
=============================================================================
