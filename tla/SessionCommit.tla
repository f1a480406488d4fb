--------------------------- MODULE SessionCommit ---------------------------
(***************************************************************************)
(* The frame sequence of one display in HWCSession and the binder calls    *)
(* that wait for it: Locker and its sequence locks                          *)
(* (sdm/include/utils/locker.h), CommitOrPrepare, PresentDisplay and        *)
(* WaitForCommitDone (composer/hwc_session.cpp).                            *)
(*                                                                         *)
(* The composer client commits a frame in one call, or validates it in one  *)
(* and presents it in a second; sequence_wait_ is 1 from the first to the   *)
(* end of the second, and calls that take the wait lock sleep meanwhile.    *)
(* WaitForCommitDone then sleeps a second time, for a commit to be done.    *)
(* Critical sections of locker_ are single steps.  The error path of        *)
(* PresentDisplay writes the shared fields after it left the lock, one      *)
(* statement at a time.  The composer's calls are serialised by             *)
(* command_seq_mutex_; the display stays connected.                         *)
(***************************************************************************)
EXTENDS Integers

CONSTANTS
  Waiters,      \* the clients of WaitForCommitDone (kClientPartialUpdate, ...)
  MaxFrames,    \* bound on the calls of the composer
  MaxCalls,     \* bound on the calls of each waiter
  MaxSpurious   \* bound on the spurious wake-ups of the condition

ASSUME BoundsAssumption == MaxFrames \in Nat /\ MaxCalls \in Nat /\ MaxSpurious \in Nat

NoFence == 0

VARIABLES
  sequence_wait,  \* Locker::sequence_wait_
  composer,       \* where the composer's call is
  out_fence,      \* the retire fence in that call
  waiting,        \* clients_waiting_for_commit_
  retire_fence,   \* retire_fence_: the number of the frame, or NoFence
  commit_error,   \* commit_error_ # 0
  wpc,            \* where each waiter is
  result,         \* what its last call returned
  calls,
  frames,         \* calls of the composer so far
  committed,      \* frames the display has committed
  seen            \* their number when the waiter began to wait for the commit

shared == <<waiting, retire_fence, commit_error>>
waiter == <<wpc, result, calls, seen>>
frame == <<composer, out_fence, frames, committed>>

VARIABLE spurious

vars == <<sequence_wait, shared, waiter, frame, spurious>>

TypeOK ==
  /\ sequence_wait \in {-1, 0, 1}
  /\ composer \in {"idle", "entered", "validated", "failed", "err_fence", "err_code",
                   "err_reset", "cancel"}
  /\ out_fence \in 0..MaxFrames
  /\ waiting \in SUBSET Waiters
  /\ retire_fence \in 0..MaxFrames
  /\ commit_error \in BOOLEAN
  /\ wpc \in [Waiters -> {"idle", "seq_asleep", "seq_awake", "asleep", "awake", "timeout"}]
  /\ result \in [Waiters -> {"none", "ok", "error", "timeout"}]
  /\ calls \in [Waiters -> 0..MaxCalls]
  /\ frames \in 0..MaxFrames /\ committed \in 0..frames
  /\ seen \in [Waiters -> 0..MaxFrames]
  /\ spurious \in 0..MaxSpurious

Init ==
  /\ sequence_wait = 0
  /\ composer = "idle" /\ out_fence = NoFence
  /\ waiting = {} /\ retire_fence = NoFence /\ commit_error = FALSE
  /\ wpc = [w \in Waiters |-> "idle"]
  /\ result = [w \in Waiters |-> "none"]
  /\ calls = [w \in Waiters |-> 0]
  /\ frames = 0 /\ committed = 0
  /\ seen = [w \in Waiters |-> 0]
  /\ spurious = 0

Wake(label) ==
  CASE label = "seq_asleep" -> "seq_awake"
    [] label = "asleep" -> "awake"
    [] OTHER -> label

(* Locker::Broadcast, at the end of an exit or cancel section.              *)
Broadcast == wpc' = [w \in Waiters |-> Wake(wpc[w])]

-----------------------------------------------------------------------------
NewCall ==
  /\ composer \in {"idle", "validated"}
  /\ frames < MaxFrames
  /\ frames' = frames + 1

(* A slip: the sequence is not opened.                                      *)
CommitOrPrepareUnsequenced ==
  /\ NewCall
  /\ \/ composer' = "entered" /\ committed' = committed + 1 /\ out_fence' = committed + 1
     \/ composer' = "entered" /\ committed' = committed /\ out_fence' = NoFence
     \/ composer' = "validated" /\ committed' = committed /\ out_fence' = NoFence
  /\ UNCHANGED <<sequence_wait, shared, waiter, spurious>>

(* CommitOrPrepare, the entry section: the frame is committed, or nothing   *)
(* is (an error, or nothing to validate), or it needs a commit of its own.  *)
CommitOrPrepare ==
  /\ NewCall
  /\ sequence_wait' = 1
  /\ \/ composer' = "entered" /\ committed' = committed + 1 /\ out_fence' = committed + 1
     \/ composer' = "entered" /\ committed' = committed /\ out_fence' = NoFence
     \/ composer' = "validated" /\ committed' = committed /\ out_fence' = NoFence
  /\ UNCHANGED <<shared, waiter, spurious>>

(* The fence goes to whoever waits; their bits are cleared.                 *)
PostCommitLocked(fence) ==
  IF waiting # {}
    THEN retire_fence' = fence /\ commit_error' = FALSE /\ waiting' = {}
    ELSE UNCHANGED shared

(* A slip: the waiters are served and nobody is woken.                      *)
FinishUnifiedCommitSilently ==
  /\ composer = "entered"
  /\ sequence_wait' = 0
  /\ PostCommitLocked(out_fence)
  /\ composer' = "idle"
  /\ UNCHANGED <<waiter, out_fence, frames, committed, spurious>>

(* CommitOrPrepare, the exit section when no further commit is needed.      *)
FinishUnifiedCommit ==
  /\ composer = "entered"
  /\ sequence_wait' = 0
  /\ PostCommitLocked(out_fence)
  /\ Broadcast
  /\ composer' = "idle"
  /\ UNCHANGED <<result, calls, seen, out_fence, frames, committed, spurious>>

(* PresentDisplay, of a validated frame or out of turn; the exit section:    *)
(* the frame is committed; or the display commits nothing and still succeeds *)
(* (no resources, or paused); or a power mode is pending, or the frame was   *)
(* not validated, and nobody is served; or it fails.  Each wakes the waiters.*)
PresentDisplay ==
  /\ (composer = "validated" /\ UNCHANGED frames) \/ (composer = "idle" /\ NewCall)
  /\ sequence_wait' = 0
  /\ Broadcast
  /\ \/ /\ committed' = committed + 1
        /\ PostCommitLocked(committed + 1)
        /\ composer' = "idle"
     \/ /\ PostCommitLocked(NoFence)
        /\ composer' = "idle" /\ UNCHANGED committed
     \/ /\ composer' \in {"idle", "failed"}
        /\ UNCHANGED <<shared, committed>>
  /\ UNCHANGED <<result, calls, seen, out_fence, spurious>>

(* Its error path, after the lock was released.                             *)
ErrorStep(from, to) == composer = from /\ composer' = to

ErrorCheck ==
  /\ composer = "failed"
  /\ composer' = IF waiting # {} THEN "err_fence" ELSE "cancel"
  /\ UNCHANGED <<sequence_wait, shared, waiter, out_fence, frames, committed, spurious>>

ErrorFence ==
  /\ ErrorStep("err_fence", "err_code")
  /\ retire_fence' = NoFence
  /\ UNCHANGED <<sequence_wait, waiting, commit_error, waiter, out_fence, frames,
                 committed, spurious>>

ErrorCode ==
  /\ ErrorStep("err_code", "err_reset")
  /\ commit_error' = TRUE
  /\ UNCHANGED <<sequence_wait, waiting, retire_fence, waiter, out_fence, frames,
                 committed, spurious>>

ErrorReset ==
  /\ ErrorStep("err_reset", "cancel")
  /\ waiting' = {}
  /\ UNCHANGED <<sequence_wait, retire_fence, commit_error, waiter, out_fence, frames,
                 committed, spurious>>

CancelSequence ==
  /\ composer = "cancel"
  /\ sequence_wait' = -1
  /\ Broadcast
  /\ composer' = "idle"
  /\ UNCHANGED <<shared, result, calls, seen, out_fence, frames, committed,
                 spurious>>

-----------------------------------------------------------------------------
(* WaitForCommitDone.  The wait lock sleeps while the sequence is open; past *)
(* it the client sets its bit and sleeps until a broadcast or a timeout.    *)
Register(w) ==
  /\ waiting' = waiting \cup {w}
  /\ wpc' = [wpc EXCEPT ![w] = "asleep"]
  /\ seen' = [seen EXCEPT ![w] = committed]

Begin(w) ==
  /\ wpc[w] = "idle"
  /\ calls[w] < MaxCalls
  /\ calls' = [calls EXCEPT ![w] = @ + 1]
  /\ result' = [result EXCEPT ![w] = "none"]

(* Whether a cancel ended the sleep is noted in error_, which nobody reads.  *)
Resume(w) ==
  /\ wpc[w] = "seq_awake"
  /\ UNCHANGED <<calls, result>>

SleepOrRegister(w) ==
  /\ IF sequence_wait = 1
       THEN wpc' = [wpc EXCEPT ![w] = "seq_asleep"] /\ UNCHANGED <<waiting, seen>>
       ELSE Register(w)
  /\ UNCHANGED <<sequence_wait, retire_fence, commit_error, frame, spurious>>

WaitForCommitDone(w) == Begin(w) /\ SleepOrRegister(w)
WaitForSequence(w) == Resume(w) /\ SleepOrRegister(w)

(* The bit is set by a read and a write, the composer's reset takes no lock: *)
(* a reset in between is lost.                                              *)
ResetLost(w) ==
  /\ ErrorStep("err_reset", "cancel")
  /\ sequence_wait # 1
  /\ Begin(w) \/ Resume(w)
  /\ Register(w)
  /\ UNCHANGED <<sequence_wait, retire_fence, commit_error, out_fence, frames,
                 committed, spurious>>

Return(w, value) ==
  /\ result' = [result EXCEPT ![w] = value]
  /\ wpc' = [wpc EXCEPT ![w] = "idle"]

(* A timed-out call returns with its bit still set.                         *)
TimedOut(w) ==
  /\ wpc[w] = "timeout"
  /\ Return(w, "timeout")
  /\ UNCHANGED <<sequence_wait, shared, calls, seen, frame, spurious>>

(* A woken call takes whatever is there: the error, which it clears, or the *)
(* fence, which it takes away (no fence is waited for as a signaled one).   *)
Collect(w) ==
  /\ wpc[w] = "awake"
  /\ IF commit_error
       THEN commit_error' = FALSE /\ Return(w, "error") /\ UNCHANGED retire_fence
       ELSE retire_fence' = NoFence /\ Return(w, "ok") /\ UNCHANGED commit_error
  /\ UNCHANGED <<sequence_wait, waiting, calls, seen, frame, spurious>>

Timeout(w) ==
  /\ wpc[w] = "asleep"
  /\ wpc' = [wpc EXCEPT ![w] = "timeout"]
  /\ UNCHANGED <<sequence_wait, shared, result, calls, seen, frame, spurious>>

SpuriousWake(w) ==
  /\ spurious < MaxSpurious
  /\ spurious' = spurious + 1
  /\ wpc[w] \in {"seq_asleep", "asleep"}
  /\ wpc' = [wpc EXCEPT ![w] = Wake(@)]
  /\ UNCHANGED <<sequence_wait, shared, result, calls, seen, frame>>

-----------------------------------------------------------------------------
FinishCall ==
  \/ FinishUnifiedCommit
  \/ ErrorCheck \/ ErrorFence \/ ErrorCode \/ ErrorReset \/ CancelSequence

WaiterStep(w) == WaitForSequence(w) \/ TimedOut(w) \/ Collect(w)

(* The composer client presents a frame that it validated.                  *)
PresentValidated == composer = "validated" /\ PresentDisplay

Next ==
  \/ CommitOrPrepare \/ PresentDisplay \/ FinishCall
  \/ \E w \in Waiters : WaitForCommitDone(w) \/ WaiterStep(w) \/ ResetLost(w)
                        \/ Timeout(w) \/ SpuriousWake(w)

Fairness ==
  /\ WF_vars(FinishCall)
  /\ WF_vars(PresentValidated)
  /\ \A w \in Waiters : WF_vars(WaiterStep(w)) /\ WF_vars(Timeout(w))

Spec == Init /\ [][Next]_vars /\ Fairness
-----------------------------------------------------------------------------
InFrame == composer \in {"entered", "validated"}

(* No call past the wait lock begins to work between the validation and the *)
(* present of a frame ("capturing a transitionary snapshot of context is    *)
(* prevented", locker.h:169).                                               *)
NoTransitionalSnapshot ==
  [][\A w \in Waiters : wpc[w] # "asleep" /\ wpc'[w] = "asleep" => ~InFrame]_vars

(* No waiter is forgotten: one that sleeps for the sequence finds it open,   *)
(* and one that sleeps for the commit is still registered, or the composer's *)
(* call is about to wake it.                                                *)
NoForgottenWaiter ==
  \A w \in Waiters :
    /\ wpc[w] = "seq_asleep" => sequence_wait = 1
    /\ wpc[w] = "asleep" => w \in waiting \/ composer = "cancel"

(* Every call returns, if the composer client presents what it validated.   *)
EveryWaitReturns == \A w \in Waiters : wpc[w] # "idle" ~> wpc[w] = "idle"

(* A call that returns 0 has waited for a commit: "Wait until partial update *)
(* control is complete" (hwc_session_services.cpp:284).                     *)
CommitDoneMeansCommitted == \A w \in Waiters : result[w] = "ok" => committed > seen[w]
=============================================================================
