---------------------------- MODULE CommitWorker ----------------------------
(***************************************************************************)
(* The commit thread of a display and the lock pair that client calls and  *)
(* that thread share: DisplayBase::DisplayMutex, ClientLock, CommitThread, *)
(* and the constructor and destructor that start and stop the thread       *)
(* (sdm/libs/core/display_base.{h,cpp}).                                   *)
(*                                                                         *)
(* A client call takes client_mutex, then worker_mutex, and waits on       *)
(* worker_cv until the worker is no longer busy.  An asynchronous commit   *)
(* sets worker_busy and notifies; the worker holds worker_mutex for the    *)
(* whole of the hardware commit.  A waiting thread is a member of the set  *)
(* worker_cv; a woken one must win worker_mutex again before it goes on.   *)
(***************************************************************************)
EXTENDS Naturals

CONSTANTS
  Clients,          \* threads that call into the display (composer, binder, events)
  Owner,            \* the thread that constructs and destroys the DisplayBase
  Worker,           \* the commit thread
  NoThread,         \* a mutex nobody holds; a layer stack detached from its caller
  MaxFrames,        \* bound on the commits submitted
  MaxOps,           \* bound on the calls of each client
  MaxSpurious       \* bound on the spurious wake-ups of worker_cv

Users == Clients \cup {Owner}
Threads == Users \cup {Worker}

ASSUME ThreadsAssumption ==
  /\ Owner \notin Clients
  /\ Worker \notin Users
  /\ NoThread \notin Threads
ASSUME BoundsAssumption ==
  MaxFrames \in Nat /\ MaxOps \in Nat /\ MaxSpurious \in Nat

VARIABLES
  client_mutex,  \* the thread that holds DisplayMutex::client_mutex
  worker_mutex,  \* the thread that holds DisplayMutex::worker_mutex
  client_cv,     \* whether the constructor is blocked on client_cv
  worker_cv,     \* the threads blocked on worker_cv
  worker_busy,
  worker_exit,
  idle_spent,    \* the idle timer has fired since the last commit: WaitUntil is indefinite
  idle_armed,    \* the wait in progress has a finite timeout
  stack,         \* whose LayerStack disp_layer_stack_->stack points to
  submitted,     \* commits handed to the hardware layer or to the worker
  performed,     \* commits whose PerformHwCommit has returned
  pc,            \* where each thread is
  ops,           \* calls made by each client
  spurious       \* spurious wake-ups so far

locks == <<client_mutex, worker_mutex, client_cv, worker_cv>>
flags == <<worker_busy, worker_exit>>
idle == <<idle_spent, idle_armed>>
frames == <<stack, submitted, performed>>
bounds == <<ops, spurious>>
vars == <<locks, flags, idle, frames, pc, bounds>>

OwnerPC == {"ctor", "ctor_spawned", "ctor_wait", "ctor_wake", "join", "destroyed"}
UserPC == {"idle", "lock_worker", "cv_wait", "cv_wake", "cs", "prepared"}
WorkerPC == {"absent", "start", "greet", "loop", "wait", "wake", "timeout",
             "idle_event", "commit", "exit", "done"}

TypeOK ==
  /\ client_mutex \in Users \cup {NoThread}
  /\ worker_mutex \in Threads \cup {NoThread}
  /\ client_cv \in BOOLEAN
  /\ worker_cv \in SUBSET Threads
  /\ worker_busy \in BOOLEAN /\ worker_exit \in BOOLEAN
  /\ idle_spent \in BOOLEAN /\ idle_armed \in BOOLEAN
  /\ stack \in Users \cup {NoThread}
  /\ submitted \in 0..MaxFrames /\ performed \in 0..MaxFrames
  /\ pc \in [Threads -> OwnerPC \cup UserPC \cup WorkerPC]
  /\ ops \in [Clients -> 0..MaxOps]
  /\ spurious \in 0..MaxSpurious

Constructed == pc[Owner] \notin {"ctor", "ctor_spawned", "ctor_wait", "ctor_wake"}

Init ==
  /\ client_mutex = Owner /\ worker_mutex = NoThread
  /\ client_cv = FALSE /\ worker_cv = {}
  /\ worker_busy = FALSE /\ worker_exit = FALSE
  /\ idle_spent = FALSE /\ idle_armed = FALSE
  /\ stack = NoThread /\ submitted = 0 /\ performed = 0
  /\ pc = [t \in Threads |-> IF t = Owner THEN "ctor"
                             ELSE IF t = Worker THEN "absent" ELSE "idle"]
  /\ ops = [c \in Clients |-> 0]
  /\ spurious = 0

-----------------------------------------------------------------------------
(* DisplayBase::DisplayBase: holding client_mutex, start the thread and    *)
(* wait on client_cv for its greeting.                                     *)
CtorSpawn ==
  /\ pc[Owner] = "ctor"
  /\ pc' = [pc EXCEPT ![Owner] = "ctor_spawned", ![Worker] = "start"]
  /\ UNCHANGED <<locks, flags, idle, frames, bounds>>

CtorWait ==
  /\ pc[Owner] = "ctor_spawned"
  /\ client_mutex' = NoThread
  /\ client_cv' = TRUE
  /\ pc' = [pc EXCEPT ![Owner] = "ctor_wait"]
  /\ UNCHANGED <<worker_mutex, worker_cv, flags, idle, frames, bounds>>

(* That wait has no predicate: were it to return unnotified, the            *)
(* constructor would go on at once (EarlyWakeSpec only).                    *)
CtorSpuriousWake ==
  /\ pc[Owner] = "ctor_wait"
  /\ client_cv' = FALSE
  /\ pc' = [pc EXCEPT ![Owner] = "ctor_wake"]
  /\ UNCHANGED <<client_mutex, worker_mutex, worker_cv, flags, idle, frames, bounds>>

CtorReturn ==
  /\ pc[Owner] = "ctor_wake"
  /\ client_mutex = NoThread
  /\ pc' = [pc EXCEPT ![Owner] = "idle"]
  /\ UNCHANGED <<locks, flags, idle, frames, bounds>>

-----------------------------------------------------------------------------
(* ClientLock: the constructor takes both mutexes and waits out the        *)
(* worker, the destructor releases both.  The owner takes the lock only in *)
(* ~DisplayBase, when no client will call again.                           *)
MayCall(u) ==
  IF u = Owner
    THEN ~worker_exit /\ \A c \in Clients : pc[c] = "idle"
    ELSE ops[u] < MaxOps /\ pc[Owner] = "idle"

(* A slip: client_mutex not taken, so callers queue on worker_cv together.  *)
LockClientShared(u) ==
  /\ pc[u] = "idle" /\ Constructed /\ MayCall(u)
  /\ pc' = [pc EXCEPT ![u] = "lock_worker"]
  /\ UNCHANGED <<locks, flags, idle, frames, bounds>>

LockClient(u) ==
  /\ pc[u] = "idle"
  /\ Constructed
  /\ MayCall(u)
  /\ client_mutex = NoThread
  /\ client_mutex' = u
  /\ pc' = [pc EXCEPT ![u] = "lock_worker"]
  /\ UNCHANGED <<worker_mutex, client_cv, worker_cv, flags, idle, frames, bounds>>

(* A slip: "if" for "while", so a woken caller does not look again.         *)
EnterOrWaitOnce(u) ==
  /\ pc[u] \in {"lock_worker", "cv_wake"}
  /\ worker_mutex = NoThread
  /\ IF worker_busy /\ pc[u] = "lock_worker"
       THEN /\ worker_cv' = worker_cv \cup {u}
            /\ pc' = [pc EXCEPT ![u] = "cv_wait"]
            /\ UNCHANGED worker_mutex
       ELSE /\ worker_mutex' = u
            /\ pc' = [pc EXCEPT ![u] = "cs"]
            /\ UNCHANGED worker_cv
  /\ UNCHANGED <<client_mutex, client_cv, flags, idle, frames, bounds>>

EnterOrWait(u) ==
  /\ pc[u] \in {"lock_worker", "cv_wake"}
  /\ worker_mutex = NoThread
  /\ IF worker_busy
       THEN /\ worker_cv' = worker_cv \cup {u}
            /\ pc' = [pc EXCEPT ![u] = "cv_wait"]
            /\ UNCHANGED worker_mutex
       ELSE /\ worker_mutex' = u
            /\ pc' = [pc EXCEPT ![u] = "cs"]
            /\ UNCHANGED worker_cv
  /\ UNCHANGED <<client_mutex, client_cv, flags, idle, frames, bounds>>

Release(u) ==
  /\ worker_mutex' = NoThread
  /\ client_mutex' = NoThread
  /\ ops' = IF u \in Clients THEN [ops EXCEPT ![u] = @ + 1] ELSE ops

(* worker_cv.notify_one: where a thread goes when it is the one chosen.    *)
Woken(t) == IF t = Worker THEN "wake" ELSE "cv_wake"

(* ClientLock::NotifyWorker under the lock of u, which then releases it    *)
(* and goes on to "next".                                                  *)
NotifyWorker(u, next) ==
  /\ worker_busy' = TRUE
  /\ \/ /\ worker_cv = {}
        /\ worker_cv' = {}
        /\ pc' = [pc EXCEPT ![u] = next]
     \/ \E t \in worker_cv :
          /\ worker_cv' = worker_cv \ {t}
          /\ pc' = [pc EXCEPT ![u] = next, ![t] = Woken(t)]

-----------------------------------------------------------------------------
(* The calls made under the lock.  Prepare takes the (recursive) ClientLock *)
(* a second time: that inner constructor waits for ~worker_busy too, with   *)
(* one level of worker_mutex still held, so it returns only if not busy.    *)
Prepare(u) ==
  /\ pc[u] = "cs" /\ u \in Clients
  /\ ~worker_busy
  /\ stack' = u
  /\ pc' = [pc EXCEPT ![u] = "prepared"]
  /\ UNCHANGED <<locks, flags, idle, submitted, performed, bounds>>

(* CommitOrPrepare without an asynchronous commit (kErrorNeedsCommit, or    *)
(* an error from Prepare or SetUpCommit).                                   *)
ReturnNeedsCommit(u) ==
  /\ pc[u] = "prepared"
  /\ Release(u)
  /\ pc' = [pc EXCEPT ![u] = "idle"]
  /\ UNCHANGED <<client_cv, worker_cv, flags, idle, frames, spurious>>

(* A slip: the frame is handed over with the caller's stack still attached. *)
SubmitAsyncAttached(u) ==
  /\ submitted < MaxFrames
  /\ submitted' = submitted + 1
  /\ stack' = u
  /\ NotifyWorker(u, "idle")
  /\ Release(u)
  /\ UNCHANGED <<client_cv, worker_exit, idle, performed, spurious>>

(* SetUpCommit succeeded: PrepareForAsyncTransition drops the caller's      *)
(* layer stack and NotifyWorker hands the frame over.                       *)
SubmitAsync(u) ==
  /\ submitted < MaxFrames
  /\ submitted' = submitted + 1
  /\ stack' = NoThread
  /\ NotifyWorker(u, "idle")
  /\ Release(u)
  /\ UNCHANGED <<client_cv, worker_exit, idle, performed, spurious>>

CommitOrPrepareAsync(u) == pc[u] = "prepared" /\ SubmitAsync(u)

(* Commit with a draw method other than kDrawDefault.                       *)
CommitAsync(u) == pc[u] = "cs" /\ u \in Clients /\ SubmitAsync(u)

(* Commit with kDrawDefault: CommitLocked on the calling thread.            *)
CommitDefault(u) ==
  /\ pc[u] = "cs" /\ u \in Clients
  /\ submitted < MaxFrames
  /\ stack' = u
  /\ submitted' = submitted + 1
  /\ performed' = performed + 1
  /\ idle_spent' = FALSE
  /\ Release(u)
  /\ pc' = [pc EXCEPT ![u] = "idle"]
  /\ UNCHANGED <<client_cv, worker_cv, flags, idle_armed, spurious>>

(* Every other call under the lock: Flush keeps a pointer to the caller's   *)
(* stack, SetIdleTimeoutMs makes the idle timer fire again.                 *)
OtherCall(u) ==
  /\ pc[u] = "cs" /\ u \in Clients
  /\ stack' \in {stack, u}
  /\ idle_spent' \in {idle_spent, FALSE}
  /\ Release(u)
  /\ pc' = [pc EXCEPT ![u] = "idle"]
  /\ UNCHANGED <<client_cv, worker_cv, flags, idle_armed, submitted, performed, spurious>>

(* DisplayBase::~DisplayBase.                                               *)
Destroy ==
  /\ pc[Owner] = "cs"
  /\ worker_exit' = TRUE
  /\ NotifyWorker(Owner, "join")
  /\ Release(Owner)
  /\ UNCHANGED <<client_cv, idle, frames, spurious>>

Join ==
  /\ pc[Owner] = "join"
  /\ pc[Worker] = "done"
  /\ pc' = [pc EXCEPT ![Owner] = "destroyed"]
  /\ UNCHANGED <<locks, flags, idle, frames, bounds>>

-----------------------------------------------------------------------------
(* DisplayBase::CommitThread.                                               *)
WorkerStart ==
  /\ pc[Worker] = "start"
  /\ worker_mutex = NoThread
  /\ worker_mutex' = Worker
  /\ pc' = [pc EXCEPT ![Worker] = "greet"]
  /\ UNCHANGED <<client_mutex, client_cv, worker_cv, flags, idle, frames, bounds>>

WorkerGreet ==
  /\ pc[Worker] = "greet"
  /\ client_mutex = NoThread
  /\ client_cv' = FALSE
  /\ pc' = IF client_cv THEN [pc EXCEPT ![Worker] = "loop", ![Owner] = "ctor_wake"]
                        ELSE [pc EXCEPT ![Worker] = "loop"]
  /\ UNCHANGED <<client_mutex, worker_mutex, worker_cv, flags, idle, frames, bounds>>

(* The top of the loop: not busy, notify_one, compute the timeout, wait.    *)
WorkerLoop ==
  /\ pc[Worker] = "loop"
  /\ worker_busy' = FALSE
  /\ worker_mutex' = NoThread
  /\ idle_armed' = ~idle_spent
  /\ \/ /\ worker_cv = {}
        /\ worker_cv' = {Worker}
        /\ pc' = [pc EXCEPT ![Worker] = "wait"]
     \/ \E t \in worker_cv :
          /\ worker_cv' = (worker_cv \ {t}) \cup {Worker}
          /\ pc' = [pc EXCEPT ![Worker] = "wait", ![t] = Woken(t)]
  /\ UNCHANGED <<client_mutex, client_cv, worker_exit, idle_spent, frames, bounds>>

WorkerTimeout ==
  /\ pc[Worker] = "wait"
  /\ idle_armed
  /\ worker_cv' = worker_cv \ {Worker}
  /\ pc' = [pc EXCEPT ![Worker] = "timeout"]
  /\ UNCHANGED <<client_mutex, worker_mutex, client_cv, flags, idle, frames, bounds>>

(* wait_until with its predicate: busy, or timed out, or wait again.        *)
WorkerResume ==
  /\ pc[Worker] \in {"wake", "timeout"}
  /\ worker_mutex = NoThread
  /\ IF ~worker_busy /\ pc[Worker] = "wake"
       THEN /\ worker_cv' = worker_cv \cup {Worker}
            /\ pc' = [pc EXCEPT ![Worker] = "wait"]
            /\ UNCHANGED worker_mutex
       ELSE /\ worker_mutex' = Worker
            /\ pc' = [pc EXCEPT ![Worker] = IF ~worker_busy THEN "idle_event"
                                            ELSE IF worker_exit THEN "exit" ELSE "commit"]
            /\ UNCHANGED worker_cv
  /\ UNCHANGED <<client_mutex, client_cv, flags, idle, frames, bounds>>

(* A slip: the timer is left armed.                                         *)
WorkerIdleEventRearmed ==
  /\ pc[Worker] = "idle_event"
  /\ pc' = [pc EXCEPT ![Worker] = "loop"]
  /\ UNCHANGED <<locks, flags, idle, frames, bounds>>

(* kIdleTimeout handling; whichever branch is taken, the next wait of the   *)
(* thread is indefinite (idle_hint_set_ or handle_idle_timeout_).           *)
WorkerIdleEvent ==
  /\ pc[Worker] = "idle_event"
  /\ idle_spent' = TRUE
  /\ pc' = [pc EXCEPT ![Worker] = "loop"]
  /\ UNCHANGED <<locks, flags, idle_armed, frames, bounds>>

(* HandleAsyncCommit: PerformHwCommit, under worker_mutex throughout.       *)
WorkerCommit ==
  /\ pc[Worker] = "commit"
  /\ performed' = performed + 1
  /\ idle_spent' = FALSE
  /\ pc' = [pc EXCEPT ![Worker] = "loop"]
  /\ UNCHANGED <<locks, flags, idle_armed, stack, submitted, bounds>>

WorkerExit ==
  /\ pc[Worker] = "exit"
  /\ worker_mutex' = NoThread
  /\ pc' = [pc EXCEPT ![Worker] = "done"]
  /\ UNCHANGED <<client_mutex, client_cv, worker_cv, flags, idle, frames, bounds>>

(* A condition variable may wake any waiter on its own.                     *)
SpuriousWake(t) ==
  /\ spurious < MaxSpurious
  /\ t \in worker_cv
  /\ spurious' = spurious + 1
  /\ worker_cv' = worker_cv \ {t}
  /\ pc' = [pc EXCEPT ![t] = Woken(t)]
  /\ UNCHANGED <<client_mutex, worker_mutex, client_cv, flags, idle, frames, ops>>

Stopped ==
  /\ pc[Owner] = "destroyed"
  /\ UNCHANGED vars

-----------------------------------------------------------------------------
Ctor == CtorSpawn \/ CtorWait \/ CtorReturn

InCall(u) ==
  \/ EnterOrWait(u)
  \/ Prepare(u) \/ ReturnNeedsCommit(u) \/ CommitOrPrepareAsync(u)
  \/ CommitAsync(u) \/ CommitDefault(u) \/ OtherCall(u)

CommitThread ==
  \/ WorkerStart \/ WorkerGreet \/ WorkerLoop \/ WorkerTimeout
  \/ WorkerResume \/ WorkerIdleEvent \/ WorkerCommit \/ WorkerExit

Next ==
  \/ Ctor
  \/ \E u \in Users : LockClient(u) \/ InCall(u)
  \/ Destroy \/ Join
  \/ CommitThread
  \/ \E t \in Threads : SpuriousWake(t)
  \/ Stopped

(* Threads that are not blocked keep running: the commit thread, the        *)
(* constructor, and a call in progress.  A new call is never forced.  With   *)
(* the calls of each client bounded, a mutex that is wanted becomes free for *)
(* good, so weak fairness is enough.                                         *)
Fairness ==
  /\ WF_vars(Ctor)
  /\ WF_vars(WorkerStart \/ WorkerGreet \/ WorkerLoop \/ WorkerResume
             \/ WorkerIdleEvent \/ WorkerCommit \/ WorkerExit)
  /\ \A u \in Users : WF_vars(InCall(u))
  /\ WF_vars(Destroy \/ Join)

Spec == Init /\ [][Next]_vars /\ Fairness

EarlyWakeSpec == Init /\ [][Next \/ CtorSpuriousWake]_vars

-----------------------------------------------------------------------------
(* Holding ClientLock means no frame is in flight: a call that is past the  *)
(* lock finds every submitted commit performed, whatever threads did before *)
(* (the wait loop of ClientLock, display_base.h:280-286).                   *)
LockImpliesNoFrameInFlight ==
  \A u \in Users : pc[u] \in {"cs", "prepared"} => performed = submitted

(* The worker never commits from a layer stack that its caller owns and may *)
(* reuse: the pointer is detached before the hand-over and no call sets it  *)
(* again until the commit is done (PrepareForAsyncTransition).              *)
AsyncCommitUsesNoCallerStack == pc[Worker] = "commit" => stack = NoThread

(* notify_one is enough: whenever the worker or a client notifies           *)
(* worker_cv, at most one thread waits there, so the wake-up cannot go to   *)
(* the wrong one.                                                           *)
OneWaiterOnWorkerCv == \A s, t \in worker_cv : s = t

(* The worker stops only after it performed every commit submitted, even    *)
(* one handed over just before the destructor.                              *)
ExitLosesNoFrame == pc[Worker] \in {"exit", "done"} => performed = submitted

(* The constructor returns only once the thread listens for commits (the    *)
(* comment at display_base.cpp:94-95).                                      *)
CtorWaitsForWorker == Constructed => pc[Worker] \notin {"absent", "start", "greet"}

(* Every call that waits for the worker gets its turn and returns, and the  *)
(* destructor's call goes on to join the terminated thread.                 *)
EveryCallReturns ==
  \A u \in Users : pc[u] = "lock_worker" ~> pc[u] \in {"idle", "destroyed"}

(* The hand-over as a one-place pipeline.                                   *)
Pipeline == INSTANCE FramePipeline WITH
              inFlight <- submitted - performed,
              done <- performed,
              closed <- worker_exit
PipelineSpec == Pipeline!Spec
=============================================================================
