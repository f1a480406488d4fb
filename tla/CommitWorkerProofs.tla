------------------------- MODULE CommitWorkerProofs -------------------------
(***************************************************************************)
(* Proofs about CommitWorker, for any set of client threads and any bounds. *)
(***************************************************************************)
EXTENDS CommitWorker, TLAPS

-----------------------------------------------------------------------------
(* The inductive invariant: who holds which mutex and who waits where is    *)
(* determined by pc; the worker is idle on worker_cv only if not busy; and  *)
(* the frames in flight are exactly the one a busy worker has yet to do.    *)

PCTypes ==
  /\ pc \in [Threads -> OwnerPC \cup UserPC \cup WorkerPC]
  /\ pc[Owner] \in OwnerPC \cup {"idle", "lock_worker", "cv_wait", "cv_wake", "cs"}
  /\ \A c \in Clients : pc[c] \in UserPC
  /\ pc[Worker] \in WorkerPC

HoldsClient(u) == pc[u] \in {"lock_worker", "cv_wait", "cv_wake", "cs", "prepared",
                             "ctor", "ctor_spawned"}
UserHoldsWorker(u) == pc[u] \in {"cs", "prepared"}
WorkerHoldsWorker == pc[Worker] \in {"greet", "loop", "idle_event", "commit", "exit"}

MutexInv ==
  /\ client_mutex \in Users \cup {NoThread}
  /\ worker_mutex \in Threads \cup {NoThread}
  /\ worker_cv \subseteq Threads
  /\ \A u \in Users : HoldsClient(u) <=> client_mutex = u
  /\ \A u \in Users : UserHoldsWorker(u) <=> worker_mutex = u
  /\ WorkerHoldsWorker <=> worker_mutex = Worker

WaitInv ==
  /\ \A u \in Users : pc[u] = "cv_wait" <=> u \in worker_cv
  /\ pc[Worker] = "wait" <=> Worker \in worker_cv
  /\ \A u \in Users : pc[u] = "cv_wait" => worker_busy
  /\ \A u \in Users : UserHoldsWorker(u) => ~worker_busy
  /\ worker_busy => pc[Worker] \notin {"absent", "start", "greet", "wait", "idle_event"}

CtorInv ==
  /\ pc[Owner] = "ctor" <=> pc[Worker] = "absent"
  /\ pc[Owner] = "ctor_spawned" => pc[Worker] \in {"start", "greet"}
  /\ pc[Owner] = "ctor_wait" => pc[Worker] \in {"start", "greet"}
  /\ pc[Worker] \in {"start", "greet"} => pc[Owner] \in {"ctor_spawned", "ctor_wait"}
  /\ client_cv <=> pc[Owner] = "ctor_wait"
  /\ ~Constructed => ~worker_busy /\ ~worker_exit
                     /\ (\A c \in Clients : pc[c] = "idle")

ExitInv ==
  /\ worker_exit <=> pc[Owner] \in {"join", "destroyed"}
  /\ worker_exit => worker_busy /\ pc[Worker] \in {"wake", "timeout", "exit", "done"}
  /\ pc[Worker] \in {"exit", "done"} => worker_exit
  /\ pc[Owner] \in {"lock_worker", "cv_wait", "cv_wake", "cs", "join", "destroyed"} =>
       \A c \in Clients : pc[c] = "idle"

FrameInv ==
  /\ submitted \in Nat /\ performed \in Nat
  /\ pc[Worker] = "commit" => worker_busy
  /\ IF worker_busy /\ ~worker_exit /\ pc[Worker] # "loop"
       THEN submitted = performed + 1 /\ stack = NoThread
       ELSE submitted = performed

IInv == PCTypes /\ MutexInv /\ WaitInv /\ CtorInv /\ ExitInv /\ FrameInv

-----------------------------------------------------------------------------
(* The inductive invariant holds initially.                                 *)
LEMMA InitIInv == Init => IInv
<1> SUFFICES ASSUME Init PROVE IInv
  OBVIOUS
<1>1. pc[Owner] = "ctor" /\ pc[Worker] = "absent" /\ \A c \in Clients : pc[c] = "idle"
  BY ThreadsAssumption DEF Init, Users, Threads
<1>2. PCTypes
  BY <1>1, ThreadsAssumption DEF Init, PCTypes, Users, Threads, OwnerPC, UserPC, WorkerPC
<1> QED
  BY <1>1, <1>2, ThreadsAssumption
  DEF Init, IInv, MutexInv, WaitInv, CtorInv, ExitInv, FrameInv, HoldsClient,
      UserHoldsWorker, WorkerHoldsWorker, Constructed, Users, Threads

(* Whoever holds worker_mutex in a call is alone: only the worker may wait,  *)
(* and it is at its wait.                                                   *)
LEMMA LockHolderAlone ==
  ASSUME IInv, NEW u \in Users, pc[u] \in {"cs", "prepared"}
  PROVE  worker_cv \subseteq {Worker} /\ ~worker_busy /\ Constructed
         /\ pc[Worker] \in {"wait", "wake", "timeout"}
<1> USE ThreadsAssumption DEF IInv, Users, Threads
<1>1. client_mutex = u /\ worker_mutex = u /\ ~worker_busy
  BY DEF MutexInv, WaitInv, HoldsClient, UserHoldsWorker
<1>2. worker_cv \subseteq {Worker}
  BY <1>1 DEF MutexInv, WaitInv, HoldsClient
<1>3. Constructed
  BY DEF CtorInv, Constructed
<1>4. pc[Worker] \notin {"greet", "loop", "idle_event", "commit", "exit"}
  BY <1>1 DEF MutexInv, WorkerHoldsWorker
<1>5. pc[Worker] \notin {"absent", "start", "done"}
  BY <1>1, <1>3 DEF CtorInv, ExitInv, Constructed
<1> QED
  BY <1>1, <1>2, <1>3, <1>4, <1>5 DEF PCTypes, WorkerPC

(* client_mutex admits one user at a time to the wait for the worker.        *)
LEMMA OneUserWaits ==
  ASSUME IInv, NEW u \in Users, NEW v \in Users, u \in worker_cv, v \in worker_cv
  PROVE  u = v
  BY DEF IInv, MutexInv, WaitInv, HoldsClient

-----------------------------------------------------------------------------
(* Every action keeps the inductive invariant, part by part.                *)

LEMMA CtorSpawnKeeps ==
  ASSUME IInv, CtorSpawn PROVE IInv'
<1> USE ThreadsAssumption
  DEF IInv, PCTypes, Users, Threads, OwnerPC, UserPC, WorkerPC, CtorSpawn,
      locks, flags, idle, frames, bounds
<1>1. PCTypes'
  OBVIOUS
<1>2. MutexInv'
  BY DEF MutexInv, CtorInv, HoldsClient, UserHoldsWorker, WorkerHoldsWorker
<1>3. WaitInv'
  BY DEF WaitInv, CtorInv
<1>4. CtorInv'
  BY DEF CtorInv, Constructed
<1>5. ExitInv'
  BY DEF ExitInv
<1>6. FrameInv'
  BY DEF CtorInv, FrameInv
<1> QED BY <1>1, <1>2, <1>3, <1>4, <1>5, <1>6

LEMMA CtorWaitKeeps ==
  ASSUME IInv, CtorWait PROVE IInv'
<1> USE ThreadsAssumption
  DEF IInv, PCTypes, Users, Threads, OwnerPC, UserPC, WorkerPC, CtorWait,
      locks, flags, idle, frames, bounds
<1>1. PCTypes'
  OBVIOUS
<1>2. MutexInv'
  BY DEF MutexInv, HoldsClient, UserHoldsWorker, WorkerHoldsWorker
<1>3. WaitInv'
  BY DEF WaitInv, UserHoldsWorker
<1>4. CtorInv'
  BY DEF CtorInv, Constructed
<1>5. ExitInv'
  BY DEF ExitInv
<1>6. FrameInv'
  BY DEF FrameInv
<1> QED BY <1>1, <1>2, <1>3, <1>4, <1>5, <1>6

LEMMA CtorReturnKeeps ==
  ASSUME IInv, CtorReturn PROVE IInv'
<1> USE ThreadsAssumption
  DEF IInv, PCTypes, Users, Threads, OwnerPC, UserPC, WorkerPC, CtorReturn,
      locks, flags, idle, frames, bounds
<1>1. PCTypes'
  OBVIOUS
<1>2. MutexInv'
  BY DEF MutexInv, HoldsClient, UserHoldsWorker, WorkerHoldsWorker
<1>3. WaitInv'
  BY DEF WaitInv, UserHoldsWorker
<1>4. CtorInv'
  BY DEF CtorInv, Constructed
<1>5. ExitInv'
  BY DEF ExitInv
<1>6. FrameInv'
  BY DEF FrameInv
<1> QED BY <1>1, <1>2, <1>3, <1>4, <1>5, <1>6

LEMMA LockClientKeeps ==
  ASSUME IInv, NEW u \in Users, LockClient(u) PROVE IInv'
<1> USE ThreadsAssumption
  DEF IInv, PCTypes, Users, Threads, OwnerPC, UserPC, WorkerPC, LockClient,
      MayCall, locks, flags, idle, frames, bounds
<1>1. PCTypes'
  OBVIOUS
<1>2. MutexInv'
  BY DEF MutexInv, HoldsClient, UserHoldsWorker, WorkerHoldsWorker
<1>3. WaitInv'
  BY DEF WaitInv, UserHoldsWorker
<1>4. CtorInv'
  BY DEF CtorInv, Constructed
<1>5. ExitInv'
  BY DEF ExitInv
<1>6. FrameInv'
  BY DEF FrameInv
<1> QED BY <1>1, <1>2, <1>3, <1>4, <1>5, <1>6

LEMMA EnterOrWaitKeeps ==
  ASSUME IInv, NEW u \in Users, EnterOrWait(u) PROVE IInv'
<1> USE ThreadsAssumption
  DEF IInv, PCTypes, Users, Threads, OwnerPC, UserPC, WorkerPC,
      EnterOrWait, locks, flags, idle, frames, bounds
<1>1. PCTypes'
  OBVIOUS
<1>2. MutexInv'
  BY DEF MutexInv, HoldsClient, UserHoldsWorker, WorkerHoldsWorker
<1>3. WaitInv'
  BY DEF WaitInv, UserHoldsWorker
<1>4. CtorInv'
  BY DEF CtorInv, Constructed
<1>5. ExitInv'
  BY DEF ExitInv
<1>6. FrameInv'
  BY DEF FrameInv
<1> QED BY <1>1, <1>2, <1>3, <1>4, <1>5, <1>6

LEMMA PrepareKeeps ==
  ASSUME IInv, NEW u \in Users, Prepare(u) PROVE IInv'
<1> USE ThreadsAssumption
  DEF IInv, PCTypes, Users, Threads, OwnerPC, UserPC, WorkerPC, Prepare,
      locks, flags, idle, frames, bounds
<1>1. PCTypes'
  OBVIOUS
<1>2. MutexInv'
  BY DEF MutexInv, HoldsClient, UserHoldsWorker, WorkerHoldsWorker
<1>3. WaitInv'
  BY DEF WaitInv
<1>4. CtorInv'
  BY DEF CtorInv, Constructed
<1>5. ExitInv'
  BY DEF ExitInv
<1>6. FrameInv'
  BY DEF FrameInv
<1> QED BY <1>1, <1>2, <1>3, <1>4, <1>5, <1>6

LEMMA ReturnNeedsCommitKeeps ==
  ASSUME IInv, NEW u \in Users, ReturnNeedsCommit(u) PROVE IInv'
<1> USE ThreadsAssumption
  DEF IInv, PCTypes, Users, Threads, OwnerPC, UserPC, WorkerPC,
      ReturnNeedsCommit, Release, locks, flags, idle, frames, bounds
<1>1. PCTypes'
  OBVIOUS
<1>2. MutexInv'
  BY DEF MutexInv, HoldsClient, UserHoldsWorker, WorkerHoldsWorker
<1>3. WaitInv'
  BY DEF WaitInv, UserHoldsWorker
<1>4. CtorInv'
  BY DEF CtorInv, Constructed
<1>5. ExitInv'
  BY DEF ExitInv
<1>6. FrameInv'
  BY DEF FrameInv
<1> QED BY <1>1, <1>2, <1>3, <1>4, <1>5, <1>6

LEMMA CommitOrPrepareAsyncKeeps ==
  ASSUME IInv, NEW u \in Users, CommitOrPrepareAsync(u) PROVE IInv'
<1> USE ThreadsAssumption
  DEF IInv, PCTypes, Users, Threads, OwnerPC, UserPC, WorkerPC,
      CommitOrPrepareAsync, SubmitAsync, NotifyWorker, Release, Woken,
      locks, flags, idle, frames, bounds
<1>1. PCTypes'
  OBVIOUS
<1>2. MutexInv'
  BY LockHolderAlone DEF MutexInv, HoldsClient, UserHoldsWorker, WorkerHoldsWorker
<1>3. WaitInv'
  BY LockHolderAlone DEF MutexInv, WaitInv, UserHoldsWorker
<1>4. CtorInv'
  BY DEF CtorInv, Constructed
<1>5. ExitInv'
  BY LockHolderAlone DEF ExitInv
<1>6. FrameInv'
  BY LockHolderAlone DEF ExitInv, FrameInv
<1> QED BY <1>1, <1>2, <1>3, <1>4, <1>5, <1>6

LEMMA CommitAsyncKeeps ==
  ASSUME IInv, NEW u \in Users, CommitAsync(u) PROVE IInv'
<1> USE ThreadsAssumption
  DEF IInv, PCTypes, Users, Threads, OwnerPC, UserPC, WorkerPC,
      CommitAsync, SubmitAsync, NotifyWorker, Release, Woken, locks, flags,
      idle, frames, bounds
<1>1. PCTypes'
  OBVIOUS
<1>2. MutexInv'
  BY LockHolderAlone DEF MutexInv, HoldsClient, UserHoldsWorker, WorkerHoldsWorker
<1>3. WaitInv'
  BY LockHolderAlone DEF MutexInv, WaitInv, UserHoldsWorker
<1>4. CtorInv'
  BY DEF CtorInv, Constructed
<1>5. ExitInv'
  BY LockHolderAlone DEF ExitInv
<1>6. FrameInv'
  BY LockHolderAlone DEF ExitInv, FrameInv
<1> QED BY <1>1, <1>2, <1>3, <1>4, <1>5, <1>6

LEMMA CommitDefaultKeeps ==
  ASSUME IInv, NEW u \in Users, CommitDefault(u) PROVE IInv'
<1> USE ThreadsAssumption
  DEF IInv, PCTypes, Users, Threads, OwnerPC, UserPC, WorkerPC,
      CommitDefault, Release, locks, flags, idle, frames, bounds
<1>1. PCTypes'
  OBVIOUS
<1>2. MutexInv'
  BY DEF MutexInv, HoldsClient, UserHoldsWorker, WorkerHoldsWorker
<1>3. WaitInv'
  BY DEF WaitInv, UserHoldsWorker
<1>4. CtorInv'
  BY DEF CtorInv, Constructed
<1>5. ExitInv'
  BY DEF ExitInv
<1>6. FrameInv'
  BY DEF WaitInv, FrameInv, UserHoldsWorker
<1> QED BY <1>1, <1>2, <1>3, <1>4, <1>5, <1>6

LEMMA OtherCallKeeps ==
  ASSUME IInv, NEW u \in Users, OtherCall(u) PROVE IInv'
<1> USE ThreadsAssumption
  DEF IInv, PCTypes, Users, Threads, OwnerPC, UserPC, WorkerPC, OtherCall,
      Release, locks, flags, idle, frames, bounds
<1>1. PCTypes'
  OBVIOUS
<1>2. MutexInv'
  BY DEF MutexInv, HoldsClient, UserHoldsWorker, WorkerHoldsWorker
<1>3. WaitInv'
  BY DEF WaitInv, UserHoldsWorker
<1>4. CtorInv'
  BY DEF CtorInv, Constructed
<1>5. ExitInv'
  BY DEF ExitInv
<1>6. FrameInv'
  BY DEF WaitInv, FrameInv, UserHoldsWorker
<1> QED BY <1>1, <1>2, <1>3, <1>4, <1>5, <1>6

LEMMA DestroyKeeps ==
  ASSUME IInv, Destroy PROVE IInv'
<1> USE ThreadsAssumption
  DEF IInv, PCTypes, Users, Threads, OwnerPC, UserPC, WorkerPC, Destroy,
      NotifyWorker, Release, Woken, locks, flags, idle, frames, bounds
<1>1. PCTypes'
  OBVIOUS
<1>2. MutexInv'
  BY LockHolderAlone DEF MutexInv, HoldsClient, UserHoldsWorker, WorkerHoldsWorker
<1>3. WaitInv'
  BY LockHolderAlone DEF WaitInv, ExitInv, UserHoldsWorker
<1>4. CtorInv'
  BY DEF CtorInv, Constructed
<1>5. ExitInv'
  BY LockHolderAlone DEF WaitInv, ExitInv
<1>6. FrameInv'
  BY LockHolderAlone DEF FrameInv
<1> QED BY <1>1, <1>2, <1>3, <1>4, <1>5, <1>6

LEMMA JoinKeeps ==
  ASSUME IInv, Join PROVE IInv'
<1> USE ThreadsAssumption
  DEF IInv, PCTypes, Users, Threads, OwnerPC, UserPC, WorkerPC, Join,
      locks, flags, idle, frames, bounds
<1>1. PCTypes'
  OBVIOUS
<1>2. MutexInv'
  BY DEF MutexInv, HoldsClient, UserHoldsWorker, WorkerHoldsWorker
<1>3. WaitInv'
  BY DEF WaitInv, UserHoldsWorker
<1>4. CtorInv'
  BY DEF CtorInv, Constructed
<1>5. ExitInv'
  BY DEF ExitInv
<1>6. FrameInv'
  BY DEF FrameInv
<1> QED BY <1>1, <1>2, <1>3, <1>4, <1>5, <1>6

LEMMA WorkerStartKeeps ==
  ASSUME IInv, WorkerStart PROVE IInv'
<1> USE ThreadsAssumption
  DEF IInv, PCTypes, Users, Threads, OwnerPC, UserPC, WorkerPC,
      WorkerStart, locks, flags, idle, frames, bounds
<1>1. PCTypes'
  OBVIOUS
<1>2. MutexInv'
  BY DEF MutexInv, HoldsClient, UserHoldsWorker, WorkerHoldsWorker
<1>3. WaitInv'
  BY DEF WaitInv
<1>4. CtorInv'
  BY DEF CtorInv, Constructed
<1>5. ExitInv'
  BY DEF ExitInv
<1>6. FrameInv'
  BY DEF FrameInv
<1> QED BY <1>1, <1>2, <1>3, <1>4, <1>5, <1>6

LEMMA WorkerGreetKeeps ==
  ASSUME IInv, WorkerGreet PROVE IInv'
<1> USE ThreadsAssumption
  DEF IInv, PCTypes, Users, Threads, OwnerPC, UserPC, WorkerPC,
      WorkerGreet, locks, flags, idle, frames, bounds
<1>1. PCTypes'
  OBVIOUS
<1>2. MutexInv'
  BY DEF MutexInv, HoldsClient, UserHoldsWorker, WorkerHoldsWorker
<1>3. WaitInv'
  BY DEF WaitInv
<1>4. CtorInv'
  BY DEF MutexInv, CtorInv, HoldsClient, Constructed
<1>5. ExitInv'
  BY DEF ExitInv
<1>6. FrameInv'
  BY DEF CtorInv, FrameInv, Constructed
<1> QED BY <1>1, <1>2, <1>3, <1>4, <1>5, <1>6

LEMMA WorkerLoopKeeps ==
  ASSUME IInv, WorkerLoop PROVE IInv'
<1> USE ThreadsAssumption
  DEF IInv, PCTypes, Users, Threads, OwnerPC, UserPC, WorkerPC, WorkerLoop,
      Woken, locks, flags, idle, frames, bounds
<1>1. PCTypes'
  OBVIOUS
<1>2. MutexInv'
  BY DEF MutexInv, WaitInv, HoldsClient, UserHoldsWorker, WorkerHoldsWorker
<1>3. WaitInv'
  BY OneUserWaits DEF MutexInv, WaitInv
<1>4. CtorInv'
  BY DEF WaitInv, CtorInv, Constructed
<1>5. ExitInv'
  BY DEF WaitInv, ExitInv
<1>6. FrameInv'
  BY DEF FrameInv
<1> QED BY <1>1, <1>2, <1>3, <1>4, <1>5, <1>6

LEMMA WorkerTimeoutKeeps ==
  ASSUME IInv, WorkerTimeout PROVE IInv'
<1> USE ThreadsAssumption
  DEF IInv, PCTypes, Users, Threads, OwnerPC, UserPC, WorkerPC,
      WorkerTimeout, locks, flags, idle, frames, bounds
<1>1. PCTypes'
  OBVIOUS
<1>2. MutexInv'
  BY DEF MutexInv, HoldsClient, UserHoldsWorker, WorkerHoldsWorker
<1>3. WaitInv'
  BY DEF WaitInv
<1>4. CtorInv'
  BY DEF CtorInv, Constructed
<1>5. ExitInv'
  BY DEF ExitInv
<1>6. FrameInv'
  BY DEF FrameInv
<1> QED BY <1>1, <1>2, <1>3, <1>4, <1>5, <1>6

LEMMA WorkerResumeKeeps ==
  ASSUME IInv, WorkerResume PROVE IInv'
<1> USE ThreadsAssumption
  DEF IInv, PCTypes, Users, Threads, OwnerPC, UserPC, WorkerPC,
      WorkerResume, locks, flags, idle, frames, bounds
<1>1. PCTypes'
  OBVIOUS
<1>2. MutexInv'
  BY DEF MutexInv, HoldsClient, UserHoldsWorker, WorkerHoldsWorker
<1>3. WaitInv'
  BY DEF WaitInv, UserHoldsWorker
<1>4. CtorInv'
  BY DEF CtorInv, Constructed
<1>5. ExitInv'
  BY DEF ExitInv
<1>6. FrameInv'
  BY DEF FrameInv
<1> QED BY <1>1, <1>2, <1>3, <1>4, <1>5, <1>6

LEMMA WorkerIdleEventKeeps ==
  ASSUME IInv, WorkerIdleEvent PROVE IInv'
<1> USE ThreadsAssumption
  DEF IInv, PCTypes, Users, Threads, OwnerPC, UserPC, WorkerPC,
      WorkerIdleEvent, locks, flags, idle, frames, bounds
<1>1. PCTypes'
  OBVIOUS
<1>2. MutexInv'
  BY DEF MutexInv, HoldsClient, UserHoldsWorker, WorkerHoldsWorker
<1>3. WaitInv'
  BY DEF WaitInv
<1>4. CtorInv'
  BY DEF CtorInv, Constructed
<1>5. ExitInv'
  BY DEF ExitInv
<1>6. FrameInv'
  BY DEF WaitInv, FrameInv
<1> QED BY <1>1, <1>2, <1>3, <1>4, <1>5, <1>6

LEMMA WorkerCommitKeeps ==
  ASSUME IInv, WorkerCommit PROVE IInv'
<1> USE ThreadsAssumption
  DEF IInv, PCTypes, Users, Threads, OwnerPC, UserPC, WorkerPC,
      WorkerCommit, locks, flags, idle, frames, bounds
<1>1. PCTypes'
  OBVIOUS
<1>2. MutexInv'
  BY DEF MutexInv, HoldsClient, UserHoldsWorker, WorkerHoldsWorker
<1>3. WaitInv'
  BY DEF WaitInv, UserHoldsWorker
<1>4. CtorInv'
  BY DEF CtorInv, Constructed
<1>5. ExitInv'
  BY DEF ExitInv
<1>6. FrameInv'
  BY DEF ExitInv, FrameInv
<1> QED BY <1>1, <1>2, <1>3, <1>4, <1>5, <1>6

LEMMA WorkerExitKeeps ==
  ASSUME IInv, WorkerExit PROVE IInv'
<1> USE ThreadsAssumption
  DEF IInv, PCTypes, Users, Threads, OwnerPC, UserPC, WorkerPC, WorkerExit,
      locks, flags, idle, frames, bounds
<1>1. PCTypes'
  OBVIOUS
<1>2. MutexInv'
  BY DEF MutexInv, HoldsClient, UserHoldsWorker, WorkerHoldsWorker
<1>3. WaitInv'
  BY DEF WaitInv, UserHoldsWorker
<1>4. CtorInv'
  BY DEF CtorInv, Constructed
<1>5. ExitInv'
  BY DEF ExitInv
<1>6. FrameInv'
  BY DEF FrameInv
<1> QED BY <1>1, <1>2, <1>3, <1>4, <1>5, <1>6

LEMMA SpuriousWakeKeeps ==
  ASSUME IInv, NEW t \in Threads, SpuriousWake(t) PROVE IInv'
<1> USE ThreadsAssumption
  DEF IInv, PCTypes, Users, Threads, OwnerPC, UserPC, WorkerPC,
      SpuriousWake, Woken, locks, flags, idle, frames, bounds
<1>1. PCTypes'
  OBVIOUS
<1>2. MutexInv'
  BY DEF MutexInv, WaitInv, HoldsClient, UserHoldsWorker, WorkerHoldsWorker
<1>3. WaitInv'
  BY DEF WaitInv, UserHoldsWorker
<1>4. CtorInv'
  BY DEF WaitInv, CtorInv, Constructed
<1>5. ExitInv'
  BY DEF WaitInv, ExitInv
<1>6. FrameInv'
  BY DEF WaitInv, FrameInv
<1> QED BY <1>1, <1>2, <1>3, <1>4, <1>5, <1>6

-----------------------------------------------------------------------------
(* The inductive step, one case per group of actions.                       *)
LEMMA NextIInv == IInv /\ [Next]_vars => IInv'
<1> SUFFICES ASSUME IInv, [Next]_vars PROVE IInv'
  OBVIOUS
<1>1. CASE Ctor
  BY <1>1, CtorSpawnKeeps, CtorWaitKeeps, CtorReturnKeeps DEF Ctor
<1>2. ASSUME NEW u \in Users, LockClient(u) \/ InCall(u) PROVE IInv'
  BY <1>2, LockClientKeeps, EnterOrWaitKeeps, PrepareKeeps, ReturnNeedsCommitKeeps,
     CommitOrPrepareAsyncKeeps, CommitAsyncKeeps, CommitDefaultKeeps, OtherCallKeeps
  DEF InCall
<1>3. CASE Destroy \/ Join
  BY <1>3, DestroyKeeps, JoinKeeps
<1>4. CASE CommitThread
  BY <1>4, WorkerStartKeeps, WorkerGreetKeeps, WorkerLoopKeeps, WorkerTimeoutKeeps,
     WorkerResumeKeeps, WorkerIdleEventKeeps, WorkerCommitKeeps, WorkerExitKeeps
  DEF CommitThread
<1>5. ASSUME NEW t \in Threads, SpuriousWake(t) PROVE IInv'
  BY <1>5, SpuriousWakeKeeps
<1>6. CASE Stopped \/ UNCHANGED vars
  BY <1>6 DEF Stopped, vars, locks, flags, idle, frames, bounds, IInv, PCTypes, MutexInv,
     WaitInv, CtorInv, ExitInv, FrameInv, HoldsClient, UserHoldsWorker,
     WorkerHoldsWorker, Constructed
<1> QED
  BY <1>1, <1>2, <1>3, <1>4, <1>5, <1>6 DEF Next

(* IInv holds in every reachable state.                                     *)
LEMMA Invariance == Spec => []IInv
<1> QED BY InitIInv, NextIInv, PTL DEF Spec

-----------------------------------------------------------------------------
(* Whoever is past ClientLock finds no frame in flight: while a user holds  *)
(* worker_mutex the worker is not busy, and a worker that is not busy has   *)
(* performed all that was submitted.                                        *)
THEOREM LockTheorem == Spec => []LockImpliesNoFrameInFlight
<1>1. IInv => LockImpliesNoFrameInFlight
  BY DEF IInv, WaitInv, FrameInv, UserHoldsWorker, LockImpliesNoFrameInFlight
<1> QED BY <1>1, Invariance, PTL

(* The worker commits only from a layer stack no caller owns.               *)
THEOREM StackTheorem == Spec => []AsyncCommitUsesNoCallerStack
<1>1. IInv => AsyncCommitUsesNoCallerStack
  BY DEF IInv, ExitInv, FrameInv, AsyncCommitUsesNoCallerStack
<1> QED BY <1>1, Invariance, PTL

(* notify_one always reaches the one thread that waits: two users cannot    *)
(* wait (client_mutex), nor a user together with the worker (worker_busy).  *)
THEOREM NotifyOneTheorem == Spec => []OneWaiterOnWorkerCv
<1>1. ASSUME IInv, NEW s \in worker_cv, NEW t \in worker_cv PROVE s = t
  BY <1>1, OneUserWaits, ThreadsAssumption DEF IInv, MutexInv, WaitInv, Users, Threads
<1>2. IInv => OneWaiterOnWorkerCv
  BY <1>1 DEF OneWaiterOnWorkerCv
<1> QED BY <1>2, Invariance, PTL

(* The commit thread terminates only with every submitted commit performed. *)
THEOREM ExitTheorem == Spec => []ExitLosesNoFrame
<1>1. IInv => ExitLosesNoFrame
  BY DEF IInv, ExitInv, FrameInv, ExitLosesNoFrame
<1> QED BY <1>1, Invariance, PTL

(* As long as client_cv wakes nobody unnotified, the constructor returns    *)
(* only when the thread listens.                                            *)
THEOREM CtorTheorem == Spec => []CtorWaitsForWorker
<1>1. IInv => CtorWaitsForWorker
  BY DEF IInv, CtorInv, CtorWaitsForWorker, Constructed
<1> QED BY <1>1, Invariance, PTL

-----------------------------------------------------------------------------
CallInv ==
  /\ ops \in [Clients -> 0..MaxOps]
  /\ \A c \in Clients : pc[c] # "idle" => ops[c] < MaxOps

(* A client in a call has not used up its calls (the bound MaxOps).          *)
LEMMA CallInvariance == Spec => []CallInv
<1> USE ThreadsAssumption, BoundsAssumption DEF CallInv, Users, Threads
<1>1. Init => CallInv
  BY DEF Init
<1>2. CallInv /\ IInv /\ [Next]_vars => CallInv'
  <2> SUFFICES ASSUME CallInv, IInv, [Next]_vars PROVE CallInv'
    OBVIOUS
  <2> USE DEF IInv, PCTypes, OwnerPC, UserPC, WorkerPC, locks, flags, idle, frames, bounds
  <2>1. CASE Ctor
    BY <2>1 DEF Ctor, CtorSpawn, CtorWait, CtorReturn
  <2>2. ASSUME NEW u \in Users, LockClient(u) \/ EnterOrWait(u) \/ Prepare(u) PROVE CallInv'
    BY <2>2 DEF LockClient, MayCall, EnterOrWait, Prepare
  <2>3. ASSUME NEW u \in Users, ReturnNeedsCommit(u) \/ CommitDefault(u) \/ OtherCall(u)
        PROVE  CallInv'
    <3>1. pc[u] \in {"cs", "prepared"} /\ pc' = [pc EXCEPT ![u] = "idle"] /\ Release(u)
      BY <2>3 DEF ReturnNeedsCommit, CommitDefault, OtherCall
    <3> QED BY <3>1 DEF Release
  <2>4. ASSUME NEW u \in Users, CommitOrPrepareAsync(u) \/ CommitAsync(u) PROVE CallInv'
    BY <2>4, LockHolderAlone
    DEF CommitOrPrepareAsync, CommitAsync, SubmitAsync, NotifyWorker, Release, Woken
  <2>5. CASE Destroy \/ Join
    BY <2>5, LockHolderAlone DEF Destroy, Join, NotifyWorker, Release, Woken
  <2>6. CASE CommitThread
    <3>1. CASE WorkerLoop
      BY <3>1 DEF WorkerLoop, Woken, WaitInv
    <3> QED
      BY <2>6, <3>1 DEF CommitThread, WorkerStart, WorkerGreet, WorkerTimeout,
         WorkerResume, WorkerIdleEvent, WorkerCommit, WorkerExit
  <2>7. ASSUME NEW t \in Threads, SpuriousWake(t) PROVE CallInv'
    BY <2>7 DEF SpuriousWake, Woken, WaitInv
  <2>8. CASE Stopped \/ UNCHANGED vars
    BY <2>8 DEF Stopped, vars
  <2> QED BY <2>1, <2>2, <2>3, <2>4, <2>5, <2>6, <2>7, <2>8 DEF Next, InCall
<1> QED BY <1>1, <1>2, Invariance, PTL DEF Spec

(* Two facts about intervals.                                               *)
LEMMA NoMoreThan ==
  ASSUME NEW m \in Nat, NEW n \in 0..m, NEW k \in Nat, n = k + 1 \/ n = k
  PROVE  k \in 0..m
  OBVIOUS

LEMMA OneMore ==
  ASSUME NEW m \in Nat, NEW n \in 0..m, n < m PROVE n + 1 \in 0..m
  OBVIOUS

(* Type correctness.  The bounds on the counters need more than their types: *)
(* CallInv for ops, and IInv, which keeps performed below submitted.         *)
THEOREM TypeTheorem == Spec => []TypeOK
<1> USE ThreadsAssumption, BoundsAssumption DEF Users, Threads
<1>1. Init => TypeOK
  <2> SUFFICES ASSUME Init PROVE TypeOK
    OBVIOUS
  <2>1. /\ pc \in [Threads -> OwnerPC \cup UserPC \cup WorkerPC]
        /\ ops \in [Clients -> 0..MaxOps]
    BY DEF Init, OwnerPC, UserPC, WorkerPC
  <2>2. submitted \in 0..MaxFrames /\ performed \in 0..MaxFrames /\ spurious \in 0..MaxSpurious
    BY DEF Init
  <2> QED BY <2>1, <2>2 DEF Init, TypeOK
<1>2. TypeOK /\ IInv' /\ CallInv' /\ [Next]_vars => TypeOK'
  <2> SUFFICES ASSUME TypeOK, IInv', CallInv', [Next]_vars PROVE TypeOK'
    OBVIOUS
  <2>1. /\ pc' \in [Threads -> OwnerPC \cup UserPC \cup WorkerPC]
        /\ client_mutex' \in Users \cup {NoThread}
        /\ worker_mutex' \in Threads \cup {NoThread}
        /\ worker_cv' \in SUBSET Threads
        /\ ops' \in [Clients -> 0..MaxOps]
    BY DEF IInv, PCTypes, MutexInv, CallInv
  <2>2. submitted' \in 0..MaxFrames => performed' \in 0..MaxFrames
    BY NoMoreThan DEF IInv, FrameInv
  <2> USE <2>1, <2>2 DEF TypeOK, locks, flags, idle, frames, bounds
  <2>3. CASE Ctor
    BY <2>3 DEF Ctor, CtorSpawn, CtorWait, CtorReturn
  <2>4. ASSUME NEW u \in Users, LockClient(u) \/ InCall(u) PROVE TypeOK'
    <3>1. CASE LockClient(u) \/ EnterOrWait(u) \/ Prepare(u) \/ ReturnNeedsCommit(u)
      BY <3>1 DEF LockClient, EnterOrWait, Prepare, ReturnNeedsCommit
    <3>2. CASE CommitOrPrepareAsync(u) \/ CommitAsync(u)
      <4>1. SubmitAsync(u)
        BY <3>2 DEF CommitOrPrepareAsync, CommitAsync
      <4>2. submitted' \in 0..MaxFrames
        BY <4>1, OneMore DEF SubmitAsync
      <4> QED BY <4>1, <4>2 DEF SubmitAsync, NotifyWorker
    <3>3. CASE CommitDefault(u)
      <4>1. submitted' \in 0..MaxFrames
        BY <3>3, OneMore DEF CommitDefault
      <4> QED BY <3>3, <4>1 DEF CommitDefault
    <3>4. CASE OtherCall(u)
      BY <3>4 DEF OtherCall
    <3> QED BY <2>4, <3>1, <3>2, <3>3, <3>4 DEF InCall
  <2>5. CASE Destroy \/ Join
    BY <2>5 DEF Destroy, Join, NotifyWorker
  <2>6. CASE CommitThread
    <3>1. CASE WorkerCommit
      BY <3>1 DEF WorkerCommit
    <3> QED
      BY <2>6, <3>1 DEF CommitThread, WorkerStart, WorkerGreet, WorkerLoop, WorkerTimeout,
         WorkerResume, WorkerIdleEvent, WorkerExit
  <2>7. ASSUME NEW t \in Threads, SpuriousWake(t) PROVE TypeOK'
    BY <2>7 DEF SpuriousWake
  <2>8. CASE Stopped \/ UNCHANGED vars
    BY <2>8 DEF Stopped, vars
  <2> QED BY <2>3, <2>4, <2>5, <2>6, <2>7, <2>8 DEF Next
<1> QED BY <1>1, <1>2, Invariance, CallInvariance, PTL DEF Spec

-----------------------------------------------------------------------------
(* Every step of the commit thread and of its callers is a step of the      *)
(* one-place pipeline or leaves it unchanged.                               *)
THEOREM PipelineTheorem == Spec => Pipeline!Init /\ [][Pipeline!Next]_Pipeline!vars
<1> USE ThreadsAssumption, BoundsAssumption
<1>1. Init => Pipeline!Init
  BY DEF Init, Pipeline!Init
<1>2. ASSUME IInv, TypeOK, [Next]_vars PROVE [Pipeline!Next]_Pipeline!vars
  <2> USE DEF Pipeline!Next, Pipeline!vars, locks, flags, idle, frames, bounds
  <2>1. submitted \in Nat /\ performed \in Nat
    BY <1>2 DEF IInv, FrameInv
  <2>2. ASSUME NEW u \in Users, pc[u] \in {"cs", "prepared"}
        PROVE  submitted = performed
    BY <1>2, <2>2 DEF IInv, WaitInv, FrameInv, UserHoldsWorker
  <2>3. ASSUME NEW u \in Users, pc[u] \in {"cs", "prepared"}, u \in Clients
        PROVE  worker_exit = FALSE
    BY <1>2, <2>3 DEF IInv, ExitInv, PCTypes, UserPC, TypeOK
  <2>4. ASSUME NEW u \in Clients, SubmitAsync(u), pc[u] \in {"cs", "prepared"}
        PROVE  Pipeline!Accept
    <3>1. submitted = performed /\ ~worker_exit
      BY <2>2, <2>3, <2>4 DEF Users
    <3>2. /\ submitted < MaxFrames /\ submitted' = submitted + 1
          /\ performed' = performed /\ worker_exit' = worker_exit
      BY <2>4 DEF SubmitAsync
    <3>3. submitted - performed = 0 /\ submitted' - performed' = 1 /\ performed < MaxFrames
      BY <2>1, <3>1, <3>2
    <3> QED BY <3>1, <3>2, <3>3 DEF Pipeline!Accept, Pipeline!Room
  <2>5. ASSUME NEW u \in Users, CommitDefault(u) PROVE Pipeline!PerformInCaller
    <3>1. submitted = performed /\ ~worker_exit
      BY <2>2, <2>3, <2>5 DEF CommitDefault
    <3>2. /\ submitted < MaxFrames /\ submitted' = submitted + 1
          /\ performed' = performed + 1 /\ worker_exit' = worker_exit
      BY <2>5 DEF CommitDefault
    <3>3. submitted - performed = 0 /\ submitted' - performed' = submitted - performed
          /\ performed < MaxFrames
      BY <2>1, <3>1, <3>2
    <3> QED BY <3>1, <3>2, <3>3 DEF Pipeline!PerformInCaller, Pipeline!Room
  <2>6. ASSUME Destroy PROVE Pipeline!Close
    <3>1. ~worker_exit
      BY <1>2, <2>6 DEF Destroy, IInv, ExitInv
    <3> QED
      BY <2>1, <2>2, <2>6, <3>1 DEF Destroy, Pipeline!Close, Users
  <2>7. ASSUME WorkerCommit PROVE Pipeline!Perform
    <3>1. submitted = performed + 1
      BY <1>2, <2>7 DEF WorkerCommit, IInv, ExitInv, FrameInv
    <3> QED BY <2>1, <2>7, <3>1 DEF WorkerCommit, Pipeline!Perform
  <2>8. CASE Ctor
    BY <2>8 DEF Ctor, CtorSpawn, CtorWait, CtorReturn
  <2>9. ASSUME NEW u \in Users, LockClient(u) \/ InCall(u)
        PROVE  [Pipeline!Next]_Pipeline!vars
    <3>1. CASE CommitOrPrepareAsync(u)
      BY <1>2, <2>4, <3>1 DEF CommitOrPrepareAsync, IInv, PCTypes, OwnerPC, Users
    <3>2. CASE CommitAsync(u)
      BY <2>4, <3>2 DEF CommitAsync
    <3>3. CASE CommitDefault(u)
      BY <2>5, <3>3
    <3> QED
      BY <2>9, <3>1, <3>2, <3>3 DEF LockClient, InCall, EnterOrWait, Prepare,
         ReturnNeedsCommit, OtherCall
  <2>10. CASE Join
    BY <2>10 DEF Join
  <2>11. CASE CommitThread
    BY <2>7, <2>11 DEF CommitThread, WorkerStart, WorkerGreet, WorkerLoop, WorkerTimeout,
       WorkerResume, WorkerIdleEvent, WorkerExit
  <2>12. ASSUME NEW t \in Threads, SpuriousWake(t) PROVE [Pipeline!Next]_Pipeline!vars
    BY <2>12 DEF SpuriousWake
  <2>13. CASE Stopped \/ UNCHANGED vars
    BY <2>13 DEF Stopped, vars
  <2> QED
    BY <1>2, <2>6, <2>8, <2>9, <2>10, <2>11, <2>12, <2>13 DEF Next
<1> QED BY <1>1, <1>2, Invariance, TypeTheorem, PTL DEF Spec
=============================================================================
