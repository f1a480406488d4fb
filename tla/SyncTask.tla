------------------------------ MODULE SyncTask ------------------------------
(***************************************************************************)
(* SyncTask: a caller runs a task in a worker thread and waits for its end. *)
(* The tone mapper, the layer stitching and the color conversion keep their *)
(* GPU context in such a thread.                                            *)
(*                                                                         *)
(* One caller at a time uses a SyncTask (the display's lock).  Every wait   *)
(* may end without a notification.  The worker's has a predicate, the two   *)
(* of the caller (sync_task.h:61, 90) have none: "early" notes that one of  *)
(* them ended so, and the properties say what still holds then.             *)
(***************************************************************************)
EXTENDS Naturals

CONSTANTS MaxTasks  \* bound on the tasks

VARIABLES
  callerMutex, workerMutex, \* who holds caller_mutex_ and worker_mutex_
  caller,   \* where the caller is
  worker,   \* where worker_thread_ is
  taskContext, \* task_context_: the number of the task, 0 before the first
  exit,     \* worker_thread_exit_
  pending,  \* pending_code_
  tasks,    \* the tasks the caller began
  done,     \* the tasks OnTask came to the end of
  early     \* a wait of the caller has ended without a notification

stVars == <<callerMutex, workerMutex, caller, worker, taskContext, exit, pending, tasks, done,
            early>>

StTypeOK ==
  /\ {callerMutex, workerMutex} \subseteq {"free", "caller", "worker"}
  /\ caller \in {"starting", "ready?", "ready", "rest", "post", "posted", "wait", "woken", "join",
                 "gone"}
  /\ worker \in {"none", "start", "ready", "loop", "wait", "awake", "task", "done", "exited"}
  /\ taskContext \in 0..MaxTasks + 1 /\ tasks \in 0..MaxTasks + 1 /\ done \in 0..MaxTasks
  /\ exit \in BOOLEAN /\ pending \in BOOLEAN /\ early \in BOOLEAN

StInit ==
  /\ callerMutex = "caller" /\ workerMutex = "free"
  /\ caller = "starting" /\ worker = "none"
  /\ taskContext = 0 /\ exit = FALSE /\ pending = FALSE
  /\ tasks = 0 /\ done = 0 /\ early = FALSE

-----------------------------------------------------------------------------
(* The caller: the constructor, PerformTask and the destructor. *)

StartWorker ==
  /\ caller = "starting"
  /\ caller' = "ready?" /\ worker' = "start"
  /\ UNCHANGED <<callerMutex, workerMutex, taskContext, exit, pending, tasks, done, early>>

WaitReady ==
  /\ caller = "ready?"
  /\ caller' = "ready" /\ callerMutex' = "free"
  /\ UNCHANGED <<workerMutex, worker, taskContext, exit, pending, tasks, done, early>>

\* PerformTask; the last one, of the destructor, tells the worker to return.
PerformTask ==
  /\ caller = "rest" /\ callerMutex = "free"
  /\ callerMutex' = "caller" /\ caller' = "post"
  /\ UNCHANGED <<workerMutex, worker, taskContext, exit, pending, tasks, done, early>>

PostTask(terminate) ==
  /\ caller = "post" /\ workerMutex = "free"
  /\ terminate \/ tasks < MaxTasks
  /\ caller' = "posted"
  /\ tasks' = tasks + 1
  /\ taskContext' = tasks + 1
  /\ exit' = terminate
  /\ pending' = TRUE
  /\ worker' = IF worker = "wait" THEN "awake" ELSE worker
  /\ UNCHANGED <<callerMutex, workerMutex, done, early>>

WaitTask ==
  /\ caller = "posted"
  /\ caller' = "wait" /\ callerMutex' = "free"
  /\ UNCHANGED <<workerMutex, worker, taskContext, exit, pending, tasks, done, early>>

\* The caller's wait ends though nobody notified it.
CallerSpurious ==
  /\ caller \in {"ready", "wait"}
  /\ caller' = "woken" /\ early' = TRUE
  /\ UNCHANGED <<callerMutex, workerMutex, worker, taskContext, exit, pending, tasks, done>>

\* The wait returns once the caller has its mutex again, and so does the call.
CallerWakes ==
  /\ caller = "woken" /\ callerMutex = "free"
  /\ caller' = IF exit THEN "join" ELSE "rest"
  /\ UNCHANGED <<callerMutex, workerMutex, worker, taskContext, exit, pending, tasks, done, early>>

JoinWorker ==
  /\ caller = "join" /\ worker = "exited"
  /\ caller' = "gone"
  /\ UNCHANGED <<callerMutex, workerMutex, worker, taskContext, exit, pending, tasks, done, early>>

-----------------------------------------------------------------------------
(* The worker. *)

CallerNotified == IF caller \in {"ready", "wait"} THEN "woken" ELSE caller

WorkerStarts ==
  /\ worker = "start" /\ workerMutex = "free"
  /\ workerMutex' = "worker" /\ worker' = "ready"
  /\ UNCHANGED <<callerMutex, caller, taskContext, exit, pending, tasks, done, early>>

\* Broken variant: the caller is told before its mutex is had.
WorkerReadyAtOnce ==
  /\ worker = "ready"
  /\ caller' = CallerNotified /\ worker' = "loop"
  /\ UNCHANGED <<callerMutex, workerMutex, taskContext, exit, pending, tasks, done, early>>

WorkerReady ==
  /\ worker = "ready" /\ callerMutex = "free"
  /\ caller' = CallerNotified /\ worker' = "loop"
  /\ UNCHANGED <<callerMutex, workerMutex, taskContext, exit, pending, tasks, done, early>>

WorkerLoops ==
  /\ worker = "loop"
  /\ workerMutex' = IF pending /\ ~exit THEN "worker" ELSE "free"
  /\ worker' = IF exit THEN "exited" ELSE IF pending THEN "task" ELSE "wait"
  /\ UNCHANGED <<callerMutex, caller, taskContext, exit, pending, tasks, done, early>>

SpuriousWakeUp ==
  /\ worker = "wait"
  /\ worker' = "awake"
  /\ UNCHANGED <<callerMutex, workerMutex, caller, taskContext, exit, pending, tasks, done, early>>

\* Broken variant: the wait has no predicate.
WorkerWakesAtOnce ==
  /\ worker = "awake" /\ workerMutex = "free"
  /\ workerMutex' = "worker" /\ worker' = IF exit THEN "done" ELSE "task"
  /\ UNCHANGED <<callerMutex, caller, taskContext, exit, pending, tasks, done, early>>

WorkerWakes ==
  /\ worker = "awake" /\ workerMutex = "free"
  /\ IF pending THEN workerMutex' = "worker" /\ worker' = IF exit THEN "done" ELSE "task"
     ELSE UNCHANGED workerMutex /\ worker' = "wait"
  /\ UNCHANGED <<callerMutex, caller, taskContext, exit, pending, tasks, done, early>>

\* OnTask, with the worker's mutex held.
OnTask ==
  /\ worker = "task"
  /\ worker' = "done" /\ done' = done + 1
  /\ UNCHANGED <<callerMutex, workerMutex, caller, taskContext, exit, pending, tasks, early>>

\* Broken variant: the code stays pending.
TaskEndsPending ==
  /\ worker = "done" /\ callerMutex = "free"
  /\ caller' = CallerNotified /\ worker' = "loop"
  /\ UNCHANGED <<callerMutex, workerMutex, taskContext, exit, pending, tasks, done, early>>

TaskEnds ==
  /\ worker = "done" /\ callerMutex = "free"
  /\ pending' = FALSE
  /\ caller' = CallerNotified /\ worker' = "loop"
  /\ UNCHANGED <<callerMutex, workerMutex, taskContext, exit, tasks, done, early>>

CallerStep == StartWorker \/ WaitReady \/ (\E terminate \in BOOLEAN : PostTask(terminate))
              \/ WaitTask \/ CallerWakes \/ JoinWorker
WorkerStep == WorkerStarts \/ WorkerReady \/ WorkerLoops \/ WorkerWakes \/ OnTask \/ TaskEnds

StNext == PerformTask \/ CallerStep \/ WorkerStep \/ SpuriousWakeUp \/ CallerSpurious

StSpec == StInit /\ [][StNext]_stVars /\ WF_stVars(CallerStep) /\ WF_stVars(WorkerStep)

-----------------------------------------------------------------------------
(* Properties. *)

\* As long as no wait ended early, the worker runs a task only while its caller waits for
\* it, so the context, which lives on the caller's stack, is there; it is always the
\* context of the last call (sync_task.h:75-91, 118-126).
ContextIsAlive ==
  worker = "task" => taskContext = tasks /\ (early \/ caller \in {"posted", "wait"})

\* As long as no wait ended early, PerformTask returns when its task was done, once, and
\* not before.
DoneOnReturn == ~early => (caller = "rest" => done = tasks)

\* PerformTask holds the caller's mutex and waits for the worker's, the worker, which
\* greets or tells the end of a task, the other way round (sync_task.h:72-77, 107, 124).
TwoLocks ==
  /\ caller = "post" /\ callerMutex = "caller"
  /\ worker \in {"ready", "done"} /\ workerMutex = "worker"

\* The two wait for each other only after a wait that ended early.
LocksInOrder == TwoLocks => early

\* Every call of PerformTask and the destructor come to an end, unless the two wait for
\* each other: no notification is lost.
CallReturns ==
  caller \in {"ready?", "post", "join"} ~> caller \in {"rest", "gone"} \/ TwoLocks

\* "Wait for worker thread to finish and signal." (sync_task.h:89): a call that returned
\* has had its task done.  Does not hold: the wait has no predicate.
PerformTaskWaits == caller = "rest" => done = tasks
=============================================================================
