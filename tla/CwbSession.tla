----------------------------- MODULE CwbSession -----------------------------
(***************************************************************************)
(* Concurrent writeback of one display for external clients:               *)
(* HWCSession::CWB (composer/hwc_session_services.cpp), with the part of   *)
(* HWCDisplay it calls (SetReadbackBuffer) and is called by (NotifyCwbDone).*)
(*                                                                         *)
(* PostBuffer queues a node under the lock of the session, asks the display *)
(* to capture into the buffer under the lock of the display, and completes  *)
(* or rejects the node under the session lock again; several binder threads *)
(* may be between these steps at once.  An async task, alive while the      *)
(* queue is not empty, calls the clients back in queue order as the CWB     *)
(* manager reports the buffers done, in whatever order it does.             *)
(***************************************************************************)
EXTENDS Naturals, SequencesExt

CONSTANTS
  Requests,     \* the calls of PostBuffer; each makes one node
  Buffers,      \* buffer handle ids
  Tasks,        \* async tasks that may exist at once
  NoTask,       \* the value of a variable that names no request
  MaxSpurious   \* bound on the spurious wake-ups of the session's cv

ASSUME NoTaskAssumption == NoTask \notin Requests
ASSUME MaxSpuriousAssumption == MaxSpurious \in Nat

Statuses == {"success", "failure"}

VARIABLES
  pc,            \* how far each call of PostBuffer is
  buf,           \* the handle_id of its node
  queue,         \* DisplayCWBSession::queue
  notified,      \* QueueNode::notified_status
  completed,     \* QueueNode::request_completed
  running,       \* async_thread_running
  task,          \* where each async task is
  cwb_node,      \* the node each async task looks at
  captured,      \* HWCDisplay::cwb_buffer_map_, its keys of external clients
  closed,        \* nodes whose cloned buffer handle was closed and deleted
  pushed,        \* every node ever queued, in order
  delivered,     \* the callbacks made: request and status, in order
  spurious

session == <<queue, notified, completed, running>>
tasks == <<task, cwb_node>>
history == <<pushed, delivered>>
vars == <<pc, buf, session, tasks, captured, closed, history, spurious>>

TypeOK ==
  /\ pc \in [Requests -> {"new", "capture", "complete", "reject", "accepted", "rejected"}]
  /\ buf \in [Requests -> Buffers]
  /\ queue \in Seq(Requests)
  /\ notified \in [Requests -> Statuses \cup {"none"}]
  /\ completed \in [Requests -> BOOLEAN]
  /\ running \in BOOLEAN
  /\ task \in [Tasks -> {"absent", "check", "wait", "woken", "deliver"}]
  /\ cwb_node \in [Tasks -> Requests \cup {NoTask}]
  /\ captured \in SUBSET Buffers
  /\ closed \in SUBSET Requests
  /\ pushed \in Seq(Requests)
  /\ delivered \in Seq(Requests \X Statuses)
  /\ spurious \in 0..MaxSpurious

Init ==
  /\ pc = [r \in Requests |-> "new"]
  /\ buf \in [Requests -> Buffers]
  /\ queue = <<>>
  /\ notified = [r \in Requests |-> "none"]
  /\ completed = [r \in Requests |-> FALSE]
  /\ running = FALSE
  /\ task = [t \in Tasks |-> "absent"]
  /\ cwb_node = [t \in Tasks |-> NoTask]
  /\ captured = {} /\ closed = {}
  /\ pushed = <<>> /\ delivered = <<>>
  /\ spurious = 0

Goto(r, label) == pc' = [pc EXCEPT ![r] = label]

-----------------------------------------------------------------------------
(* PostBuffer, first critical section: a buffer that is in the queue         *)
(* already is refused, as is one whose handle id cannot be read.            *)
(* DuplicateOfLast is a slip: only the newest node is compared.             *)
DuplicateOfLast(r) == queue # <<>> /\ buf[Last(queue)] = buf[r]

Duplicate(r) == \E q \in ToSet(queue) : buf[q] = buf[r]

PostBuffer(r) ==
  /\ pc[r] = "new"
  /\ ~Duplicate(r)
  /\ queue' = Append(queue, r)
  /\ pushed' = Append(pushed, r)
  /\ Goto(r, "capture")
  /\ UNCHANGED <<buf, notified, completed, running, tasks, captured, closed,
                 delivered, spurious>>

Refuse(r) ==
  /\ pc[r] = "new"
  /\ Goto(r, "reject")
  /\ UNCHANGED <<buf, session, tasks, captured, closed, history, spurious>>

(* HWCDisplay::SetReadbackBuffer under locker_[dpy_index]; it fails when the *)
(* display is gone, off or secure, the buffer is unusable, or the writeback *)
(* block is busy.                                                           *)
SetReadbackBuffer(r) ==
  /\ pc[r] = "capture"
  /\ \/ captured' = captured \cup {buf[r]} /\ Goto(r, "complete")
     \/ captured' = captured /\ Goto(r, "reject")
  /\ UNCHANGED <<buf, session, tasks, closed, history, spurious>>

(* A slip: the comparison with the last node is forgotten.                  *)
RejectPopsLast(r) ==
  /\ pc[r] = "reject"
  /\ queue' = IF queue = <<>> THEN queue ELSE Front(queue)
  /\ closed' = closed \cup {r}
  /\ Goto(r, "rejected")
  /\ UNCHANGED <<buf, notified, completed, running, tasks, captured, history, spurious>>

(* The error path: the node is removed if it is the last of the queue.  On  *)
(* an empty queue the code calls back() all the same, which is undefined;   *)
(* the build reads the slot of a node that left the queue, never equal to   *)
(* this one.                                                                *)
Reject(r) ==
  /\ pc[r] = "reject"
  /\ queue' = IF queue # <<>> /\ Last(queue) = r THEN Front(queue) ELSE queue
  /\ closed' = closed \cup {r}
  /\ Goto(r, "rejected")
  /\ UNCHANGED <<buf, notified, completed, running, tasks, captured, history, spurious>>

StartTask ==
  /\ running' = TRUE
  /\ \E t \in Tasks : task[t] = "absent" /\ task' = [task EXCEPT ![t] = "check"]

(* A slip: a task is started for the first node of a queue only.            *)
CompleteIfFirst(r) ==
  /\ pc[r] = "complete"
  /\ completed' = [completed EXCEPT ![r] = TRUE]
  /\ IF Len(queue) = 1 /\ ~running THEN StartTask ELSE UNCHANGED <<running, task>>
  /\ Goto(r, "accepted")
  /\ UNCHANGED <<buf, queue, notified, cwb_node, captured, closed, history, spurious>>

(* A slip: a task for every request.                                        *)
CompleteAndStart(r) ==
  /\ pc[r] = "complete"
  /\ completed' = [completed EXCEPT ![r] = TRUE]
  /\ IF \E t \in Tasks : task[t] = "absent" THEN StartTask ELSE UNCHANGED <<running, task>>
  /\ Goto(r, "accepted")
  /\ UNCHANGED <<buf, queue, notified, cwb_node, captured, closed, history, spurious>>

(* The last critical section of a call that succeeds.                       *)
Complete(r) ==
  /\ pc[r] = "complete"
  /\ completed' = [completed EXCEPT ![r] = TRUE]
  /\ IF ~running /\ queue # <<>> THEN StartTask ELSE UNCHANGED <<running, task>>
  /\ Goto(r, "accepted")
  /\ UNCHANGED <<buf, queue, notified, cwb_node, captured, closed, history, spurious>>

-----------------------------------------------------------------------------
(* HWCDisplay::NotifyCwbDone and CWB::OnCWBDone: the first node of the       *)
(* buffer that was not notified yet gets the status; notify_one.            *)
Unnotified(b) == {r \in ToSet(queue) : buf[r] = b /\ notified[r] = "none"}

WakeOne ==
  \/ /\ \A t \in Tasks : task[t] # "wait"
     /\ task' = task
  \/ \E t \in Tasks : task[t] = "wait" /\ task' = [task EXCEPT ![t] = "woken"]

(* A slip: only the front node is looked at.                                *)
NotifyFront(b, status) ==
  /\ b \in captured
  /\ captured' = captured \ {b}
  /\ IF queue # <<>> /\ Head(queue) \in Unnotified(b)
       THEN /\ notified' = [notified EXCEPT ![Head(queue)] = status]
            /\ WakeOne
       ELSE UNCHANGED <<notified, task>>
  /\ UNCHANGED <<pc, buf, queue, completed, running, cwb_node, closed, history, spurious>>

(* A slip: the status is stored and nobody is woken.                        *)
NotifySilently(b, status) ==
  /\ b \in captured
  /\ captured' = captured \ {b}
  /\ \E r \in Unnotified(b) : notified' = [notified EXCEPT ![r] = status]
  /\ UNCHANGED <<pc, buf, queue, completed, running, tasks, closed, history, spurious>>

NotifyCwbDone(b, status) ==
  /\ b \in captured
  /\ captured' = captured \ {b}
  /\ IF Unnotified(b) = {}
       THEN UNCHANGED <<notified, task>>
       ELSE LET first == SelectInSeq(queue, LAMBDA r : r \in Unnotified(b))
            IN  /\ notified' = [notified EXCEPT ![queue[first]] = status]
                /\ WakeOne
  /\ UNCHANGED <<pc, buf, queue, completed, running, cwb_node, closed, history, spurious>>

-----------------------------------------------------------------------------
(* CWB::ProcessCWBStatus, one iteration per step; a front node whose call    *)
(* has not completed makes the task spin.                                   *)
Pop(t) ==
  /\ queue' = Tail(queue)
  /\ task' = [task EXCEPT ![t] = "deliver"]

TaskExit(t) ==
  /\ task[t] = "check"
  /\ queue = <<>>
  /\ running' = FALSE
  /\ task' = [task EXCEPT ![t] = "absent"]
  /\ cwb_node' = [cwb_node EXCEPT ![t] = NoTask]
  /\ UNCHANGED <<pc, buf, queue, notified, completed, captured, closed, history, spurious>>

(* A slip: the node is taken whether or not its call has completed.         *)
TaskCheckAny(t) ==
  /\ task[t] = "check"
  /\ queue # <<>>
  /\ cwb_node' = [cwb_node EXCEPT ![t] = Head(queue)]
  /\ IF notified[Head(queue)] = "none"
       THEN task' = [task EXCEPT ![t] = "wait"] /\ UNCHANGED queue
       ELSE Pop(t)
  /\ UNCHANGED <<pc, buf, notified, completed, running, captured, closed, history, spurious>>

TaskCheck(t) ==
  /\ task[t] = "check"
  /\ queue # <<>>
  /\ completed[Head(queue)]
  /\ cwb_node' = [cwb_node EXCEPT ![t] = Head(queue)]
  /\ IF notified[Head(queue)] = "none"
       THEN task' = [task EXCEPT ![t] = "wait"] /\ UNCHANGED queue
       ELSE Pop(t)
  /\ UNCHANGED <<pc, buf, notified, completed, running, captured, closed, history, spurious>>

(* After the wait only the node seen before it is checked, and the front of *)
(* the queue is popped.                                                     *)
TaskWoken(t) ==
  /\ task[t] = "woken"
  /\ IF notified[cwb_node[t]] = "none"
       THEN task' = [task EXCEPT ![t] = "check"] /\ UNCHANGED queue
       ELSE Pop(t)
  /\ UNCHANGED <<pc, buf, notified, completed, running, cwb_node, captured, closed,
                 history, spurious>>

(* NotifyCWBStatus, outside the lock: call back, then close the handle.     *)
NotifyCWBStatus(t) ==
  /\ task[t] = "deliver"
  /\ delivered' = Append(delivered, <<cwb_node[t], notified[cwb_node[t]]>>)
  /\ closed' = closed \cup {cwb_node[t]}
  /\ task' = [task EXCEPT ![t] = "check"]
  /\ UNCHANGED <<pc, buf, session, cwb_node, captured, pushed, spurious>>

SpuriousWake(t) ==
  /\ spurious < MaxSpurious
  /\ task[t] = "wait"
  /\ spurious' = spurious + 1
  /\ task' = [task EXCEPT ![t] = "woken"]
  /\ UNCHANGED <<pc, buf, session, cwb_node, captured, closed, history>>

-----------------------------------------------------------------------------
CallStep(r) == SetReadbackBuffer(r) \/ Reject(r) \/ Complete(r)
TaskStep(t) == TaskExit(t) \/ TaskCheck(t) \/ TaskWoken(t) \/ NotifyCWBStatus(t)

Next ==
  \/ \E r \in Requests : PostBuffer(r) \/ Refuse(r) \/ CallStep(r)
  \/ \E b \in Buffers, status \in Statuses : NotifyCwbDone(b, status)
  \/ \E t \in Tasks : TaskStep(t) \/ SpuriousWake(t)

(* Calls in progress and the async task keep running.  That the CWB manager *)
(* (an extension library) reports every captured buffer in the end, at the  *)
(* latest when the display is torn down, is assumed.                        *)
Fairness ==
  /\ \A r \in Requests : WF_vars(CallStep(r))
  /\ \A b \in Buffers : WF_vars(\E status \in Statuses : NotifyCwbDone(b, status))
  /\ \A t \in Tasks : WF_vars(TaskStep(t))

Spec == Init /\ [][Next]_vars /\ Fairness

-----------------------------------------------------------------------------
Index(r) == CHOOSE i \in DOMAIN pushed : pushed[i] = r
Live(t) == task[t] # "absent"

(* Clients are called back in the order in which their buffers were queued,  *)
(* and at most once each, although the manager reports them in any order    *)
(* (the "sequential manner" of ProcessCWBStatus).                           *)
DeliveredInQueueOrder ==
  \A i, j \in DOMAIN delivered :
    i < j => Index(delivered[i][1]) < Index(delivered[j][1])

(* A callback is made for a call that returned success (or is about to),    *)
(* with a status the manager reported, never for one that was rejected and  *)
(* had its handle closed.                                                   *)
DeliversOnlyDoneRequests ==
  \A t \in Tasks : task[t] = "deliver" =>
    /\ notified[cwb_node[t]] # "none"
    /\ completed[cwb_node[t]]
    /\ cwb_node[t] \notin closed

(* Every client is called back in the order of the queue, once its own       *)
(* buffer is done (ProcessCWBStatus, NotifyCWBStatus).                      *)
CallbacksInOrder == DeliveredInQueueOrder /\ DeliversOnlyDoneRequests

(* The node the task saw before it slept is the one it pops after: no other *)
(* thread changes the front of the queue meanwhile (ProcessCWBStatus checks *)
(* cwb_node but pops queue.front()).                                        *)
WaitedForIsFront ==
  \A t \in Tasks : task[t] \in {"wait", "woken"} =>
    queue # <<>> /\ Head(queue) = cwb_node[t]

(* No wake-up is lost: a task never sleeps on a front node that has been     *)
(* notified.                                                                *)
SleepsOnlyUnnotified ==
  \A t \in Tasks : task[t] = "wait" => notified[Head(queue)] = "none"

(* Every report of the manager finds exactly one node to put its status in. *)
ReportFindsItsNode ==
  \A b \in captured : \E r \in Unnotified(b) : Unnotified(b) = {r}

(* A node whose call succeeded has a task to deliver it, and there is never *)
(* more than one (async_thread_running).                                    *)
OneTaskWhilePending ==
  /\ (\E r \in ToSet(queue) : completed[r]) => \E t \in Tasks : Live(t)
  /\ \A s, t \in Tasks : Live(s) /\ Live(t) => s = t

(* The task keeps in step with the queue: it is the only one, it waits for    *)
(* the node it will pop, and only while that is not done.                   *)
TaskIsInStep == WaitedForIsFront /\ SleepsOnlyUnnotified /\ OneTaskWhilePending

(* "If current node is pushed in the queue, then need to remove it again on *)
(* error" (hwc_session_services.cpp:628).                                   *)
RejectedIsRemoved == \A r \in Requests : pc[r] = "rejected" => r \notin ToSet(queue)

(* A rejected node left in the queue; see RejectedIsRemoved.                *)
Stranded == \E r \in ToSet(queue) : pc[r] = "rejected"

(* A client whose buffer was accepted is called back, unless a rejected      *)
(* node blocks the queue.                                                   *)
AcceptedIsDelivered ==
  \A r \in Requests :
    pc[r] = "accepted" ~> Stranded \/ \E d \in ToSet(delivered) : d[1] = r
=============================================================================
