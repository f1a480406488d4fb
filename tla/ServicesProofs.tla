--------------------------- MODULE ServicesProofs ---------------------------
(***************************************************************************)
(* Proofs about the callbacks of the composer client, the SyncTask, the     *)
(* histogram collector and the configurations of a display, each for any    *)
(* constants, and about the specification that has them side by side.        *)
(***************************************************************************)
EXTENDS MCServices, SequenceTheorems, WellFoundedInduction, TLAPS

-----------------------------------------------------------------------------
(* Callbacks: a client that has gone leaves nothing behind, and the callback *)
(* thread calls a client with its own data.                                  *)

\* The entries of the queue, and the states of a client, with no bound on either.
AnyItems == [cmd : {"hotplug", "refresh"}, display : Displays \cup {0}, state : BOOLEAN]

\* A client and the call of Register that it is in.
AnyClients == [id : Nat, on : BOOLEAN, step : {1, 2, 3},
               at : {"rest", "set", "data", "thread", "stop", "notify", "join"}]

\* The types, of a queue of any length.
CbTypes ==
  /\ fn \in [{"hotplug", "refresh", "vsync"} -> Nat]
  /\ cbData \in Nat
  /\ cbQueue \in Seq(AnyItems)
  /\ cbRunning \in BOOLEAN
  /\ cbThread \in [at : {"none", "look", "sleepy", "blocked", "popped", "exited"},
                  item : Seq(AnyItems)]
  /\ cbThread.at = "popped" => cbThread.item # <<>>
  /\ waiter \in Seq(AnyItems)
  /\ cbClient \in AnyClients

\* A client has deregistered, or none has registered yet.
Gone == cbClient.at = "rest" /\ ~cbClient.on

\* The first call of a new client has not written callback_data_ yet.
NewData == cbClient.on /\ cbClient.step = 1 /\ cbClient.at \in {"set", "data"}

\* When there is a thread, and whether it is told to run.
Alive ==
  /\ cbClient.at \in {"stop", "notify", "join"} => ~cbClient.on
  /\ cbRunning => cbThread.at \notin {"none", "exited"}
  /\ ~cbRunning => cbThread.at = "none" \/ cbClient.at \in {"notify", "join"}
  /\ Gone \/ NewData => cbThread.at = "none"
  /\ ~cbClient.on /\ cbClient.step # 1 /\ cbClient.at \in {"set", "data", "thread"} =>
       cbThread.at = "none"

\* Whose the functions and the data are; the client takes its functions back in order.
Mine ==
  /\ \A c \in {"hotplug", "refresh", "vsync"} : fn[c] \in {Nobody, cbClient.id}
  /\ ~NewData => cbData = cbClient.id
  /\ Gone => \A c \in {"hotplug", "refresh", "vsync"} : fn[c] = Nobody
  /\ ~cbClient.on /\ (cbClient.step # 1 \/ cbClient.at # "set") => fn["hotplug"] = Nobody
  /\ ~cbClient.on /\ (cbClient.step = 3 \/ (cbClient.step = 2 /\ cbClient.at # "set")) =>
       fn["refresh"] = Nobody
  /\ ~cbClient.on /\ cbClient.step = 3 /\ cbClient.at # "set" => fn["vsync"] = Nobody

\* A thread that returned has left nothing that will not be pushed again.
Drained ==
  /\ cbThread.at = "exited" /\ fn["hotplug"] = Nobody /\ fn["refresh"] = Nobody => cbQueue = <<>>
  /\ Gone => cbQueue = <<>>

\* The inductive invariant of the callbacks.
CbInv == CbTypes /\ Alive /\ Mine /\ Drained /\ ThreadHasItsData

\* No client, no thread and an empty queue.
LEMMA CbInitEstablishes == CbInit => CbInv
<1> SUFFICES ASSUME CbInit PROVE CbInv
  OBVIOUS
<1>1. CbTypes
  <2>1. <<>> \in Seq(AnyItems)
    OBVIOUS
  <2> HIDE DEF AnyItems
  <2> QED
    BY <2>1 DEF CbInit, CbTypes, AnyClients, Nobody
<1>2. Alive /\ Mine /\ Drained /\ ThreadHasItsData
  BY DEF CbInit, Alive, Mine, Drained, ThreadHasItsData, Gone, NewData, Nobody
<1> QED
  BY <1>1, <1>2 DEF CbInv

\* The callback thread.
LEMMA ThreadPreserves == ASSUME CbInv, ThreadStep PROVE CbInv'
<1>1. CASE Look
  <2>1. CbTypes'
    <3>1. cbQueue # <<>> => Tail(cbQueue) \in Seq(AnyItems) /\ <<Head(cbQueue)>> \in Seq(AnyItems)
      BY DEF CbInv, CbTypes
    <3>2. /\ cbThread' \in [at : {"none", "look", "sleepy", "blocked", "popped", "exited"},
                            item : Seq(AnyItems)]
          /\ cbThread'.at = "popped" => cbThread'.item # <<>>
      BY <1>1, <3>1 DEF Look, CbInv, CbTypes
    <3>3. cbQueue' \in Seq(AnyItems)
      BY <1>1, <3>1 DEF Look, CbInv, CbTypes
    <3>4. UNCHANGED <<fn, cbData, cbRunning, cbClient, waiter>>
      BY <1>1 DEF Look
    <3> QED
      BY <3>2, <3>3, <3>4 DEF CbInv, CbTypes
  <2>2. UNCHANGED <<fn, cbData, cbRunning, cbClient, called>>
    BY <1>1 DEF Look
  <2>3. /\ cbThread.at = "look" /\ cbThread'.at \in {"sleepy", "exited", "popped"}
        /\ cbThread'.at = "exited" => ~cbRunning /\ cbQueue' = <<>>
        /\ cbQueue = <<>> => cbQueue' = <<>>
    BY <1>1 DEF Look, CbInv, CbTypes
  <2> QED
    BY <2>1, <2>2, <2>3 DEF CbInv, Alive, Mine, Drained, ThreadHasItsData, Gone, NewData
<1>2. CASE Block
  BY <1>2 DEF Block, CbInv, CbTypes, Alive, Mine, Drained, ThreadHasItsData, Gone, NewData
<1>3. CASE Perform
  <2> DEFINE item == cbThread.item[1]
  <2>1. item \in AnyItems /\ cbThread.at = "popped"
    BY <1>3 DEF Perform, CbInv, CbTypes
  <2>2. /\ UNCHANGED <<fn, cbData, cbRunning, cbClient, waiter>>
        /\ cbThread' = [at |-> "look", item |-> <<>>]
    BY <1>3 DEF Perform
  <2>3. RefreshAfter(item, cbQueue) \in Seq(AnyItems)
    <3>1. [cmd |-> "refresh", display |-> 0, state |-> FALSE] \in AnyItems
      BY DEF AnyItems
    <3> QED
      BY <3>1 DEF RefreshAfter, CbInv, CbTypes
  <2>4. cbQueue' \in Seq(AnyItems)
    BY <1>3, <2>3 DEF Perform, CbInv, CbTypes
  <2>5. fn["refresh"] = Nobody => cbQueue' = cbQueue
    BY <1>3 DEF Perform, RefreshAfter
  <2>6. ThreadHasItsData'
    <3>1. \/ called' = called
          \/ /\ fn[item.cmd] # Nobody
             /\ called' = [fn |-> fn[item.cmd], data |-> cbData, by |-> "thread"]
      BY <1>3 DEF Perform, Call
    <3>2. ~NewData /\ item.cmd \in {"hotplug", "refresh", "vsync"}
      BY <2>1 DEF CbInv, Alive, AnyItems
    <3> QED
      BY <3>1, <3>2 DEF CbInv, Mine, ThreadHasItsData
  <2>7. ~Gone
    BY <2>1 DEF CbInv, Alive
  <2> QED
    BY <2>1, <2>2, <2>4, <2>5, <2>6, <2>7 DEF CbInv, CbTypes, Alive, Mine, Drained, Gone, NewData
<1> QED
  BY <1>1, <1>2, <1>3 DEF ThreadStep

\* Whoever reports leaves the client alone, at most notifies the thread, and puts
\* nothing into the queue once no function is set that could be called.
LEMMA Reporting ==
  ASSUME CbInv, UNCHANGED <<fn, cbData, cbRunning, cbClient>>,
         cbQueue' \in Seq(AnyItems), waiter' \in Seq(AnyItems),
         cbThread' \in {cbThread, Notified(cbThread)},
         fn["hotplug"] = Nobody /\ fn["refresh"] = Nobody => cbQueue' = cbQueue,
         called' = called \/ called'.by = "reporter"
  PROVE  CbInv'
<1>1. /\ cbThread' \in [at : {"none", "look", "sleepy", "blocked", "popped", "exited"},
                        item : Seq(AnyItems)]
      /\ cbThread'.item = cbThread.item
      /\ \/ cbThread'.at = cbThread.at
         \/ cbThread.at = "blocked" /\ cbThread'.at = "look"
  BY DEF Notified, CbInv, CbTypes
<1>2. CbTypes'
  BY <1>1 DEF CbInv, CbTypes
<1>3. Gone => fn["hotplug"] = Nobody /\ fn["refresh"] = Nobody
  BY DEF CbInv, Mine
<1>4. Alive' /\ Mine'
  BY <1>1 DEF CbInv, Alive, Mine, Gone, NewData
<1>5. Drained' /\ ThreadHasItsData'
  BY <1>1, <1>3 DEF CbInv, Drained, ThreadHasItsData, Gone
<1> QED
  BY <1>2, <1>4, <1>5 DEF CbInv

\* What is reported is put into the queue or told to the client at once.
LEMMA ReportFacts ==
  ASSUME CbInv, NEW item \in AnyItems, Report(item)
  PROVE  /\ cbQueue' \in Seq(AnyItems) /\ cbThread' \in {cbThread, Notified(cbThread)}
         /\ called' = called \/ called'.by = "reporter"
<1> DEFINE refresh == [cmd |-> "refresh", display |-> 0, state |-> FALSE]
<1>1. cbQueue \in Seq(AnyItems) /\ refresh \in AnyItems
  BY DEF CbInv, CbTypes, AnyItems
<1>2. \/ UNCHANGED <<cbQueue, cbThread>>
      \/ \E i \in {item, refresh} : Push(i, cbQueue)
  BY DEF Report
<1>3. called' = called \/ called'.by = "reporter"
  BY DEF Report, Call
<1> HIDE DEF refresh
<1> QED
  BY <1>1, <1>2, <1>3 DEF Push

\* Refresh and hotplug reports, also those that waited for a client.
LEMMA ReportPreserves ==
  ASSUME CbInv, WaiterStep \/ Reports
  PROVE  CbInv'
<1>1. cbQueue \in Seq(AnyItems) /\ waiter \in Seq(AnyItems)
  BY DEF CbInv, CbTypes
<1>2. ASSUME NEW d \in Displays, Refresh(d) PROVE CbInv'
  <2>1. [cmd |-> "refresh", display |-> d, state |-> FALSE] \in AnyItems
    BY DEF AnyItems
  <2> QED
    BY <1>1, <1>2, <2>1, Reporting DEF Refresh, Push
<1>3. ASSUME NEW d \in Displays, NEW state \in BOOLEAN, Hotplug(d, state) PROVE CbInv'
  <2> DEFINE item == [cmd |-> "hotplug", display |-> d, state |-> state]
  <2>1. item \in AnyItems
    BY DEF AnyItems
  <2>2. CASE fn["hotplug"] = Nobody
    <3>1. /\ waiter' = <<item>>
          /\ UNCHANGED <<cbQueue, cbThread, called, fn, cbData, cbRunning, cbClient>>
      BY <1>3, <2>2 DEF Hotplug
    <3> HIDE DEF item
    <3> QED
      BY <1>1, <2>1, <3>1, Reporting
  <2>3. CASE fn["hotplug"] # Nobody
    <3>1. Report(item) /\ UNCHANGED <<waiter, fn, cbData, cbRunning, cbClient>>
      BY <1>3, <2>3 DEF Hotplug
    <3> QED
      BY <1>1, <2>1, <2>3, <3>1, ReportFacts, Reporting
  <2> QED
    BY <2>2, <2>3
<1>4. CASE HotplugWoken
  <2>1. waiter[1] \in AnyItems
    BY <1>1, <1>4 DEF HotplugWoken
  <2>2. Report(waiter[1]) /\ waiter' = <<>> /\ fn["hotplug"] # Nobody
        /\ UNCHANGED <<fn, cbData, cbRunning, cbClient>>
    BY <1>4 DEF HotplugWoken
  <2> QED
    BY <2>1, <2>2, ReportFacts, Reporting
<1>5. CASE HotplugDropped
  BY <1>1, <1>5, Reporting DEF HotplugDropped
<1> QED
  BY <1>2, <1>3, <1>4, <1>5 DEF WaiterStep, Reports

\* The client's calls of Register.
LEMMA RegisterPreserves ==
  ASSUME CbInv, RegisterStep \/ Connect \/ Disconnect
  PROVE  CbInv'
<1> USE DEF Nobody, AnyClients
<1>1. /\ Len(Descriptors) = 3
      /\ Descriptors[1] = "hotplug" /\ Descriptors[2] = "refresh" /\ Descriptors[3] = "vsync"
  BY DEF Descriptors
<1>2. /\ Registered \in AnyClients
      /\ Registered = IF cbClient.step = 3 THEN [cbClient EXCEPT !.at = "rest"]
                      ELSE [cbClient EXCEPT !.at = "set", !.step = @ + 1]
  <2>1. Registered = IF cbClient.step = 3 THEN [cbClient EXCEPT !.at = "rest"]
                     ELSE [cbClient EXCEPT !.at = "set", !.step = @ + 1]
    BY <1>1 DEF Registered
  <2>2. cbClient.step # 3 => cbClient.step + 1 \in {1, 2, 3}
    BY DEF CbInv, CbTypes
  <2> QED
    BY <2>1, <2>2 DEF CbInv, CbTypes
<1>3. CASE SetFn
  <2>1. CbTypes'
    BY <1>3, <1>1 DEF SetFn, At, CbInv, CbTypes
  <2>2. Alive'
    BY <1>3, <1>1 DEF SetFn, At, CbInv, CbTypes, Alive, Gone, NewData
  <2>3. Mine'
    BY <1>3, <1>1 DEF SetFn, At, CbInv, CbTypes, Alive, Mine, Gone, NewData
  <2>4. Drained' /\ ThreadHasItsData'
    BY <1>3, <1>1 DEF SetFn, At, CbInv, CbTypes, Alive, Mine, Drained, ThreadHasItsData, Gone,
           NewData
  <2> QED
    BY <2>1, <2>2, <2>3, <2>4 DEF CbInv
<1>4. CASE SetData
  <2>1. CbTypes'
    BY <1>4 DEF SetData, At, CbInv, CbTypes
  <2>2. Alive'
    BY <1>4 DEF SetData, At, CbInv, CbTypes, Alive, Gone, NewData
  <2>3. Mine'
    BY <1>4 DEF SetData, At, CbInv, CbTypes, Alive, Mine, Gone, NewData
  <2>4. Drained' /\ ThreadHasItsData'
    BY <1>4 DEF SetData, At, CbInv, CbTypes, Alive, Mine, Drained, ThreadHasItsData, Gone, NewData
  <2> QED
    BY <2>1, <2>2, <2>3, <2>4 DEF CbInv
<1>5. CASE StartThread
  <2>1. CbTypes'
    BY <1>5, <1>2 DEF StartThread, CbInv, CbTypes
  <2>2. Alive'
    BY <1>5, <1>2 DEF StartThread, CbInv, CbTypes, Alive, Gone, NewData
  <2>3. Mine'
    BY <1>5, <1>2 DEF StartThread, CbInv, CbTypes, Alive, Mine, Gone, NewData
  <2>4. Drained' /\ ThreadHasItsData'
    BY <1>5, <1>2 DEF StartThread, CbInv, CbTypes, Alive, Mine, Drained, ThreadHasItsData, Gone,
         NewData
  <2> QED
    BY <2>1, <2>2, <2>3, <2>4 DEF CbInv
<1>6. CASE StopThread
  <2>1. CbTypes'
    BY <1>6 DEF StopThread, At, CbInv, CbTypes
  <2>2. Alive'
    BY <1>6 DEF StopThread, At, CbInv, CbTypes, Alive, Gone, NewData
  <2>3. Mine'
    BY <1>6 DEF StopThread, At, CbInv, CbTypes, Alive, Mine, Gone, NewData
  <2>4. Drained' /\ ThreadHasItsData'
    BY <1>6 DEF StopThread, At, CbInv, CbTypes, Alive, Mine, Drained, ThreadHasItsData, Gone,
           NewData
  <2> QED
    BY <2>1, <2>2, <2>3, <2>4 DEF CbInv
<1>7. CASE NotifyThread
  <2>1. CbTypes'
    BY <1>7 DEF NotifyThread, At, Notified, CbInv, CbTypes
  <2>2. Alive'
    BY <1>7 DEF NotifyThread, At, Notified, CbInv, CbTypes, Alive, Gone, NewData
  <2>3. Mine'
    BY <1>7 DEF NotifyThread, At, Notified, CbInv, CbTypes, Alive, Mine, Gone, NewData
  <2>4. Drained' /\ ThreadHasItsData'
    BY <1>7 DEF NotifyThread, At, Notified, CbInv, CbTypes, Alive, Mine, Drained,
           ThreadHasItsData,
         Gone, NewData
  <2> QED
    BY <2>1, <2>2, <2>3, <2>4 DEF CbInv
<1>8. CASE Join
  <2>1. CbTypes'
    BY <1>8, <1>2 DEF Join, CbInv, CbTypes
  <2>2. Alive'
    BY <1>8, <1>2 DEF Join, CbInv, CbTypes, Alive, Gone, NewData
  <2>3. Mine'
    BY <1>8, <1>2 DEF Join, CbInv, CbTypes, Alive, Mine, Gone, NewData
  <2>4. Drained' /\ ThreadHasItsData'
    BY <1>8, <1>2 DEF Join, CbInv, CbTypes, Alive, Mine, Drained, ThreadHasItsData, Gone, NewData
  <2> QED
    BY <2>1, <2>2, <2>3, <2>4 DEF CbInv
<1>9. CASE Connect
  <2>1. CbTypes'
    BY <1>9 DEF Connect, CbInv, CbTypes
  <2>2. Alive'
    BY <1>9 DEF Connect, CbInv, CbTypes, Alive, Gone, NewData
  <2>3. Mine'
    BY <1>9 DEF Connect, CbInv, CbTypes, Alive, Mine, Gone, NewData
  <2>4. Drained' /\ ThreadHasItsData'
    BY <1>9 DEF Connect, CbInv, CbTypes, Alive, Mine, Drained, ThreadHasItsData, Gone, NewData
  <2> QED
    BY <2>1, <2>2, <2>3, <2>4 DEF CbInv
<1>10. CASE Disconnect
  <2>1. CbTypes'
    BY <1>10 DEF Disconnect, CbInv, CbTypes
  <2>2. Alive'
    BY <1>10 DEF Disconnect, CbInv, CbTypes, Alive, Gone, NewData
  <2>3. Mine'
    BY <1>10 DEF Disconnect, CbInv, CbTypes, Alive, Mine, Gone, NewData
  <2>4. Drained' /\ ThreadHasItsData'
    BY <1>10 DEF Disconnect, CbInv, CbTypes, Alive, Mine, Drained, ThreadHasItsData, Gone, NewData
  <2> QED
    BY <2>1, <2>2, <2>3, <2>4 DEF CbInv
<1> QED
  BY <1>3, <1>4, <1>5, <1>6, <1>7, <1>8, <1>9, <1>10 DEF RegisterStep

\* The thread, the reports and the calls of Register keep the invariant.
LEMMA CbStepPreserves == CbInv /\ [CbNext]_cbVars => CbInv'
<1> SUFFICES ASSUME CbInv, [CbNext]_cbVars PROVE CbInv'
  OBVIOUS
<1>1. CASE UNCHANGED cbVars
  BY <1>1 DEF cbVars, CbInv, CbTypes, Alive, Mine, Drained, ThreadHasItsData, Gone, NewData
<1> QED
  BY <1>1, ThreadPreserves, ReportPreserves, RegisterPreserves DEF CbNext

\* The invariant of the callbacks, in every behavior.
LEMMA CbInvariance == CbSpec => []CbInv
  BY CbInitEstablishes, CbStepPreserves, PTL DEF CbSpec

\* However the thread, the reports and the calls of Register interleave, a client that
\* has deregistered leaves no callback in the queue and no thread (hwc_callbacks.cpp:181-196).
THEOREM GoneTheorem == CbSpec => []GoneLeavesNothing
<1>1. CbInv => GoneLeavesNothing
  BY DEF CbInv, Alive, Drained, Gone, GoneLeavesNothing
<1> QED
  BY <1>1, CbInvariance, PTL

\* The thread never calls a client's function with the data of another, although
\* callback_data_ is written under no lock (hwc_callbacks.cpp:172).
THEOREM DataTheorem == CbSpec => []ThreadHasItsData
<1>1. CbInv => ThreadHasItsData
  BY DEF CbInv
<1> QED
  BY <1>1, CbInvariance, PTL

-----------------------------------------------------------------------------
(* SyncTask, for any number of tasks. *)

\* The counters and the places the two threads can be in.
StTypes ==
  /\ callerMutex \in {"free", "caller"} /\ workerMutex \in {"free", "worker"}
  /\ caller \in {"starting", "ready?", "ready", "rest", "post", "posted", "wait", "woken", "join",
                 "gone"}
  /\ worker \in {"none", "start", "ready", "loop", "wait", "awake", "task", "done", "exited"}
  /\ tasks \in Nat /\ done \in Nat /\ taskContext \in Nat
  /\ exit \in BOOLEAN /\ pending \in BOOLEAN /\ early \in BOOLEAN

\* The caller holds its mutex in its critical sections, the worker its own.
Mutexes ==
  /\ callerMutex = "caller" <=> caller \in {"starting", "ready?", "post", "posted"}
  /\ workerMutex = "worker" <=> worker \in {"ready", "loop", "task", "done"}

\* What holds however the caller's waits end: the context is that of the last call, and a
\* task that is pending or running has not been counted as done.
Tasks ==
  /\ caller = "starting" <=> worker = "none"
  /\ taskContext = tasks
  /\ worker \in {"task", "done"} => pending
  /\ worker = "task" => ~exit
  /\ caller \in {"starting", "ready?", "ready", "rest", "post"} => ~exit
  /\ done <= IF exit THEN tasks - 1 ELSE tasks
  /\ pending /\ ~exit /\ worker # "done" => done < tasks

\* Before the worker has greeted no task is posted.
Starting ==
  /\ caller \in {"ready?", "ready"} <=> worker \in {"start", "ready"}
  /\ caller \in {"starting", "ready?", "ready"} => ~pending /\ ~exit /\ done = tasks

\* A task is pending exactly while the caller waits for it, and is counted as done
\* once OnTask has ended; the last call only ends the worker.
Handshake ==
  /\ pending <=> caller \in {"posted", "wait"}
  /\ pending /\ ~exit => done = IF worker = "done" THEN tasks ELSE tasks - 1
  /\ ~pending /\ ~exit => done = tasks
  /\ caller \in {"join", "gone"} => exit
  /\ worker = "exited" => exit

\* The inductive invariant of the SyncTask: the hand-shake holds as long as the waits of
\* the caller ended by a notification.
StInv == StTypes /\ Mutexes /\ Tasks /\ (~early => Starting /\ Handshake)

\* The constructor has not started its worker.
LEMMA StInitEstablishes == StInit => StInv
<1> SUFFICES ASSUME StInit PROVE StInv
  OBVIOUS
<1> USE DEF StInit
<1>1. StTypes
  BY DEF StTypes
<1>2. Mutexes
  BY DEF Mutexes
<1>3. Tasks
  BY DEF Tasks
<1>4. Starting
  BY DEF Starting
<1>5. Handshake
  BY DEF Handshake
<1> QED
  BY <1>1, <1>2, <1>3, <1>4, <1>5 DEF StInv

\* Every step of the caller and of the worker keeps the invariant.
LEMMA StStepPreserves == StInv /\ [StNext]_stVars => StInv'
<1> SUFFICES ASSUME StInv, [StNext]_stVars PROVE StInv'
  OBVIOUS
<1> USE DEF StInv, StTypes, Mutexes, Tasks, Starting, Handshake
<1>1. CASE PerformTask
  BY <1>1 DEF PerformTask
<1>2. CASE StartWorker
  BY <1>2 DEF StartWorker
<1>3. CASE WaitReady
  BY <1>3 DEF WaitReady
<1>4. ASSUME NEW terminate \in BOOLEAN, PostTask(terminate) PROVE StInv'
  BY <1>4 DEF PostTask
<1>5. CASE WaitTask
  BY <1>5 DEF WaitTask
<1>6. CASE CallerWakes
  BY <1>6 DEF CallerWakes
<1>7. CASE JoinWorker
  BY <1>7 DEF JoinWorker
<1>8. CASE WorkerStarts
  BY <1>8 DEF WorkerStarts
<1>9. CASE WorkerReady
  BY <1>9 DEF WorkerReady, CallerNotified
<1>10. CASE WorkerLoops
  BY <1>10 DEF WorkerLoops
<1>11. CASE WorkerWakes
  BY <1>11 DEF WorkerWakes
<1>12. CASE OnTask
  BY <1>12 DEF OnTask
<1>13. CASE TaskEnds
  BY <1>13 DEF TaskEnds, CallerNotified
<1>14. CASE SpuriousWakeUp
  BY <1>14 DEF SpuriousWakeUp
<1>15. CASE CallerSpurious
  BY <1>15 DEF CallerSpurious
<1>16. CASE UNCHANGED stVars
  BY <1>16 DEF stVars
<1> QED
  BY <1>1, <1>2, <1>3, <1>4, <1>5, <1>6, <1>7, <1>8, <1>9, <1>10, <1>11, <1>12, <1>13, <1>14,
     <1>15, <1>16
     DEF StNext, CallerStep, WorkerStep

\* The invariant of the SyncTask, in every behavior.
LEMMA StInvariance == StSpec => []StInv
  BY StInitEstablishes, StStepPreserves, PTL DEF StSpec

\* OnTask runs on the context of the last call, and only while the caller whose stack
\* holds it waits, unless a wait of the caller ended early (sync_task.h).
THEOREM ContextTheorem == StSpec => []ContextIsAlive
<1>1. StInv => ContextIsAlive
  BY DEF StInv, StTypes, Tasks, Handshake, ContextIsAlive
<1> QED
  BY <1>1, StInvariance, PTL

\* PerformTask returns when its task was done, exactly once, and never waits for a worker
\* that waits for it, unless a wait of the caller ended early (sync_task.h).
THEOREM DoneTheorem == StSpec => [](DoneOnReturn /\ LocksInOrder)
<1>1. StInv => DoneOnReturn
  BY DEF StInv, StTypes, Tasks, Starting, Handshake, DoneOnReturn
<1>2. StInv => LocksInOrder
  BY DEF StInv, StTypes, Tasks, Starting, Handshake, LocksInOrder, TwoLocks
<1> QED
  BY <1>1, <1>2, StInvariance, PTL

-----------------------------------------------------------------------------
(* The histogram collector: the thread of a start has returned, and stop has *)
(* seen that, before the next start.                                         *)

\* The inductive invariant of the histogram collector: a thread that has been asked to
\* return is joined before the next start.
HgInv ==
  /\ monitor \in [at : {"none", "look", "blocked", "fetch", "exited"}, work : Nat, start : Nat]
  /\ workAvail \in Nat /\ starts \in Nat
  /\ stopper \in {"rest", "join"} /\ started \in BOOLEAN
  /\ started => stopper = "rest" /\ monitor.at # "exited"
  /\ stopper = "rest" /\ ~started => monitor.at = "none"

\* The collector is not started.
LEMMA HgInitEstablishes == H!HgInit => HgInv
<1> SUFFICES ASSUME H!HgInit PROVE HgInv
  OBVIOUS
<1> QED
  BY DEF H!HgInit, HgInv

\* The client's calls, the event thread and the blob thread keep it.
LEMMA HgStepPreserves == HgInv /\ [H!HgNext]_histogramVars => HgInv'
<1> SUFFICES ASSUME HgInv, [H!HgNext]_histogramVars PROVE HgInv'
  OBVIOUS
<1> USE DEF HgInv
<1>1. CASE H!Start
  BY <1>1 DEF H!Start
<1>2. CASE H!Stop
  BY <1>2 DEF H!Stop, H!Notified
<1>3. CASE H!Join
  BY <1>3 DEF H!Join
<1>4. CASE H!NotifyEvent
  BY <1>4 DEF H!NotifyEvent, H!Notified
<1>5. CASE H!Wait
  BY <1>5 DEF H!Wait
<1>6. CASE H!Discard
  BY <1>6 DEF H!Discard
<1>7. ASSUME NEW frame \in Frames, H!Insert(frame) PROVE HgInv'
  BY <1>7 DEF H!Insert
<1>8. CASE H!Tick
  BY <1>8 DEF H!Tick
<1>9. CASE UNCHANGED histogramVars
  BY <1>9 DEF histogramVars
<1> QED
  BY <1>1, <1>2, <1>3, <1>4, <1>5, <1>6, <1>7, <1>8, <1>9 DEF H!HgNext, H!MonitorStep

-----------------------------------------------------------------------------
(* The sum that a recursive function computes.  Induction is over a set of   *)
(* numbers: its complement would have a least element.                      *)

\* Induction up to n over a set.
LEMMA UpTo ==
  ASSUME NEW n \in Nat, NEW S, 0 \in S, \A k \in 0..n : k \in S /\ k < n => k + 1 \in S
  PROVE  0..n \subseteq S
<1> DEFINE Less == {p \in Nat \X Nat : p[1] < p[2]}
<1>1. IsWellFoundedOn(Less, Nat)
  BY NatLessThanWellFounded DEF OpToRel
<1> SUFFICES ASSUME (0..n) \ S # {} PROVE FALSE
  OBVIOUS
<1>2. (0..n) \ S \subseteq Nat
  OBVIOUS
<1>3. PICK x \in (0..n) \ S : \A y \in (0..n) \ S : ~(<<y, x>> \in Less)
  BY <1>1, <1>2, WFMin
<1>4. x \in Nat /\ x # 0 /\ x - 1 \in 0..n /\ x - 1 < n
  BY <1>3
<1>5. <<x - 1, x>> \in Less
  BY <1>4
<1> QED
  BY <1>3, <1>4, <1>5

\* The sum that a recursive function computes exists up to every n.
LEMMA SumExists ==
  ASSUME NEW n \in Nat, NEW w \in [1..n -> Nat]
  PROVE  \E sum : sum = [i \in 0..n |-> IF i = 0 THEN 0 ELSE sum[i - 1] + w[i]]
<1> DEFINE Sums(f, k) == f = [i \in 0..k |-> IF i = 0 THEN 0 ELSE f[i - 1] + w[i]]
           S == {k \in 0..n : \E f : Sums(f, k)}
<1>1. 0 \in S
  <2> DEFINE z == [i \in 0..0 |-> 0]
  <2>1. Sums(z, 0)
    OBVIOUS
  <2> HIDE DEF z, Sums
  <2>2. \E f : Sums(f, 0)
    BY <2>1
  <2> QED
    BY <2>2
<1>2. ASSUME NEW k \in 0..n, k \in S, k < n PROVE k + 1 \in S
  <2>1. PICK f : Sums(f, k)
    BY <1>2
  <2> DEFINE g == [i \in 0..(k + 1) |-> IF i = k + 1 THEN f[k] + w[k + 1] ELSE f[i]]
  <2>2. \A i \in 0..k : f[i] = IF i = 0 THEN 0 ELSE f[i - 1] + w[i]
    BY <2>1
  <2> HIDE DEF Sums
  <2>3. \A i \in 0..(k + 1) : g[i] = IF i = 0 THEN 0 ELSE g[i - 1] + w[i]
    <3> TAKE i \in 0..(k + 1)
    <3>1. CASE i = k + 1
      BY <3>1
    <3>2. CASE i = 0
      BY <3>2, <2>2
    <3>3. CASE i # 0 /\ i # k + 1
      <4>1. i \in 0..k /\ i - 1 \in 0..k /\ i - 1 # k + 1 /\ i - 1 \in 0..(k + 1)
        BY <3>3
      <4> QED
        BY <4>1, <3>3, <2>2
    <3> QED
      BY <3>1, <3>2, <3>3
  <2> HIDE DEF g
  <2>4. g = [i \in 0..(k + 1) |-> g[i]]
    BY DEF g
  <2>5. g = [i \in 0..(k + 1) |-> IF i = 0 THEN 0 ELSE g[i - 1] + w[i]]
    BY <2>3, <2>4
  <2>6. Sums(g, k + 1)
    BY <2>5 DEF Sums
  <2>7. \E h : Sums(h, k + 1)
    BY <2>6
  <2> QED
    BY <2>7, <1>2
<1> HIDE DEF S
<1>3. \A k \in 0..n : k \in S /\ k < n => k + 1 \in S
  BY <1>2
<1>4. n \in S
  <2>1. 0..n \subseteq S
    BY <1>1, <1>3, UpTo
  <2> QED
    BY <2>1
<1> HIDE DEF Sums
<1>5. PICK f : Sums(f, n)
  BY <1>4 DEF S
<1>6. f = [i \in 0..n |-> IF i = 0 THEN 0 ELSE f[i - 1] + w[i]]
  BY <1>5 DEF Sums
<1> QED
  BY <1>6

\* The equation that defines the sum.
LEMMA SumEquation ==
  ASSUME NEW n \in Nat, NEW w \in [1..n -> Nat]
  PROVE  \E sum : /\ sum = [i \in 0..n |-> IF i = 0 THEN 0 ELSE sum[i - 1] + w[i]]
                  /\ H!Total(w, n) = sum[n]
<1> DEFINE sum == CHOOSE f : f = [i \in 0..n |-> IF i = 0 THEN 0 ELSE f[i - 1] + w[i]]
<1>1. sum = [i \in 0..n |-> IF i = 0 THEN 0 ELSE sum[i - 1] + w[i]]
  BY SumExists
<1>2. H!Total(w, n) = sum[n]
  BY DEF H!Total
<1> QED
  BY <1>1, <1>2

\* The sum of no numbers, and of one number more at the front.
LEMMA TotalOfNone == ASSUME NEW w \in [1..0 -> Nat] PROVE H!Total(w, 0) = 0
<1>1. PICK sum : /\ sum = [i \in 0..0 |-> IF i = 0 THEN 0 ELSE sum[i - 1] + w[i]]
                 /\ H!Total(w, 0) = sum[0]
  BY SumEquation
<1> QED
  BY <1>1

\* A number more at the front of the sum.
LEMMA TotalOfMore ==
  ASSUME NEW n \in Nat, NEW w \in [1..n -> Nat], NEW v \in [1..(n + 1) -> Nat],
         \A i \in 1..n : v[i + 1] = w[i]
  PROVE  H!Total(v, n + 1) = v[1] + H!Total(w, n) /\ H!Total(w, n) \in Nat
<1>1. PICK a : /\ a = [i \in 0..n |-> IF i = 0 THEN 0 ELSE a[i - 1] + w[i]]
               /\ H!Total(w, n) = a[n]
  BY SumEquation
<1>2. PICK b : /\ b = [i \in 0..(n + 1) |-> IF i = 0 THEN 0 ELSE b[i - 1] + v[i]]
               /\ H!Total(v, n + 1) = b[n + 1]
  <2>1. n + 1 \in Nat
    OBVIOUS
  <2> QED
    BY <2>1, SumEquation
<1>3. \A i \in 0..n : a[i] = IF i = 0 THEN 0 ELSE a[i - 1] + w[i]
  BY <1>1
<1>4. \A i \in 0..(n + 1) : b[i] = IF i = 0 THEN 0 ELSE b[i - 1] + v[i]
  BY <1>2
<1> DEFINE S == {k \in 0..n : a[k] \in Nat /\ b[k + 1] = v[1] + a[k]}
<1>5. 0 \in S
  <2>1. a[0] = 0 /\ b[0] = 0 /\ 1 \in 1..(n + 1) /\ v[1] \in Nat
    BY <1>3, <1>4
  <2>2. b[1] = b[0] + v[1]
    BY <1>4
  <2> QED
    BY <2>1, <2>2
<1>6. \A k \in 0..n : k \in S /\ k < n => k + 1 \in S
  <2> SUFFICES ASSUME NEW k \in 0..n, k \in S, k < n PROVE k + 1 \in S
    OBVIOUS
  <2>1. a[k + 1] = a[k] + w[k + 1]
    BY <1>3
  <2>2. b[k + 2] = b[k + 1] + v[k + 2]
    BY <1>4
  <2>3. k + 1 \in 1..n /\ w[k + 1] \in Nat /\ v[k + 2] = w[k + 1] /\ v[1] \in Nat
    OBVIOUS
  <2>4. a[k] \in Nat /\ b[k + 1] = v[1] + a[k]
    OBVIOUS
  <2> QED
    BY <2>1, <2>2, <2>3, <2>4
<1> HIDE DEF S
<1>7. 0..n \subseteq S
  BY <1>5, <1>6, UpTo
<1>8. n \in S
  BY <1>7
<1> QED
  BY <1>8, <1>1, <1>2 DEF S
-----------------------------------------------------------------------------
(* The ring buffer of the histogram: its order, and what it adds up to.      *)

\* A frame of the ring, at any time and of any value.
AnyEntry == [start : Nat, end : Nat, data : Nat]

\* What the frames that have ended add to the total, the newest of them first.
Older(r) ==
  [i \in 1..(Len(r) - 1) |-> r[i + 1].data * H!Shown(r[i + 1].start, r[i + 1].end)]

\* The ring is ordered by start, and a frame ends when the next one starts.
Ordered ==
  /\ ring \in Seq(AnyEntry) /\ Len(ring) <= RingSize /\ clock \in Nat
  /\ \A i \in 1..Len(ring) : ring[i].start <= clock
  /\ \A i, j \in 1..Len(ring) : i < j => ring[j].start <= ring[i].start
  /\ \A i \in 1..Len(ring) : i > 1 => ring[i].end = ring[i - 1].start

\* Until a frame leaves the ring, the running total is that of all frames but the newest.
Counted ==
  /\ inserted \in Nat
  /\ inserted <= RingSize =>
       /\ Len(ring) = inserted
       /\ ring = <<>> => cumulative = [count |-> 0, bin |-> 0]
       /\ ring # <<>> => cumulative = [count |-> inserted - 1,
                                       bin |-> H!Total(Older(ring), inserted - 1)]

RingInv == Ordered /\ Counted

\* The ring after a frame was inserted.
LEMMA InsertedShape ==
  ASSUME Ordered, NEW frame \in Frames
  PROVE  LET new == H!Inserted(frame, clock)
             n == IF Len(ring) = RingSize THEN Len(ring) - 1 ELSE Len(ring)
         IN /\ n \in Nat /\ n <= Len(ring)
            /\ new \in Seq(AnyEntry) /\ Len(new) = n + 1
            /\ new[1] = [start |-> clock, end |-> 0, data |-> frame]
            /\ n >= 1 => new[2] = [ring[1] EXCEPT !.end = clock]
            /\ \A i \in 3..(n + 1) : new[i] = ring[i - 1]
<1> DEFINE n == IF Len(ring) = RingSize THEN Len(ring) - 1 ELSE Len(ring)
           new == H!Inserted(frame, clock)
           popped == H!Popped(ring)
           ended == H!Ended(popped, clock)
           first == [start |-> clock, end |-> 0, data |-> frame]
<1>1. n \in Nat /\ n <= Len(ring) /\ ring \in Seq(AnyEntry) /\ clock \in Nat /\ first \in AnyEntry
  BY HistogramAssumption DEF Ordered, AnyEntry
<1>2. popped \in Seq(AnyEntry) /\ Len(popped) = n /\ \A i \in 1..n : popped[i] = ring[i]
  <2>1. CASE Len(ring) = RingSize
    <3>1. popped = SubSeq(ring, 1, Len(ring) - 1)
      BY <2>1 DEF H!Popped, H!Front
    <3> QED
      BY <3>1, <2>1, <1>1, HistogramAssumption, SubSeqProperties
  <2>2. CASE Len(ring) # RingSize
    BY <2>2, <1>1 DEF H!Popped
  <2> QED
    BY <2>1, <2>2
<1> HIDE DEF popped, n
<1>3. /\ ended \in Seq(AnyEntry) /\ Len(ended) = n
      /\ n >= 1 => ended[1] = [ring[1] EXCEPT !.end = clock]
      /\ \A i \in 2..n : ended[i] = ring[i]
  <2>1. CASE n = 0
    <3>1. popped = <<>>
      BY <2>1, <1>2, EmptySeq
    <3>2. ended = popped
      BY <3>1 DEF H!Ended
    <3> QED
      BY <3>2, <2>1, <1>2, <1>1
  <2>2. CASE n # 0
    <3>1. popped # <<>> /\ ended = [popped EXCEPT ![1].end = clock]
      BY <2>2, <1>2, EmptySeq DEF H!Ended
    <3>2. 1 \in 1..n /\ popped[1] = ring[1] /\ ring[1] \in AnyEntry
      BY <2>2, <1>1, <1>2
    <3>3. [ring[1] EXCEPT !.end = clock] \in AnyEntry
      BY <3>2, <1>1 DEF AnyEntry
    <3>4. ended = [popped EXCEPT ![1] = [ring[1] EXCEPT !.end = clock]]
      BY <3>1, <3>2
    <3> DEFINE e == [ring[1] EXCEPT !.end = clock]
    <3> HIDE DEF ended, e
    <3>5. ended = [popped EXCEPT ![1] = e] /\ e \in AnyEntry
      BY <3>3, <3>4 DEF e
    <3>6. ended \in Seq(AnyEntry) /\ Len(ended) = n
      BY <3>5, <3>2, <1>2
    <3>7. ended[1] = e /\ \A i \in 2..n : ended[i] = popped[i]
      BY <3>5, <3>2, <1>1, <1>2
    <3> QED
      BY <3>6, <3>7, <3>2, <1>1, <1>2 DEF e
  <2> QED
    BY <2>1, <2>2
<1> HIDE DEF ended, first
<1>4. new = <<first>> \o ended
  BY DEF H!Inserted, ended, popped, first
<1> HIDE DEF new
<1>5. <<first>> \in Seq(AnyEntry) /\ Len(<<first>>) = 1 /\ <<first>>[1] = first
  BY <1>1
<1>6. /\ new \in Seq(AnyEntry) /\ Len(new) = n + 1
      /\ \A i \in 1..(n + 1) : new[i] = IF i = 1 THEN first ELSE ended[i - 1]
  BY <1>1, <1>3, <1>4, <1>5
<1>7. /\ new[1] = first /\ (n >= 1 => new[2] = ended[1])
      /\ \A i \in 3..(n + 1) : new[i] = ended[i - 1]
  BY <1>6, <1>1
<1>8. \A i \in 3..(n + 1) : i - 1 \in 2..n
  BY <1>1
<1> QED
  BY <1>1, <1>3, <1>6, <1>7, <1>8 DEF new, first, n

\* A time on display is a number.
LEMMA ShownIsNat ==
  ASSUME NEW a \in Nat, NEW b \in Nat, a <= b
  PROVE  H!Shown(a, b) \in Nat
BY DEF H!Shown

\* What a frame adds to a bin is a number.
LEMMA WeightIsNat ==
  ASSUME NEW d \in Nat, NEW a \in Nat, NEW b \in Nat, a <= b
  PROVE  d * H!Shown(a, b) \in Nat
<1>1. \A x, y \in Nat : x * y \in Nat
  OBVIOUS
<1> QED
  BY <1>1, ShownIsNat

\* The frames that have ended have their weights.
LEMMA OlderType ==
  ASSUME NEW r \in Seq(AnyEntry), r # <<>>,
         \A i, j \in 1..Len(r) : i < j => r[j].start <= r[i].start,
         \A i \in 1..Len(r) : i > 1 => r[i].end = r[i - 1].start
  PROVE  /\ Len(r) - 1 \in Nat
         /\ Older(r) \in [1..(Len(r) - 1) -> Nat]
<1>1. Len(r) \in Nat /\ Len(r) > 0
  BY EmptySeq
<1>2. ASSUME NEW i \in 1..(Len(r) - 1)
      PROVE  r[i + 1].data * H!Shown(r[i + 1].start, r[i + 1].end) \in Nat
  <2>1. i \in 1..Len(r) /\ i + 1 \in 1..Len(r) /\ i < i + 1 /\ i + 1 > 1 /\ (i + 1) - 1 = i
    BY <1>1
  <2>2. r[i + 1].end = r[i].start /\ r[i + 1].start <= r[i].start
    BY <2>1
  <2>3. r[i + 1] \in AnyEntry /\ r[i] \in AnyEntry
    BY <2>1
  <2>4. r[i + 1].data \in Nat /\ r[i + 1].start \in Nat /\ r[i].start \in Nat
    BY <2>3 DEF AnyEntry
  <2> QED
    BY <2>2, <2>4, WeightIsNat
<1> QED
  BY <1>1, <1>2 DEF Older

\* A new frame keeps the order.
LEMMA InsertKeepsOrder ==
  ASSUME Ordered, NEW frame \in Frames, ring' = H!Inserted(frame, clock), clock' = clock
  PROVE  Ordered'
<1> DEFINE n == IF Len(ring) = RingSize THEN Len(ring) - 1 ELSE Len(ring)
<1>1. /\ n \in Nat /\ n <= Len(ring)
      /\ ring' \in Seq(AnyEntry) /\ Len(ring') = n + 1
      /\ ring'[1] = [start |-> clock, end |-> 0, data |-> frame]
      /\ n >= 1 => ring'[2] = [ring[1] EXCEPT !.end = clock]
      /\ \A i \in 3..(n + 1) : ring'[i] = ring[i - 1]
  BY InsertedShape
<1>2. n + 1 <= RingSize /\ Len(ring) \in Nat
  BY HistogramAssumption DEF Ordered
<1> HIDE DEF n
<1>3. \A i \in 1..n : i \in 1..Len(ring) /\ ring[i] \in AnyEntry
  BY <1>1, <1>2 DEF Ordered
<1>4. \A e \in AnyEntry :
        [e EXCEPT !.end = clock].start = e.start /\ [e EXCEPT !.end = clock].end = clock
  BY DEF AnyEntry
<1>5. clock \in Nat /\ ring'[1].start = clock
  BY <1>1 DEF Ordered
<1>6. \A i \in 2..(n + 1) : ring'[i].start = ring[i - 1].start
  <2> TAKE i \in 2..(n + 1)
  <2>1. CASE i = 2
    <3>1. n >= 1 /\ ring[1] \in AnyEntry /\ i - 1 = 1
      BY <2>1, <1>1, <1>3
    <3>2. ring'[2] = [ring[1] EXCEPT !.end = clock]
      BY <3>1, <1>1
    <3> QED
      BY <2>1, <3>1, <3>2, <1>4
  <2>2. CASE i # 2
    <3>1. i \in 3..(n + 1)
      BY <2>2, <1>1
    <3>2. ring'[i] = ring[i - 1]
      BY <3>1, <1>1
    <3> QED
      BY <3>2
  <2> QED
    BY <2>1, <2>2
<1>7. \A i \in 2..(n + 1) : i - 1 \in 1..n /\ i - 1 \in 1..Len(ring)
  BY <1>1, <1>2
<1>8. \A i \in 1..(n + 1) : ring'[i].start <= clock
  <2> TAKE i \in 1..(n + 1)
  <2>1. CASE i = 1
    BY <2>1, <1>5
  <2>2. CASE i # 1
    <3>1. i \in 2..(n + 1)
      BY <2>2, <1>1
    <3> QED
      BY <3>1, <1>6, <1>7 DEF Ordered
  <2> QED
    BY <2>1, <2>2
<1>9. \A i, j \in 1..(n + 1) : i < j => ring'[j].start <= ring'[i].start
  <2> SUFFICES ASSUME NEW i \in 1..(n + 1), NEW j \in 1..(n + 1), i < j
               PROVE  ring'[j].start <= ring'[i].start
    OBVIOUS
  <2>1. CASE i = 1
    BY <2>1, <1>5, <1>8
  <2>2. CASE i # 1
    <3>1. i \in 2..(n + 1) /\ j \in 2..(n + 1) /\ i - 1 < j - 1
      BY <2>2, <1>1
    <3>2. ring[j - 1].start <= ring[i - 1].start
      BY <3>1, <1>7 DEF Ordered
    <3> QED
      BY <3>1, <3>2, <1>6
  <2> QED
    BY <2>1, <2>2
<1>10. \A i \in 1..(n + 1) : i > 1 => ring'[i].end = ring'[i - 1].start
  <2> SUFFICES ASSUME NEW i \in 1..(n + 1), i > 1
               PROVE  ring'[i].end = ring'[i - 1].start
    OBVIOUS
  <2>1. CASE i = 2
    <3>1. n >= 1 /\ ring[1] \in AnyEntry /\ i - 1 = 1
      BY <2>1, <1>1, <1>3
    <3> QED
      BY <2>1, <3>1, <1>1, <1>5, <1>4
  <2>2. CASE i # 2
    <3>1. i \in 3..(n + 1) /\ i - 1 \in 2..(n + 1) /\ i - 1 \in 1..Len(ring) /\ i - 1 > 1
      BY <2>2, <1>1, <1>2
    <3>2. ring'[i] = ring[i - 1] /\ ring'[i - 1].start = ring[(i - 1) - 1].start
      BY <3>1, <1>1, <1>6
    <3>3. ring[i - 1].end = ring[(i - 1) - 1].start
      BY <3>1 DEF Ordered
    <3> QED
      BY <3>2, <3>3
  <2> QED
    BY <2>1, <2>2
<1> QED
  BY <1>1, <1>2, <1>5, <1>8, <1>9, <1>10 DEF Ordered

\* A new frame is counted when the next one comes.
LEMMA InsertKeepsCount ==
  ASSUME RingInv, NEW frame \in Frames, ring' = H!Inserted(frame, clock), clock' = clock,
         cumulative' = H!UpdateCumulative(cumulative, clock), inserted' = inserted + 1, Ordered'
  PROVE  Counted'
<1> SUFFICES ASSUME inserted' <= RingSize
             PROVE  /\ Len(ring') = inserted'
                    /\ ring' = <<>> => cumulative' = [count |-> 0, bin |-> 0]
                    /\ ring' # <<>> =>
                         cumulative' = [count |-> inserted' - 1,
                                        bin |-> H!Total(Older(ring'), inserted' - 1)]
  BY DEF RingInv, Counted
<1>1. /\ inserted \in Nat /\ Len(ring) = inserted /\ inserted < RingSize
      /\ ring = <<>> => cumulative = [count |-> 0, bin |-> 0]
      /\ ring # <<>> => cumulative = [count |-> inserted - 1,
                                      bin |-> H!Total(Older(ring), inserted - 1)]
  BY HistogramAssumption DEF RingInv, Counted
<1>2. Ordered /\ Len(ring) # RingSize
  BY <1>1 DEF RingInv
<1>3. /\ Len(ring') = inserted + 1 /\ ring' # <<>>
      /\ inserted >= 1 => ring'[2] = [ring[1] EXCEPT !.end = clock]
      /\ \A i \in 3..(inserted + 1) : ring'[i] = ring[i - 1]
  <2> DEFINE n == IF Len(ring) = RingSize THEN Len(ring) - 1 ELSE Len(ring)
  <2>1. /\ Len(ring') = n + 1
        /\ n >= 1 => ring'[2] = [ring[1] EXCEPT !.end = clock]
        /\ \A i \in 3..(n + 1) : ring'[i] = ring[i - 1]
    BY <1>2, InsertedShape
  <2>2. n = inserted
    BY <1>1, <1>2
  <2> HIDE DEF n
  <2>3. Len(ring') # 0
    BY <2>1, <2>2, <1>1
  <2> QED
    BY <2>1, <2>2, <2>3, EmptySeq
<1>4. /\ Len(ring') - 1 = inserted /\ inserted' - 1 = inserted
      /\ Older(ring') \in [1..inserted -> Nat]
  <2>1. Older(ring') \in [1..(Len(ring') - 1) -> Nat] 
    BY <1>3, OlderType DEF Ordered
  <2> QED
    BY <2>1, <1>1, <1>3
<1>5. CASE ring = <<>>
  <2>1. inserted = 0 /\ cumulative' = [count |-> 0, bin |-> 0]
    BY <1>1, <1>5 DEF H!UpdateCumulative
  <2>2. H!Total(Older(ring'), 0) = 0
    BY <2>1, <1>4, TotalOfNone
  <2> QED
    BY <2>1, <2>2, <1>1, <1>3, <1>4
<1>6. CASE ring # <<>>
  <2>1. inserted >= 1 /\ inserted - 1 \in Nat /\ (inserted - 1) + 1 = inserted
    BY <1>1, <1>6, EmptySeq DEF RingInv, Ordered
  <2>2. Older(ring) \in [1..(inserted - 1) -> Nat]
    BY <1>1, <1>2, <1>6, OlderType DEF Ordered
  <2>3. Older(ring')[1] = ring[1].data * H!Shown(ring[1].start, clock)
    <3>1. Older(ring')[1] = ring'[2].data * H!Shown(ring'[2].start, ring'[2].end)
      BY <2>1, <1>3 DEF Older
    <3>2. ring[1] \in AnyEntry
      BY <2>1, <1>1, <1>2 DEF Ordered
    <3>3. ring'[2].data = ring[1].data /\ ring'[2].start = ring[1].start /\ ring'[2].end = clock
      BY <3>2, <1>3, <2>1 DEF AnyEntry
    <3> QED
      BY <3>1, <3>3
  <2>4. \A i \in 1..(inserted - 1) : Older(ring')[i + 1] = Older(ring)[i]
    <3> TAKE i \in 1..(inserted - 1)
    <3>1. /\ i \in 1..(Len(ring) - 1) /\ i + 1 \in 1..(Len(ring') - 1)
          /\ (i + 1) + 1 \in 3..(inserted + 1) /\ ((i + 1) + 1) - 1 = i + 1
      BY <1>1, <1>3, <2>1
    <3>2. ring'[(i + 1) + 1] = ring[i + 1]
      BY <3>1, <1>3
    <3>3. Older(ring')[i + 1] =
            ring'[(i + 1) + 1].data * H!Shown(ring'[(i + 1) + 1].start, ring'[(i + 1) + 1].end)
      BY <3>1 DEF Older
    <3>4. Older(ring)[i] = ring[i + 1].data * H!Shown(ring[i + 1].start, ring[i + 1].end)
      BY <3>1 DEF Older
    <3> QED
      BY <3>2, <3>3, <3>4
  <2> DEFINE m == inserted - 1
  <2>5. /\ m \in Nat /\ m + 1 = inserted /\ Older(ring) \in [1..m -> Nat]
        /\ Older(ring') \in [1..(m + 1) -> Nat]
        /\ \A i \in 1..m : Older(ring')[i + 1] = Older(ring)[i]
    BY <2>1, <2>2, <2>4, <1>4
  <2>6. /\ H!Total(Older(ring'), m + 1) = Older(ring')[1] + H!Total(Older(ring), m)
        /\ H!Total(Older(ring), m) \in Nat
    <3> HIDE DEF m
    <3> QED
      BY <2>5, TotalOfMore
  <2>7. /\ H!Total(Older(ring'), inserted) = Older(ring')[1] + H!Total(Older(ring), inserted - 1)
        /\ H!Total(Older(ring), inserted - 1) \in Nat
    BY <2>5, <2>6
  <2>8. cumulative' = [count |-> inserted,
                       bin |-> H!Total(Older(ring), inserted - 1) + Older(ring')[1]]
    <3>1. Head(ring) = ring[1]
      BY <1>6, <1>2 DEF Ordered
    <3>2. cumulative.count + 1 = inserted /\ cumulative.bin = H!Total(Older(ring), inserted - 1)
      BY <1>1, <1>6
    <3> QED
      BY <3>1, <3>2, <2>3, <1>6 DEF H!UpdateCumulative
  <2>9. Older(ring')[1] \in Nat
    BY <1>4, <2>1
  <2>10. H!Total(Older(ring), inserted - 1) + Older(ring')[1] = H!Total(Older(ring'), inserted)
    BY <2>7, <2>9
  <2> QED
    BY <2>8, <2>10, <1>1, <1>3, <1>4
<1> QED
  BY <1>5, <1>6

\* No frame was inserted yet.
LEMMA RingInitEstablishes == H!HgInit => RingInv
BY HistogramAssumption, EmptySeq DEF H!HgInit, RingInv, Ordered, Counted

\* The collector keeps the ring in order and the count right.
LEMMA RingStepPreserves == RingInv /\ [H!HgNext]_histogramVars => RingInv'
<1> SUFFICES ASSUME RingInv, [H!HgNext]_histogramVars PROVE RingInv'
  OBVIOUS
<1>1. CASE H!Start
  <2>1. /\ ring' = <<>> /\ clock' \in Nat /\ inserted' = 0
        /\ cumulative' = [count |-> 0, bin |-> 0]
    BY <1>1 DEF H!Start, RingInv, Ordered
  <2> QED
    BY <2>1, HistogramAssumption, EmptySeq DEF RingInv, Ordered, Counted
<1>2. CASE UNCHANGED <<ring, cumulative, clock, inserted>>
  BY <1>2 DEF RingInv, Ordered, Counted
<1>3. ASSUME NEW frame \in Frames, H!Insert(frame) PROVE RingInv'
  <2>1. /\ ring' = H!Inserted(frame, clock) /\ clock' = clock /\ inserted' = inserted + 1
        /\ cumulative' = H!UpdateCumulative(cumulative, clock)
    BY <1>3 DEF H!Insert
  <2>2. Ordered'
    BY <2>1, InsertKeepsOrder DEF RingInv
  <2>3. Counted'
    BY <2>1, <2>2, InsertKeepsCount
  <2> QED
    BY <2>2, <2>3 DEF RingInv
<1>4. CASE H!Tick
  <2>1. UNCHANGED <<ring, cumulative, inserted>> /\ clock' = clock + 1
    BY <1>4 DEF H!Tick
  <2>2. Counted'
    BY <2>1 DEF RingInv, Counted
  <2>3. \A i \in 1..Len(ring) : ring[i].start <= clock + 1
    <3> TAKE i \in 1..Len(ring)
    <3>1. ring[i] \in AnyEntry
      BY DEF RingInv, Ordered
    <3> QED
      BY <3>1 DEF RingInv, Ordered, AnyEntry
  <2>4. clock' \in Nat
    BY <2>1 DEF RingInv, Ordered
  <2>5. Ordered'
    BY <2>1, <2>3, <2>4 DEF RingInv, Ordered
  <2> QED
    BY <2>2, <2>5 DEF RingInv
<1>5. UNCHANGED <<ring, cumulative, clock, inserted>> \/ H!Start \/ H!Tick
        \/ \E frame \in Frames : H!Insert(frame)
  BY DEF H!HgNext, H!MonitorStep, H!Stop, H!Join, H!NotifyEvent, H!Wait, H!Discard,
         histogramVars
<1> QED
  BY <1>1, <1>2, <1>3, <1>4, <1>5

\* The totals agree in a ring whose frames are counted.
LEMMA CountedAgree == RingInv => H!TotalsAgree
<1> SUFFICES ASSUME RingInv, inserted <= RingSize
             PROVE  H!UpdateCumulative(cumulative, clock) = H!CollectMax(Len(ring), clock)
  BY DEF H!TotalsAgree
<1>1. Ordered /\ Len(ring) = inserted /\ inserted \in Nat
  BY DEF RingInv, Counted
<1> DEFINE End(i) == IF i = 1 THEN clock ELSE ring[i].end
           all == [i \in 1..inserted |-> ring[i].data * H!Shown(ring[i].start, End(i))]
<1>2. H!CollectMax(Len(ring), clock) = [count |-> inserted, bin |-> H!Total(all, inserted)]
  BY <1>1 DEF H!CollectMax
<1>3. CASE ring = <<>>
  <2>1. inserted = 0 /\ H!UpdateCumulative(cumulative, clock) = [count |-> 0, bin |-> 0]
    BY <1>1, <1>3 DEF RingInv, Counted, H!UpdateCumulative
  <2>2. all \in [1..0 -> Nat]
    BY <2>1
  <2>3. H!Total(all, 0) = 0
    BY <2>2, TotalOfNone
  <2> QED
    BY <2>1, <2>3, <1>2
<1>4. CASE ring # <<>>
  <2> DEFINE m == inserted - 1
  <2>1. m \in Nat /\ m + 1 = inserted /\ 1 \in 1..inserted /\ ring[1] \in AnyEntry
    BY <1>1, <1>4, EmptySeq DEF Ordered
  <2>2. Older(ring) \in [1..m -> Nat]
    BY <1>1, <1>4, OlderType DEF Ordered
  <2>3. all[1] = ring[1].data * H!Shown(ring[1].start, clock) /\ all[1] \in Nat
    <3>1. ring[1].data \in Nat /\ ring[1].start \in Nat /\ clock \in Nat /\ ring[1].start <= clock
      BY <2>1, <1>1 DEF AnyEntry, Ordered
    <3>2. ring[1].data * H!Shown(ring[1].start, clock) \in Nat
      BY <3>1, WeightIsNat
    <3> QED
      BY <3>2, <2>1
  <2>4. \A i \in 1..m : all[i + 1] = Older(ring)[i]
    <3> TAKE i \in 1..m
    <3>1. i + 1 \in 1..inserted /\ i + 1 # 1 /\ i \in 1..(Len(ring) - 1)
      BY <2>1, <1>1
    <3>2. all[i + 1] = ring[i + 1].data * H!Shown(ring[i + 1].start, ring[i + 1].end)
      BY <3>1
    <3> QED
      BY <3>1, <3>2 DEF Older
  <2> HIDE DEF all
  <2>5. all \in [1..(m + 1) -> Nat]
    <3>1. ASSUME NEW i \in 1..inserted PROVE all[i] \in Nat
      <4>1. i = 1 \/ (i - 1 \in 1..m /\ (i - 1) + 1 = i)
        BY <2>1
      <4> QED
        BY <4>1, <2>2, <2>3, <2>4
    <3> QED
      BY <3>1, <2>1 DEF all
  <2>6. H!Total(all, m + 1) = all[1] + H!Total(Older(ring), m) /\ H!Total(Older(ring), m) \in Nat
    <3> HIDE DEF m
    <3> QED
      BY <2>1, <2>2, <2>4, <2>5, TotalOfMore
  <2>7. H!UpdateCumulative(cumulative, clock) =
          [count |-> inserted, bin |-> H!Total(Older(ring), m) + all[1]]
    <3>1. Head(ring) = ring[1]
      BY <1>4, <1>1 DEF Ordered
    <3>2. cumulative.count + 1 = inserted /\ cumulative.bin = H!Total(Older(ring), m)
      BY <1>1, <1>4 DEF RingInv, Counted
    <3> QED
      BY <3>1, <3>2, <2>3, <1>4 DEF H!UpdateCumulative
  <2>8. H!Total(Older(ring), m) + all[1] = H!Total(all, inserted)
    BY <2>1, <2>3, <2>6
  <2> QED
    BY <2>7, <2>8, <1>2
<1> QED
  BY <1>3, <1>4

\* The search by halves has a place to end, and in an ordered ring one only.
LEMMA BeginIsUnique ==
  ASSUME Ordered, NEW t \in Nat
  PROVE  /\ H!FilterBegin(t) \in 0..Len(ring)
         /\ 1..H!FilterBegin(t) = {i \in DOMAIN ring : ring[i].start >= t}
<1>1. Len(ring) \in Nat /\ DOMAIN ring = 1..Len(ring) /\ ring \in Seq(AnyEntry)
  BY DEF Ordered
<1>2. \A i \in 1..Len(ring) : ring[i].start \in Nat
  <2> TAKE i \in 1..Len(ring)
  <2>1. ring[i] \in AnyEntry
    BY <1>1
  <2> QED
    BY <2>1 DEF AnyEntry
<1> DEFINE Place(n) == (n > 0 => ring[n].start >= t) /\ (n < Len(ring) => ring[n + 1].start < t)
           S == {k \in 0..Len(ring) : k > 0 => ring[k].start >= t}
<1>3. \E n \in 0..Len(ring) : Place(n)
  <2>1. SUFFICES ASSUME \A n \in 0..Len(ring) : ~Place(n) PROVE FALSE
    OBVIOUS
  <2>2. 0 \in S
    BY <1>1
  <2>3. \A k \in 0..Len(ring) : k \in S /\ k < Len(ring) => k + 1 \in S
    <3> SUFFICES ASSUME NEW k \in 0..Len(ring), k \in S, k < Len(ring) PROVE k + 1 \in S
      OBVIOUS
    <3>1. ~(ring[k + 1].start < t)
      BY <2>1
    <3>2. k + 1 \in 1..Len(ring) /\ k + 1 \in 0..Len(ring)
      BY <1>1
    <3> QED
      BY <3>1, <3>2, <1>2
  <2>4. Len(ring) \in S
    <3> HIDE DEF S
    <3>1. 0..Len(ring) \subseteq S
      BY <1>1, <2>2, <2>3, UpTo
    <3> QED
      BY <3>1, <1>1
  <2>5. Place(Len(ring))
    BY <2>4, <1>1
  <2> QED
    BY <2>1, <2>5, <1>1
<1> DEFINE b == H!FilterBegin(t)
<1>4. b \in 0..Len(ring) /\ Place(b)
  BY <1>3 DEF H!FilterBegin
<1> HIDE DEF b
<1>5. ASSUME NEW i \in 1..Len(ring) PROVE i <= b <=> ring[i].start >= t
  <2>1. CASE i <= b
    <3>1. /\ b \in 1..Len(ring) /\ b > 0 /\ ring[b].start >= t
          /\ ring[b].start \in Nat /\ ring[i].start \in Nat
      BY <2>1, <1>4, <1>2, <1>1
    <3>2. i = b \/ ring[b].start <= ring[i].start
      BY <2>1, <3>1 DEF Ordered
    <3> QED
      BY <2>1, <3>1, <3>2
  <2>2. CASE ~(i <= b)
    <3>1. b + 1 \in 1..Len(ring) /\ b < Len(ring) /\ b + 1 <= i
      BY <2>2, <1>4, <1>1
    <3>2. ring[b + 1].start < t /\ ring[b + 1].start \in Nat /\ ring[i].start \in Nat
      BY <3>1, <1>4, <1>2
    <3>3. i = b + 1 \/ ring[i].start <= ring[b + 1].start
      BY <3>1, <1>4 DEF Ordered
    <3> QED
      BY <2>2, <3>2, <3>3
  <2> QED
    BY <2>1, <2>2
<1>6. 1..b = {i \in DOMAIN ring : ring[i].start >= t}
  BY <1>1, <1>4, <1>5
<1> QED
  BY <1>4, <1>6 DEF b

\* A sample "after" a time has the frames from then on, each with its end.
LEMMA OrderedSamples == RingInv => H!AfterHasTheFrames
<1> SUFFICES ASSUME Ordered, NEW t \in 0..MaxTime
             PROVE  LET after == {i \in DOMAIN ring : ring[i].start >= t}
                        sample == H!CollectMaxAfter(t, Len(ring), clock)
                    IN /\ 1..sample.count = after
                       /\ \A i \in after : /\ i <= sample.count
                                           /\ i > 1 => ring[i].end = ring[i - 1].start
  BY DEF RingInv, H!AfterHasTheFrames
<1>1. t \in Nat /\ Len(ring) \in Nat /\ DOMAIN ring = 1..Len(ring)
  BY HistogramAssumption DEF Ordered
<1> DEFINE b == H!FilterBegin(t)
<1>2. b \in 0..Len(ring) /\ 1..b = {i \in DOMAIN ring : ring[i].start >= t}
  BY <1>1, BeginIsUnique
<1> HIDE DEF b
<1>3. b \in Nat /\ b <= Len(ring) /\ Len(ring) \in Nat
  BY <1>1, <1>2
<1>4. H!CollectMaxAfter(t, Len(ring), clock) = H!CollectMax(b, clock)
  <2>1. (IF Len(ring) < b THEN Len(ring) ELSE b) = b
    BY <1>3
  <2> QED
    BY <2>1 DEF H!CollectMaxAfter, b
<1>5. H!CollectMax(b, clock).count = b
  <2>1. (IF b < Len(ring) THEN b ELSE Len(ring)) = b
    BY <1>3
  <2> QED
    BY <2>1 DEF H!CollectMax
<1>6. \A i \in 1..b : i <= b /\ (i > 1 => ring[i].end = ring[i - 1].start)
  BY <1>1, <1>2 DEF Ordered
<1> QED
  BY <1>2, <1>4, <1>5, <1>6

\* As long as no frame has left the ring, the running totals are those of the frames in it,
\* and a sample "after" a time has each frame from then on, with the end of its time on
\* display (ringbuffer.cpp:49-89, 130-160): for a ring of any size.
THEOREM RingTheorem == H!HgSpec => [](H!TotalsAgree /\ H!AfterHasTheFrames)
<1>1. RingInv /\ [H!HgNext]_(H!hgVars) => RingInv'
  BY RingStepPreserves DEF H!hgVars, histogramVars
<1> QED
  BY <1>1, RingInitEstablishes, CountedAgree, OrderedSamples, PTL DEF H!HgSpec

-----------------------------------------------------------------------------
(* Configurations: what the functions of each layer do to the fields that the *)
(* layers must agree on, and the invariant they keep between the calls.        *)

\* The lowest and the highest rate are rates.
LEMMA RatesBounds == MinFps \in Rates /\ MaxFps \in Rates
BY RatesAssumption DEF MinFps, MaxFps

\* What the layers below keep, and what HWCDisplay does.
SdmStates == [active : Rates, current : Rates, forced : Rates \cup {0}, validated : BOOLEAN,
              attr : Configs, left : 0..FramesToDefer, fps : Rates, dirty : BOOLEAN,
              apply : BOOLEAN, mode : Configs, vrefresh : Rates \cup {0}, update : BOOLEAN,
              voted : Configs]
ReqStates == [first : BOOLEAN, deferred : Configs \cup {Nothing},
              pending : Configs \cup {Nothing}, wanted : Configs \cup {Nothing},
              due : BOOLEAN, cached : Configs]

\* The fields that the vote does not change.
SameMode(s, r) ==
  /\ r.active = s.active /\ r.current = s.current /\ r.forced = s.forced
  /\ r.validated = s.validated /\ r.mode = s.mode /\ r.vrefresh = s.vrefresh
  /\ r.update = s.update

\* The vote is the one the attributes were made from; without a rate that is deferred it
\* is that of the driver's mode.
Covered(s) == s.voted = s.attr /\ (s.left = 0 => s.attr = s.mode)

\* A configuration is a group and a rate, and Nothing is none.
LEMMA ConfigFields ==
  /\ \A c \in Configs : Group(c) \in Groups /\ Fps(c) \in Rates /\ c = <<Group(c), Fps(c)>>
  /\ \A g \in Groups, r \in Rates :
       <<g, r>> \in Configs /\ Group(<<g, r>>) = g /\ Fps(<<g, r>>) = r
  /\ Rates \subseteq Nat /\ 0 \notin Rates /\ Nothing \notin Configs
BY RatesAssumption DEF Configs, Group, Fps, Nothing

\* A vote that is accepted gives the attributes that were voted for.
LEMMA VoteDoes ==
  ASSUME NEW s \in SdmStates, NEW c \in Configs, NEW fails
  PROVE  LET r == Vote(s, c, fails)
         IN /\ r \in SdmStates /\ SameMode(s, r)
            /\ r.left = s.left /\ r.dirty = s.dirty /\ r.apply = s.apply
            /\ fails # "vote" => r.voted = c /\ r.attr = c
<1> HIDE DEF Configs
<1> QED
  BY DEF Vote, SdmStates, SameMode

\* The deferred rate is put into the attributes, and none is deferred any more.
LEMMA SetDeferredDoes ==
  ASSUME NEW s \in SdmStates
  PROVE  LET r == SetDeferredFpsConfig(s)
         IN r \in SdmStates /\ SameMode(s, r) /\ r.left = 0 /\ ~r.dirty /\ ~r.apply
<1> DEFINE a == <<Group(s.attr), s.fps>>
           q == [s EXCEPT !.attr = a]
<1>1. s.attr \in Configs /\ s.fps \in Rates
  BY DEF SdmStates
<1>2. a \in Configs
  BY <1>1, ConfigFields
<1>3. 0 \in 0..FramesToDefer
  BY DeferAssumption
<1>4. SetDeferredFpsConfig(s) = Clear(q)
  BY DEF SetDeferredFpsConfig
<1> HIDE DEF a
<1>5. q \in SdmStates /\ SameMode(s, q)
  BY <1>2 DEF SdmStates, SameMode
<1> HIDE DEF q
<1>6. /\ Clear(q) \in SdmStates /\ SameMode(q, Clear(q))
      /\ Clear(q).left = 0 /\ ~Clear(q).dirty /\ ~Clear(q).apply
  BY <1>3, <1>5 DEF SdmStates, SameMode, Clear
<1> QED
  BY <1>4, <1>5, <1>6 DEF SameMode

\* ReconfigureDisplay: the vote is that of the driver's mode unless a rate is deferred.
LEMMA ReconfigureDoes ==
  ASSUME NEW s \in SdmStates, NEW fails, s.dirty => s.left # 0 \/ s.apply, s.apply => s.left = 0
  PROVE  LET r == ReconfigureDisplay(s, fails)
         IN /\ r \in SdmStates /\ SameMode(s, r) /\ r.apply = s.apply
            /\ r.dirty => r.apply
            /\ r.apply => r.left = 0
            /\ fails # "vote" /\ s.voted = s.attr => Covered(r)
<1> DEFINE d == s.left # 0 /\ s.dirty
           t == IF d THEN SetDeferredFpsConfig(s) ELSE s
           c == IF s.left # 0 /\ ~s.dirty THEN <<Group(s.mode), Fps(s.attr)>> ELSE s.mode
           r == ReconfigureDisplay(s, fails)
<1>1. /\ s.attr \in Configs /\ s.mode \in Configs /\ s.left \in Nat /\ s.dirty \in BOOLEAN
      /\ s.apply \in BOOLEAN
  BY DeferAssumption DEF SdmStates
<1>2. /\ t \in SdmStates /\ SameMode(s, t) /\ t.apply = s.apply
      /\ d => t.left = 0 /\ ~t.dirty
      /\ ~d => t = s
  <2>1. CASE d
    <3>1. s.apply = FALSE
      BY <2>1, <1>1
    <3>2. /\ t \in SdmStates /\ SameMode(s, t) /\ t.left = 0 /\ ~t.dirty /\ ~t.apply
      BY <2>1, SetDeferredDoes
    <3>3. t.apply = FALSE
      BY <3>2 DEF SdmStates
    <3> QED
      BY <2>1, <3>1, <3>2, <3>3
  <2>2. CASE ~d
    BY <2>2 DEF SameMode
  <2> QED
    BY <2>1, <2>2
<1>3. c \in Configs
  BY <1>1, ConfigFields
<1>4. t.left = 0 => c = s.mode
  BY <1>2
<1>5. r = IF ~s.dirty /\ c = t.attr THEN t
          ELSE IF CanDeferFpsConfig(t, Fps(c))
          THEN Vote([t EXCEPT !.left = FramesToDefer, !.fps = Fps(c), !.dirty = FALSE],
                    <<Group(c), Fps(t.attr)>>, fails)
          ELSE Vote(t, c, fails)
  BY DEF ReconfigureDisplay
<1> HIDE DEF t, c, r
<1>6. CASE ~s.dirty /\ c = t.attr
  <2>1. r = t /\ t = s
    BY <1>6, <1>5, <1>2
  <2> QED
    BY <2>1, <1>2, <1>4, <1>6 DEF Covered, r
<1>7. CASE ~(~s.dirty /\ c = t.attr) /\ CanDeferFpsConfig(t, Fps(c))
  <2> DEFINE u == [t EXCEPT !.left = FramesToDefer, !.fps = Fps(c), !.dirty = FALSE]
             e == <<Group(c), Fps(t.attr)>>
  <2>1. r = Vote(u, e, fails)
    BY <1>5, <1>7
  <2>2. ~t.apply /\ FramesToDefer # 0 /\ Fps(c) \in Rates /\ t.attr \in Configs
    BY <1>7, <1>3, <1>2, ConfigFields DEF CanDeferFpsConfig, SdmStates
  <2>3. FramesToDefer \in 0..FramesToDefer
    BY DeferAssumption
  <2>4. /\ u \in SdmStates /\ SameMode(t, u)
        /\ u.left = FramesToDefer /\ ~u.dirty /\ u.apply = t.apply
    <3> HIDE DEF Fps
    <3> QED
      BY <1>2, <2>2, <2>3 DEF SdmStates, SameMode
  <2>5. e \in Configs
    BY <1>3, <2>2, ConfigFields
  <2> HIDE DEF u, e
  <2>6. /\ r \in SdmStates /\ SameMode(u, r)
        /\ r.left = u.left /\ r.dirty = u.dirty /\ r.apply = u.apply
        /\ fails # "vote" => r.voted = e /\ r.attr = e
    BY <2>1, <2>4, <2>5, VoteDoes
  <2>7. SameMode(s, r)
    BY <1>2, <2>4, <2>6 DEF SameMode
  <2> QED
    BY <1>1, <1>2, <2>2, <2>4, <2>6, <2>7 DEF Covered, r
<1>8. CASE ~(~s.dirty /\ c = t.attr) /\ ~CanDeferFpsConfig(t, Fps(c))
  <2>1. r = Vote(t, c, fails)
    BY <1>5, <1>8
  <2>2. /\ r \in SdmStates /\ SameMode(t, r)
        /\ r.left = t.left /\ r.dirty = t.dirty /\ r.apply = t.apply
        /\ fails # "vote" => r.voted = c /\ r.attr = c
    BY <2>1, <1>2, <1>3, VoteDoes
  <2>3. SameMode(s, r) /\ r.mode = s.mode
    BY <1>2, <2>2 DEF SameMode
  <2>4. r.dirty => r.apply
    BY <1>1, <1>2, <2>2
  <2> QED
    BY <1>2, <1>4, <2>2, <2>3, <2>4 DEF Covered, r
<1> QED
  BY <1>6, <1>7, <1>8

\* Between the calls no deferred rate is due, and only a deferred one is to be redone.
Rest(s) == s \in SdmStates /\ ~s.apply /\ (s.dirty => s.left # 0)

\* The rate of the driver's mode is the active one if the one that was noted is, and a
\* rate to be sent was noted.
Noted(s) ==
  /\ s.vrefresh = 0 /\ s.current = s.active => Fps(s.mode) = s.active
  /\ s.vrefresh # 0 => s.vrefresh = s.current

\* Marking the deferred rate changes nothing else.
LEMMA MarkDirtyDoes ==
  ASSUME NEW s \in SdmStates, ~s.apply
  PROVE  LET r == MarkDirty(s)
         IN /\ Rest(r) /\ SameMode(s, r)
            /\ r.left = s.left /\ r.attr = s.attr /\ r.voted = s.voted
<1>1. (s.left # 0) \in BOOLEAN
  OBVIOUS
<1> QED
  BY <1>1 DEF MarkDirty, Rest, SdmStates, SameMode

\* Reconfiguring at rest leads to rest.
LEMMA ReconfigureRests ==
  ASSUME NEW s, Rest(s), NEW fails
  PROVE  LET r == ReconfigureDisplay(s, fails)
         IN /\ Rest(r) /\ SameMode(s, r)
            /\ fails # "vote" /\ s.voted = s.attr => Covered(r)
<1> DEFINE r == ReconfigureDisplay(s, fails)
<1>1. s \in SdmStates /\ ~s.apply /\ (s.dirty => s.left # 0)
  BY DEF Rest
<1>2. /\ r \in SdmStates /\ SameMode(s, r) /\ r.apply = s.apply
      /\ r.dirty => r.apply
      /\ fails # "vote" /\ s.voted = s.attr => Covered(r)
  BY <1>1, ReconfigureDoes
<1> HIDE DEF r
<1>3. Rest(r)
  BY <1>1, <1>2 DEF Rest
<1> QED
  BY <1>2, <1>3 DEF r

\* A configuration that is set is the mode of the driver, at the active rate.
LEMMA SetSdmConfigDoes ==
  ASSUME NEW s, Rest(s), NEW c \in Configs, NEW fails
  PROVE  LET r == SetSdmConfig(s, c, fails)
         IN /\ Rest(r)
            /\ r.mode = c /\ r.active = Fps(c) /\ ~r.validated
            /\ r.current = s.current /\ r.vrefresh = s.vrefresh
            /\ ~r.update => ~s.update /\ s.mode = c
            /\ fails # "vote" /\ Covered(s) => Covered(r)
<1> DEFINE m == MarkDirty(s)
           t == [m EXCEPT !.validated = FALSE, !.active = Fps(c)]
           u == [t EXCEPT !.mode = c, !.update = TRUE]
           r == SetSdmConfig(s, c, fails)
<1>1. /\ Rest(m) /\ SameMode(s, m)
      /\ m.left = s.left /\ m.attr = s.attr /\ m.voted = s.voted
  BY MarkDirtyDoes DEF Rest
<1>2. r = IF s.mode = c THEN t ELSE ReconfigureDisplay(u, fails)
  BY DEF SetSdmConfig
<1>3. Fps(c) \in Rates
  BY ConfigFields
<1> HIDE DEF m, r, Fps
<1>4. /\ Rest(t) /\ t.mode = m.mode /\ t.active = Fps(c) /\ t.validated = FALSE
      /\ t.current = m.current /\ t.vrefresh = m.vrefresh /\ t.update = m.update
      /\ t.left = m.left /\ t.attr = m.attr /\ t.voted = m.voted
  BY <1>1, <1>3 DEF Rest, SdmStates
<1> HIDE DEF t
<1>5. CASE s.mode = c
  BY <1>1, <1>2, <1>4, <1>5 DEF SameMode, Covered, r
<1>6. CASE s.mode # c
  <2>1. /\ Rest(u) /\ u.mode = c /\ u.active = Fps(c) /\ u.validated = FALSE
        /\ u.current = s.current /\ u.vrefresh = s.vrefresh /\ u.update = TRUE
        /\ u.left = s.left /\ u.attr = s.attr /\ u.voted = s.voted
    BY <1>1, <1>4 DEF Rest, SdmStates, SameMode
  <2> HIDE DEF u
  <2>2. /\ Rest(r) /\ SameMode(u, r)
        /\ fails # "vote" /\ u.voted = u.attr => Covered(r)
    BY <1>2, <1>6, <2>1, ReconfigureRests
  <2> QED
    BY <2>1, <2>2 DEF SameMode, Covered, r
<1> QED
  BY <1>5, <1>6

\* The rate of a frame.
LEMMA OptimalRateType ==
  ASSUME NEW s \in SdmStates, NEW lower PROVE OptimalRate(s, lower) \in Rates
BY RatesBounds DEF OptimalRate, SdmStates

\* The rate of a frame is noted with the one to be sent.
LEMMA ChangeFpsDoes ==
  ASSUME NEW s, Rest(s), NEW lower, NEW fails
  PROVE  LET r == ChangeFps(s, lower, fails)
         IN /\ Rest(r) /\ r.mode = s.mode /\ r.active = s.active /\ r.update = s.update
            /\ fails # "vote" /\ Covered(s) => Covered(r)
            /\ fails # "split" /\ Noted(s) => Noted(r)
<1> DEFINE o == OptimalRate(s, lower)
           t == IF s.current = o THEN s ELSE [s EXCEPT !.vrefresh = o]
           u == [t EXCEPT !.current = o]
           m == MarkDirty(u)
           r == ChangeFps(s, lower, fails)
<1>1. s \in SdmStates /\ ~s.apply /\ o \in Rates /\ o # 0
  BY OptimalRateType, ConfigFields DEF Rest
<1>2. r = IF s.current # o /\ fails = "split" THEN t ELSE ReconfigureDisplay(m, fails)
  BY DEF ChangeFps
<1> HIDE DEF o, r, Fps
<1>3. /\ Rest(t) /\ t.mode = s.mode /\ t.active = s.active /\ t.update = s.update
      /\ t.left = s.left /\ t.attr = s.attr /\ t.voted = s.voted
      /\ s.current = o => t.vrefresh = s.vrefresh
      /\ s.current # o => t.vrefresh = o
  <2>1. CASE s.current = o
    BY <2>1
  <2>2. CASE s.current # o
    <3>1. t = [s EXCEPT !.vrefresh = o]
      BY <2>2
    <3> HIDE DEF t
    <3> QED
      BY <1>1, <2>2, <3>1 DEF Rest, SdmStates
  <2> QED
    BY <2>1, <2>2
<1> HIDE DEF t
<1>4. /\ u \in SdmStates /\ ~u.apply /\ u.mode = s.mode /\ u.active = s.active
      /\ u.update = s.update /\ u.left = s.left /\ u.attr = s.attr /\ u.voted = s.voted
      /\ u.current = o /\ u.vrefresh = t.vrefresh
  BY <1>1, <1>3 DEF Rest, SdmStates
<1> HIDE DEF u
<1>5. /\ Rest(m) /\ SameMode(u, m)
      /\ m.left = u.left /\ m.attr = u.attr /\ m.voted = u.voted
  BY <1>4, MarkDirtyDoes
<1> HIDE DEF m
<1>6. CASE s.current # o /\ fails = "split"
  BY <1>2, <1>3, <1>6 DEF Covered, r
<1>7. CASE ~(s.current # o /\ fails = "split")
  <2>1. r = ReconfigureDisplay(m, fails)
    BY <1>2, <1>7
  <2>2. /\ Rest(r) /\ SameMode(m, r)
        /\ fails # "vote" /\ m.voted = m.attr => Covered(r)
    BY <2>1, <1>5, ReconfigureRests
  <2>3. /\ r.mode = s.mode /\ r.active = s.active /\ r.update = s.update
        /\ r.current = o /\ r.vrefresh = t.vrefresh
    BY <1>4, <1>5, <2>2 DEF SameMode
  <2>4. fails # "vote" /\ Covered(s) => Covered(r)
    BY <1>4, <1>5, <2>2 DEF Covered
  <2>5. Noted(s) => Noted(r)
    BY <1>1, <1>3, <2>3 DEF Noted
  <2> QED
    BY <2>2, <2>3, <2>4, <2>5 DEF r
<1> QED
  BY <1>6, <1>7

\* A validation that the driver accepts leaves the noted rate to be sent.
LEMMA PrepareDoes ==
  ASSUME NEW s, Rest(s), NEW lower, NEW skip, NEW fails
  PROVE  LET r == Prepare(s, lower, skip, fails)
         IN /\ Rest(r) /\ r.mode = s.mode /\ r.active = s.active /\ r.update = s.update
            /\ fails # "vote" /\ Covered(s) => Covered(r)
            /\ fails \notin {"split", "validate"} /\ Noted(s) => Noted(r)
<1> DEFINE t == IF skip THEN s ELSE ChangeFps(s, lower, fails)
           r == Prepare(s, lower, skip, fails)
<1>1. /\ Rest(t) /\ t.mode = s.mode /\ t.active = s.active /\ t.update = s.update
      /\ fails # "vote" /\ Covered(s) => Covered(t)
      /\ fails # "split" /\ Noted(s) => Noted(t)
  BY ChangeFpsDoes
<1>2. r = [t EXCEPT !.vrefresh = IF fails = "validate" THEN 0 ELSE @, !.validated = TRUE]
  BY DEF Prepare
<1> HIDE DEF t, r, Fps
<1>3. /\ Rest(r) /\ r.mode = t.mode /\ r.active = t.active /\ r.update = t.update
      /\ r.current = t.current /\ r.left = t.left /\ r.attr = t.attr /\ r.voted = t.voted
      /\ fails # "validate" => r.vrefresh = t.vrefresh
  BY <1>1, <1>2 DEF Rest, SdmStates
<1> QED
  BY <1>1, <1>3 DEF Covered, Noted, r

\* The mode a commit sends.
LEMMA SentType ==
  ASSUME NEW s \in SdmStates
  PROVE  Sent(s) \in Configs /\ Group(Sent(s)) = Group(s.mode)
<1>1. s.mode \in Configs /\ s.vrefresh \in Rates \cup {0}
  BY DEF SdmStates
<1> QED
  BY <1>1, ConfigFields DEF Sent

\* A commit that succeeds sends the mode, at the noted rate if that is new.
LEMMA HwCommitDoes ==
  ASSUME NEW s, Rest(s), NEW fails
  PROVE  LET r == HwCommit(s, fails)
         IN /\ Rest(r) /\ r.vrefresh = 0 /\ r.active = s.active /\ r.left = s.left
            /\ r.attr = s.attr /\ r.voted = s.voted
            /\ Group(r.mode) = Group(s.mode)
            /\ fails = "commit" => r.mode = s.mode /\ r.update = s.update
            /\ fails # "commit" => r.mode = Sent(s) /\ ~r.update
            /\ fails # "commit" /\ Noted(s) => Noted(r)
<1> DEFINE r == HwCommit(s, fails)
<1>1. s \in SdmStates /\ Sent(s) \in Configs /\ Group(Sent(s)) = Group(s.mode)
  BY SentType DEF Rest
<1>2. s.mode \in Configs /\ s.vrefresh \in Rates \cup {0} /\ s.active \in Rates
  BY <1>1 DEF SdmStates
<1>3. CASE fails = "commit"
  <2>1. r = [s EXCEPT !.vrefresh = 0, !.validated = FALSE]
    BY <1>3 DEF HwCommit
  <2> HIDE DEF r, Group
  <2>2. /\ Rest(r) /\ r.vrefresh = 0 /\ r.active = s.active /\ r.left = s.left
        /\ r.attr = s.attr /\ r.voted = s.voted /\ r.mode = s.mode /\ r.update = s.update
    BY <1>1, <2>1 DEF Rest, SdmStates
  <2> QED
    BY <1>3, <2>2 DEF r
<1>4. CASE fails # "commit"
  <2> DEFINE x == Sent(s)
  <2>1. r = [s EXCEPT !.mode = x, !.vrefresh = 0, !.update = FALSE]
    BY <1>4 DEF HwCommit
  <2> HIDE DEF r, Group, x
  <2>2. /\ Rest(r) /\ r.vrefresh = 0 /\ r.active = s.active /\ r.left = s.left
        /\ r.attr = s.attr /\ r.voted = s.voted /\ r.mode = x /\ r.update = FALSE
        /\ r.current = s.current
    BY <1>1, <2>1 DEF Rest, SdmStates, x
  <2>3. /\ s.vrefresh = 0 => x = s.mode
        /\ s.vrefresh # 0 => Fps(x) = s.vrefresh
    BY <1>2, ConfigFields DEF x, Sent
  <2>4. Noted(s) => Noted(r)
    BY <2>2, <2>3 DEF Noted
  <2> QED
    BY <1>1, <1>4, <2>2, <2>4 DEF r, x
<1> QED
  BY <1>3, <1>4

\* The count of a deferred rate goes on; when it is due the display is configured to
\* the driver's mode.
LEMMA PostCommitDoes ==
  ASSUME NEW s, Rest(s), NEW fails
  PROVE  LET r == PostCommit(s, fails)
         IN /\ Rest(r) /\ r.mode = s.mode /\ r.active = s.active /\ r.current = s.current
            /\ r.vrefresh = s.vrefresh /\ r.update = s.update
            /\ fails # "vote" /\ s.voted = s.attr => Covered(r)
<1> DEFINE t == IF s.left = 0 THEN s ELSE [s EXCEPT !.left = @ - 1, !.apply = (s.left = 1)]
           u == ReconfigureDisplay(t, fails)
           v == [u EXCEPT !.validated = FALSE]
           r == PostCommit(s, fails)
<1>1. s \in SdmStates /\ s.apply = FALSE /\ (s.dirty => s.left # 0) /\ s.left \in 0..FramesToDefer
  BY DEF Rest, SdmStates
<1>2. r = IF u.apply THEN Clear(v) ELSE u
  BY DEF PostCommit
<1> HIDE DEF r, u, v
<1>3. /\ t \in SdmStates /\ SameMode(s, t) /\ t.attr = s.attr /\ t.voted = s.voted
      /\ t.dirty => t.left # 0 \/ t.apply
      /\ t.apply => t.left = 0
  <2>1. CASE s.left = 0
    BY <1>1, <2>1 DEF SameMode
  <2>2. CASE s.left # 0
    <3>1. s.left - 1 \in 0..FramesToDefer /\ (s.left = 1) \in BOOLEAN
      BY <1>1, <2>2, DeferAssumption
    <3>2. t = [s EXCEPT !.left = s.left - 1, !.apply = (s.left = 1)]
      BY <2>2
    <3> HIDE DEF t
    <3>3. /\ t \in SdmStates /\ SameMode(s, t) /\ t.attr = s.attr /\ t.voted = s.voted
          /\ t.left = s.left - 1 /\ t.apply = (s.left = 1) /\ t.dirty = s.dirty
      BY <1>1, <3>1, <3>2 DEF SdmStates, SameMode
    <3>4. s.left - 1 = 0 <=> s.left = 1
      BY <1>1, DeferAssumption
    <3> QED
      BY <3>3, <3>4
  <2> QED
    BY <2>1, <2>2
<1> HIDE DEF t
<1>4. /\ u \in SdmStates /\ SameMode(t, u) /\ u.apply = t.apply
      /\ u.dirty => u.apply
      /\ u.apply => u.left = 0
      /\ fails # "vote" /\ t.voted = t.attr => Covered(u)
  BY <1>3, ReconfigureDoes DEF u
<1>5. CASE u.apply
  <2>1. r = Clear(v)
    BY <1>2, <1>5
  <2>2. 0 \in 0..FramesToDefer
    BY DeferAssumption
  <2>3. /\ v \in SdmStates /\ v.mode = u.mode /\ v.active = u.active /\ v.current = u.current
        /\ v.vrefresh = u.vrefresh /\ v.update = u.update /\ v.voted = u.voted /\ v.attr = u.attr
    BY <1>4 DEF v, SdmStates
  <2>4. /\ r \in SdmStates /\ r.mode = v.mode /\ r.active = v.active /\ r.current = v.current
        /\ r.vrefresh = v.vrefresh /\ r.update = v.update /\ r.voted = v.voted /\ r.attr = v.attr
        /\ r.left = 0 /\ ~r.dirty /\ ~r.apply
    BY <2>1, <2>2, <2>3 DEF Clear, SdmStates
  <2> QED
    BY <1>3, <1>4, <1>5, <2>3, <2>4 DEF SameMode, Covered, Rest, r
<1>6. CASE ~u.apply
  BY <1>2, <1>3, <1>4, <1>6 DEF SameMode, Rest, r
<1> QED
  BY <1>5, <1>6

-----------------------------------------------------------------------------
(* HWCDisplay. *)

\* The layers agree on the resolution and the active rate.
Agree(h, s) == Group(s.mode) = Group(h.cached) /\ s.active = Fps(h.cached)

\* What submitting a request does to both layers.
Moves(h, s, k, r, fails) ==
  /\ k \in ReqStates /\ Rest(r)
  /\ r.vrefresh = s.vrefresh
  /\ ~r.update => ~s.update /\ r.mode = s.mode
  /\ r.validated => r = s
  /\ fails # "vote" /\ Covered(s) => Covered(r)
  /\ fails # "vote" /\ Agree(h, s) => Agree(k, r)
  /\ Noted(s) => Noted(r)

\* Setting the requested configuration keeps the layers in agreement.
LEMMA SetMoves ==
  ASSUME NEW h \in ReqStates, NEW s, Rest(s), NEW c \in Configs, NEW fails, NEW k \in ReqStates,
         fails # "vote" => k.cached = c
  PROVE  Moves(h, s, k, SetSdmConfig(s, c, fails), fails)
<1> DEFINE r == SetSdmConfig(s, c, fails)
<1>1. /\ Rest(r)
      /\ r.mode = c /\ r.active = Fps(c) /\ ~r.validated
      /\ r.current = s.current /\ r.vrefresh = s.vrefresh
      /\ ~r.update => ~s.update /\ s.mode = c
      /\ fails # "vote" /\ Covered(s) => Covered(r)
  BY SetSdmConfigDoes
<1> HIDE DEF r, Fps, Group
<1>2. Noted(s) => Noted(r)
  BY <1>1 DEF Noted
<1>3. fails # "vote" => Agree(k, r)
  BY <1>1 DEF Agree
<1>4. Moves(h, s, k, r, fails)
  BY <1>1, <1>2, <1>3 DEF Moves
<1> QED
  BY <1>4 DEF r

\* Without a request nothing moves.
LEMMA StayMoves ==
  ASSUME NEW h \in ReqStates, NEW s, Rest(s), NEW fails
  PROVE  Moves(h, s, h, s, fails)
BY DEF Moves

\* The stored requests are configurations.
LEMMA ReqFields ==
  ASSUME NEW h \in ReqStates
  PROVE  /\ h.deferred \in Configs \cup {Nothing} /\ h.pending \in Configs \cup {Nothing}
         /\ h.wanted \in Configs \cup {Nothing} /\ h.cached \in Configs
BY DEF ReqStates

\* A request with a time that has come is submitted.
LEMMA ProcessMoves ==
  ASSUME NEW h \in ReqStates, NEW s, Rest(s), NEW fails
  PROVE  LET p == Process(h, s, fails) IN Moves(h, s, p[1], p[2], fails)
<1>1. CASE h.wanted # Nothing /\ h.due
  <2>1. h.wanted \in Configs /\ Nothing \in Configs \cup {Nothing}
    BY <1>1, ReqFields
  <2> DEFINE k == Submit(h, s, fails)
  <2>2. Process(h, s, fails) = <<k, SetSdmConfig(s, h.wanted, fails)>>
    BY <1>1 DEF Process
  <2>3. k \in ReqStates
    BY <2>1 DEF Submit, ReqStates
  <2>4. fails # "vote" => k.cached = h.wanted
    BY DEF Submit, SetFails, ReqStates
  <2> HIDE DEF k
  <2>5. Moves(h, s, k, SetSdmConfig(s, h.wanted, fails), fails)
    BY <2>1, <2>3, <2>4, SetMoves
  <2> QED
    BY <2>2, <2>5
<1>2. CASE ~(h.wanted # Nothing /\ h.due)
  <2>1. Process(h, s, fails) = <<h, s>>
    BY <1>2 DEF Process
  <2> QED
    BY <2>1, StayMoves
<1> QED
  BY <1>1, <1>2

\* A request that waits for a frame is submitted.
LEMMA UpdateMoves ==
  ASSUME NEW h \in ReqStates, NEW s, Rest(s), NEW fails
  PROVE  LET p == UpdateActiveConfig(h, s, fails) IN Moves(h, s, p[1], p[2], fails)
<1>1. CASE h.pending # Nothing
  <2>1. h.pending \in Configs /\ Nothing \in Configs \cup {Nothing} /\ h.cached \in Configs
    BY <1>1, ReqFields
  <2> DEFINE k == [h EXCEPT !.pending = Nothing,
                            !.cached = IF SetFails(s, h.pending, fails) THEN @ ELSE h.pending]
  <2>2. UpdateActiveConfig(h, s, fails) = <<k, SetSdmConfig(s, h.pending, fails)>>
    BY <1>1 DEF UpdateActiveConfig
  <2>3. k \in ReqStates
    BY <2>1 DEF ReqStates
  <2>4. fails # "vote" => k.cached = h.pending
    BY DEF SetFails, ReqStates
  <2> HIDE DEF k
  <2>5. Moves(h, s, k, SetSdmConfig(s, h.pending, fails), fails)
    BY <2>1, <2>3, <2>4, SetMoves
  <2> QED
    BY <2>2, <2>5
<1>2. CASE h.pending = Nothing
  <2>1. UpdateActiveConfig(h, s, fails) = <<h, s>>
    BY <1>2 DEF UpdateActiveConfig
  <2> QED
    BY <2>1, StayMoves
<1> QED
  BY <1>1, <1>2

\* A request is stored, and what the client is told stays.
LEMMA SetActiveConfigType ==
  ASSUME NEW h \in ReqStates, NEW s, NEW c \in Configs
  PROVE  SetActiveConfigOf(h, s, c) \in ReqStates /\ SetActiveConfigOf(h, s, c).cached = h.cached
BY DEF SetActiveConfigOf, ReqStates

\* The request that waited for the first commit is stored.
LEMMA PostCommitLayerStackType ==
  ASSUME NEW h \in ReqStates, NEW s
  PROVE  PostCommitLayerStack(h, s) \in ReqStates /\ PostCommitLayerStack(h, s).cached = h.cached
<1>1. CASE h.deferred = Nothing
  BY <1>1 DEF PostCommitLayerStack
<1>2. CASE h.deferred # Nothing
  <2> DEFINE k == [h EXCEPT !.deferred = Nothing]
  <2>1. k \in ReqStates /\ k.cached = h.cached
    BY DEF ReqStates
  <2>2. h.deferred \in Configs
    BY <1>2, ReqFields
  <2>3. PostCommitLayerStack(h, s) = SetActiveConfigOf(k, s, h.deferred)
    BY <1>2 DEF PostCommitLayerStack
  <2> HIDE DEF k
  <2> QED
    BY <2>1, <2>2, <2>3, SetActiveConfigType
<1> QED
  BY <1>1, <1>2

-----------------------------------------------------------------------------
(* The display. *)

\* The inductive invariant of the configurations.
AcInv ==
  /\ req \in ReqStates /\ Rest(sdm) /\ screen \in Configs
  /\ "vote" \notin failures => Covered(sdm)
  /\ ~sdm.update => screen = sdm.mode
  /\ phase = "none" => sdm.vrefresh = 0
  /\ failures = {} =>
       /\ Noted(sdm) /\ Agree(req, sdm)
       /\ phase = "none" /\ sdm.validated => ~sdm.update

\* The display starts at its highest rate.
LEMMA AcInitEstablishes == AcInit => AcInv
<1> SUFFICES ASSUME AcInit PROVE AcInv
  OBVIOUS
<1>1. PICK g \in Groups :
        LET c == <<g, MaxFps>> IN
        /\ req = [first |-> TRUE, deferred |-> Nothing, pending |-> Nothing, wanted |-> Nothing,
                  due |-> FALSE, cached |-> c]
        /\ sdm = [active |-> MaxFps, current |-> MaxFps, forced |-> 0, validated |-> FALSE,
                  attr |-> c, left |-> 0, fps |-> MaxFps, dirty |-> FALSE, apply |-> FALSE,
                  mode |-> c, vrefresh |-> 0, update |-> FALSE, voted |-> c]
        /\ screen = c /\ phase = "none" /\ latest = c
        /\ asks = 0 /\ overrides = 0 /\ failures = {}
  BY DEF AcInit
<1> DEFINE c == <<g, MaxFps>>
<1>2. /\ c \in Configs /\ Group(c) = g /\ Fps(c) = MaxFps
      /\ MaxFps \in Rates /\ 0 \in 0..FramesToDefer
  BY RatesBounds, ConfigFields, DeferAssumption
<1> HIDE DEF c, Group, Fps, Configs, MaxFps, Nothing
<1>3. req \in ReqStates /\ req.cached = c
  BY <1>1, <1>2 DEF ReqStates, c
<1>4. /\ sdm \in SdmStates /\ sdm.active = MaxFps /\ sdm.current = MaxFps /\ sdm.attr = c
      /\ sdm.mode = c /\ sdm.vrefresh = 0 /\ ~sdm.update /\ sdm.voted = c
      /\ ~sdm.dirty /\ ~sdm.apply
  BY <1>1, <1>2 DEF SdmStates, c
<1>5. screen = c
  BY <1>1 DEF c
<1> QED
  BY <1>2, <1>3, <1>4, <1>5 DEF AcInv, Rest, Covered, Noted, Agree

\* A request that is stored changes nothing below.
LEMMA StoringPreserves ==
  ASSUME AcInv, req' \in ReqStates, req'.cached = req.cached,
         UNCHANGED <<sdm, screen, phase, failures>>
  PROVE  AcInv'
BY DEF AcInv, Agree

\* The calls of the client store requests.
LEMMA AskPreserves ==
  ASSUME AcInv, NEW c \in Configs
  PROVE  /\ SetActiveConfig(c) => AcInv'
         /\ \A seamless, due \in BOOLEAN :
              SetActiveConfigWithConstraints(c, seamless, due) => AcInv'
<1>1. req \in ReqStates /\ Nothing \in Configs \cup {Nothing}
  BY DEF AcInv
<1>2. ASSUME SetActiveConfig(c) PROVE AcInv'
  <2>1. req' \in ReqStates /\ req'.cached = req.cached
    BY <1>1, <1>2, SetActiveConfigType DEF SetActiveConfig
  <2> QED
    BY <1>2, <2>1, StoringPreserves DEF SetActiveConfig, Ask
<1>3. ASSUME NEW seamless \in BOOLEAN, NEW due \in BOOLEAN,
             SetActiveConfigWithConstraints(c, seamless, due)
      PROVE  AcInv'
  <2>1. \/ req' = [req EXCEPT !.deferred = c]
        \/ req' = [req EXCEPT !.deferred = Nothing]
        \/ req' = [req EXCEPT !.deferred = Nothing, !.wanted = c, !.due = due]
    BY <1>3 DEF SetActiveConfigWithConstraints
  <2>2. req' \in ReqStates /\ req'.cached = req.cached
    <3> HIDE DEF Configs, Nothing
    <3> QED
      BY <1>1, <2>1 DEF ReqStates
  <2> QED
    BY <1>3, <2>2, StoringPreserves DEF SetActiveConfigWithConstraints, Ask
<1> QED
  BY <1>2, <1>3

\* The time a client desires comes.
LEMMA TimePreserves == ASSUME AcInv, TimePasses PROVE AcInv'
<1>1. req' \in ReqStates /\ req'.cached = req.cached
  BY DEF AcInv, TimePasses, ReqStates
<1> QED
  BY <1>1, StoringPreserves DEF TimePasses

\* The calls of the configuration service, and power off and on.
LEMMA OverridePreserves ==
  ASSUME AcInv
  PROVE  /\ \A c \in Configs : SetActiveDisplayConfig(c) => AcInv'
         /\ \A r \in Rates \cup {0} : ForceRefreshRate(r) => AcInv'
         /\ TurnOffAndOn => AcInv'
<1>1. req \in ReqStates /\ Rest(sdm) /\ sdm \in SdmStates
  BY DEF AcInv, Rest
<1>2. ASSUME NEW c \in Configs, SetActiveDisplayConfig(c) PROVE AcInv'
  <2>1. UNCHANGED <<screen, phase, failures>> /\ sdm.mode # c
        /\ sdm' = SetSdmConfig(sdm, c, "none") /\ req' = [req EXCEPT !.cached = c]
    BY <1>2 DEF SetActiveDisplayConfig, Override
  <2>2. req' \in ReqStates /\ req'.cached = c
    BY <1>1, <2>1 DEF ReqStates
  <2>3. Moves(req, sdm, req', sdm', "none")
    BY <1>1, <2>1, <2>2, SetMoves
  <2>4. ~sdm'.validated
    BY <1>1, <2>1, SetSdmConfigDoes
  <2> QED
    BY <2>1, <2>2, <2>3, <2>4 DEF AcInv, Moves
<1>3. ASSUME NEW r \in Rates \cup {0}, ForceRefreshRate(r) PROVE AcInv'
  <2>1. UNCHANGED <<req, screen, phase, failures>> /\ sdm' = [sdm EXCEPT !.forced = r]
    BY <1>3 DEF ForceRefreshRate, Override
  <2>2. /\ sdm' \in SdmStates /\ sdm'.active = sdm.active /\ sdm'.current = sdm.current
        /\ sdm'.mode = sdm.mode /\ sdm'.vrefresh = sdm.vrefresh /\ sdm'.update = sdm.update
        /\ sdm'.voted = sdm.voted /\ sdm'.attr = sdm.attr /\ sdm'.left = sdm.left
        /\ sdm'.dirty = sdm.dirty /\ sdm'.apply = sdm.apply /\ sdm'.validated = sdm.validated
    BY <1>1, <2>1 DEF SdmStates
  <2> QED
    BY <1>1, <2>1, <2>2 DEF AcInv, Rest, Covered, Noted, Agree
<1>4. ASSUME TurnOffAndOn PROVE AcInv'
  <2> DEFINE s == IF sdm.left # 0 THEN SetDeferredFpsConfig(sdm) ELSE sdm
             x == [s EXCEPT !.voted = s.attr, !.validated = FALSE]
  <2>1. UNCHANGED <<req, screen, phase, failures>> /\ sdm' = ReconfigureDisplay(x, "none")
    BY <1>4 DEF TurnOffAndOn, Override
  <2>2. Rest(s) /\ SameMode(sdm, s)
    <3>1. CASE sdm.left # 0
      BY <1>1, <3>1, SetDeferredDoes DEF Rest
    <3>2. CASE sdm.left = 0
      BY <1>1, <3>2 DEF SameMode
    <3> QED
      BY <3>1, <3>2
  <2> HIDE DEF s
  <2>3. s.attr \in Configs
    BY <2>2 DEF Rest, SdmStates
  <2>4. /\ Rest(x) /\ x.voted = x.attr /\ x.validated = FALSE
        /\ x.active = s.active /\ x.current = s.current /\ x.mode = s.mode
        /\ x.vrefresh = s.vrefresh /\ x.update = s.update
    BY <2>2, <2>3 DEF Rest, SdmStates
  <2> HIDE DEF x
  <2>5. Rest(sdm') /\ SameMode(x, sdm') /\ Covered(sdm')
    BY <2>1, <2>4, ReconfigureRests
  <2>6. /\ sdm'.validated = FALSE /\ sdm'.active = sdm.active /\ sdm'.current = sdm.current
        /\ sdm'.mode = sdm.mode /\ sdm'.vrefresh = sdm.vrefresh /\ sdm'.update = sdm.update
    BY <2>2, <2>4, <2>5 DEF SameMode
  <2> QED
    BY <1>1, <2>1, <2>5, <2>6 DEF AcInv, Noted, Agree
<1> QED
  BY <1>2, <1>3, <1>4

\* What a step that may fail records.
LEMMA FailsRecords ==
  ASSUME NEW kinds, NEW fails, Fails(kinds, fails)
  PROVE  /\ "vote" \notin failures' => fails # "vote" /\ "vote" \notin failures
         /\ failures' = {} => fails = "none" /\ failures = {}
BY DEF Fails

\* The two layers after the requests were taken up and the frame was validated.
LEMMA ValidatedDoes ==
  ASSUME NEW lower, NEW skip, NEW fails, req \in ReqStates, Rest(sdm),
         NEW v \in Validated(lower, skip, fails)
  PROVE  /\ v[1] \in ReqStates /\ Rest(v[2])
         /\ fails # "vote" /\ Covered(sdm) => Covered(v[2])
         /\ ~v[2].update => ~sdm.update /\ v[2].mode = sdm.mode
         /\ fails = "none" /\ Noted(sdm) /\ Agree(req, sdm) => Noted(v[2]) /\ Agree(v[1], v[2])
<1> DEFINE p == Process(req, sdm, fails)
           q == UpdateActiveConfig(p[1], p[2], fails)
           skips == skip /\ q[2].validated
           r == Prepare(q[2], lower, skips, fails)
<1>1. v = <<q[1], r>>
  BY DEF Validated
<1>2. Moves(req, sdm, p[1], p[2], fails)
  BY ProcessMoves
<1> HIDE DEF p
<1>3. Moves(p[1], p[2], q[1], q[2], fails)
  BY <1>2, UpdateMoves DEF Moves
<1> HIDE DEF q, skips
<1>4. /\ Rest(r) /\ r.mode = q[2].mode /\ r.active = q[2].active /\ r.update = q[2].update
      /\ fails # "vote" /\ Covered(q[2]) => Covered(r)
      /\ fails \notin {"split", "validate"} /\ Noted(q[2]) => Noted(r)
  BY <1>3, PrepareDoes DEF Moves
<1> HIDE DEF r
<1>5. v[1] = q[1] /\ v[2] = r
  BY <1>1
<1>6. v[1] \in ReqStates /\ Rest(v[2])
  BY <1>3, <1>4, <1>5 DEF Moves
<1>7. fails # "vote" /\ Covered(sdm) => Covered(v[2])
  BY <1>2, <1>3, <1>4, <1>5 DEF Moves
<1>8. ~v[2].update => ~sdm.update /\ v[2].mode = sdm.mode
  BY <1>2, <1>3, <1>4, <1>5 DEF Moves
<1>9. fails = "none" /\ Noted(sdm) /\ Agree(req, sdm) => Noted(v[2]) /\ Agree(v[1], v[2])
  <2> SUFFICES ASSUME fails = "none", Noted(sdm), Agree(req, sdm)
               PROVE  Noted(v[2]) /\ Agree(v[1], v[2])
    OBVIOUS
  <2>1. Noted(q[2]) /\ Agree(q[1], q[2])
    BY <1>2, <1>3 DEF Moves
  <2> QED
    BY <2>1, <1>4, <1>5 DEF Agree
<1> QED
  BY <1>6, <1>7, <1>8, <1>9

\* What a commit leaves.
LEMMA CommittedDoes ==
  ASSUME NEW h \in ReqStates, NEW s, Rest(s), NEW presents \in BOOLEAN, NEW fails,
         Committed(h, s, presents, fails)
  PROVE  /\ req' \in ReqStates /\ Rest(sdm') /\ sdm'.vrefresh = 0
         /\ fails # "vote" /\ Covered(s) => Covered(sdm')
         /\ fails = "none" /\ Noted(s) /\ Agree(h, s) =>
              Noted(sdm') /\ Agree(req', sdm') /\ ~sdm'.update
         /\ screen \in Configs => screen' \in Configs
         /\ (~s.update => screen = s.mode) => (~sdm'.update => screen' = sdm'.mode)
<1> DEFINE u == HwCommit(s, fails)
           t == PostCommit(u, fails)
           k == [h EXCEPT !.first = @ /\ ~presents]
<1>1. /\ sdm' = t /\ req' = PostCommitLayerStack(k, t)
      /\ screen' = IF fails # "commit" /\ (s.update \/ s.vrefresh # 0) THEN Sent(s) ELSE screen
  BY DEF Committed
<1>2. /\ Rest(u) /\ u.vrefresh = 0 /\ u.active = s.active /\ u.left = s.left
      /\ u.attr = s.attr /\ u.voted = s.voted
      /\ Group(u.mode) = Group(s.mode)
      /\ fails = "commit" => u.mode = s.mode /\ u.update = s.update
      /\ fails # "commit" => u.mode = Sent(s) /\ ~u.update
      /\ fails # "commit" /\ Noted(s) => Noted(u)
  BY HwCommitDoes
<1> HIDE DEF u
<1>3. /\ Rest(t) /\ t.mode = u.mode /\ t.active = u.active /\ t.current = u.current
      /\ t.vrefresh = u.vrefresh /\ t.update = u.update
      /\ fails # "vote" /\ u.voted = u.attr => Covered(t)
  BY <1>2, PostCommitDoes
<1> HIDE DEF t
<1>4. k \in ReqStates /\ k.cached = h.cached
  BY DEF ReqStates
<1> HIDE DEF k
<1>5. req' \in ReqStates /\ req'.cached = h.cached
  BY <1>1, <1>4, PostCommitLayerStackType
<1>6. s \in SdmStates /\ Sent(s) \in Configs
  BY SentType DEF Rest
<1>7. s.vrefresh = 0 => Sent(s) = s.mode
  BY DEF Sent
<1>8. fails # "vote" /\ Covered(s) => Covered(sdm')
  BY <1>1, <1>2, <1>3 DEF Covered
<1>9. ASSUME fails = "none", Noted(s), Agree(h, s)
      PROVE  Noted(sdm') /\ Agree(req', sdm') /\ ~sdm'.update
  BY <1>9, <1>1, <1>2, <1>3, <1>5 DEF Noted, Agree
<1>10. screen \in Configs => screen' \in Configs
  BY <1>1, <1>6
<1>11. ASSUME ~s.update => screen = s.mode, ~sdm'.update PROVE screen' = sdm'.mode
  BY <1>11, <1>1, <1>2, <1>3, <1>7
<1> QED
  BY <1>1, <1>2, <1>3, <1>5, <1>8, <1>9, <1>10, <1>11

\* A validation keeps the invariant, and so do a present and a unified draw.
LEMMA DrawPreserves ==
  ASSUME AcInv, NEW lower, NEW skip, NEW fails,
         Validate(lower, skip, fails) \/ ValidateAndCommit(lower, skip, fails)
  PROVE  AcInv'
<1>1. req \in ReqStates /\ Rest(sdm) /\ screen \in Configs
  BY DEF AcInv
<1>2. CASE Validate(lower, skip, fails)
  <2>1. PICK v \in Validated(lower, skip, fails) : req' = v[1] /\ sdm' = v[2]
    BY <1>2 DEF Validate
  <2>2. phase' = "validated" /\ screen' = screen
        /\ Fails({"vote", "split", "validate"}, fails)
    BY <1>2 DEF Validate
  <2>3. /\ "vote" \notin failures' => fails # "vote" /\ "vote" \notin failures
        /\ failures' = {} => fails = "none" /\ failures = {}
    BY <2>2, FailsRecords
  <2>4. /\ req' \in ReqStates /\ Rest(sdm')
        /\ fails # "vote" /\ Covered(sdm) => Covered(sdm')
        /\ ~sdm'.update => ~sdm.update /\ sdm'.mode = sdm.mode
        /\ fails = "none" /\ Noted(sdm) /\ Agree(req, sdm) => Noted(sdm') /\ Agree(req', sdm')
    BY <1>1, <2>1, ValidatedDoes
  <2> QED
    BY <2>2, <2>3, <2>4 DEF AcInv
<1>3. CASE ValidateAndCommit(lower, skip, fails)
  <2>1. PICK v \in Validated(lower, skip, fails) : Committed(v[1], v[2], FALSE, fails)
    BY <1>3 DEF ValidateAndCommit
  <2>2. /\ "vote" \notin failures' => fails # "vote" /\ "vote" \notin failures
        /\ failures' = {} => fails = "none" /\ failures = {}
    BY <1>3, FailsRecords DEF ValidateAndCommit
  <2>3. /\ v[1] \in ReqStates /\ Rest(v[2])
        /\ fails # "vote" /\ Covered(sdm) => Covered(v[2])
        /\ ~v[2].update => ~sdm.update /\ v[2].mode = sdm.mode
        /\ fails = "none" /\ Noted(sdm) /\ Agree(req, sdm) => Noted(v[2]) /\ Agree(v[1], v[2])
    BY <1>1, ValidatedDoes
  <2>4. /\ req' \in ReqStates /\ Rest(sdm') /\ sdm'.vrefresh = 0
        /\ fails # "vote" /\ Covered(v[2]) => Covered(sdm')
        /\ fails = "none" /\ Noted(v[2]) /\ Agree(v[1], v[2]) =>
             Noted(sdm') /\ Agree(req', sdm') /\ ~sdm'.update
        /\ screen' \in Configs
        /\ (~v[2].update => screen = v[2].mode) => (~sdm'.update => screen' = sdm'.mode)
    <3> DEFINE h == v[1]
               s == v[2]
    <3>1. h \in ReqStates /\ Rest(s) /\ Committed(h, s, FALSE, fails) /\ FALSE \in BOOLEAN
      BY <2>1, <2>3
    <3> HIDE DEF h, s
    <3> SUFFICES /\ req' \in ReqStates /\ Rest(sdm') /\ sdm'.vrefresh = 0
                 /\ fails # "vote" /\ Covered(s) => Covered(sdm')
                 /\ fails = "none" /\ Noted(s) /\ Agree(h, s) =>
                      Noted(sdm') /\ Agree(req', sdm') /\ ~sdm'.update
                 /\ screen \in Configs => screen' \in Configs
                 /\ (~s.update => screen = s.mode) => (~sdm'.update => screen' = sdm'.mode)
      BY <1>1 DEF h, s
    <3> QED
      BY <3>1, CommittedDoes
  <2>5. ~v[2].update => screen = v[2].mode
    BY <2>3 DEF AcInv
  <2> QED
    BY <2>2, <2>3, <2>4, <2>5 DEF AcInv
<1> QED
  BY <1>2, <1>3

\* A present may submit a request after the validation.
LEMMA PresentPreserves == ASSUME AcInv, NEW fails, Present(fails) PROVE AcInv'
<1>1. req \in ReqStates /\ Rest(sdm) /\ screen \in Configs
  BY DEF AcInv
<1> DEFINE p == Process(req, sdm, fails)
<1>2. Committed(p[1], p[2], TRUE, fails)
  BY DEF Present
<1>3. /\ "vote" \notin failures' => fails # "vote" /\ "vote" \notin failures
      /\ failures' = {} => fails = "none" /\ failures = {}
  BY FailsRecords DEF Present
<1>4. Moves(req, sdm, p[1], p[2], fails)
  BY <1>1, ProcessMoves
<1> HIDE DEF p
<1>5. /\ req' \in ReqStates /\ Rest(sdm') /\ sdm'.vrefresh = 0
      /\ fails # "vote" /\ Covered(p[2]) => Covered(sdm')
      /\ fails = "none" /\ Noted(p[2]) /\ Agree(p[1], p[2]) =>
           Noted(sdm') /\ Agree(req', sdm') /\ ~sdm'.update
      /\ screen' \in Configs
      /\ (~p[2].update => screen = p[2].mode) => (~sdm'.update => screen' = sdm'.mode)
  <2> DEFINE h == p[1]
             s == p[2]
  <2>1. h \in ReqStates /\ Rest(s) /\ Committed(h, s, TRUE, fails) /\ TRUE \in BOOLEAN
    BY <1>2, <1>4 DEF Moves
  <2> HIDE DEF h, s
  <2> SUFFICES /\ req' \in ReqStates /\ Rest(sdm') /\ sdm'.vrefresh = 0
               /\ fails # "vote" /\ Covered(s) => Covered(sdm')
               /\ fails = "none" /\ Noted(s) /\ Agree(h, s) =>
                    Noted(sdm') /\ Agree(req', sdm') /\ ~sdm'.update
               /\ screen \in Configs => screen' \in Configs
               /\ (~s.update => screen = s.mode) => (~sdm'.update => screen' = sdm'.mode)
    BY <1>1 DEF h, s
  <2> QED
    BY <2>1, CommittedDoes
<1>6. ~p[2].update => screen = p[2].mode
  BY <1>4 DEF AcInv, Moves
<1> QED
  BY <1>3, <1>4, <1>5, <1>6 DEF AcInv, Moves

\* Every step keeps the invariant.
LEMMA AcStepPreserves == AcInv /\ [AcNext]_acVars => AcInv'
<1> SUFFICES ASSUME AcInv, [AcNext]_acVars PROVE AcInv'
  OBVIOUS
<1>1. CASE \E c \in Configs : SetActiveConfig(c) \/ SetActiveDisplayConfig(c)
  BY <1>1, AskPreserves, OverridePreserves
<1>2. CASE \E c \in Configs, seamless \in BOOLEAN, due \in BOOLEAN :
             SetActiveConfigWithConstraints(c, seamless, due)
  BY <1>2, AskPreserves
<1>3. CASE (\E r \in Rates \cup {0} : ForceRefreshRate(r)) \/ TurnOffAndOn
  BY <1>3, OverridePreserves
<1>4. CASE TimePasses
  BY <1>4, TimePreserves
<1>5. CASE Draw
  BY <1>5, DrawPreserves DEF Draw
<1>6. CASE Shows
  BY <1>6, PresentPreserves DEF Shows
<1>7. CASE UNCHANGED acVars
  BY <1>7 DEF acVars, AcInv
<1> QED
  BY <1>1, <1>2, <1>3, <1>4, <1>5, <1>6, <1>7 DEF AcNext

\* The invariant of the configurations holds.
LEMMA AcInvariance == AcSpec => []AcInv
BY AcInitEstablishes, AcStepPreserves, PTL DEF AcSpec

\* The panel runs what the client is told.
LEMMA AcInvShows == AcInv => ScreenIsAsTold
<1> SUFFICES ASSUME AcInv, phase = "none", sdm.validated, sdm.current = sdm.active, failures = {}
             PROVE  screen = req.cached /\ Fps(screen) = sdm.active
  BY DEF ScreenIsAsTold
<1>1. screen = sdm.mode /\ Fps(sdm.mode) = sdm.active
  BY DEF AcInv, Noted
<1>2. Group(screen) = Group(req.cached) /\ Fps(screen) = Fps(req.cached)
  BY <1>1 DEF AcInv, Agree
<1>3. screen \in Configs /\ req.cached \in Configs
  BY ReqFields DEF AcInv
<1> QED
  BY <1>1, <1>2, <1>3, ConfigFields

\* The vote is the one for the mode on the panel.
LEMMA AcInvCovers == AcInv => VoteCoversScreen
<1> SUFFICES ASSUME AcInv, ~sdm.update, sdm.left = 0, "vote" \notin failures
             PROVE  Fps(sdm.voted) >= Fps(screen)
  BY DEF VoteCoversScreen
<1>1. sdm.voted = screen
  BY DEF AcInv, Covered
<1>2. Fps(screen) \in Nat
  BY ConfigFields DEF AcInv
<1> QED
  BY <1>1, <1>2

\* The panel runs the configuration that the client is told, and at its rate, after a frame
\* that was validated for the active rate: through requests that are stored, due between
\* validation and present, or overridden by the service, idle fallback, power off and on.
THEOREM ToldTheorem == AcSpec => []ScreenIsAsTold
BY AcInvariance, AcInvShows, PTL

\* The vote covers the rate of the panel once the mode is sent and no rate is deferred.
THEOREM VoteTheorem == AcSpec => []VoteCoversScreen
BY AcInvariance, AcInvCovers, PTL

-----------------------------------------------------------------------------
(* The components side by side: the one that moves keeps its own invariant,  *)
(* the others do not change.                                                 *)

\* The inductive invariant of the composition.
ServicesInv == CbInv /\ StInv /\ HgInv /\ RingInv /\ AcInv

\* A step of one component is a step or a stutter of each.
LEMMA ComponentSteps ==
  [Next]_vars => /\ [CbNext]_cbVars /\ [StNext]_stVars /\ [H!HgNext]_histogramVars
                 /\ [AcNext]_acVars
<1> SUFFICES ASSUME [Next]_vars
             PROVE  /\ [CbNext]_cbVars /\ [StNext]_stVars /\ [H!HgNext]_histogramVars
                    /\ [AcNext]_acVars
  OBVIOUS
<1> USE DEF vars, Next, CallbacksOnly, SyncTaskOnly, HistogramOnly, ConfigOnly
<1>1. [CbNext]_cbVars
  BY DEF callbackVars, cbVars
<1>2. [StNext]_stVars
  BY DEF taskVars, stVars
<1>3. [H!HgNext]_histogramVars
  BY DEF histogramVars
<1>4. [AcNext]_acVars
  OBVIOUS
<1> QED
  BY <1>1, <1>2, <1>3, <1>4

\* The invariants of the components hold in the composition.
LEMMA ServicesInvariance == Spec => []ServicesInv
<1>1. Init => ServicesInv
  BY CbInitEstablishes, StInitEstablishes, HgInitEstablishes, RingInitEstablishes,
     AcInitEstablishes DEF Init, ServicesInv
<1>2. ServicesInv /\ [Next]_vars => ServicesInv'
  BY ComponentSteps, CbStepPreserves, StStepPreserves, HgStepPreserves, RingStepPreserves,
     AcStepPreserves DEF ServicesInv
<1> QED
  BY <1>1, <1>2, PTL DEF Spec

\* Nothing is used after its owner went: not the data or the queue of a client that
\* deregistered, nor, while no wait of it ended early, the context on the stack of a caller
\* of PerformTask.
THEOREM LateUseTheorem == Spec => []NoLateUse
<1>1. ServicesInv => NoLateUse
  BY DEF ServicesInv, NoLateUse, CbInv, Alive, Drained, Gone, GoneLeavesNothing,
         StInv, StTypes, Tasks, Handshake, ContextIsAlive
<1> QED
  BY <1>1, ServicesInvariance, PTL

\* A call that returned has done its work: PerformTask its task, once, while no wait of it
\* ended early, and then its locks are in order; stop has left no blob thread for the next
\* start (sync_task.h, histogram_collector.cpp:154-170).
THEOREM CallsTheorem == Spec => []CallsAreComplete
<1>1. ServicesInv => CallsAreComplete
  BY DEF ServicesInv, CallsAreComplete, DoneOnReturn, LocksInOrder, TwoLocks, StInv, StTypes,
         Tasks, Starting, Handshake, HgInv, H!NoThreadAtStart
<1> QED
  BY <1>1, ServicesInvariance, PTL

\* What is kept in several places agrees: the running totals of the histogram with those of
\* the ring, a query with the frames it covers (ringbuffer.cpp:49-89, 130-160); the panel
\* with the configuration the client is told, and the vote with the panel
\* (hwc_display_builtin.cpp, display_builtin.cpp, hw_device_drm.cpp).
THEOREM ViewsTheorem == Spec => []ViewsAgree
<1>1. ServicesInv => ViewsAgree
  BY CountedAgree, OrderedSamples, AcInvShows, AcInvCovers DEF ServicesInv, ViewsAgree
<1> QED
  BY <1>1, ServicesInvariance, PTL
-----------------------------------------------------------------------------
(* Types: the invariants above say of which kind each value is; the bounds    *)
(* that the guards put on the counters, and what follows from them, are here. *)

\* The bounds are numbers, and the primary display is one of those that are reported.
ServicesBounds ==
  /\ {MaxClients, MaxReports, MaxTasks, MaxStarts, MaxEvents, MaxCalls, MaxOverrides}
       \subseteq Nat
  /\ 0 \in Displays

\* At most one item is in the hands of the thread and of a Hotplug that waits, and who was
\* called is one of the clients there were.
CbBounds ==
  /\ cbClient.id \in 0..MaxClients /\ cbData \in 0..MaxClients
  /\ Len(cbThread.item) <= 1 /\ Len(waiter) <= 1
  /\ reported \in 0..MaxReports
  /\ called \in Called

\* The client is the last of those that came.
LEMMA CbBoundsHold ==
  ASSUME ServicesBounds
  PROVE  /\ CbInit => CbBounds
         /\ CbInv /\ CbBounds /\ [CbNext]_cbVars => CbBounds'
<1> USE DEF ServicesBounds, Nobody
<1>1. CbInit => CbBounds
  BY DEF CbInit, CbBounds, Called
<1>2. ASSUME CbInv, CbBounds, [CbNext]_cbVars PROVE CbBounds'
  <2>1. /\ \A cmd \in {"hotplug", "refresh", "vsync"} : fn[cmd] \in 0..MaxClients
        /\ cbData \in 0..MaxClients /\ cbClient \in AnyClients
    <3>1. \A cmd \in {"hotplug", "refresh", "vsync"} : fn[cmd] \in {0, cbClient.id}
      BY <1>2 DEF CbInv, Mine
    <3>2. cbClient.id \in 0..MaxClients /\ cbData \in 0..MaxClients /\ 0 \in 0..MaxClients
      BY <1>2 DEF CbBounds
    <3>3. cbClient \in AnyClients
      BY <1>2 DEF CbInv, CbTypes
    <3> QED
      BY <3>1, <3>2, <3>3
  <2>2. ASSUME NEW by \in {"thread", "reporter"}, NEW cmd \in {"hotplug", "refresh", "vsync"},
               Call(by, cmd)
        PROVE  called' \in Called
    BY <2>1, <2>2 DEF Call, Called
  <2>3. Notified(cbThread).item = cbThread.item
    BY <1>2 DEF Notified, CbInv, CbTypes
  <2>4. ASSUME NEW item, Report(item) PROVE called' \in Called /\ cbThread'.item = cbThread.item
    BY <1>2, <2>2, <2>3, <2>4 DEF Report, Push, CbBounds
  <2>5. CASE Look
    <3>1. Len(cbThread'.item) <= 1
      BY <1>2, <2>5 DEF Look, CbInv, CbTypes, CbBounds
    <3> QED
      BY <3>1, <1>2, <2>5 DEF Look, CbBounds
  <2>6. CASE Block
    BY <1>2, <2>6 DEF Block, CbInv, CbTypes, CbBounds
  <2>7. CASE Perform
    <3>1. cbThread.item[1].cmd \in {"hotplug", "refresh", "vsync"}
      <4>1. cbThread.item[1] \in AnyItems
        BY <1>2, <2>7 DEF Perform, CbInv, CbTypes
      <4> QED
        BY <4>1 DEF AnyItems
    <3>2. called' \in Called
      BY <1>2, <2>7, <3>1, <2>2 DEF Perform, CbBounds
    <3> QED
      BY <1>2, <2>7, <3>2 DEF Perform, CbBounds
  <2>8. ASSUME NEW d \in Displays, Refresh(d) PROVE CbBounds'
    BY <1>2, <2>3, <2>8 DEF Refresh, Push, CbBounds
  <2>9. ASSUME NEW d \in Displays, NEW state \in BOOLEAN, Hotplug(d, state) PROVE CbBounds'
    <3> DEFINE item == [cmd |-> "hotplug", display |-> d, state |-> state]
    <3>1. \/ waiter' = <<item>> /\ UNCHANGED <<called, cbThread>>
          \/ Report(item) /\ UNCHANGED waiter
      BY <2>9 DEF Hotplug
    <3> HIDE DEF item
    <3>2. called' \in Called /\ cbThread'.item = cbThread.item /\ Len(waiter') <= 1
      <4>1. CASE waiter' = <<item>> /\ UNCHANGED <<called, cbThread>>
        BY <1>2, <4>1 DEF CbBounds
      <4>2. CASE Report(item) /\ UNCHANGED waiter
        BY <1>2, <2>4, <4>2 DEF CbBounds
      <4> QED
        BY <3>1, <4>1, <4>2
    <3> QED
      BY <1>2, <2>9, <3>2 DEF Hotplug, CbBounds
  <2>10. CASE HotplugWoken
    BY <1>2, <2>4, <2>10 DEF HotplugWoken, CbBounds
  <2>11. CASE HotplugDropped
    BY <1>2, <2>11 DEF HotplugDropped, CbBounds
  <2>12. Registered.id = cbClient.id
    BY <2>1 DEF Registered, AnyClients
  <2>13. CASE RegisterStep
    <3>1. cbClient'.id = cbClient.id
      BY <2>1, <2>12, <2>13
         DEF RegisterStep, SetFn, SetData, StartThread, StopThread, NotifyThread, Join, At,
             AnyClients
    <3>2. cbThread'.item = cbThread.item
      BY <1>2, <2>3, <2>13
         DEF RegisterStep, SetFn, SetData, StartThread, StopThread, NotifyThread, Join,
             CbInv, CbTypes
    <3>3. UNCHANGED <<waiter, reported, called>> /\ cbData' \in {cbData, cbClient.id}
      BY <2>13
         DEF RegisterStep, SetFn, SetData, StartThread, StopThread, NotifyThread, Join
    <3> QED
      BY <1>2, <3>1, <3>2, <3>3 DEF CbBounds
  <2>14. CASE Connect
    BY <1>2, <2>1, <2>14 DEF Connect, AnyClients, CbBounds
  <2>15. CASE Disconnect
    BY <1>2, <2>1, <2>15 DEF Disconnect, AnyClients, CbBounds
  <2>16. CASE UNCHANGED cbVars
    BY <1>2, <2>16 DEF cbVars, CbBounds
  <2> QED
    BY <1>2, <2>5, <2>6, <2>7, <2>8, <2>9, <2>10, <2>11, <2>13, <2>14, <2>15, <2>16
       DEF CbNext, ThreadStep, WaiterStep, Reports
<1> QED
  BY <1>1, <1>2

\* The types of the callbacks.
LEMMA CbTyped == ASSUME ServicesBounds PROVE CbInv /\ CbBounds => CbTypeOK
<1> SUFFICES ASSUME CbInv, CbBounds PROVE CbTypeOK
  OBVIOUS
<1>1. AnyItems = Items
  BY DEF AnyItems, Items, ServicesBounds
<1>2. fn \in [{"hotplug", "refresh", "vsync"} -> 0..MaxClients]
  <2>1. \A cmd \in {"hotplug", "refresh", "vsync"} : fn[cmd] \in {0, cbClient.id}
    BY DEF CbInv, Mine, Nobody
  <2>2. cbClient.id \in 0..MaxClients /\ 0 \in 0..MaxClients
    BY DEF CbBounds, ServicesBounds
  <2>3. fn \in [{"hotplug", "refresh", "vsync"} -> Nat]
    BY DEF CbInv, CbTypes
  <2> QED
    BY <2>1, <2>2, <2>3
<1>3. cbThread \in Thread
  BY <1>1 DEF CbInv, CbTypes, Thread
<1>4. cbClient \in Client
  <2>1. 1..Len(Descriptors) = {1, 2, 3}
    BY DEF Descriptors
  <2> QED
    BY <2>1 DEF CbInv, CbTypes, CbBounds, AnyClients, Client
<1> QED
  BY <1>1, <1>2, <1>3, <1>4 DEF CbInv, CbTypes, CbBounds, CbTypeOK

\* The task that is done was posted, and the last call only ends the worker.
StBounds ==
  /\ tasks \in 0..(IF exit THEN MaxTasks + 1 ELSE MaxTasks)
  /\ taskContext \in 0..tasks /\ done \in 0..MaxTasks

LEMMA StBoundsHold ==
  ASSUME ServicesBounds
  PROVE  /\ StInit => StBounds
         /\ StInv /\ StBounds /\ [StNext]_stVars => StBounds'
<1> USE DEF ServicesBounds
<1>1. StInit => StBounds
  BY DEF StInit, StBounds
<1>2. ASSUME StInv, StBounds, [StNext]_stVars PROVE StBounds'
  <2>1. ASSUME NEW terminate \in BOOLEAN, PostTask(terminate) PROVE StBounds'
    BY <1>2, <2>1 DEF PostTask, StBounds, StInv, StTypes, Tasks
  <2>2. CASE OnTask
    BY <1>2, <2>2 DEF OnTask, StBounds, StInv, StTypes, Tasks
  <2>3. CASE UNCHANGED <<tasks, taskContext, exit, done>>
    BY <1>2, <2>3 DEF StBounds
  <2> QED
    BY <1>2, <2>1, <2>2, <2>3
       DEF StNext, CallerStep, WorkerStep, PerformTask, StartWorker, WaitReady, WaitTask,
           CallerWakes, JoinWorker, WorkerStarts, WorkerReady, WorkerLoops, WorkerWakes,
           TaskEnds, SpuriousWakeUp, CallerSpurious, stVars
<1> QED
  BY <1>1, <1>2

\* The types of the SyncTask.
LEMMA StTyped == ASSUME ServicesBounds PROVE StInv /\ StBounds => StTypeOK
<1> SUFFICES ASSUME StInv, StBounds PROVE StTypeOK
  OBVIOUS
<1>1. tasks \in 0..MaxTasks + 1 /\ done \in 0..MaxTasks
  BY DEF StBounds, ServicesBounds
<1>2. taskContext \in 0..MaxTasks + 1
  BY <1>1 DEF StBounds, ServicesBounds
<1> QED
  BY <1>1, <1>2 DEF StInv, StTypes, StTypeOK

\* What the calls count, and the last request.
AcBounds ==
  /\ phase \in {"none", "validated"} /\ latest \in Configs
  /\ asks \in 0..MaxCalls /\ overrides \in 0..MaxOverrides
  /\ failures \subseteq {"vote", "split", "validate", "commit"}

LEMMA AcBoundsHold ==
  ASSUME ServicesBounds
  PROVE  /\ AcInit => AcBounds
         /\ AcBounds /\ [AcNext]_acVars => AcBounds'
<1> USE DEF ServicesBounds
<1>1. ASSUME AcInit PROVE AcBounds
  <2>1. PICK g \in Groups : latest = <<g, MaxFps>> /\ phase = "none" /\ asks = 0
                            /\ overrides = 0 /\ failures = {}
    BY <1>1 DEF AcInit
  <2> QED
    BY <2>1, RatesBounds, ConfigFields DEF AcBounds
<1>2. ASSUME AcBounds, [AcNext]_acVars PROVE AcBounds'
  <2> HIDE DEF Configs, Group, Fps
  <2>1. ASSUME NEW c \in Configs, SetActiveConfig(c) PROVE AcBounds'
    BY <1>2, <2>1 DEF SetActiveConfig, Ask, AcBounds
  <2>2. ASSUME NEW c \in Configs, NEW seamless, NEW due,
               SetActiveConfigWithConstraints(c, seamless, due)
        PROVE  AcBounds'
    BY <1>2, <2>2 DEF SetActiveConfigWithConstraints, Ask, AcBounds
  <2>3. CASE Override
    BY <1>2, <2>3 DEF Override, AcBounds
  <2>4. CASE TimePasses
    BY <1>2, <2>4 DEF TimePasses, AcBounds
  <2>5. ASSUME NEW fails, Fails({"vote", "split", "validate", "commit"}, fails)
        PROVE  failures' \subseteq {"vote", "split", "validate", "commit"}
    BY <1>2, <2>5 DEF Fails, AcBounds
  <2>6. CASE Draw \/ Shows
    <3>1. PICK fails : Fails({"vote", "split", "validate", "commit"}, fails)
      BY <2>6 DEF Draw, Shows, Validate, ValidateAndCommit, Present, Fails
    <3>2. phase' \in {phase, "none", "validated"} /\ UNCHANGED <<latest, asks, overrides>>
      BY <2>6 DEF Draw, Shows, Validate, ValidateAndCommit, Present
    <3> QED
      BY <1>2, <2>5, <3>1, <3>2 DEF AcBounds
  <2>7. CASE UNCHANGED acVars
    BY <1>2, <2>7 DEF acVars, AcBounds
  <2> QED
    BY <1>2, <2>1, <2>2, <2>3, <2>4, <2>6, <2>7
       DEF AcNext, SetActiveDisplayConfig, ForceRefreshRate, TurnOffAndOn
<1> QED
  BY <1>1, <1>2

\* The types of the configurations.
LEMMA AcTyped == AcInv /\ AcBounds => AcTypeOK
BY DEF AcInv, AcBounds, AcTypeOK, Rest, ReqStates, SdmStates

\* The event that waits, and the one that is fetched.
Events == (IF workAvail = 0 THEN 0 ELSE 1) + (IF monitor.at = "fetch" THEN 1 ELSE 0)

\* Each frame in the ring is that of an event, and at most two events are on their way.
HgBounds ==
  /\ clock \in 0..MaxTime /\ starts \in 0..MaxStarts /\ events \in 0..MaxEvents
  /\ workAvail \in 0..MaxStarts
  /\ monitor.work \in 0..MaxStarts /\ monitor.start \in 0..MaxStarts
  /\ inserted \in Nat /\ inserted + Events <= events
  /\ cumulative \in [count : 0..inserted, bin : Nat]
  /\ ring \in Seq(H!Entry)

\* A frame is inserted for an event that was fetched.
LEMMA InsertKeepsBounds ==
  ASSUME HgInv, Ordered, HgBounds, NEW frame \in Frames, H!Insert(frame)
  PROVE  HgBounds'
<1> DEFINE n == IF Len(ring) = RingSize THEN Len(ring) - 1 ELSE Len(ring)
<1>1. /\ n \in Nat /\ n <= Len(ring)
      /\ ring' \in Seq(AnyEntry) /\ Len(ring') = n + 1
      /\ ring'[1] = [start |-> clock, end |-> 0, data |-> frame]
      /\ n >= 1 => ring'[2] = [ring[1] EXCEPT !.end = clock]
      /\ \A i \in 3..(n + 1) : ring'[i] = ring[i - 1]
  BY InsertedShape DEF H!Insert
<1> HIDE DEF n
<1>2. clock \in 0..MaxTime /\ 0 \in 0..MaxTime /\ Len(ring) \in Nat
  BY HistogramAssumption DEF HgBounds
<1>3. \A i \in 1..n : ring[i] \in H!Entry
  BY <1>1, <1>2 DEF HgBounds
<1>4. ring' \in Seq(H!Entry)
  <2>1. ring'[1] \in H!Entry
    BY <1>1, <1>2 DEF H!Entry
  <2>2. n >= 1 => ring'[2] \in H!Entry
    <3>1. \A e \in H!Entry : [e EXCEPT !.end = clock] \in H!Entry
      BY <1>2 DEF H!Entry
    <3> QED
      BY <3>1, <1>1, <1>3
  <2>3. \A i \in 3..(n + 1) : ring'[i] \in H!Entry
    <3>1. \A i \in 3..(n + 1) : i - 1 \in 1..n
      BY <1>1
    <3> QED
      BY <3>1, <1>1, <1>3
  <2>4. \A i \in 1..(n + 1) : i = 1 \/ (i = 2 /\ n >= 1) \/ i \in 3..(n + 1)
    BY <1>1
  <2>5. \A i \in 1..Len(ring') : ring'[i] \in H!Entry
    BY <1>1, <2>1, <2>2, <2>3, <2>4
  <2>6. ring' \in [1..Len(ring') -> AnyEntry] /\ Len(ring') \in Nat
    BY <1>1
  <2> HIDE DEF AnyEntry, H!Entry
  <2>7. ring' \in [1..Len(ring') -> H!Entry]
    BY <2>5, <2>6
  <2> QED
    BY <2>6, <2>7, SeqDef
<1>5. inserted' = inserted + 1 /\ monitor'.at = "look" /\ Events' + 1 = Events
  BY DEF H!Insert, HgInv, HgBounds, Events
<1>6. cumulative' \in [count : 0..inserted', bin : Nat]
  <2>1. CASE ring = <<>>
    BY <2>1, <1>5 DEF H!Insert, H!UpdateCumulative, HgBounds
  <2>2. CASE ring # <<>>
    <3>1. ring[1] \in AnyEntry /\ ring[1].start <= clock /\ clock \in Nat
      <4>1. 1 \in 1..Len(ring)
        BY <2>2, <1>2, EmptySeq DEF HgBounds
      <4> QED
        BY <4>1 DEF Ordered
    <3> DEFINE w == ring[1].data * H!Shown(ring[1].start, clock)
    <3>2. w \in Nat
      BY <3>1, WeightIsNat DEF AnyEntry
    <3>3. cumulative' = [count |-> cumulative.count + 1, bin |-> cumulative.bin + w]
      BY <2>2 DEF H!Insert, H!UpdateCumulative, HgBounds
    <3> HIDE DEF w
    <3> QED
      BY <3>2, <3>3, <1>5 DEF HgBounds
  <2> QED
    BY <2>1, <2>2
<1> QED
  BY <1>4, <1>5, <1>6 DEF H!Insert, HgInv, HgBounds, Events

\* What is not in the ring.
LEMMA ControlKeepsBounds ==
  ASSUME HgBounds, UNCHANGED <<clock, inserted, cumulative, ring>>,
         starts' \in 0..MaxStarts, events' \in 0..MaxEvents, workAvail' \in 0..MaxStarts,
         monitor'.work \in 0..MaxStarts, monitor'.start \in 0..MaxStarts,
         inserted + Events' <= events'
  PROVE  HgBounds'
BY DEF HgBounds

LEMMA HgBoundsHold ==
  ASSUME ServicesBounds
  PROVE  /\ H!HgInit => HgBounds
         /\ HgInv /\ Ordered /\ HgBounds /\ [H!HgNext]_histogramVars => HgBounds'
<1>1. H!HgInit => HgBounds
  <2>1. <<>> \in Seq(H!Entry)
    OBVIOUS
  <2> QED
    BY <2>1, HistogramAssumption DEF H!HgInit, HgBounds, Events, ServicesBounds
<1>2. ASSUME HgInv, Ordered, HgBounds, [H!HgNext]_histogramVars PROVE HgBounds'
  <2>1. CASE H!Start
    <3>1. <<>> \in Seq(H!Entry) /\ 0 \in 0..MaxStarts /\ 0 \in 0..0
      BY DEF ServicesBounds
    <3>2. /\ ring' = <<>> /\ cumulative' = [count |-> 0, bin |-> 0] /\ inserted' = 0
          /\ UNCHANGED <<workAvail, clock, events>>
          /\ starts' = starts + 1 /\ starts' \in 0..MaxStarts
      BY <1>2, <2>1 DEF H!Start, HgBounds, ServicesBounds
    <3>3. monitor' = [at |-> "look", work |-> 0, start |-> starts']
      BY <2>1 DEF H!Start
    <3>4. inserted \in Nat /\ inserted' + Events' <= events'
      BY <1>2, <3>2, <3>3 DEF HgBounds, Events
    <3>5. cumulative' \in [count : 0..inserted', bin : Nat]
      BY <3>1, <3>2
    <3> QED
      BY <1>2, <3>1, <3>2, <3>3, <3>4, <3>5 DEF HgBounds
  <2>2. CASE H!Stop \/ H!Join \/ H!NotifyEvent \/ H!Wait \/ H!Discard
    <3>1. /\ UNCHANGED <<clock, starts, inserted, cumulative, ring>>
          /\ events' = events \/ (events' = events + 1 /\ events < MaxEvents)
      BY <2>2 DEF H!Stop, H!Join, H!NotifyEvent, H!Wait, H!Discard
    <3>2. workAvail' \in {workAvail, starts, 0}
      BY <2>2 DEF H!Stop, H!Join, H!NotifyEvent, H!Wait, H!Discard
    <3>3. /\ monitor'.start = monitor.start
          /\ monitor'.work \in {monitor.work, workAvail}
          /\ Events' <= Events + (events' - events)
      <4> USE <1>2 DEF HgInv, HgBounds, Events
      <4>1. CASE H!Stop
        BY <4>1 DEF H!Stop, H!Notified
      <4>2. CASE H!Join
        BY <4>2 DEF H!Join
      <4>3. CASE H!NotifyEvent
        <5>1. /\ monitor'.work = monitor.work /\ monitor'.start = monitor.start
              /\ monitor'.at = "fetch" <=> monitor.at = "fetch"
          BY <4>3 DEF H!NotifyEvent, H!Notified
        <5>2. events' = events + 1
          BY <4>3 DEF H!NotifyEvent
        <5> QED
          BY <5>1, <5>2
      <4>4. CASE H!Wait
        BY <4>4 DEF H!Wait
      <4>5. CASE H!Discard
        BY <4>5 DEF H!Discard
      <4> QED
        BY <2>2, <4>1, <4>2, <4>3, <4>4, <4>5
    <3>4. /\ Events \in Nat /\ Events' \in Nat /\ inserted \in Nat /\ events \in Nat
          /\ inserted + Events <= events
      BY <1>2 DEF Events, HgBounds
    <3>5. inserted + Events' <= events'
      <4>1. \A i, p, q, e, f \in Nat : i + p <= e /\ q <= p + (f - e) => i + q <= f
        OBVIOUS
      <4>2. events' \in Nat
        BY <3>1, <3>4
      <4> QED
        BY <3>3, <3>4, <4>1, <4>2
    <3>6. /\ starts' \in 0..MaxStarts /\ workAvail' \in 0..MaxStarts
          /\ monitor'.work \in 0..MaxStarts /\ monitor'.start \in 0..MaxStarts
      <4>1. /\ 0 \in 0..MaxStarts /\ starts \in 0..MaxStarts /\ workAvail \in 0..MaxStarts
            /\ monitor.work \in 0..MaxStarts /\ monitor.start \in 0..MaxStarts
        BY <1>2 DEF HgBounds, ServicesBounds
      <4> QED
        BY <3>1, <3>2, <3>3, <4>1
    <3>7. events' \in 0..MaxEvents
      <4>1. events \in 0..MaxEvents /\ MaxEvents \in Nat
        BY <1>2 DEF HgBounds, ServicesBounds
      <4> QED
        BY <3>1, <4>1
    <3> QED
      BY <1>2, <3>1, <3>5, <3>6, <3>7, ControlKeepsBounds
  <2>3. ASSUME NEW frame \in Frames, H!Insert(frame) PROVE HgBounds'
    BY <1>2, <2>3, InsertKeepsBounds
  <2>4. CASE H!Tick
    BY <1>2, <2>4, HistogramAssumption DEF H!Tick, HgBounds, Events
  <2>5. CASE UNCHANGED histogramVars
    BY <1>2, <2>5 DEF histogramVars, HgBounds, Events
  <2> QED
    BY <1>2, <2>1, <2>2, <2>3, <2>4, <2>5 DEF H!HgNext, H!MonitorStep
<1> QED
  BY <1>1, <1>2

\* The types of the histogram.
LEMMA HgTyped == ASSUME ServicesBounds PROVE HgInv /\ Ordered /\ HgBounds => H!HgTypeOK
<1> SUFFICES ASSUME HgInv, Ordered, HgBounds PROVE H!HgTypeOK
  OBVIOUS
<1>1. Events \in {0, 1, 2} /\ inserted \in 0..MaxEvents
  BY DEF HgBounds, Events, ServicesBounds
<1>2. cumulative \in [count : 0..MaxEvents, bin : Nat]
  BY <1>1 DEF HgBounds, ServicesBounds
<1>3. monitor \in [at : {"none", "look", "blocked", "fetch", "exited"}, work : 0..MaxStarts,
                   start : 0..MaxStarts]
  BY DEF HgInv, HgBounds
<1> QED
  BY <1>1, <1>2, <1>3 DEF HgInv, HgBounds, Ordered, H!HgTypeOK

\* Every variable of the four components has its type: counters stay within what the guards
\* allow, a ring holds no frame without an event, one item at most is taken from the queue.
THEOREM ServicesTypes == ASSUME ServicesBounds PROVE Spec => []TypeOK
<1> DEFINE Bounds == CbBounds /\ StBounds /\ HgBounds /\ AcBounds
<1>1. Init => Bounds
  BY CbBoundsHold, StBoundsHold, HgBoundsHold, AcBoundsHold DEF Init
<1>2. ServicesInv /\ Bounds /\ [Next]_vars => Bounds'
  BY CbBoundsHold, StBoundsHold, HgBoundsHold, AcBoundsHold, ComponentSteps
     DEF ServicesInv, RingInv
<1>3. ServicesInv /\ Bounds => TypeOK
  BY CbTyped, StTyped, HgTyped, AcTyped DEF ServicesInv, RingInv, TypeOK
<1> QED
  BY <1>1, <1>2, <1>3, ServicesInvariance, PTL DEF Spec
=============================================================================
