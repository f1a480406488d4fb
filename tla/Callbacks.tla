----------------------------- MODULE Callbacks -----------------------------
(***************************************************************************)
(* HWCCallbacks: how the composer client is called back, and how its calls  *)
(* end when the client goes away.                                           *)
(*                                                                         *)
(* Refresh and the hotplug of the displays in Async go through a queue that *)
(* a callback thread empties; the hotplug of any other display calls the    *)
(* client from the thread that reports it.  The thread is started by        *)
(* whichever Register finds none, and every deregistration stops it: it     *)
(* returns only when the queue is empty.  One client at a time exists: it   *)
(* registers its callbacks in the order of Descriptors and deregisters them *)
(* in the same order when it is destroyed.  "vsync" stands for the four     *)
(* descriptors whose functions are only ever called directly.               *)
(*                                                                         *)
(* A callback runs with the lock of its descriptor held, so it is one step. *)
(* Hotplug reports come from under pluggable_handler_lock_, one at a time.  *)
(***************************************************************************)
EXTENDS Naturals, Sequences

CONSTANTS
  Displays,   \* the displays that are reported
  Async,      \* those whose hotplug goes through the queue
  MaxClients, \* bound on the clients that come and go
  MaxReports  \* bound on the refreshes and hotplugs reported

Nobody == 0
Descriptors == <<"hotplug", "refresh", "vsync">>
Items == [cmd : {"hotplug", "refresh"}, display : Displays, state : BOOLEAN]

VARIABLES
  fn,        \* the client each callback function belongs to, Nobody when it is null
  cbData,    \* callback_data_: the client the functions are called with
  cbQueue,   \* callback_queue_
  cbRunning, \* callback_running_
  cbThread,  \* callback_thread_ and what it has popped; see Thread
  cbClient,  \* the composer client, in its calls of Register; see Client
  waiter,    \* a Hotplug that waits for the client to register, or no item
  reported,  \* how many refreshes and hotplugs were reported
  called     \* the last call of the client: its function and data, and by whom

cbVars == <<fn, cbData, cbQueue, cbRunning, cbThread, cbClient, waiter, reported, called>>

Thread == [at : {"none", "look", "sleepy", "blocked", "popped", "exited"}, item : Seq(Items)]
Client == [id : 0..MaxClients, on : BOOLEAN, step : 1..Len(Descriptors),
           at : {"rest", "set", "data", "thread", "stop", "notify", "join"}]
Called == [fn : 0..MaxClients, data : 0..MaxClients, by : {"nobody", "thread", "reporter"}]

CbTypeOK ==
  /\ fn \in [{"hotplug", "refresh", "vsync"} -> 0..MaxClients]
  /\ cbData \in 0..MaxClients
  /\ cbQueue \in Seq(Items)
  /\ cbRunning \in BOOLEAN
  /\ cbThread \in Thread /\ Len(cbThread.item) <= 1
  /\ cbClient \in Client
  /\ waiter \in Seq(Items) /\ Len(waiter) <= 1
  /\ reported \in 0..MaxReports
  /\ called \in Called

CbInit ==
  /\ fn = [d \in {"hotplug", "refresh", "vsync"} |-> Nobody]
  /\ cbData = Nobody
  /\ cbQueue = <<>>
  /\ cbRunning = FALSE
  /\ cbThread = [at |-> "none", item |-> <<>>]
  /\ cbClient = [id |-> 0, on |-> FALSE, step |-> 1, at |-> "rest"]
  /\ waiter = <<>>
  /\ reported = 0
  /\ called = [fn |-> Nobody, data |-> Nobody, by |-> "nobody"]

-----------------------------------------------------------------------------
(* The queue: mutex_ is held from the look at the predicate to the block.   *)

\* notify_one: it reaches the thread only once the thread has blocked.
Notified(t) == IF t.at = "blocked" THEN [t EXCEPT !.at = "look"] ELSE t

\* Broken variant: nobody is notified.
PushQuietly(item, queue) ==
  /\ cbThread.at # "sleepy"
  /\ cbQueue' = Append(queue, item)
  /\ UNCHANGED cbThread

\* push, under mutex_, and its notification.
Push(item, queue) ==
  /\ cbThread.at # "sleepy"
  /\ cbQueue' = Append(queue, item)
  /\ cbThread' = Notified(cbThread)

\* Broken variant: the thread returns as soon as it is told to stop.
LookOnce ==
  /\ cbThread.at = "look"
  /\ cbThread' = IF ~cbRunning
                   THEN [cbThread EXCEPT !.at = "exited"]
                 ELSE IF cbQueue = <<>>
                   THEN [cbThread EXCEPT !.at = "sleepy"]
                   ELSE [at |-> "popped", item |-> <<Head(cbQueue)>>]
  /\ cbQueue' = IF cbQueue = <<>> \/ ~cbRunning THEN cbQueue ELSE Tail(cbQueue)
  /\ UNCHANGED <<fn, cbData, cbRunning, cbClient, waiter, reported, called>>

Look ==
  /\ cbThread.at = "look"
  /\ cbThread' = IF cbQueue = <<>> /\ cbRunning
                   THEN [cbThread EXCEPT !.at = "sleepy"]
                 ELSE IF cbQueue = <<>>
                   THEN [cbThread EXCEPT !.at = "exited"]
                   ELSE [at |-> "popped", item |-> <<Head(cbQueue)>>]
  /\ cbQueue' = IF cbQueue = <<>> THEN cbQueue ELSE Tail(cbQueue)
  /\ UNCHANGED <<fn, cbData, cbRunning, cbClient, waiter, reported, called>>

Block ==
  /\ cbThread.at = "sleepy"
  /\ cbThread' = [cbThread EXCEPT !.at = "blocked"]
  /\ UNCHANGED <<fn, cbData, cbQueue, cbRunning, cbClient, waiter, reported, called>>

-----------------------------------------------------------------------------
(* The calls of the client. *)

Call(by, cmd) == called' = [fn |-> fn[cmd], data |-> cbData, by |-> by]

\* What a hotplug callback does: OnHotplug asks for a refresh of the primary
\* display after a disconnection.
RefreshAfter(item, queue) ==
  IF item.cmd = "hotplug" /\ ~item.state /\ fn["refresh"] # Nobody
    THEN Append(queue, [cmd |-> "refresh", display |-> 0, state |-> FALSE])
    ELSE queue

\* The callback thread runs the callback it popped, or drops it.
Perform ==
  /\ cbThread.at = "popped"
  /\ LET item == cbThread.item[1]
     IN IF fn[item.cmd] # Nobody
          THEN Call("thread", item.cmd) /\ cbQueue' = RefreshAfter(item, cbQueue)
          ELSE UNCHANGED <<called, cbQueue>>
  /\ cbThread' = [at |-> "look", item |-> <<>>]
  /\ UNCHANGED <<fn, cbData, cbRunning, cbClient, waiter, reported>>

Refresh(d) ==
  /\ reported < MaxReports /\ reported' = reported + 1
  /\ fn["refresh"] # Nobody
  /\ Push([cmd |-> "refresh", display |-> d, state |-> FALSE], cbQueue)
  /\ UNCHANGED <<fn, cbData, cbRunning, cbClient, waiter, called>>

\* What Hotplug does once hotplug_ is set.
Report(item) ==
  \/ /\ item.display \in Async
     /\ Push(item, cbQueue)
     /\ UNCHANGED called
  \/ /\ item.display \notin Async
     /\ Call("reporter", "hotplug")
     /\ IF RefreshAfter(item, cbQueue) = cbQueue
          THEN UNCHANGED <<cbQueue, cbThread>>
          ELSE Push([cmd |-> "refresh", display |-> 0, state |-> FALSE], cbQueue)

Hotplug(d, state) ==
  /\ waiter = <<>>
  /\ reported < MaxReports /\ reported' = reported + 1
  /\ LET item == [cmd |-> "hotplug", display |-> d, state |-> state]
     IN IF fn["hotplug"] = Nobody
          THEN waiter' = <<item>> /\ UNCHANGED <<cbQueue, cbThread, called>>
          ELSE Report(item) /\ UNCHANGED waiter
  /\ UNCHANGED <<fn, cbData, cbRunning, cbClient>>

\* Broadcast woke the waiting Hotplug.
HotplugWoken ==
  /\ waiter # <<>> /\ fn["hotplug"] # Nobody
  /\ Report(waiter[1])
  /\ waiter' = <<>>
  /\ UNCHANGED <<fn, cbData, cbRunning, cbClient, reported>>

\* Broken variant: it waits with no limit.
HotplugWaits == FALSE

\* Its five seconds are over, and the hotplug is dropped.
HotplugDropped ==
  /\ waiter # <<>>
  /\ waiter' = <<>>
  /\ UNCHANGED <<fn, cbData, cbQueue, cbRunning, cbThread, cbClient, reported, called>>

-----------------------------------------------------------------------------
(* Register. *)

\* A new client enables its callbacks, or the client disables them.
Connect ==
  /\ cbClient.at = "rest" /\ ~cbClient.on /\ cbClient.id < MaxClients
  /\ cbClient' = [id |-> cbClient.id + 1, on |-> TRUE, step |-> 1, at |-> "set"]
  /\ UNCHANGED <<fn, cbData, cbQueue, cbRunning, cbThread, waiter, reported, called>>

Disconnect ==
  /\ cbClient.at = "rest" /\ cbClient.on
  /\ cbClient' = [cbClient EXCEPT !.on = FALSE, !.step = 1, !.at = "set"]
  /\ UNCHANGED <<fn, cbData, cbQueue, cbRunning, cbThread, waiter, reported, called>>

At(step) == cbClient.at = step /\ cbClient' = [cbClient EXCEPT !.at =
              CASE step = "set" -> "data" [] step = "data" -> "thread"
                [] step = "stop" -> "notify" [] step = "notify" -> "join"]

\* The end of one call of Register.
Registered == IF cbClient.step = Len(Descriptors)
                THEN [cbClient EXCEPT !.at = "rest"]
                ELSE [cbClient EXCEPT !.at = "set", !.step = @ + 1]

\* The function is set, under the descriptor's lock.
SetFn ==
  /\ At("set")
  /\ fn' = [fn EXCEPT ![Descriptors[cbClient.step]] =
              IF cbClient.on THEN cbClient.id ELSE Nobody]
  /\ UNCHANGED <<cbData, cbQueue, cbRunning, cbThread, waiter, reported, called>>

\* Broken variant: a client that comes back leaves the data of the first one.
SetDataOnce ==
  /\ At("data")
  /\ cbData' = IF cbData = Nobody THEN cbClient.id ELSE cbData
  /\ UNCHANGED <<fn, cbQueue, cbRunning, cbThread, waiter, reported, called>>

\* callback_data_ is set under no lock.
SetData ==
  /\ At("data")
  /\ cbData' = cbClient.id
  /\ UNCHANGED <<fn, cbQueue, cbRunning, cbThread, waiter, reported, called>>

StartThread ==
  /\ cbClient.at = "thread"
  /\ cbClient' = IF cbClient.on THEN Registered ELSE [cbClient EXCEPT !.at = "stop"]
  /\ IF cbThread.at = "none"
       THEN cbThread' = [cbThread EXCEPT !.at = "look"] /\ cbRunning' = TRUE
       ELSE UNCHANGED <<cbThread, cbRunning>>
  /\ UNCHANGED <<fn, cbData, cbQueue, waiter, reported, called>>

StopThread ==
  /\ At("stop")
  /\ cbRunning' = FALSE
  /\ UNCHANGED <<fn, cbData, cbQueue, cbThread, waiter, reported, called>>

\* notify() takes no lock.
NotifyThread ==
  /\ At("notify")
  /\ cbThread' = Notified(cbThread)
  /\ UNCHANGED <<fn, cbData, cbQueue, cbRunning, waiter, reported, called>>

Join ==
  /\ cbClient.at = "join" /\ cbThread.at = "exited"
  /\ cbClient' = Registered
  /\ cbThread' = [cbThread EXCEPT !.at = "none"]
  /\ UNCHANGED <<fn, cbData, cbQueue, cbRunning, waiter, reported, called>>

-----------------------------------------------------------------------------
(* Specification: threads run, and a wait with a time limit ends.           *)

ThreadStep == Look \/ Block \/ Perform
WaiterStep == HotplugWoken \/ HotplugDropped
RegisterStep == SetFn \/ SetData \/ StartThread \/ StopThread \/ NotifyThread \/ Join
Reports == \E d \in Displays : Refresh(d) \/ \E state \in BOOLEAN : Hotplug(d, state)

CbNext == ThreadStep \/ WaiterStep \/ RegisterStep \/ Connect \/ Disconnect \/ Reports

CbFairness == WF_cbVars(ThreadStep) /\ WF_cbVars(WaiterStep) /\ WF_cbVars(RegisterStep)

CbSpec == CbInit /\ [][CbNext]_cbVars /\ CbFairness

-----------------------------------------------------------------------------
(* Properties. *)

\* Nothing a client was to be told is left for its successor: once a client has
\* deregistered all its callbacks the queue is empty and no thread is left, however
\* many refreshes were asked for in between (hwc_callbacks.cpp:181-186, 194-196).
GoneLeavesNothing ==
  cbClient.at = "rest" /\ ~cbClient.on => cbQueue = <<>> /\ cbThread.at = "none"

\* The callback thread calls a function with the data of the client it belongs to,
\* although callback_data_ is written under no lock (hwc_callbacks.cpp:172, 203, 210).
ThreadHasItsData == called.by = "thread" => called.fn = called.data

\* A queued callback is delivered or dropped in the end, also when the thread that
\* should deliver it is being stopped.
QueueDrains == cbQueue # <<>> ~> cbQueue = <<>>

\* A hotplug that is reported too early never waits for ever.
HotplugReturns == waiter # <<>> ~> waiter = <<>>

\* "destroy callback thread on De-Register" (hwc_callbacks.cpp:181): the join ends.
DeregisterReturns == cbClient.at = "join" ~> cbClient.at # "join"
=============================================================================
