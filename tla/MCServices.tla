----------------------------- MODULE MCServices -----------------------------
(***************************************************************************)
(* Four components that share no state, checked side by side: "part" is    *)
(* the one that moves in a behavior.                                        *)
(***************************************************************************)
EXTENDS Callbacks, SyncTask, ActiveConfig

CONSTANTS Frames, RingSize, MaxTime, MaxStarts, MaxEvents

\* The counts of a histogram are unsigned, and create refuses a ring of no frame.
ASSUME HistogramAssumption == Frames \subseteq Nat /\ RingSize \in Nat \ {0} /\ MaxTime \in Nat

VARIABLES started, workAvail, monitor, stopper, ring, cumulative, clock, starts, events, inserted,
          part

H == INSTANCE Histogram

callbackVars == <<fn, cbData, cbQueue, cbRunning, cbThread, cbClient, waiter, reported, called>>
taskVars == <<callerMutex, workerMutex, caller, worker, taskContext, exit, pending, tasks, done,
              early>>
histogramVars == <<started, workAvail, monitor, stopper, ring, cumulative, clock, starts, events,
                   inserted>>
vars == <<callbackVars, taskVars, histogramVars, acVars, part>>

CallbacksOnly(Step) ==
  part = "callbacks" /\ Step /\ UNCHANGED <<taskVars, histogramVars, acVars, part>>
SyncTaskOnly(Step) ==
  part = "task" /\ Step /\ UNCHANGED <<callbackVars, histogramVars, acVars, part>>
HistogramOnly(Step) ==
  part = "histogram" /\ Step /\ UNCHANGED <<callbackVars, taskVars, acVars, part>>
ConfigOnly(Step) ==
  part = "config" /\ Step /\ UNCHANGED <<callbackVars, taskVars, histogramVars, part>>

Init ==
  /\ CbInit /\ StInit /\ H!HgInit /\ AcInit
  /\ part \in {"callbacks", "task", "histogram", "config"}
  /\ part = "config" \/ screen = CHOOSE c \in Configs : Fps(c) = MaxFps   \* one start

Next ==
  \/ CallbacksOnly(CbNext) \/ SyncTaskOnly(StNext)
  \/ HistogramOnly(H!HgNext) \/ ConfigOnly(AcNext)

\* The fairness of each specification: as one part moves in a behavior, one condition
\* stands for one of every component.
Fairness ==
  /\ WF_vars(\/ CallbacksOnly(ThreadStep) \/ SyncTaskOnly(CallerStep)
             \/ HistogramOnly(H!MonitorStep) \/ ConfigOnly(TimePasses))
  /\ WF_vars(\/ CallbacksOnly(WaiterStep) \/ SyncTaskOnly(WorkerStep)
             \/ HistogramOnly(H!Join) \/ ConfigOnly(DrawsWhenAsked))
  /\ WF_vars(CallbacksOnly(RegisterStep) \/ ConfigOnly(Shows))

Spec == Init /\ [][Next]_vars /\ Fairness

\* Every variable of the components has its type.
TypeOK == CbTypeOK /\ StTypeOK /\ H!HgTypeOK /\ AcTypeOK

\* Nothing is used after its owner went: the data of a client that deregistered, or the
\* context of a task on the stack of its caller, as long as the caller's waits ended by a
\* notification (see Callbacks, SyncTask).
NoLateUse == GoneLeavesNothing /\ ThreadHasItsData /\ ContextIsAlive

\* A call that returned has done its work: the task of PerformTask was done, once, as long
\* as its waits ended by a notification, and then its locks are taken in order; stop has
\* left no thread for the next start to find (see SyncTask, Histogram).
CallsAreComplete == DoneOnReturn /\ LocksInOrder /\ H!NoThreadAtStart

\* What is kept in several places agrees: the totals of the histogram are those of all
\* frames, and a query has each frame it covers; the panel runs the configuration the
\* client is told, and the vote covers it (see Histogram, ActiveConfig).
ViewsAgree ==
  /\ H!TotalsAgree /\ H!AfterHasTheFrames
  /\ ScreenIsAsTold /\ VoteCoversScreen

\* Every Hotplug and stop returns, and every PerformTask but those that a wait ended early
\* has led into a circle of locks (see Callbacks, SyncTask, Histogram).
EveryCallReturns ==
  /\ HotplugReturns
  /\ part = "task" => CallReturns
  /\ H!StopReturns

\* What was put off is taken up: reports to the client, events of the driver, a
\* configuration the client asked for (see Callbacks, Histogram, ActiveConfig).
QueuesAreWorkedOff == QueueDrains /\ H!EventIsConsumed /\ RequestsAreTakenUp
=============================================================================
