----------------------------- MODULE Histogram -----------------------------
(***************************************************************************)
(* The histogram collector of a built-in display and its ring buffer.       *)
(*                                                                         *)
(* The display's clients start and stop the sampling, one at a time under   *)
(* sampling_mutex.  The DRM event thread announces a histogram blob; the    *)
(* blob thread fetches it with the mutex released and inserts it into the   *)
(* ring buffer that start created.  A histogram is one bucket, and times    *)
(* are in halves of the millisecond the code truncates to.                  *)
(***************************************************************************)
EXTENDS Naturals, Sequences, SequencesExt

CONSTANTS
  Frames,     \* the values of the bucket
  RingSize,   \* rb_max_size, from the client's max_frames
  MaxTime,    \* bound on the clock
  MaxStarts,  \* bound on the times the sampling is started
  MaxEvents   \* bound on the histogram events

VARIABLES
  started,    \* started
  workAvail,  \* work_available and blobwork: the start its event belongs to, or none
  monitor,    \* monitoring_thread: where it is, what it fetches, the start that made it
  stopper,    \* the client in start or stop
  ring,       \* the ring buffer, the newest frame first
  cumulative, \* cumulative_frame_count and cumulative_bins
  clock,      \* the monotonic clock
  starts, events, \* how many there were
  inserted    \* the number of frames inserted since the last start

hgVars == <<started, workAvail, monitor, stopper, ring, cumulative, clock, starts, events, inserted>>

Entry == [start : 0..MaxTime, end : 0..MaxTime, data : Frames]

HgTypeOK ==
  /\ started \in BOOLEAN
  /\ workAvail \in 0..MaxStarts
  /\ monitor \in [at : {"none", "look", "blocked", "fetch", "exited"}, work : 0..MaxStarts,
                  start : 0..MaxStarts]
  /\ stopper \in {"rest", "join"}
  /\ ring \in Seq(Entry) /\ Len(ring) <= RingSize
  /\ cumulative \in [count : 0..MaxEvents, bin : Nat]
  /\ clock \in 0..MaxTime
  /\ starts \in 0..MaxStarts /\ events \in 0..MaxEvents /\ inserted \in 0..MaxEvents

HgInit ==
  /\ started = FALSE /\ workAvail = 0
  /\ monitor = [at |-> "none", work |-> 0, start |-> 0]
  /\ stopper = "rest"
  /\ ring = <<>> /\ cumulative = [count |-> 0, bin |-> 0]
  /\ clock = 0 /\ starts = 0 /\ events = 0 /\ inserted = 0

-----------------------------------------------------------------------------
(* The ring buffer. *)

Shown(from, to) == (to - from) \div 2

\* update_cumulative: the frame on display until now is added.
UpdateCumulative(cum, now) ==
  IF ring = <<>> THEN cum
  ELSE [count |-> cum.count + 1, bin |-> cum.bin + Head(ring).data * Shown(Head(ring).start, now)]

\* insert: the oldest frame leaves a full ring.
Popped(rb) == IF Len(rb) = RingSize THEN Front(rb) ELSE rb

\* Broken variant: the frame that was on display is left without its end.
EndedNever(rb, now) == rb

Ended(rb, now) == IF rb = <<>> THEN rb ELSE [rb EXCEPT ![1].end = now]

Inserted(frame, now) == <<[start |-> now, end |-> 0, data |-> frame]>> \o Ended(Popped(ring), now)

\* The sum of w[1], ..., w[n].
Total(w, n) == LET sum[i \in 0..n] == IF i = 0 THEN 0 ELSE sum[i - 1] + w[i] IN sum[n]

\* collect_max: the newest frames, the first of them on display until now.
CollectMax(max, now) ==
  LET n == IF max < Len(ring) THEN max ELSE Len(ring)
      End(i) == IF i = 1 THEN now ELSE ring[i].end
  IN [count |-> n,
      bin |-> Total([i \in 1..n |-> ring[i].data * Shown(ring[i].start, End(i))], n)]

\* Broken variant: a frame that starts at the timestamp is left out.
FilterBeginStrict(timestamp) ==
  CHOOSE n \in 0..Len(ring) :
    (n > 0 => ring[n].start > timestamp) /\ (n < Len(ring) => ring[n + 1].start <= timestamp)

\* lower_bound: the search by halves ends where a frame from timestamp on is followed by
\* an earlier one.  That is one place only if the ring is ordered by start.
FilterBegin(timestamp) ==
  CHOOSE n \in 0..Len(ring) :
    (n > 0 => ring[n].start >= timestamp) /\ (n < Len(ring) => ring[n + 1].start < timestamp)

CollectMaxAfter(timestamp, max, now) ==
  LET after == FilterBegin(timestamp)
  IN CollectMax(IF max < after THEN max ELSE after, now)

-----------------------------------------------------------------------------
(* The collector. *)

Notified(t) == IF t.at = "blocked" THEN [t EXCEPT !.at = "look"] ELSE t

Start ==
  /\ stopper = "rest" /\ ~started /\ starts < MaxStarts
  /\ started' = TRUE
  /\ starts' = starts + 1
  /\ monitor' = [at |-> "look", work |-> 0, start |-> starts + 1]
  /\ ring' = <<>> /\ cumulative' = [count |-> 0, bin |-> 0] /\ inserted' = 0
  /\ UNCHANGED <<workAvail, stopper, clock, events>>

\* Broken variant: the thread is not told.
StopQuietly ==
  /\ stopper = "rest" /\ started
  /\ started' = FALSE
  /\ stopper' = "join"
  /\ UNCHANGED <<workAvail, monitor, ring, cumulative, clock, starts, events, inserted>>

\* Broken variant: stop does not wait for the thread.
StopNoJoin ==
  /\ stopper = "rest" /\ started
  /\ started' = FALSE
  /\ monitor' = Notified(monitor)
  /\ UNCHANGED <<workAvail, stopper, ring, cumulative, clock, starts, events, inserted>>

Stop ==
  /\ stopper = "rest" /\ started
  /\ started' = FALSE
  /\ monitor' = Notified(monitor)
  /\ stopper' = "join"
  /\ UNCHANGED <<workAvail, ring, cumulative, clock, starts, events, inserted>>

Join ==
  /\ stopper = "join" /\ monitor.at = "exited"
  /\ stopper' = "rest"
  /\ monitor' = [monitor EXCEPT !.at = "none"]
  /\ UNCHANGED <<started, workAvail, ring, cumulative, clock, starts, events, inserted>>

\* Broken variant: the thread is not notified.
NotifyNobody ==
  /\ events < MaxEvents /\ events' = events + 1
  /\ workAvail' = IF started THEN starts ELSE workAvail
  /\ UNCHANGED <<started, stopper, monitor, ring, cumulative, clock, starts, inserted>>

\* notify_histogram_event: an event nobody consumed yet is replaced.
NotifyEvent ==
  /\ events < MaxEvents /\ events' = events + 1
  /\ IF started THEN workAvail' = starts /\ monitor' = Notified(monitor)
     ELSE UNCHANGED <<workAvail, monitor>>
  /\ UNCHANGED <<started, stopper, ring, cumulative, clock, starts, inserted>>

\* blob_processing_thread, with the mutex.  A thread that is told to stop leaves the work.
Wait ==
  /\ monitor.at = "look"
  /\ monitor' = IF ~started THEN [monitor EXCEPT !.at = "exited"]
                ELSE IF workAvail = 0 THEN [monitor EXCEPT !.at = "blocked"]
                ELSE [monitor EXCEPT !.at = "fetch", !.work = workAvail]
  /\ workAvail' = IF started THEN 0 ELSE workAvail
  /\ UNCHANGED <<started, stopper, ring, cumulative, clock, starts, events, inserted>>

\* The blob could not be read or does not pass hist_data_validate.
Discard ==
  /\ monitor.at = "fetch"
  /\ monitor' = [monitor EXCEPT !.at = "look"]
  /\ UNCHANGED <<started, workAvail, stopper, ring, cumulative, clock, starts, events, inserted>>

Insert(frame) ==
  /\ monitor.at = "fetch"
  /\ monitor' = [monitor EXCEPT !.at = "look"]
  /\ cumulative' = UpdateCumulative(cumulative, clock)
  /\ ring' = Inserted(frame, clock)
  /\ inserted' = inserted + 1
  /\ UNCHANGED <<started, workAvail, stopper, clock, starts, events>>

Tick ==
  /\ clock < MaxTime /\ clock' = clock + 1
  /\ UNCHANGED <<started, workAvail, monitor, stopper, ring, cumulative, starts, events, inserted>>

MonitorStep == Wait \/ Discard \/ \E frame \in Frames : Insert(frame)

HgNext == Start \/ Stop \/ Join \/ NotifyEvent \/ MonitorStep \/ Tick

HgSpec == HgInit /\ [][HgNext]_hgVars /\ WF_hgVars(MonitorStep) /\ WF_hgVars(Join)

-----------------------------------------------------------------------------
(* Properties. *)

\* The running total and the sum over the ring are kept by different code and agree as
\* long as no frame has left the ring (ringbuffer.cpp:49-72, 83-89, 102-107, 130-149).
TotalsAgree == inserted <= RingSize => UpdateCumulative(cumulative, clock) = CollectMax(Len(ring), clock)

\* A sample "after" a time has the frames of the ring that came on display then or
\* later, and every frame in it ends when the next one starts (ringbuffer.cpp:83-89,
\* 152-160).
AfterHasTheFrames ==
  \A t \in 0..MaxTime :
    LET after == {i \in DOMAIN ring : ring[i].start >= t}
        sample == CollectMaxAfter(t, Len(ring), clock)
    IN /\ 1..sample.count = after
       /\ \A i \in after : i <= sample.count /\ (i > 1 => ring[i].end = ring[i - 1].start)

\* start, which assigns to monitoring_thread and replaces the ring buffer, never finds
\* the blob thread of an earlier start: stop gave up the mutex, but joined it
\* (histogram_collector.cpp:154-170).
NoThreadAtStart == stopper = "rest" /\ ~started => monitor.at = "none"

\* stop ends: the thread that waits for events sees that it is to return.
StopReturns == stopper = "join" ~> stopper = "rest"

\* An announced event is consumed unless the sampling is stopped first.
EventIsConsumed == started /\ workAvail # 0 ~> workAvail = 0 \/ ~started
=============================================================================
