-------------------------- MODULE CwbSessionProofs --------------------------
(***************************************************************************)
(* Proofs about CwbSession, for any sets of requests, buffers and tasks.    *)
(***************************************************************************)
EXTENDS CwbSession, SequenceTheorems, TLAPS

Types ==
  /\ pc \in [Requests -> {"new", "capture", "complete", "reject", "accepted", "rejected"}]
  /\ buf \in [Requests -> Buffers]
  /\ queue \in Seq(Requests)
  /\ notified \in [Requests -> Statuses \cup {"none"}]
  /\ completed \in [Requests -> BOOLEAN]
  /\ running \in BOOLEAN
  /\ task \in [Tasks -> {"absent", "check", "wait", "woken", "deliver"}]
  /\ cwb_node \in [Tasks -> Requests \cup {NoTask}]
  /\ captured \in SUBSET Buffers

\* The nodes of the queue have different buffers, so each is there once; a call knows
\* whether it has queued its node, and a node is complete when its call succeeded.
Nodes ==
  /\ \A i, j \in 1..Len(queue) : buf[queue[i]] = buf[queue[j]] => i = j
  /\ \A i \in 1..Len(queue) : pc[queue[i]] # "new"
  /\ \A r \in Requests : pc[r] \in {"capture", "complete"} => \E i \in 1..Len(queue) : queue[i] = r
  /\ \A r \in Requests : completed[r] <=> pc[r] = "accepted"
  /\ \A r \in Requests : r \in closed => pc[r] \in {"accepted", "rejected"}
  /\ \A i \in 1..Len(queue) : queue[i] \in closed => pc[queue[i]] = "rejected"

\* A buffer is with the manager exactly while its node waits for a status.
Captures ==
  /\ \A b \in captured : \E i \in 1..Len(queue) : buf[queue[i]] = b
  /\ \A r \in Requests : pc[r] = "new" => notified[r] = "none"
  /\ \A i \in 1..Len(queue) :
       LET r == queue[i] IN
       /\ pc[r] \in {"capture", "reject", "rejected"} => buf[r] \notin captured /\ notified[r] = "none"
       /\ pc[r] \in {"complete", "accepted"} => (buf[r] \in captured <=> notified[r] = "none")

\* The one task that lives while running is set, where it is.
OneTask ==
  /\ \A s, t \in Tasks : Live(s) /\ Live(t) => s = t
  /\ running <=> \E t \in Tasks : Live(t)
  /\ (\E i \in 1..Len(queue) : completed[queue[i]]) => running

Waiting == \A t \in Tasks :
  /\ task[t] \in {"wait", "woken"} =>
       queue # <<>> /\ queue[1] = cwb_node[t] /\ completed[cwb_node[t]]
  /\ task[t] = "wait" => notified[cwb_node[t]] = "none"

Delivering == \A t \in Tasks : task[t] = "deliver" =>
  /\ cwb_node[t] \in Requests
  /\ notified[cwb_node[t]] # "none" /\ completed[cwb_node[t]]
  /\ cwb_node[t] \notin closed
  /\ \A i \in 1..Len(queue) : queue[i] # cwb_node[t]

CwbInv == Types /\ Nodes /\ Captures /\ OneTask /\ Waiting /\ Delivering

-----------------------------------------------------------------------------
(* Facts about sequences. *)

LEMMA AppendFacts ==
  ASSUME NEW S, NEW s \in Seq(S), NEW x \in S
  PROVE  /\ Append(s, x) \in Seq(S) /\ Len(Append(s, x)) = Len(s) + 1
         /\ \A i \in 1..Len(s) : Append(s, x)[i] = s[i]
         /\ Append(s, x)[Len(s) + 1] = x
  OBVIOUS

LEMMA TailFacts ==
  ASSUME NEW S, NEW s \in Seq(S), s # <<>>
  PROVE  /\ Tail(s) \in Seq(S) /\ Len(Tail(s)) = Len(s) - 1
         /\ \A i \in 1..(Len(s) - 1) : Tail(s)[i] = s[i + 1]
         /\ Head(s) = s[1] /\ Len(s) \in Nat \ {0}
  OBVIOUS

LEMMA FrontFacts ==
  ASSUME NEW S, NEW s \in Seq(S), s # <<>>
  PROVE  /\ Front(s) \in Seq(S) /\ Len(Front(s)) = Len(s) - 1
         /\ \A i \in 1..(Len(s) - 1) : Front(s)[i] = s[i]
         /\ Last(s) = s[Len(s)] /\ Len(s) \in Nat \ {0}
<1>1. PICK n \in Nat : n = Len(s) - 1 /\ Len(s) \in Nat \ {0}
  OBVIOUS
<1>2. Front(s) = SubSeq(s, 1, n) /\ Last(s) = s[Len(s)]
  BY <1>1 DEF Front, Last
<1>3. \A i \in 1..n : s[i] \in S
  BY <1>1
<1>4. /\ SubSeq(s, 1, n) \in Seq(S)
      /\ Len(SubSeq(s, 1, n)) = IF 1 <= n THEN n - 1 + 1 ELSE 0
      /\ \A i \in 1..(n - 1 + 1) : SubSeq(s, 1, n)[i] = s[1 + i - 1]
  BY <1>3, SubSeqProperties
<1>5. (IF 1 <= n THEN n - 1 + 1 ELSE 0) = n /\ n - 1 + 1 = n /\ \A i \in 1..n : 1 + i - 1 = i
  OBVIOUS
<1>6. Len(Front(s)) = n /\ \A i \in 1..n : Front(s)[i] = s[i]
  BY <1>2, <1>4, <1>5
<1> QED
  BY <1>1, <1>2, <1>4, <1>6

-----------------------------------------------------------------------------
LEMMA InitEstablishes == Init => CwbInv
<1> SUFFICES ASSUME Init PROVE CwbInv
  OBVIOUS
<1> USE DEF Init
<1>1. Types
  <2>1. queue \in Seq(Requests)
    BY EmptySeq
  <2>4. captured \in SUBSET Buffers /\ running \in BOOLEAN
    OBVIOUS
  <2>2. /\ pc \in [Requests -> {"new", "capture", "complete", "reject", "accepted", "rejected"}]
        /\ buf \in [Requests -> Buffers]
        /\ notified \in [Requests -> Statuses \cup {"none"}]
        /\ completed \in [Requests -> BOOLEAN]
    OBVIOUS
  <2>3. /\ task \in [Tasks -> {"absent", "check", "wait", "woken", "deliver"}]
        /\ cwb_node \in [Tasks -> Requests \cup {NoTask}]
    OBVIOUS
  <2> QED
    BY <2>1, <2>2, <2>3, <2>4 DEF Types
<1>2. Nodes
  BY DEF Nodes
<1>3. Captures
  BY DEF Captures
<1>4. OneTask
  BY DEF OneTask, Live
<1>5. Waiting /\ Delivering
  BY DEF Waiting, Delivering
<1> QED
  BY <1>1, <1>2, <1>3, <1>4, <1>5 DEF CwbInv

-----------------------------------------------------------------------------
(* The steps of a call of PostBuffer. *)

LEMMA PostBufferPreserves ==
  ASSUME CwbInv, NEW r \in Requests, PostBuffer(r)
  PROVE  CwbInv'
<1> USE DEF CwbInv, PostBuffer, Goto, session, tasks
<1>1. /\ queue' \in Seq(Requests) /\ Len(queue') = Len(queue) + 1 /\ Len(queue) \in Nat
      /\ \A i \in 1..Len(queue) : queue'[i] = queue[i] /\ queue[i] \in Requests
      /\ queue'[Len(queue) + 1] = r
  BY AppendFacts DEF Types
<1>2. /\ \A i \in 1..Len(queue) : buf[queue[i]] # buf[r]
      /\ \A i \in 1..Len(queue) : queue[i] # r
      /\ buf[r] \notin captured
  BY <1>1 DEF Duplicate, ToSet, Types, Nodes, Captures
<1>3. Types'
  BY <1>1 DEF Types
<1>4. Nodes'
  BY <1>1, <1>2 DEF Types, Nodes
<1>5. Captures'
  <2>1. \A b \in captured' : \E i \in 1..Len(queue') : buf'[queue'[i]] = b
    <3> SUFFICES ASSUME NEW b \in captured PROVE \E i \in 1..Len(queue') : buf[queue'[i]] = b
      OBVIOUS
    <3>1. PICK i \in 1..Len(queue) : buf[queue[i]] = b
      BY DEF Captures
    <3> QED
      BY <1>1, <3>1
  <2>2. \A q \in Requests : pc'[q] = "new" => notified'[q] = "none"
    BY DEF Types, Captures
  <2>3. ASSUME NEW i \in 1..Len(queue')
        PROVE  LET q == queue'[i] IN
               /\ pc'[q] \in {"capture", "reject", "rejected"} => buf'[q] \notin captured' /\ notified'[q] = "none"
               /\ pc'[q] \in {"complete", "accepted"} => (buf'[q] \in captured' <=> notified'[q] = "none")
    <3>1. CASE i \in 1..Len(queue)
      BY <1>1, <1>2, <3>1 DEF Types, Captures
    <3>2. CASE i = Len(queue) + 1
      BY <1>1, <1>2, <3>2 DEF Types, Captures
    <3> QED
      BY <1>1, <3>1, <3>2
  <2> QED
    BY <2>1, <2>2, <2>3 DEF Captures
<1>6. OneTask'
  BY <1>1, <1>2 DEF Types, Nodes, OneTask, Live
<1>7. Waiting' /\ Delivering'
  BY <1>1, <1>2 DEF Types, Nodes, Waiting, Delivering
<1> QED
  BY <1>3, <1>4, <1>5, <1>6, <1>7

LEMMA RefusePreserves ==
  ASSUME CwbInv, NEW r \in Requests, Refuse(r)
  PROVE  CwbInv'
<1> USE DEF CwbInv, Refuse, Goto, session, tasks, history
<1>1. Types'
  BY DEF Types
<1>2. Nodes'
  BY DEF Types, Nodes
<1>3. Captures'
  BY DEF Types, Nodes, Captures
<1>4. OneTask' /\ Waiting' /\ Delivering'
  BY DEF OneTask, Live, Waiting, Delivering
<1> QED
  BY <1>1, <1>2, <1>3, <1>4

LEMMA SetReadbackBufferPreserves ==
  ASSUME CwbInv, NEW r \in Requests, SetReadbackBuffer(r)
  PROVE  CwbInv'
<1> USE DEF CwbInv, SetReadbackBuffer, Goto, session, tasks, history
<1>1. Types'
  BY DEF Types
<1>2. Nodes'
  BY DEF Types, Nodes
<1>3. PICK i \in 1..Len(queue) : queue[i] = r
  BY DEF Nodes
<1>4. Captures'
  <2>1. \A b \in captured' : \E j \in 1..Len(queue) : buf[queue[j]] = b
    BY <1>3 DEF Captures
  <2>2. \A q \in Requests : pc'[q] = "new" => notified[q] = "none"
    BY DEF Types, Captures
  <2>3. ASSUME NEW j \in 1..Len(queue)
        PROVE  LET q == queue[j] IN
               /\ pc'[q] \in {"capture", "reject", "rejected"} => buf[q] \notin captured' /\ notified[q] = "none"
               /\ pc'[q] \in {"complete", "accepted"} => (buf[q] \in captured' <=> notified[q] = "none")
    <3>1. queue[j] \in Requests
      BY DEF Types
    <3>2. CASE j = i
      BY <1>3, <3>2 DEF Types, Captures
    <3>3. CASE j # i
      <4>1. buf[queue[j]] # buf[r] /\ queue[j] # r
        BY <1>3, <3>3 DEF Nodes
      <4> QED
        BY <3>1, <4>1 DEF Types, Captures
    <3> QED
      BY <3>2, <3>3
  <2> QED
    BY <2>1, <2>2, <2>3 DEF Captures
<1>5. OneTask' /\ Waiting' /\ Delivering'
  BY DEF OneTask, Live, Waiting, Delivering
<1> QED
  BY <1>1, <1>2, <1>4, <1>5

LEMMA RejectPreserves ==
  ASSUME CwbInv, NEW r \in Requests, Reject(r)
  PROVE  CwbInv'
<1> USE DEF CwbInv, Reject, Goto, tasks, history
<1>1. PICK n \in Nat : /\ queue' \in Seq(Requests) /\ n = Len(queue') /\ n <= Len(queue)
                       /\ \A i \in 1..n : queue'[i] = queue[i] /\ i \in 1..Len(queue)
                       /\ \A i \in 1..Len(queue) : i > n => queue[i] = r
                       /\ queue' # queue => queue # <<>> /\ queue[Len(queue)] = r
  <2>1. CASE queue' = queue
    BY <2>1 DEF Types
  <2>2. CASE queue' # queue
    <3>1. queue # <<>> /\ Last(queue) = r /\ queue' = Front(queue)
      BY <2>2
    <3>2. /\ queue' \in Seq(Requests) /\ Len(queue') = Len(queue) - 1 /\ Len(queue) \in Nat \ {0}
          /\ \A i \in 1..(Len(queue) - 1) : queue'[i] = queue[i]
          /\ queue[Len(queue)] = r
      BY <3>1, FrontFacts DEF Types
    <3> QED
      BY <3>1, <3>2
  <2> QED
    BY <2>1, <2>2
<1>2. \A i \in 1..Len(queue) : queue[i] \in Requests
  BY DEF Types
<1>3. Types'
  BY <1>1 DEF Types
<1>4. Nodes'
  <2>1. \A i, j \in 1..Len(queue') : buf[queue'[i]] = buf[queue'[j]] => i = j
    BY <1>1 DEF Nodes
  <2>2. \A i \in 1..Len(queue') : pc'[queue'[i]] # "new"
    BY <1>1, <1>2 DEF Types, Nodes
  <2>3. ASSUME NEW q \in Requests, pc'[q] \in {"capture", "complete"}
        PROVE  \E i \in 1..Len(queue') : queue'[i] = q
    <3>1. q # r /\ pc[q] \in {"capture", "complete"}
      BY <2>3 DEF Types
    <3>2. PICK i \in 1..Len(queue) : queue[i] = q
      BY <3>1 DEF Nodes
    <3> QED
      BY <1>1, <3>1, <3>2
  <2>4. \A q \in Requests : completed'[q] <=> pc'[q] = "accepted"
    BY DEF Types, Nodes
  <2>5. /\ \A q \in Requests : q \in closed' => pc'[q] \in {"accepted", "rejected"}
        /\ \A i \in 1..Len(queue') : queue'[i] \in closed' => pc'[queue'[i]] = "rejected"
    BY <1>1, <1>2 DEF Types, Nodes
  <2> QED
    BY <2>1, <2>2, <2>3, <2>4, <2>5 DEF Nodes
<1>5. Captures'
  <2>1. ASSUME NEW b \in captured' PROVE \E i \in 1..Len(queue') : buf'[queue'[i]] = b
    <3>1. PICK i \in 1..Len(queue) : buf[queue[i]] = b
      BY <2>1 DEF Captures
    <3>2. queue[i] # r
      BY <2>1, <3>1 DEF Captures
    <3> QED
      BY <1>1, <3>1, <3>2
  <2>2. \A q \in Requests : pc'[q] = "new" => notified'[q] = "none"
    BY DEF Types, Captures
  <2>3. ASSUME NEW i \in 1..Len(queue')
        PROVE  LET q == queue'[i] IN
               /\ pc'[q] \in {"capture", "reject", "rejected"} => buf'[q] \notin captured' /\ notified'[q] = "none"
               /\ pc'[q] \in {"complete", "accepted"} => (buf'[q] \in captured' <=> notified'[q] = "none")
    BY <1>1, <1>2 DEF Types, Captures
  <2> QED
    BY <2>1, <2>2, <2>3 DEF Captures
<1>6. OneTask'
  BY <1>1 DEF OneTask, Live
<1>7. Waiting'
  <2>1. ASSUME NEW t \in Tasks, task[t] \in {"wait", "woken"} PROVE queue' # <<>> /\ queue'[1] = queue[1]
    <3>1. queue # <<>> /\ completed[queue[1]] /\ Len(queue) \in Nat \ {0}
      BY <2>1 DEF Waiting, Types
    <3>2. queue[1] # r
      BY <3>1, <1>2 DEF Nodes
    <3>3. n >= 1
      BY <1>1, <3>1, <3>2
    <3> QED
      BY <1>1, <3>3
  <2> QED
    BY <2>1 DEF Waiting
<1>8. Delivering'
  <2>1. \A t \in Tasks : task[t] = "deliver" => cwb_node[t] # r
    BY DEF Delivering, Nodes
  <2> QED
    BY <1>1, <2>1 DEF Delivering
<1> QED
  BY <1>3, <1>4, <1>5, <1>6, <1>7, <1>8

LEMMA CompletePreserves ==
  ASSUME CwbInv, NEW r \in Requests, Complete(r)
  PROVE  CwbInv'
<1> USE DEF CwbInv, Complete, Goto, history
<1>1. \A i \in 1..Len(queue) : queue[i] \in Requests
  BY DEF Types
<1>2. PICK i \in 1..Len(queue) : queue[i] = r
  BY DEF Nodes
<1>3. Types'
  BY DEF Types, StartTask
<1>4. Nodes' /\ Captures'
  <2>1. Nodes'
    BY <1>1 DEF Types, Nodes
  <2>2. \A q \in Requests : pc'[q] = "new" => notified[q] = "none"
    BY DEF Types, Captures
  <2>3. ASSUME NEW j \in 1..Len(queue)
        PROVE  LET q == queue[j] IN
               /\ pc'[q] \in {"capture", "reject", "rejected"} => buf[q] \notin captured /\ notified[q] = "none"
               /\ pc'[q] \in {"complete", "accepted"} => (buf[q] \in captured <=> notified[q] = "none")
    BY <1>1 DEF Types, Captures
  <2> QED
    BY <2>1, <2>2, <2>3 DEF Captures
<1>5. OneTask'
  <2>1. queue # <<>>
    BY <1>2
  <2>2. CASE running
    BY <2>2 DEF Types, OneTask, Live
  <2>3. CASE ~running
    <3>1. PICK t \in Tasks : task' = [task EXCEPT ![t] = "check"]
      BY <2>1, <2>3 DEF StartTask
    <3>2. \A s \in Tasks : task[s] = "absent"
      BY <2>3 DEF OneTask, Live
    <3>3. running'
      BY <2>1, <2>3 DEF StartTask
    <3> QED
      BY <3>1, <3>2, <3>3 DEF Types, OneTask, Live
  <2> QED
    BY <2>2, <2>3
<1>6. Waiting' /\ Delivering'
  BY DEF Types, Waiting, Delivering, StartTask
<1> QED
  BY <1>3, <1>4, <1>5, <1>6

-----------------------------------------------------------------------------
(* The report of a buffer. *)

LEMMA NotifyCwbDonePreserves ==
  ASSUME CwbInv, NEW b \in Buffers, NEW status \in Statuses, NotifyCwbDone(b, status)
  PROVE  CwbInv'
<1> USE DEF CwbInv, NotifyCwbDone, history
<1>1. PICK i \in 1..Len(queue) : buf[queue[i]] = b
  BY DEF Captures
<1>2. /\ queue[i] \in Requests /\ pc[queue[i]] \in {"complete", "accepted"} /\ notified[queue[i]] = "none"
      /\ \A j \in 1..Len(queue) : queue[j] \in Requests /\ (buf[queue[j]] = b => j = i)
  BY <1>1 DEF Types, Nodes, Captures
<1>3. Unnotified(b) = {queue[i]}
  BY <1>1, <1>2 DEF Unnotified, ToSet, Types
<1>4. SelectInSeq(queue, LAMBDA r : r \in Unnotified(b)) = i
  <2>1. {j \in 1..Len(queue) : queue[j] \in Unnotified(b)} = {i}
    BY <1>1, <1>2, <1>3
  <2>2. SelectInSeq(queue, LAMBDA r : r \in Unnotified(b)) = Min({i})
    BY <2>1 DEF SelectInSeq
  <2>3. Min({i}) = i
    BY <1>1 DEF Min
  <2> QED
    BY <2>2, <2>3
<1>5. notified' = [notified EXCEPT ![queue[i]] = status] /\ WakeOne
  BY <1>3, <1>4
<1>6. status # "none"
  BY DEF Statuses
<1>7. Types'
  BY <1>2, <1>5 DEF Types, WakeOne
<1>8. Nodes'
  BY DEF Nodes
<1>9. Captures'
  BY <1>1, <1>2, <1>5, <1>6 DEF Types, Captures
<1>10. \A t \in Tasks : task'[t] # "wait" /\ (task'[t] = task[t] \/ (task[t] = "wait" /\ task'[t] = "woken"))
  <2>1. ASSUME \A t \in Tasks : task[t] # "wait", task' = task
        PROVE  \A t \in Tasks : task'[t] # "wait" /\ (task'[t] = task[t] \/ (task[t] = "wait" /\ task'[t] = "woken"))
    BY <2>1
  <2>2. ASSUME NEW w \in Tasks, task[w] = "wait", task' = [task EXCEPT ![w] = "woken"]
        PROVE  \A t \in Tasks : task'[t] # "wait" /\ (task'[t] = task[t] \/ (task[t] = "wait" /\ task'[t] = "woken"))
    <3>1. \A t \in Tasks : t # w => task[t] = "absent"
      BY <2>2 DEF OneTask, Live
    <3>2. \A t \in Tasks : task'[t] = IF t = w THEN "woken" ELSE task[t]
      BY <2>2 DEF Types
    <3> QED
      BY <2>2, <3>1, <3>2
  <2> QED
    BY <1>5, <2>1, <2>2 DEF WakeOne
<1>11. OneTask'
  BY <1>10 DEF OneTask, Live
<1>12. Waiting'
  BY <1>10 DEF Waiting
<1>13. Delivering'
  BY <1>1, <1>5, <1>6, <1>10 DEF Delivering, Types
<1> QED
  BY <1>7, <1>8, <1>9, <1>11, <1>12, <1>13

-----------------------------------------------------------------------------
(* The steps of the async task. *)

\* While one task lives the others do not, wherever it goes.
LEMMA OthersAbsent ==
  ASSUME CwbInv, NEW t \in Tasks, task[t] # "absent"
  PROVE  \A s \in Tasks : s # t => task[s] = "absent"
  BY DEF CwbInv, OneTask, Live

LEMMA PopPreserves ==
  ASSUME CwbInv, NEW t \in Tasks, task[t] # "absent",
         queue # <<>>, completed[queue[1]], notified[queue[1]] # "none",
         queue' = Tail(queue), task' = [task EXCEPT ![t] = "deliver"],
         cwb_node' = [cwb_node EXCEPT ![t] = queue[1]],
         UNCHANGED <<pc, buf, notified, completed, running, captured, closed>>
  PROVE  CwbInv'
<1> USE DEF CwbInv
<1>1. /\ queue' \in Seq(Requests) /\ Len(queue) \in Nat \ {0} /\ Len(queue') = Len(queue) - 1
      /\ \A i \in 1..Len(queue') : queue'[i] = queue[i + 1] /\ i + 1 \in 1..Len(queue)
      /\ \A i \in 1..Len(queue) : i # 1 => i - 1 \in 1..Len(queue') /\ queue'[i - 1] = queue[i]
      /\ \A i \in 1..Len(queue) : queue[i] \in Requests
      /\ 1 \in 1..Len(queue)
  BY TailFacts DEF Types
<1>2. pc[queue[1]] = "accepted" /\ buf[queue[1]] \notin captured /\ queue[1] \notin closed
  BY <1>1 DEF Nodes, Captures
<1>3. \A i \in 1..Len(queue') : queue'[i] # queue[1]
  BY <1>1 DEF Nodes
<1>4. Types'
  BY <1>1 DEF Types
<1>5. Nodes'
  <2>1. \A i, j \in 1..Len(queue') : buf'[queue'[i]] = buf'[queue'[j]] => i = j
    <3> SUFFICES ASSUME NEW i \in 1..Len(queue'), NEW j \in 1..Len(queue'), buf[queue'[i]] = buf[queue'[j]]
                 PROVE  i = j
      OBVIOUS
    <3>1. i + 1 = j + 1
      BY <1>1 DEF Nodes
    <3> QED
      BY <3>1
  <2>2. ASSUME NEW q \in Requests, pc[q] \in {"capture", "complete"}
        PROVE  \E i \in 1..Len(queue') : queue'[i] = q
    <3>1. PICK i \in 1..Len(queue) : queue[i] = q
      BY <2>2 DEF Nodes
    <3> QED
      BY <1>1, <1>2, <2>2, <3>1
  <2>3. \A i \in 1..Len(queue') : pc[queue'[i]] # "new" /\ (queue'[i] \in closed => pc[queue'[i]] = "rejected")
    BY <1>1 DEF Nodes
  <2> QED
    BY <2>1, <2>2, <2>3 DEF Nodes
<1>6. Captures'
  <2>1. ASSUME NEW b \in captured PROVE \E i \in 1..Len(queue') : buf[queue'[i]] = b
    <3>1. PICK i \in 1..Len(queue) : buf[queue[i]] = b
      BY DEF Captures
    <3> QED
      BY <1>1, <1>2, <3>1
  <2> QED
    BY <1>1, <2>1 DEF Captures
<1>7. \A s \in Tasks : s # t => task[s] = "absent" /\ task'[s] = "absent"
  BY OthersAbsent DEF Types
<1>8. task'[t] = "deliver" /\ cwb_node'[t] = queue[1]
  BY DEF Types
<1>9. OneTask'
  <2>1. running
    BY DEF OneTask, Live
  <2> QED
    BY <2>1, <1>7, <1>8 DEF OneTask, Live
<1>10. Waiting' /\ Delivering'
  BY <1>1, <1>2, <1>3, <1>7, <1>8 DEF Waiting, Delivering
<1> QED
  BY <1>4, <1>5, <1>6, <1>9, <1>10

LEMMA TaskExitPreserves ==
  ASSUME CwbInv, NEW t \in Tasks, TaskExit(t)
  PROVE  CwbInv'
<1> USE DEF CwbInv, TaskExit, history
<1>1. \A s \in Tasks : task'[s] = "absent"
  BY OthersAbsent DEF Types
<1>2. Types'
  BY DEF Types
<1>3. Nodes' /\ Captures'
  BY DEF Nodes, Captures
<1>4. OneTask'
  BY <1>1 DEF OneTask, Live
<1>5. Waiting' /\ Delivering'
  BY <1>1 DEF Waiting, Delivering
<1> QED
  BY <1>2, <1>3, <1>4, <1>5

\* A step that moves a live task to another place where it lives, and leaves the rest.
LEMMA MovePreserves ==
  ASSUME CwbInv, NEW t \in Tasks, task[t] # "absent", NEW where \in {"check", "wait", "woken"},
         task' = [task EXCEPT ![t] = where],
         where # "check" =>
           queue # <<>> /\ queue[1] = cwb_node'[t] /\ completed[cwb_node'[t]],
         where = "wait" => notified[cwb_node'[t]] = "none",
         cwb_node' = cwb_node \/ (queue # <<>> /\ cwb_node' = [cwb_node EXCEPT ![t] = queue[1]]),
         closed' = closed \/ (task[t] = "deliver" /\ closed' = closed \cup {cwb_node[t]}),
         UNCHANGED <<pc, buf, queue, notified, completed, running, captured>>
  PROVE  CwbInv'
<1> USE DEF CwbInv
<1>1. Types'
  <2>1. queue # <<>> => queue[1] \in Requests
    BY DEF Types
  <2> QED
    BY <2>1 DEF Types
<1>2. Nodes'
  BY DEF Nodes, Delivering
<1>3. Captures'
  BY DEF Captures
<1>4. /\ \A s \in Tasks : s # t => task[s] = "absent" /\ task'[s] = "absent"
      /\ task'[t] = where
  BY OthersAbsent DEF Types
<1>5. OneTask'
  <2>1. running
    BY DEF OneTask, Live
  <2> QED
    BY <2>1, <1>4 DEF OneTask, Live
<1>6. Waiting' /\ Delivering'
  BY <1>4 DEF Waiting, Delivering
<1> QED
  BY <1>1, <1>2, <1>3, <1>5, <1>6

LEMMA TaskCheckPreserves ==
  ASSUME CwbInv, NEW t \in Tasks, TaskCheck(t)
  PROVE  CwbInv'
<1> USE DEF TaskCheck
<1>1. Head(queue) = queue[1]
  BY DEF CwbInv, Types
<1>2. CASE notified[Head(queue)] = "none"
  <2>1. cwb_node'[t] = queue[1]
    BY <1>1 DEF CwbInv, Types
  <2> QED
    BY <1>1, <1>2, <2>1, MovePreserves
<1>3. CASE notified[Head(queue)] # "none"
  BY <1>1, <1>3, PopPreserves DEF Pop
<1> QED
  BY <1>2, <1>3

LEMMA TaskWokenPreserves ==
  ASSUME CwbInv, NEW t \in Tasks, TaskWoken(t)
  PROVE  CwbInv'
<1> USE DEF TaskWoken
<1>1. queue # <<>> /\ queue[1] = cwb_node[t] /\ completed[cwb_node[t]]
  BY DEF CwbInv, Waiting
<1>2. CASE notified[cwb_node[t]] = "none"
  BY <1>1, <1>2, MovePreserves
<1>3. CASE notified[cwb_node[t]] # "none"
  <2>1. cwb_node' = [cwb_node EXCEPT ![t] = queue[1]]
    BY <1>1 DEF CwbInv, Types
  <2> QED
    BY <1>1, <1>3, <2>1, PopPreserves DEF Pop
<1> QED
  BY <1>2, <1>3

LEMMA NotifyCWBStatusPreserves ==
  ASSUME CwbInv, NEW t \in Tasks, NotifyCWBStatus(t)
  PROVE  CwbInv'
  BY MovePreserves DEF NotifyCWBStatus, session

LEMMA SpuriousWakePreserves ==
  ASSUME CwbInv, NEW t \in Tasks, SpuriousWake(t)
  PROVE  CwbInv'
  BY MovePreserves DEF SpuriousWake, session, CwbInv, Waiting

-----------------------------------------------------------------------------
LEMMA StepPreserves == CwbInv /\ [Next]_vars => CwbInv'
<1> SUFFICES ASSUME CwbInv, [Next]_vars PROVE CwbInv'
  OBVIOUS
<1>1. CASE UNCHANGED vars
  BY <1>1 DEF vars, session, tasks, history, CwbInv, Types, Nodes, Captures, OneTask, Live, Waiting, Delivering
<1>2. ASSUME NEW r \in Requests, PostBuffer(r) \/ Refuse(r) \/ CallStep(r) PROVE CwbInv'
  BY <1>2, PostBufferPreserves, RefusePreserves, SetReadbackBufferPreserves, RejectPreserves,
     CompletePreserves DEF CallStep
<1>3. ASSUME NEW b \in Buffers, NEW status \in Statuses, NotifyCwbDone(b, status) PROVE CwbInv'
  BY <1>3, NotifyCwbDonePreserves
<1>4. ASSUME NEW t \in Tasks, TaskStep(t) \/ SpuriousWake(t) PROVE CwbInv'
  BY <1>4, TaskExitPreserves, TaskCheckPreserves, TaskWokenPreserves, NotifyCWBStatusPreserves,
     SpuriousWakePreserves DEF TaskStep
<1> QED
  BY <1>1, <1>2, <1>3, <1>4 DEF Next

LEMMA Invariance == Spec => []CwbInv
  BY InitEstablishes, StepPreserves, PTL DEF Spec

\* The async task is alone, wakes up to the node it slept for, and never sleeps on one
\* that is done, however posts, reports and rejections interleave.
THEOREM TaskTheorem == Spec => []TaskIsInStep
<1>1. CwbInv => WaitedForIsFront /\ SleepsOnlyUnnotified
  BY DEF CwbInv, Types, Waiting, WaitedForIsFront, SleepsOnlyUnnotified
<1>2. CwbInv => OneTaskWhilePending
  BY DEF CwbInv, Types, OneTask, OneTaskWhilePending, ToSet
<1> QED
  BY <1>1, <1>2, Invariance, PTL DEF TaskIsInStep

\* A report finds exactly one node: no buffer is twice in the queue, and a buffer that
\* the manager has is a node's that waits.
THEOREM ReportTheorem == Spec => []ReportFindsItsNode
<1>1. CwbInv => ReportFindsItsNode
  <2> SUFFICES ASSUME CwbInv, NEW b \in captured PROVE \E r \in Unnotified(b) : Unnotified(b) = {r}
    BY DEF ReportFindsItsNode
  <2> USE DEF CwbInv
  <2>1. PICK i \in 1..Len(queue) : buf[queue[i]] = b
    BY DEF Captures
  <2>2. /\ queue[i] \in Requests /\ notified[queue[i]] = "none"
        /\ \A j \in 1..Len(queue) : buf[queue[j]] = b => j = i
    BY <2>1 DEF Types, Nodes, Captures
  <2>3. Unnotified(b) = {queue[i]}
    BY <2>1, <2>2 DEF Unnotified, ToSet, Types
  <2> QED
    BY <2>3
<1> QED
  BY <1>1, Invariance, PTL

-----------------------------------------------------------------------------
(* The order of the callbacks.  A node is before another when it was queued  *)
(* first; the nodes that were delivered come before the one in delivery, and *)
(* that before those of the queue.                                          *)

In(s, p) == \E a \in 1..Len(s) : s[a] = p
Before(s, p, q) == \A a, b \in 1..Len(s) : s[a] = p /\ s[b] = q => a < b

Pushed ==
  /\ pushed \in Seq(Requests)
  /\ \A a, b \in 1..Len(pushed) : pushed[a] = pushed[b] => a = b
  /\ \A a \in 1..Len(pushed) : pc[pushed[a]] # "new"

QueueInOrder ==
  /\ \A i \in 1..Len(queue) : In(pushed, queue[i])
  /\ \A i, j \in 1..Len(queue) : i < j => Before(pushed, queue[i], queue[j])

DeliveredInOrder ==
  /\ delivered \in Seq(Requests \X (Statuses \cup {"none"}))
  /\ \A i \in 1..Len(delivered) : In(pushed, delivered[i][1])
  /\ \A i, j \in 1..Len(delivered) : i < j => Before(pushed, delivered[i][1], delivered[j][1])
  /\ \A i \in 1..Len(delivered), j \in 1..Len(queue) : Before(pushed, delivered[i][1], queue[j])

DeliveringInOrder == \A t \in Tasks : task[t] = "deliver" =>
  /\ In(pushed, cwb_node[t])
  /\ \A i \in 1..Len(delivered) : Before(pushed, delivered[i][1], cwb_node[t])
  /\ \A j \in 1..Len(queue) : Before(pushed, cwb_node[t], queue[j])

OrderInv == Pushed /\ QueueInOrder /\ DeliveredInOrder /\ DeliveringInOrder

LEMMA OrderInit == Init => OrderInv
<1> SUFFICES ASSUME Init PROVE OrderInv
  OBVIOUS
<1> USE DEF Init
<1>1. pushed \in Seq(Requests) /\ delivered \in Seq(Requests \X (Statuses \cup {"none"}))
  BY EmptySeq
<1>2. Len(pushed) = 0 /\ Len(delivered) = 0 /\ Len(queue) = 0
  OBVIOUS
<1> QED
  BY <1>1, <1>2 DEF OrderInv, Pushed, QueueInOrder, DeliveredInOrder, DeliveringInOrder

\* A new node comes after all others.
LEMMA OrderPost ==
  ASSUME CwbInv, OrderInv, NEW r \in Requests, PostBuffer(r)
  PROVE  OrderInv'
<1> USE DEF PostBuffer, Goto, tasks, session
<1>1. /\ pushed' \in Seq(Requests) /\ Len(pushed') = Len(pushed) + 1 /\ Len(pushed) \in Nat
      /\ \A a \in 1..Len(pushed) : pushed'[a] = pushed[a] /\ pushed[a] \in Requests /\ pushed[a] # r
      /\ pushed'[Len(pushed) + 1] = r
  BY AppendFacts DEF OrderInv, Pushed
<1>2. /\ queue' \in Seq(Requests) /\ Len(queue') = Len(queue) + 1 /\ Len(queue) \in Nat
      /\ \A i \in 1..Len(queue) : queue'[i] = queue[i]
      /\ queue'[Len(queue) + 1] = r
  BY AppendFacts DEF CwbInv, Types
<1>3. In(pushed', r) /\ \A p : In(pushed, p) => In(pushed', p) /\ Before(pushed', p, r)
  BY <1>1 DEF In, Before
<1>4. ASSUME NEW p, NEW q, In(pushed, p), In(pushed, q), Before(pushed, p, q)
      PROVE  Before(pushed', p, q)
  <2> SUFFICES ASSUME NEW a \in 1..Len(pushed'), NEW b \in 1..Len(pushed'), pushed'[a] = p, pushed'[b] = q
               PROVE  a < b
    BY DEF Before
  <2>1. p # r /\ q # r
    BY <1>1, <1>4 DEF In
  <2>2. a \in 1..Len(pushed) /\ b \in 1..Len(pushed)
    BY <1>1, <2>1
  <2> QED
    BY <1>1, <1>4, <2>2 DEF Before
<1>5. Pushed'
  BY <1>1 DEF OrderInv, Pushed, CwbInv, Types
<1>6. QueueInOrder'
  <2>1. \A i \in 1..Len(queue') : In(pushed', queue'[i])
    BY <1>2, <1>3 DEF OrderInv, QueueInOrder
  <2>2. ASSUME NEW i \in 1..Len(queue'), NEW j \in 1..Len(queue'), i < j
        PROVE  Before(pushed', queue'[i], queue'[j])
    <3>1. i \in 1..Len(queue)
      BY <1>2, <2>2
    <3>2. CASE j = Len(queue) + 1
      BY <1>2, <1>3, <3>1, <3>2 DEF OrderInv, QueueInOrder
    <3>3. CASE j \in 1..Len(queue)
      BY <1>2, <1>4, <2>2, <3>1, <3>3 DEF OrderInv, QueueInOrder
    <3> QED
      BY <1>2, <3>2, <3>3
  <2> QED
    BY <2>1, <2>2 DEF QueueInOrder, In, Before
<1>7. DeliveredInOrder'
  <2>1. ASSUME NEW i \in 1..Len(delivered), NEW j \in 1..Len(queue')
        PROVE  Before(pushed', delivered[i][1], queue'[j])
    <3>1. CASE j = Len(queue) + 1
      BY <1>2, <1>3, <3>1 DEF OrderInv, DeliveredInOrder
    <3>2. CASE j \in 1..Len(queue)
      BY <1>2, <1>4, <3>2 DEF OrderInv, DeliveredInOrder, QueueInOrder
    <3> QED
      BY <1>2, <3>1, <3>2
  <2>2. \A i \in 1..Len(delivered) : In(pushed', delivered[i][1])
    BY <1>3 DEF OrderInv, DeliveredInOrder
  <2>3. \A i, j \in 1..Len(delivered) : i < j => Before(pushed', delivered[i][1], delivered[j][1])
    BY <1>4 DEF OrderInv, DeliveredInOrder
  <2> QED
    BY <2>1, <2>2, <2>3 DEF OrderInv, DeliveredInOrder, In, Before
<1>8. DeliveringInOrder'
  <2> SUFFICES ASSUME NEW t \in Tasks, task[t] = "deliver"
               PROVE  /\ In(pushed', cwb_node[t])
                      /\ \A i \in 1..Len(delivered) : Before(pushed', delivered[i][1], cwb_node[t])
                      /\ \A j \in 1..Len(queue') : Before(pushed', cwb_node[t], queue'[j])
    BY DEF DeliveringInOrder, In, Before
  <2>1. In(pushed, cwb_node[t])
    BY DEF OrderInv, DeliveringInOrder
  <2>2. In(pushed', cwb_node[t])
    BY <1>3, <2>1
  <2>3. \A i \in 1..Len(delivered) : Before(pushed', delivered[i][1], cwb_node[t])
    BY <1>4, <2>1 DEF OrderInv, DeliveringInOrder, DeliveredInOrder
  <2>4. ASSUME NEW j \in 1..Len(queue') PROVE Before(pushed', cwb_node[t], queue'[j])
    <3>1. CASE j = Len(queue) + 1
      BY <1>2, <1>3, <2>1, <3>1
    <3>2. CASE j \in 1..Len(queue)
      BY <1>2, <1>4, <2>1, <3>2 DEF OrderInv, DeliveringInOrder, QueueInOrder
    <3> QED
      BY <1>2, <3>1, <3>2
  <2> QED
    BY <2>2, <2>3, <2>4
<1> QED
  BY <1>5, <1>6, <1>7, <1>8 DEF OrderInv

\* Nodes that leave the queue, but for one that a task takes from its front, leave the
\* order as it is.
LEMMA OrderShrink ==
  ASSUME CwbInv, OrderInv, UNCHANGED <<pushed, delivered>>,
         \A r \in Requests : pc[r] # "new" => pc'[r] # "new",
         NEW k \in {0, 1}, Len(queue') \in Nat,
         \A i \in 1..Len(queue') : i + k \in 1..Len(queue) /\ queue'[i] = queue[i + k],
         \A t \in Tasks : task'[t] = "deliver" =>
           \/ task[t] = "deliver" /\ cwb_node'[t] = cwb_node[t]
           \/ k = 1 /\ 1 \in 1..Len(queue) /\ cwb_node'[t] = queue[1]
  PROVE  OrderInv'
<1>1. Pushed'
  BY DEF OrderInv, Pushed
<1>2. QueueInOrder'
  <2>1. ASSUME NEW i \in 1..Len(queue'), NEW j \in 1..Len(queue'), i < j
        PROVE  Before(pushed, queue'[i], queue'[j])
    <3>1. i + k < j + k
      BY <2>1
    <3> QED
      BY <3>1 DEF OrderInv, QueueInOrder
  <2>2. \A i \in 1..Len(queue') : In(pushed, queue'[i])
    BY DEF OrderInv, QueueInOrder
  <2> QED
    BY <2>1, <2>2 DEF QueueInOrder
<1>3. DeliveredInOrder'
  <2>1. \A i \in 1..Len(delivered), j \in 1..Len(queue') : Before(pushed, delivered[i][1], queue'[j])
    BY DEF OrderInv, DeliveredInOrder
  <2> QED
    BY <2>1 DEF OrderInv, DeliveredInOrder
<1>4. DeliveringInOrder'
  <2> SUFFICES ASSUME NEW t \in Tasks, task'[t] = "deliver"
               PROVE  /\ In(pushed, cwb_node'[t])
                      /\ \A i \in 1..Len(delivered) : Before(pushed, delivered[i][1], cwb_node'[t])
                      /\ \A j \in 1..Len(queue') : Before(pushed, cwb_node'[t], queue'[j])
    BY DEF DeliveringInOrder
  <2>1. CASE task[t] = "deliver" /\ cwb_node'[t] = cwb_node[t]
    BY <2>1 DEF OrderInv, DeliveringInOrder
  <2>2. CASE k = 1 /\ 1 \in 1..Len(queue) /\ cwb_node'[t] = queue[1]
    <3>1. \A j \in 1..Len(queue') : 1 < j + 1 /\ Before(pushed, queue[1], queue'[j])
      BY <2>2 DEF OrderInv, QueueInOrder
    <3>2. In(pushed, queue[1]) /\ \A i \in 1..Len(delivered) : Before(pushed, delivered[i][1], queue[1])
      BY <2>2 DEF OrderInv, QueueInOrder, DeliveredInOrder
    <3> QED
      BY <2>2, <3>1, <3>2
  <2> QED
    BY <2>1, <2>2
<1> QED
  BY <1>1, <1>2, <1>3, <1>4 DEF OrderInv

\* The callback of the node in delivery comes after all others.
LEMMA OrderDeliver ==
  ASSUME CwbInv, OrderInv, NEW t \in Tasks, NotifyCWBStatus(t)
  PROVE  OrderInv'
<1> USE DEF NotifyCWBStatus, session
<1>1. <<cwb_node[t], notified[cwb_node[t]]>> \in Requests \X (Statuses \cup {"none"})
  BY DEF CwbInv, Types, Delivering
<1>2. /\ delivered' \in Seq(Requests \X (Statuses \cup {"none"}))
      /\ Len(delivered') = Len(delivered) + 1 /\ Len(delivered) \in Nat
      /\ \A i \in 1..Len(delivered) : delivered'[i] = delivered[i]
      /\ delivered'[Len(delivered) + 1][1] = cwb_node[t]
  BY <1>1, AppendFacts DEF OrderInv, DeliveredInOrder
<1>3. /\ In(pushed, cwb_node[t])
      /\ \A i \in 1..Len(delivered) : Before(pushed, delivered[i][1], cwb_node[t])
      /\ \A j \in 1..Len(queue) : Before(pushed, cwb_node[t], queue[j])
  BY DEF OrderInv, DeliveringInOrder
<1>4. Pushed' /\ QueueInOrder'
  BY DEF OrderInv, Pushed, QueueInOrder
<1>5. DeliveredInOrder'
  <2>1. ASSUME NEW i \in 1..Len(delivered')
        PROVE  /\ In(pushed, delivered'[i][1])
               /\ \A j \in 1..Len(queue) : Before(pushed, delivered'[i][1], queue[j])
    <3>1. CASE i \in 1..Len(delivered)
      BY <1>2, <3>1 DEF OrderInv, DeliveredInOrder
    <3>2. CASE i = Len(delivered) + 1
      BY <1>2, <1>3, <3>2
    <3> QED
      BY <1>2, <3>1, <3>2
  <2>2. ASSUME NEW i \in 1..Len(delivered'), NEW j \in 1..Len(delivered'), i < j
        PROVE  Before(pushed, delivered'[i][1], delivered'[j][1])
    <3>1. i \in 1..Len(delivered)
      BY <1>2, <2>2
    <3>2. CASE j \in 1..Len(delivered)
      BY <1>2, <2>2, <3>1, <3>2 DEF OrderInv, DeliveredInOrder
    <3>3. CASE j = Len(delivered) + 1
      BY <1>2, <1>3, <3>1, <3>3
    <3> QED
      BY <1>2, <3>2, <3>3
  <2> QED
    BY <1>2, <2>1, <2>2 DEF DeliveredInOrder
<1>6. DeliveringInOrder'
  <2>1. \A s \in Tasks : task'[s] # "deliver"
    BY OthersAbsent DEF CwbInv, Types
  <2> QED
    BY <2>1 DEF DeliveringInOrder
<1> QED
  BY <1>4, <1>5, <1>6 DEF OrderInv

LEMMA OrderStep == CwbInv /\ OrderInv /\ [Next]_vars => OrderInv'
<1> SUFFICES ASSUME CwbInv, OrderInv, [Next]_vars PROVE OrderInv'
  OBVIOUS
<1>1. queue \in Seq(Requests) /\ Len(queue) \in Nat
  BY DEF CwbInv, Types
<1>2. CASE UNCHANGED vars
  BY <1>2 DEF vars, session, tasks, history, OrderInv, Pushed, QueueInOrder, DeliveredInOrder, DeliveringInOrder
<1>3. ASSUME NEW r \in Requests, Refuse(r) \/ SetReadbackBuffer(r) \/ Complete(r) PROVE OrderInv'
  <2>1. /\ UNCHANGED <<pushed, delivered, queue, cwb_node>>
        /\ \A q \in Requests : pc[q] # "new" => pc'[q] # "new"
    BY <1>3 DEF CwbInv, Types, Refuse, SetReadbackBuffer, Complete, Goto, session, tasks, history
  <2>2. \A t \in Tasks : task'[t] = "deliver" => task[t] = "deliver"
    BY <1>3 DEF CwbInv, Types, Refuse, SetReadbackBuffer, Complete, StartTask, tasks
  <2> QED
    BY <1>1, <2>1, <2>2, OrderShrink
<1>4. ASSUME NEW r \in Requests, Reject(r) PROVE OrderInv'
  <2>1. /\ UNCHANGED <<pushed, delivered, cwb_node, task>>
        /\ \A q \in Requests : pc[q] # "new" => pc'[q] # "new"
    BY <1>4 DEF CwbInv, Types, Reject, Goto, tasks, history
  <2>2. /\ Len(queue') \in Nat
        /\ \A i \in 1..Len(queue') : i + 0 \in 1..Len(queue) /\ queue'[i] = queue[i + 0]
    <3>1. CASE queue' = queue
      BY <1>1, <3>1
    <3>2. CASE queue # <<>> /\ queue' = Front(queue)
      BY <1>1, <3>2, FrontFacts
    <3> QED
      BY <1>4, <3>1, <3>2 DEF Reject
  <2> QED
    BY <2>1, <2>2, OrderShrink
<1>5. ASSUME NEW b \in Buffers, NEW status \in Statuses, NotifyCwbDone(b, status) PROVE OrderInv'
  <2>1. \A t \in Tasks : task'[t] = "deliver" => task[t] = "deliver"
    BY <1>5 DEF CwbInv, Types, NotifyCwbDone, WakeOne
  <2> QED
    BY <1>1, <1>5, <2>1, OrderShrink DEF NotifyCwbDone, history
<1>6. ASSUME NEW t \in Tasks, queue # <<>>, Pop(t), cwb_node' = [cwb_node EXCEPT ![t] = queue[1]],
             UNCHANGED <<pc, pushed, delivered>>
      PROVE  OrderInv'
  <2>1. /\ Len(queue') \in Nat /\ 1 \in 1..Len(queue)
        /\ \A i \in 1..Len(queue') : i + 1 \in 1..Len(queue) /\ queue'[i] = queue[i + 1]
    BY <1>1, <1>6, TailFacts DEF Pop
  <2>2. \A s \in Tasks : task'[s] = "deliver" =>
          \/ task[s] = "deliver" /\ cwb_node'[s] = cwb_node[s]
          \/ cwb_node'[s] = queue[1]
    BY <1>6 DEF Pop, CwbInv, Types
  <2> QED
    BY <1>1, <1>6, <2>1, <2>2, OrderShrink
<1>7. ASSUME NEW t \in Tasks, task' = [task EXCEPT ![t] = "check"] \/ task' = [task EXCEPT ![t] = "wait"]
                              \/ task' = [task EXCEPT ![t] = "woken"] \/ task' = [task EXCEPT ![t] = "absent"],
             \A s \in Tasks \ {t} : cwb_node'[s] = cwb_node[s],
             UNCHANGED <<pc, queue, pushed, delivered>>
      PROVE  OrderInv'
  <2>1. \A s \in Tasks : task'[s] = "deliver" => task[s] = "deliver" /\ cwb_node'[s] = cwb_node[s]
    BY <1>7 DEF CwbInv, Types
  <2> QED
    BY <1>1, <1>7, <2>1, OrderShrink
<1>8. ASSUME NEW t \in Tasks, TaskCheck(t) PROVE OrderInv'
  <2>1. Head(queue) = queue[1] /\ queue # <<>> /\ UNCHANGED <<pc, pushed, delivered>>
    BY <1>1, <1>8 DEF TaskCheck, history
  <2>2. cwb_node' = [cwb_node EXCEPT ![t] = queue[1]]
    BY <1>8, <2>1 DEF TaskCheck
  <2>3. \A s \in Tasks \ {t} : cwb_node'[s] = cwb_node[s]
    BY <2>2 DEF CwbInv, Types
  <2>4. CASE notified[Head(queue)] = "none"
    <3>1. task' = [task EXCEPT ![t] = "wait"] /\ UNCHANGED queue
      BY <1>8, <2>4 DEF TaskCheck
    <3> QED
      BY <1>7, <2>1, <2>3, <3>1
  <2>5. CASE notified[Head(queue)] # "none"
    <3>1. Pop(t)
      BY <1>8, <2>5 DEF TaskCheck
    <3> QED
      BY <1>6, <2>1, <2>2, <3>1
  <2> QED
    BY <2>4, <2>5
<1>9. ASSUME NEW t \in Tasks, TaskWoken(t) PROVE OrderInv'
  <2>1. UNCHANGED <<pc, pushed, delivered, cwb_node>> /\ task[t] = "woken"
    BY <1>9 DEF TaskWoken, history
  <2>2. queue # <<>> /\ queue[1] = cwb_node[t]
    BY <2>1 DEF CwbInv, Waiting
  <2>3. cwb_node' = [cwb_node EXCEPT ![t] = queue[1]]
    BY <2>1, <2>2 DEF CwbInv, Types
  <2>4. CASE notified[cwb_node[t]] = "none"
    <3>1. task' = [task EXCEPT ![t] = "check"] /\ UNCHANGED queue
      BY <1>9, <2>4 DEF TaskWoken
    <3> QED
      BY <1>7, <2>1, <3>1
  <2>5. CASE notified[cwb_node[t]] # "none"
    <3>1. Pop(t)
      BY <1>9, <2>5 DEF TaskWoken
    <3> QED
      BY <1>6, <2>1, <2>2, <2>3, <3>1
  <2> QED
    BY <2>4, <2>5
<1>10. ASSUME NEW t \in Tasks, TaskExit(t) PROVE OrderInv'
  <2>1. /\ UNCHANGED <<pc, queue, pushed, delivered>>
        /\ cwb_node' = [cwb_node EXCEPT ![t] = NoTask]
        /\ task' = [task EXCEPT ![t] = "absent"]
    BY <1>10 DEF TaskExit, history
  <2>2. \A s \in Tasks \ {t} : cwb_node'[s] = cwb_node[s]
    BY <2>1 DEF CwbInv, Types
  <2> QED
    BY <1>7, <2>1, <2>2
<1>11. ASSUME NEW t \in Tasks, SpuriousWake(t) PROVE OrderInv'
  <2>1. /\ UNCHANGED <<pc, queue, pushed, delivered, cwb_node>>
        /\ task' = [task EXCEPT ![t] = "woken"]
    BY <1>11 DEF SpuriousWake, session, history
  <2> QED
    BY <1>7, <2>1
<1> QED
  BY <1>2, <1>3, <1>4, <1>5, <1>8, <1>9, <1>10, <1>11, OrderPost, OrderDeliver DEF Next, CallStep, TaskStep

\* Clients are called back in the order of the queue, at most once each, and only when
\* their own buffer is done (ProcessCWBStatus).
THEOREM OrderTheorem == Spec => []CallbacksInOrder
<1>1. CwbInv => DeliversOnlyDoneRequests
  BY DEF CwbInv, Delivering, DeliversOnlyDoneRequests
<1>2. CwbInv /\ OrderInv => DeliveredInQueueOrder
  <2> SUFFICES ASSUME OrderInv, NEW i \in DOMAIN delivered, NEW j \in DOMAIN delivered, i < j
               PROVE  Index(delivered[i][1]) < Index(delivered[j][1])
    BY DEF DeliveredInQueueOrder
  <2>1. i \in 1..Len(delivered) /\ j \in 1..Len(delivered)
    BY DEF OrderInv, DeliveredInOrder
  <2>2. ASSUME NEW p, In(pushed, p) PROVE Index(p) \in 1..Len(pushed) /\ pushed[Index(p)] = p
    <3>1. \E a \in DOMAIN pushed : pushed[a] = p
      BY <2>2 DEF In, OrderInv, Pushed
    <3>2. Index(p) \in DOMAIN pushed /\ pushed[Index(p)] = p
      BY <3>1 DEF Index
    <3> QED
      BY <3>2 DEF OrderInv, Pushed
  <2>3. /\ In(pushed, delivered[i][1]) /\ In(pushed, delivered[j][1])
        /\ Before(pushed, delivered[i][1], delivered[j][1])
    BY <2>1 DEF OrderInv, DeliveredInOrder
  <2> QED
    BY <2>2, <2>3 DEF Before
<1>3. Spec => []OrderInv
  BY OrderInit, OrderStep, Invariance, PTL DEF Spec
<1> QED
  BY <1>1, <1>2, <1>3, Invariance, PTL DEF CallbacksInOrder

\* Every variable has its type: what was called back is a request with a status.
THEOREM TypeTheorem == Spec => []TypeOK
<1> DEFINE Rest == /\ closed \in SUBSET Requests /\ pushed \in Seq(Requests)
                   /\ delivered \in Seq(Requests \X Statuses) /\ spurious \in 0..MaxSpurious
<1>1. Init => Rest
  BY MaxSpuriousAssumption DEF Init
<1>2. CwbInv /\ Rest /\ [Next]_vars => Rest'
  <2> SUFFICES ASSUME CwbInv, Rest, [Next]_vars PROVE Rest'
    OBVIOUS
  <2> USE DEF session, tasks, history
  <2>1. CASE UNCHANGED vars
    BY <2>1 DEF vars
  <2>2. ASSUME NEW r \in Requests, PostBuffer(r) PROVE Rest'
    BY <2>2 DEF PostBuffer
  <2>3. ASSUME NEW r \in Requests, Refuse(r) \/ CallStep(r) PROVE Rest'
    BY <2>3 DEF Refuse, CallStep, SetReadbackBuffer, Reject, Complete
  <2>4. ASSUME NEW b \in Buffers, NEW status \in Statuses, NotifyCwbDone(b, status) PROVE Rest'
    BY <2>4 DEF NotifyCwbDone
  <2>5. ASSUME NEW t \in Tasks, TaskExit(t) \/ TaskCheck(t) \/ TaskWoken(t) PROVE Rest'
    BY <2>5 DEF TaskExit, TaskCheck, TaskWoken
  <2>6. ASSUME NEW t \in Tasks, NotifyCWBStatus(t) PROVE Rest'
    <3>1. cwb_node[t] \in Requests /\ notified[cwb_node[t]] \in Statuses
      BY <2>6 DEF NotifyCWBStatus, CwbInv, Delivering, Types
    <3> QED
      BY <2>6, <3>1 DEF NotifyCWBStatus
  <2>7. ASSUME NEW t \in Tasks, SpuriousWake(t) PROVE Rest'
    BY <2>7, MaxSpuriousAssumption DEF SpuriousWake
  <2> QED
    BY <2>1, <2>2, <2>3, <2>4, <2>5, <2>6, <2>7 DEF Next, TaskStep
<1>3. CwbInv /\ Rest => TypeOK
  BY DEF CwbInv, Types, TypeOK
<1> QED
  BY <1>1, <1>2, <1>3, Invariance, PTL DEF Spec
=============================================================================
