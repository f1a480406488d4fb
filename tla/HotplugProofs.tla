--------------------------- MODULE HotplugProofs ---------------------------
(***************************************************************************)
(* Proofs about Hotplug, for any displays, slots, displays at boot and      *)
(* bounds.  The inductive invariant HpInv says who can hold the lock of the *)
(* handler and at which step, what a client that registered once has been   *)
(* told, what a deferred event waits for, and that a session of trusted UI  *)
(* has the display alone.                                                   *)
(***************************************************************************)
EXTENDS Hotplug, WellFoundedInduction, TLAPS

\* Who holds the lock at which step, and what the uevent threads owe it.
Shape ==
  /\ run.who = "none" => run = Idle
  /\ run.at = "idle" => run = Idle
  /\ run.who = "tui" => tui /\ run.at \in {"sync", "destroy"} /\ run.snap = {}
  /\ run.who \notin {"none", "tui"} => ~tui
  /\ run.who = "hpd" => hpd.bottom = "busy"
  /\ hpd.bottom \in {"handling", "busy"} => hpd.counter > 0
  /\ hpd.uevents <= used.changes
  /\ run.at = "destroy" => Gone # {}
  /\ hotplugs \subseteq InUse
  /\ client.on => client.connected

\* Nothing happens to pluggable displays before a client registers.
NobodyYet ==
  used.registers = 0 =>
    /\ ~client.on /\ client.view = {}
    /\ InUse = {} /\ event = "None" /\ deferred = 0 /\ frame = "none"
    /\ run.who \in {"none", "tui"} /\ run.err = "none" /\ reg = [at |-> "idle", list |-> {}]
    /\ ~client.connected /\ ~virtual

\* The first client has been told of all that exists and is announced; the display
\* that a handler is about to destroy it has just been told is gone.
FirstClient ==
  /\ used.registers = 1 => reg.list = {}
  /\ used.registers = 1 /\ client.on =>
        client.view = (InUse \ hotplugs) \ (IF run.at = "destroy" THEN {Min(Gone)} ELSE {})

\* No handler looks at the displays: a session of trusted UI does not.
Quiet == run.who \in {"none", "tui"}

\* While no handler looks, what is put off has somebody who takes it up.
PutOff ==
  /\ Quiet /\ hotplugs # {} => event = "Event" \/ deferred > 0
  /\ Quiet /\ event = "Event" /\ client.on =>
      \/ client.refresh \/ frame = "trylock" \/ tui \/ virtual
      \/ deferred > 0 \/ hpd.bottom = "handling" \/ reg.at = "handler"
  /\ Quiet /\ event = "Processing" => deferred > 0

\* A session that is through with TUITransitionStart has the display alone.
Alone == tui /\ run.who # "tui" => InUse = {}

\* The inductive invariant.
HpInv == TypeOK /\ Shape /\ NobodyYet /\ FirstClient /\ PutOff /\ Alone

\* A set of numbers that is not empty has a smallest.
LEMMA MinIsSmallest ==
  ASSUME NEW S \in SUBSET Nat, S # {}
  PROVE  Min(S) \in S /\ \A x \in S : Min(S) <= x
<1> DEFINE Less == {p \in Nat \X Nat : p[1] < p[2]}
<1>1. IsWellFoundedOn(Less, Nat)
  BY NatLessThanWellFounded DEF OpToRel
<1>2. PICK x \in S : \A y \in S : ~(<<y, x>> \in Less)
  BY <1>1, WFMin
<1>3. ASSUME NEW y \in S PROVE x <= y
  <2>1. y \in Nat /\ x \in Nat /\ ~(<<y, x>> \in Less)
    BY <1>2
  <2> QED
    BY <2>1
<1> QED
  BY <1>3 DEF Min

\* The slot that the handler destroys is in use.
LEMMA MinOfGone ==
  ASSUME TypeOK, Gone # {}
  PROVE  Min(Gone) \in Gone /\ Min(Gone) \in InUse /\ Min(Gone) \in Slots
  BY MinIsSmallest, IdsAssumption DEF Gone, InUse

\* A display is created in a free slot.
LEMMA MinOfFree == ASSUME TypeOK, Free # {} PROVE Min(Free) \in Slots /\ slot[Min(Free)] = None
  BY MinIsSmallest, IdsAssumption DEF Free, InUse

\* A display that is created has no slot yet.
LEMMA MinOfCandidates ==
  ASSUME TypeOK, Candidates # {}
  PROVE  /\ Min(Candidates) \in Displays /\ Min(Candidates) # None
         /\ \A s \in Slots : slot[s] # Min(Candidates)
  BY MinIsSmallest, IdsAssumption DEF Candidates, TypeOK, Run, None

\* The bounds are numbers.
LEMMA Bounds == MaxChanges \in Nat /\ MaxRegisters \in Nat /\ MaxOthers \in Nat
  BY BoundsAssumption

\* The counters of the uevent threads are numbers.
LEMMA HpdFields == ASSUME NEW h \in Hpd PROVE h.uevents \in 0..MaxChanges /\ h.counter \in Nat
  BY DEF Hpd

\* The changes the steps make to the state of the uevent threads keep its type.
LEMMA HpdTyped ==
  ASSUME NEW h \in Hpd
  PROVE  /\ \A u \in 0..MaxChanges, c \in Nat :
              [h EXCEPT !.uevents = u, !.counter = c, !.top = "clamp"] \in Hpd
         /\ \A c \in Nat :
              /\ [h EXCEPT !.counter = c, !.top = "read"] \in Hpd
              /\ [h EXCEPT !.counter = c, !.top = "read", !.bottom = "woken"] \in Hpd
              /\ [h EXCEPT !.counter = c, !.bottom = "handling"] \in Hpd
              /\ [h EXCEPT !.counter = c, !.bottom = "waiting"] \in Hpd
         /\ [h EXCEPT !.bottom = "busy"] \in Hpd
  BY Bounds DEF Hpd

\* A thread that handled a uevent counts it down.
LEMMA Counted ==
  ASSUME NEW h \in Hpd, h.counter > 0
  PROVE  /\ BottomCounts(h) \in Hpd
         /\ BottomCounts(h).uevents = h.uevents
         /\ BottomCounts(h).bottom \in {"handling", "waiting"}
         /\ BottomCounts(h).bottom = "handling" => BottomCounts(h).counter > 0
<1>1. h.counter \in Nat /\ h.counter - 1 \in Nat
  BY DEF Hpd
<1>2. CASE h.counter > 1
  <2>1. BottomCounts(h) = [h EXCEPT !.counter = h.counter - 1, !.bottom = "handling"]
    BY <1>2 DEF BottomCounts, Hpd
  <2>2. [h EXCEPT !.counter = h.counter - 1, !.bottom = "handling"] \in Hpd
    BY <1>1, HpdTyped
  <2> QED
    BY <1>1, <1>2, <2>1, <2>2 DEF Hpd
<1>3. CASE ~(h.counter > 1)
  <2>1. BottomCounts(h) = [h EXCEPT !.counter = h.counter - 1, !.bottom = "waiting"]
    BY <1>3 DEF BottomCounts, Hpd
  <2>2. [h EXCEPT !.counter = h.counter - 1, !.bottom = "waiting"] \in Hpd
    BY <1>1, HpdTyped
  <2> QED
    BY <1>1, <1>3, <2>1, <2>2 DEF Hpd
<1> QED
  BY <1>2, <1>3

\* The slots in use depend on the slots only.
LEMMA SameSlots == ASSUME UNCHANGED slot PROVE InUse' = InUse
  BY DEF InUse

\* The slots that are gone depend on the slots and the snapshot only.
LEMMA SameGone == ASSUME UNCHANGED slot, run'.snap = run.snap PROVE Gone' = Gone
  BY DEF InUse, Gone

\* A display that is plugged or unplugged changes only what the driver knows.
LEMMA ChangeKeeps == ASSUME HpInv, NEW d \in Displays, Change(d) PROVE HpInv'
<1> USE Bounds, IdsAssumption
<1>1. TypeOK'
  <2>1. kernel' \subseteq Displays
    BY DEF HpInv, TypeOK, Change
  <2>2. hpd' \in Hpd
    BY DEF HpInv, TypeOK, Change, Hpd, Shape, Used
  <2>3. used' \in Used
    BY DEF HpInv, TypeOK, Change, Used
  <2> QED
    BY <2>1, <2>2, <2>3 DEF HpInv, TypeOK, Change
<1>2. Shape'
  BY DEF HpInv, Shape, Change, TypeOK, InUse, Gone, Hpd, Used
<1>3. NobodyYet' /\ FirstClient'
  BY SameGone DEF HpInv, NobodyYet, Change, TypeOK, FirstClient, InUse
<1>4. PutOff' /\ Alone'
  BY DEF HpInv, PutOff, Change, Quiet, Alone, InUse
<1> QED
  BY <1>1, <1>2, <1>3, <1>4 DEF HpInv

\* A step of a uevent thread changes hpd only, and loses no uevent the client waits for.
LEMMA HpdKeeps ==
  ASSUME HpInv, UNCHANGED hpdOnly, hpd' \in Hpd, hpd'.uevents <= hpd.uevents,
         hpd'.bottom \in {"handling", "busy"} => hpd'.counter > 0,
         hpd.bottom = "busy" => hpd'.bottom = "busy",
         hpd.bottom = "handling" => hpd'.bottom = "handling" \/ ~client.connected
  PROVE  HpInv'
<1>1. TypeOK'
  BY DEF HpInv, TypeOK, hpdOnly
<1>2. Shape'
  <2>1. hpd'.uevents <= used.changes
    BY HpdFields DEF HpInv, TypeOK, Shape, Used
  <2> QED
    BY <2>1, SameSlots, SameGone DEF HpInv, Shape, hpdOnly
<1>3. NobodyYet' /\ FirstClient'
  BY SameSlots, SameGone DEF HpInv, NobodyYet, FirstClient, hpdOnly
<1>4. PutOff' /\ Alone'
  BY SameSlots DEF HpInv, Shape, PutOff, Alone, Quiet, hpdOnly
<1> QED
  BY <1>1, <1>2, <1>3, <1>4 DEF HpInv

\* The uevent threads count events up to a limit and down to zero.
LEMMA UeventsKeep == ASSUME HpInv, Uevents PROVE HpInv'
<1> USE HpdKeeps DEF HpInv, TypeOK, Shape
<1>1. CASE CountUevent
  <2>1. hpd.uevents - 1 \in 0..MaxChanges /\ hpd.counter + 1 \in Nat
    BY <1>1, HpdFields, Bounds DEF CountUevent
  <2>2. hpd' \in Hpd
    BY <1>1, <2>1, HpdTyped DEF CountUevent
  <2>3. hpd'.uevents <= hpd.uevents /\ hpd'.bottom = hpd.bottom /\ hpd'.counter = hpd.counter + 1
    BY <1>1 DEF CountUevent, Hpd
  <2> QED
    BY <1>1, <2>2, <2>3, HpdFields DEF CountUevent
<1>2. CASE NotifyBottom
  <2> DEFINE c == IF hpd.counter > uevent_max_count THEN uevent_max_count ELSE hpd.counter
  <2>1. c \in Nat
    BY HpdFields DEF uevent_max_count
  <2>2. \/ hpd' = [hpd EXCEPT !.counter = c, !.top = "read"]
        \/ hpd' = [hpd EXCEPT !.counter = c, !.top = "read", !.bottom = "woken"]
    BY <1>2 DEF NotifyBottom, Hpd
  <2>3. hpd' \in Hpd
    <3>1. /\ [hpd EXCEPT !.counter = c, !.top = "read"] \in Hpd
          /\ [hpd EXCEPT !.counter = c, !.top = "read", !.bottom = "woken"] \in Hpd
      BY <2>1, HpdTyped
    <3> QED
      BY <2>2, <3>1
  <2>4. /\ hpd'.uevents <= hpd.uevents
        /\ hpd'.bottom # "woken" => hpd'.bottom = hpd.bottom
        /\ hpd.bottom \in {"busy", "handling"} => hpd'.bottom = hpd.bottom
        /\ hpd.counter > 0 => hpd'.counter > 0
    BY <1>2 DEF NotifyBottom, Hpd, uevent_max_count
  <2> QED
    BY <1>2, <2>3, <2>4 DEF NotifyBottom
<1>3. CASE BottomWaits \/ BottomWakes
  <2>1. /\ hpd' \in Hpd /\ hpd'.uevents <= hpd.uevents
        /\ hpd.bottom \notin {"busy", "handling"}
        /\ hpd'.bottom \in {"busy", "handling"} => hpd'.counter > 0
    BY <1>3 DEF BottomWaits, BottomWakes, Hpd
  <2> QED
    BY <1>3, <2>1 DEF BottomWaits, BottomWakes
<1>4. CASE DropUevent
  <2>1. hpd' = BottomCounts(hpd) /\ hpd.counter > 0
    BY <1>4 DEF DropUevent
  <2> QED
    BY <1>4, <2>1, Counted, HpdFields DEF DropUevent
<1> QED
  BY <1>1, <1>2, <1>3, <1>4 DEF Uevents

\* A step of a handler within HandleConnectedDisplays or WaitForResources that creates nothing.
LEMMA RunKeeps ==
  ASSUME HpInv,
         UNCHANGED <<kernel, hpd, slot, shown, hotplugs, event, deferred, reg, frame, tui,
                     virtual>>,
         run' \in Run, run'.who = run.who, run.who # "tui",
         run.at \notin {"idle", "destroy"}, run'.at \notin {"idle", "destroy"},
         client' \in Client,
         client'.on = client.on, client'.connected = client.connected,
         client'.view = client.view,
         used' \in Used, used'.registers = used.registers /\ used'.changes = used.changes
  PROVE  HpInv'
<1>1. run.who \notin {"none", "tui"}
  BY DEF HpInv, Shape, Idle
<1>2. TypeOK'
  BY DEF HpInv, TypeOK
<1>3. Shape'
  BY <1>1, SameSlots DEF HpInv, Shape
<1>4. NobodyYet' /\ FirstClient'
  BY <1>1, SameSlots DEF HpInv, NobodyYet, FirstClient
<1>5. PutOff' /\ Alone'
  BY <1>1, SameSlots DEF HpInv, PutOff, Alone, Quiet
<1> QED
  BY <1>2, <1>3, <1>4, <1>5 DEF HpInv

\* The steps of a handler that only look, wait or ask for a frame.
LEMMA LooksKeep ==
  ASSUME HpInv, GetDisplaysStatus \/ DeferCreation \/ CreateFails \/ AskForFrame \/ WaitForFrame
  PROVE  HpInv'
<1> USE DEF HpInv, TypeOK
<1>1. CASE GetDisplaysStatus
  <2>1. /\ run.who # "tui" /\ run' \in Run /\ run'.who = run.who
        /\ run.at = "status" /\ run'.at = "sync"
    BY <1>1 DEF GetDisplaysStatus, Run, Shape
  <2> QED
    BY <1>1, <2>1, RunKeeps DEF GetDisplaysStatus, runOnly
<1>2. CASE DeferCreation
  <2>1. /\ run.who # "tui" /\ run' \in Run /\ run'.who = run.who
        /\ run.at = "sync" /\ run'.at = "deferred"
    BY <1>2 DEF DeferCreation, ToCreate, Run
  <2>2. client' \in Client /\ client' = [client EXCEPT !.refresh = client'.refresh]
    BY <1>2 DEF DeferCreation, Client
  <2> QED
    BY <1>2, <2>1, <2>2, RunKeeps DEF DeferCreation, Client
<1>3. CASE CreateFails
  <2>1. Min(Candidates) \in Displays /\ run.at = "sync" /\ run.who # "tui"
    BY <1>3, MinOfCandidates DEF CreateFails, ToCreate
  <2>2. run' \in Run /\ run'.who = run.who /\ run'.at = run.at
    BY <1>3, <2>1 DEF CreateFails, Run, None
  <2>3. used' \in Used /\ used'.registers = used.registers /\ used'.changes = used.changes
    <3>1. CASE UNCHANGED used
      BY <3>1
    <3>2. CASE /\ used.others < MaxOthers
               /\ used' = [[used EXCEPT !.failed = TRUE] EXCEPT !.others = @ + 1]
      <4>1. used.others + 1 \in 0..MaxOthers
        BY <3>2, Bounds DEF Used
      <4>2. used' = [used EXCEPT !.failed = TRUE, !.others = used.others + 1]
        BY <3>2 DEF Used
      <4> QED
        BY <4>1, <4>2 DEF Used
    <3> QED
      BY <1>3, <3>1, <3>2 DEF CreateFails, Disturb, Used
  <2> QED
    BY <1>3, <2>1, <2>2, <2>3, RunKeeps DEF CreateFails
<1>4. CASE AskForFrame
  <2>1. /\ run.who # "tui" /\ run' \in Run /\ run'.who = run.who
        /\ run.at \in {"sync", "deferred"} /\ run'.at = "refresh"
    BY <1>4 DEF AskForFrame, Created, Run, Shape
  <2>2. client' \in Client /\ client' = [client EXCEPT !.refresh = client'.refresh]
    BY <1>4 DEF AskForFrame, Client
  <2> QED
    BY <1>4, <2>1, <2>2, RunKeeps DEF AskForFrame, Client
<1>5. CASE WaitForFrame
  <2>1. /\ run.who # "tui" /\ run' \in Run /\ run'.who = run.who
        /\ run.at = "refresh" /\ run'.at = "wait"
    BY <1>5 DEF WaitForFrame, Run, Shape
  <2> QED
    BY <1>5, <2>1, RunKeeps DEF WaitForFrame, runOnly
<1> QED
  BY <1>1, <1>2, <1>3, <1>4, <1>5

\* A handler that enters defers its work, or takes the promise of an event over.
LEMMA EnterKeeps == ASSUME HpInv, Enter PROVE HpInv'
<1>1. PICK who \in {"hpd", "reg", "deferred"} :
        /\ who = "hpd" => hpd.bottom = "handling" /\ client.connected
        /\ who = "reg" => reg.at = "handler"
        /\ who = "deferred" => deferred > 0
        /\ deferred' = IF who = "deferred" THEN deferred - 1 ELSE deferred
        /\ Deferring => event' = "Event" /\ Return(who)
        /\ ~Deferring => /\ run' = [Idle EXCEPT !.who = who, !.at = "status"]
                         /\ hpd' = IF who = "hpd" THEN [hpd EXCEPT !.bottom = "busy"] ELSE hpd
                         /\ reg' = IF who = "reg" THEN [reg EXCEPT !.at = "busy"] ELSE reg
                         /\ UNCHANGED event
  BY DEF Enter
<1>2. /\ run = Idle
      /\ UNCHANGED <<kernel, slot, shown, hotplugs, frame, client, tui, virtual, used>>
  BY DEF Enter
<1>3. /\ hpd' \in Hpd /\ hpd'.uevents = hpd.uevents
      /\ hpd'.bottom \in {"handling", "busy"} => hpd'.counter > 0
      /\ who = "hpd" /\ ~Deferring => hpd'.bottom = "busy"
  <2>1. who = "hpd" => hpd.counter > 0
    BY <1>1 DEF HpInv, Shape
  <2>2. CASE who # "hpd"
    BY <1>1, <2>2 DEF HpInv, TypeOK, Shape, Return
  <2>3. CASE who = "hpd" /\ Deferring
    BY <1>1, <2>1, <2>3, Counted DEF HpInv, TypeOK, Return
  <2>4. CASE who = "hpd" /\ ~Deferring
    <3>1. hpd' = [hpd EXCEPT !.bottom = "busy"]
      BY <1>1, <2>4
    <3> QED
      BY <2>1, <2>4, <3>1 DEF HpInv, TypeOK, Hpd
  <2> QED
    BY <2>2, <2>3, <2>4
<1>4. /\ reg' \in Reg /\ reg'.list = reg.list
      /\ used.registers = 0 => reg' = reg
  BY <1>1 DEF HpInv, TypeOK, Return, Reg, NobodyYet
<1>5. /\ run' = Idle \/ run' = [Idle EXCEPT !.who = who, !.at = "status"]
      /\ Deferring => run' = Idle
  BY <1>1 DEF Return
<1>6. run' \in Run
  <2>1. Idle \in Run
    BY DEF Run, Idle, None
  <2>2. [Idle EXCEPT !.who = who, !.at = "status"] \in Run
    BY <2>1 DEF Run
  <2> QED
    BY <1>5, <2>1, <2>2
<1>7. TypeOK'
  <2>1. deferred' \in Nat
    BY <1>1 DEF HpInv, TypeOK
  <2>2. event' \in {"None", "Event", "Processing"}
    BY <1>1 DEF HpInv, TypeOK
  <2> QED
    BY <1>2, <1>3, <1>4, <1>6, <2>1, <2>2 DEF HpInv, TypeOK
<1>8. Shape'
  <2>1. run' = Idle \/ (run'.who = who /\ run'.at = "status" /\ ~Deferring)
    BY <1>5 DEF Idle
  <2> QED
    BY <1>2, <1>3, <2>1, SameSlots DEF HpInv, Shape, Idle, Deferring
<1>9. used.registers # 0
  BY <1>1 DEF HpInv, NobodyYet
<1>10. NobodyYet' /\ FirstClient'
  BY <1>2, <1>4, <1>5, <1>9, SameSlots DEF HpInv, NobodyYet, FirstClient, Idle
<1>11. PutOff'
  BY <1>1, <1>2, <1>5 DEF PutOff, Quiet, Idle, Deferring
<1>12. Alone'
  BY <1>2, <1>5, SameSlots DEF HpInv, Alone, Deferring
<1> QED
  BY <1>7, <1>8, <1>10, <1>11, <1>12 DEF HpInv

\* The client is told of a display that goes ...
LEMMA NotifyGoneKeeps == ASSUME HpInv, NotifyGone PROVE HpInv'
<1> USE Bounds, IdsAssumption
<1>1. TypeOK'
  <2>1. client' \in Client
    BY DEF HpInv, TypeOK, NotifyGone, Told, Client
  <2>2. run' \in Run
    BY DEF HpInv, TypeOK, NotifyGone, Run
  <2> QED
    BY <2>1, <2>2 DEF HpInv, TypeOK, NotifyGone
<1>2. Shape'
  BY DEF HpInv, Shape, NotifyGone, Told, Idle, InUse, Gone
<1>3. NobodyYet' /\ FirstClient'
  BY DEF HpInv, NobodyYet, NotifyGone, Told, FirstClient, InUse, Gone
<1>4. PutOff' /\ Alone'
  BY DEF HpInv, PutOff, NotifyGone, Told, Quiet, Alone, Gone
<1> QED
  BY <1>1, <1>2, <1>3, <1>4 DEF HpInv

\* ... and the display goes, with its announcement if that still waits.
LEMMA DestroyGoneKeeps == ASSUME HpInv, DestroyGone PROVE HpInv'
<1> USE Bounds, IdsAssumption
<1>1. TypeOK'
  <2>1. slot' \in [Slots -> Displays \cup {None}]
    BY DEF HpInv, TypeOK, DestroyGone
  <2>2. shown' \subseteq Slots
    BY DEF HpInv, TypeOK, DestroyGone
  <2>3. hotplugs' \subseteq Slots
    BY DEF HpInv, TypeOK, DestroyGone
  <2>4. run' \in Run
    BY DEF HpInv, TypeOK, DestroyGone, Run
  <2> QED
    BY <2>1, <2>2, <2>3, <2>4 DEF HpInv, TypeOK, DestroyGone
<1>2. Shape'
  <2>1. /\ run'.who = run.who /\ run'.at = "sync" /\ run.at = "destroy" /\ run'.snap = run.snap
        /\ UNCHANGED <<hpd, client, tui, used>>
    BY DEF DestroyGone
  <2>2. run.who # "none" /\ Gone # {}
    BY <2>1 DEF HpInv, Shape, Idle
  <2>3. hotplugs' \subseteq InUse'
    BY <2>2 DEF HpInv, Shape, DestroyGone, InUse
  <2> QED
    BY <2>1, <2>2, <2>3 DEF HpInv, Shape, Idle
<1>3. NobodyYet' /\ FirstClient'
  BY DEF HpInv, NobodyYet, DestroyGone, TypeOK, Shape, FirstClient, InUse, Gone
<1>4. PutOff' /\ Alone'
  BY DEF HpInv, PutOff, DestroyGone, Quiet, Alone, InUse
<1> QED
  BY <1>1, <1>2, <1>3, <1>4 DEF HpInv

\* A created display waits to be announced.
LEMMA CreateKeeps == ASSUME HpInv, Create PROVE HpInv'
<1> USE Bounds, IdsAssumption
<1>1. TypeOK'
  <2>1. run' \in Run
    BY MinOfCandidates DEF HpInv, TypeOK, Create, ToCreate, Run
  <2>2. slot' \in [Slots -> Displays \cup {None}]
    BY MinOfCandidates DEF HpInv, TypeOK, Create, ToCreate
  <2>3. hotplugs' \subseteq Slots
    BY MinOfFree DEF HpInv, TypeOK, Create
  <2> QED
    BY <2>1, <2>2, <2>3 DEF HpInv, TypeOK, Create
<1>2. Shape'
  BY MinOfFree, MinOfCandidates DEF HpInv, Shape, Create, ToCreate, TypeOK, Idle, InUse, Run
<1>3. NobodyYet'
  BY DEF HpInv, NobodyYet, Create, ToCreate, Shape, Idle
<1>4. FirstClient'
  <2>1. /\ run.at = "sync" /\ run'.at = "sync"
        /\ UNCHANGED <<client, reg, used>>
        /\ (InUse \ hotplugs)' = InUse \ hotplugs
    <3>1. CASE Free = {}
      BY <3>1, SameSlots DEF HpInv, TypeOK, Create, ToCreate, Run
    <3>2. CASE Free # {}
      <4>1. /\ slot' = [slot EXCEPT ![Min(Free)] = Min(Candidates)]
            /\ hotplugs' = hotplugs \cup {Min(Free)}
            /\ Min(Free) \in Slots /\ slot[Min(Free)] = None
        BY <3>2, MinOfFree DEF HpInv, Create
      <4>2. InUse' \subseteq InUse \cup {Min(Free)} /\ InUse \subseteq InUse'
        BY <4>1 DEF InUse
      <4>3. Min(Free) \notin InUse
        BY <4>1 DEF InUse
      <4>4. run'.at = run.at /\ run.at = "sync" /\ UNCHANGED <<client, reg, used>>
        BY <3>2 DEF HpInv, TypeOK, Create, ToCreate, Run
      <4> QED
        BY <4>1, <4>2, <4>3, <4>4
    <3> QED
      BY <3>1, <3>2
  <2> QED
    BY <2>1 DEF HpInv, FirstClient
<1>5. PutOff' /\ Alone'
  BY DEF HpInv, PutOff, Create, ToCreate, TypeOK, Shape, Idle, Quiet, Run, Alone
<1> QED
  BY <1>1, <1>2, <1>3, <1>4, <1>5 DEF HpInv

\* A handler that waited in vain leaves an event behind, and asks for a frame.
LEMMA WaitTimesOutKeeps == ASSUME HpInv, WaitTimesOut PROVE HpInv'
<1> USE Bounds, IdsAssumption
<1>1. TypeOK'
  <2>1. used' \in Used
    BY DEF HpInv, TypeOK, WaitTimesOut, Disturb, Used
  <2>2. client' \in Client
    BY DEF HpInv, TypeOK, WaitTimesOut, Client
  <2>3. event' \in {"None", "Event", "Processing"}
    BY DEF WaitTimesOut, Finish
  <2>4. hpd' \in Hpd
    <3>1. run.who = "hpd" => hpd.counter > 0
      BY DEF HpInv, Shape
    <3>2. hpd' = IF run.who = "hpd" THEN BottomCounts(hpd) ELSE hpd
      BY DEF WaitTimesOut, Finish, Return
    <3> QED
      BY <3>1, <3>2, Counted DEF HpInv, TypeOK
  <2>5. reg' \in Reg
    BY DEF HpInv, TypeOK, WaitTimesOut, Finish, Return, Reg
  <2>6. run' \in Run
    BY DEF WaitTimesOut, Finish, Return, Idle, Run
  <2> QED
    BY <2>1, <2>2, <2>3, <2>4, <2>5, <2>6 DEF HpInv, TypeOK, WaitTimesOut
<1>2. Shape'
  BY DEF HpInv, Shape, WaitTimesOut, Finish, Return, BottomCounts, Disturb, Idle, TypeOK, InUse,
     Hpd, Used
<1>3. NobodyYet' /\ FirstClient'
  BY DEF HpInv, NobodyYet, WaitTimesOut, Finish, Return, Disturb, Idle, TypeOK, Shape, Used,
     FirstClient, InUse
<1>4. PutOff'
  <2>1. event' = "Event" /\ (client'.on => client'.refresh)
    BY DEF HpInv, TypeOK, WaitTimesOut, Finish, Client
  <2> QED
    BY <2>1 DEF PutOff
<1>5. Alone'
  BY DEF HpInv, Alone, WaitTimesOut, Shape, InUse
<1> QED
  BY <1>1, <1>2, <1>3, <1>4, <1>5 DEF HpInv

\* A handler that announces leaves an event behind unless all went well.
LEMMA AnnounceKeeps == ASSUME HpInv, Announce PROVE HpInv'
<1> USE Bounds, IdsAssumption
<1>1. TypeOK'
  <2>1. client' \in Client
    BY DEF HpInv, TypeOK, Announce, Told, Client
  <2>2. hotplugs' \subseteq Slots
    BY DEF Announce
  <2>3. event' \in {"None", "Event", "Processing"}
    BY DEF Announce, Finish
  <2>4. hpd' \in Hpd
    <3>1. run.who = "hpd" => hpd.counter > 0
      BY DEF HpInv, Shape
    <3>2. hpd' = IF run.who = "hpd" THEN BottomCounts(hpd) ELSE hpd
      BY DEF Announce, Finish, Return
    <3> QED
      BY <3>1, <3>2, Counted DEF HpInv, TypeOK
  <2>5. reg' \in Reg
    BY DEF HpInv, TypeOK, Announce, Finish, Return, Reg
  <2>6. run' \in Run
    BY DEF Announce, Finish, Return, Idle, Run
  <2> QED
    BY <2>1, <2>2, <2>3, <2>4, <2>5, <2>6 DEF HpInv, TypeOK, Announce
<1>2. Shape'
  BY DEF HpInv, Shape, Announce, Told, Finish, Return, BottomCounts, Idle, TypeOK, Hpd
<1>3. NobodyYet'
  BY DEF HpInv, NobodyYet, Announce, Created, Idle, Shape
<1>4. FirstClient'
  <2>1. /\ run.at # "destroy" /\ run'.at = "idle" /\ hotplugs' = {}
        /\ reg'.list = reg.list /\ UNCHANGED <<slot, used>>
    BY DEF Announce, Created, Finish, Return, Idle
  <2>2. client'.on = client.on /\ (client.on => client'.view = client.view \cup hotplugs)
    BY DEF Announce, Told
  <2>3. hotplugs \subseteq InUse
    BY DEF HpInv, Shape
  <2> QED
    BY <2>1, <2>2, <2>3, SameSlots DEF HpInv, FirstClient
<1>5. PutOff'
  <2>1. hotplugs' = {} /\ event' = IF run.err \in {"EAGAIN", "ENODEV"} THEN "Event" ELSE "None"
    BY DEF Announce, Finish
  <2>2. client'.on /\ event' = "Event" => client'.refresh
    BY <2>1 DEF HpInv, TypeOK, Announce, Told, Client
  <2> QED
    BY <2>1, <2>2 DEF PutOff
<1>6. Alone'
  BY DEF HpInv, Alone, Announce, Created, Shape, InUse
<1> QED
  BY <1>1, <1>2, <1>3, <1>4, <1>5, <1>6 DEF HpInv

\* A client registers: its own thread is going to be a handler.
LEMMA RegisterKeeps == ASSUME HpInv, Register PROVE HpInv'
<1>1. /\ UNCHANGED <<kernel, hpd, slot, shown, hotplugs, event, run, deferred, frame, tui,
                     virtual>>
      /\ ~client.on /\ used.registers < MaxRegisters
  BY DEF Register
<1>2. reg' \in Reg /\ reg'.at = "handler" /\ (~client.connected => reg'.list = {})
  BY DEF Register, Reg, InUse
<1>3. client' \in Client /\ client'.on /\ client'.connected /\ client'.view = client.view
  BY DEF HpInv, TypeOK, Register, Client
<1>4. used' \in Used /\ used'.registers = used.registers + 1 /\ used'.changes = used.changes
  <2> DEFINE u == [used EXCEPT !.registers = @ + 1]
  <2>1. /\ used.registers \in Nat /\ used.others \in Nat
        /\ u \in Used /\ u.registers = used.registers + 1 /\ u.changes = used.changes
        /\ u.others = used.others
    BY <1>1, Bounds DEF HpInv, TypeOK, Used
  <2>2. used' = u \/ (u.others < MaxOthers /\ used' = [u EXCEPT !.others = @ + 1])
    BY DEF Register, Disturb
  <2> HIDE DEF u
  <2> QED
    BY <2>1, <2>2, Bounds DEF Used
<1>5. used.registers \in Nat
  BY DEF HpInv, TypeOK, Used
<1>6. TypeOK'
  BY <1>1, <1>2, <1>3, <1>4 DEF HpInv, TypeOK
<1>7. Shape'
  BY <1>1, <1>3, <1>4, SameSlots, SameGone DEF HpInv, Shape
<1>8. NobodyYet'
  BY <1>4, <1>5 DEF NobodyYet
<1>9. FirstClient'
  <2>1. CASE used.registers = 0
    BY <1>1, <1>2, <1>3, <2>1, SameSlots DEF HpInv, NobodyYet, FirstClient
  <2>2. CASE used.registers # 0
    BY <1>4, <1>5, <2>2 DEF FirstClient
  <2> QED
    BY <2>1, <2>2
<1>10. PutOff' /\ Alone'
  BY <1>1, <1>2, SameSlots DEF HpInv, PutOff, Alone, Quiet
<1> QED
  BY <1>6, <1>7, <1>8, <1>9, <1>10 DEF HpInv

\* A client that came back is told of displays again, not of new ones.
LEMMA FilterListKeeps == ASSUME HpInv, FilterList PROVE HpInv'
<1> USE Bounds, IdsAssumption
<1>1. TypeOK'
  <2>1. reg' \in Reg
    BY DEF FilterList, Reg, InUse
  <2> QED
    BY <2>1 DEF HpInv, TypeOK, FilterList
<1>2. Shape'
  BY DEF HpInv, Shape, FilterList, InUse, Gone
<1>3. NobodyYet' /\ FirstClient'
  BY DEF HpInv, NobodyYet, FilterList, FirstClient, InUse, Gone
<1>4. PutOff' /\ Alone'
  BY DEF HpInv, PutOff, FilterList, Quiet, Alone, InUse
<1> QED
  BY <1>1, <1>2, <1>3, <1>4 DEF HpInv

\* The displays of the list are announced with no lock held; the first client has none.
LEMMA RehotplugKeeps == ASSUME HpInv, Rehotplug PROVE HpInv'
<1> USE Bounds, IdsAssumption
<1>1. TypeOK'
  <2>1. client' \in Client
    <3>1. reg.list \subseteq Slots
      BY DEF HpInv, TypeOK, Reg
    <3> QED
      BY <3>1 DEF HpInv, TypeOK, Rehotplug, Told, Client
  <2>2. reg' \in Reg
    BY DEF Rehotplug, Reg
  <2> QED
    BY <2>1, <2>2 DEF HpInv, TypeOK, Rehotplug
<1>2. Shape'
  BY DEF HpInv, Shape, Rehotplug, Told, InUse, Gone
<1>3. NobodyYet' /\ FirstClient'
  BY DEF HpInv, NobodyYet, Rehotplug, Told, FirstClient, InUse, Gone
<1>4. PutOff' /\ Alone'
  BY DEF HpInv, PutOff, Rehotplug, Told, Quiet, Alone, InUse
<1> QED
  BY <1>1, <1>2, <1>3, <1>4 DEF HpInv

\* A client that goes believes nothing.
LEMMA DeregisterKeeps == ASSUME HpInv, Deregister PROVE HpInv'
<1> USE Bounds, IdsAssumption
<1>1. TypeOK'
  <2>1. client' \in Client
    BY DEF HpInv, TypeOK, Deregister, Client
  <2> QED
    BY <2>1 DEF HpInv, TypeOK, Deregister
<1>2. Shape'
  BY DEF HpInv, Shape, Deregister, InUse, Gone
<1>3. NobodyYet' /\ FirstClient'
  BY DEF HpInv, NobodyYet, Deregister, FirstClient
<1>4. PutOff' /\ Alone'
  BY DEF HpInv, PutOff, Deregister, Quiet, Alone, InUse
<1> QED
  BY <1>1, <1>2, <1>3, <1>4 DEF HpInv

\* A present of a pluggable display wakes a handler at most.
LEMMA PresentPluggableKeeps == ASSUME HpInv, NEW s \in Slots, PresentPluggable(s) PROVE HpInv'
<1> USE Bounds, IdsAssumption
<1>1. TypeOK'
  <2>1. shown' \subseteq Slots
    BY DEF HpInv, TypeOK, PresentPluggable
  <2>2. run' \in Run
    BY DEF HpInv, TypeOK, PresentPluggable, Woken, Run
  <2> QED
    BY <2>1, <2>2 DEF HpInv, TypeOK, PresentPluggable
<1>2. /\ run'.who = run.who /\ run'.snap = run.snap
      /\ run'.at = IF run.at = "wait" THEN "ready" ELSE run.at
      /\ run.at # "wait" => run' = run
  BY DEF HpInv, TypeOK, Run, PresentPluggable, Woken
<1>3. Shape'
  <2>1. InUse' = InUse /\ Gone' = Gone /\ UNCHANGED <<hpd, hotplugs, client, tui, used>>
    BY <1>2, SameSlots, SameGone DEF PresentPluggable
  <2>2. run.at = "wait" => run.who \notin {"none", "tui"}
    BY DEF HpInv, Shape, Idle
  <2> QED
    BY <1>2, <2>1, <2>2 DEF HpInv, Shape
<1>4. NobodyYet' /\ FirstClient'
  BY SameGone DEF HpInv, NobodyYet, PresentPluggable, Woken, TypeOK, FirstClient, InUse
<1>5. PutOff'
  BY <1>2 DEF HpInv, PutOff, PresentPluggable, Quiet
<1>6. Alone'
  BY <1>2, SameSlots DEF HpInv, Alone, PresentPluggable
<1> QED
  BY <1>1, <1>3, <1>4, <1>5, <1>6 DEF HpInv

\* A present of the built-in display takes up a deferred event, unless a session waits for it.
LEMMA PresentKeeps == ASSUME HpInv, Present PROVE HpInv'
<1> USE Bounds, IdsAssumption
<1>1. TypeOK'
  <2>1. client' \in Client
    BY DEF HpInv, TypeOK, Present, Client
  <2>2. frame' \in {"none", "trylock"}
    BY DEF Present
  <2>3. run' \in Run
    BY DEF HpInv, TypeOK, Present, Woken, Run
  <2> QED
    BY <2>1, <2>2, <2>3 DEF HpInv, TypeOK, Present
<1>2. Shape'
  BY DEF HpInv, Shape, Present, Woken, TypeOK, Idle, InUse, Gone, Run
<1>3. NobodyYet'
  BY DEF HpInv, NobodyYet, Present
<1>4. FirstClient'
  <2>1. /\ run'.at = "destroy" <=> run.at = "destroy"
        /\ run'.snap = run.snap
        /\ client'.on = client.on /\ client'.view = client.view
        /\ UNCHANGED <<slot, hotplugs, reg, used>>
    BY DEF HpInv, TypeOK, Present, Woken, Run, Client
  <2> QED
    BY <2>1, SameSlots, SameGone DEF HpInv, FirstClient
<1>5. PutOff' /\ Alone'
  BY DEF HpInv, PutOff, Present, Woken, TypeOK, Quiet, Run, Alone, InUse
<1> QED
  BY <1>1, <1>2, <1>3, <1>4, <1>5 DEF HpInv

\* The event is promised to a thread only if nobody has the lock.
LEMMA TryHotplugKeeps == ASSUME HpInv, TryHotplug PROVE HpInv'
<1> USE Bounds, IdsAssumption
<1>1. TypeOK'
  <2>1. event' \in {"None", "Event", "Processing"}
    BY DEF HpInv, TypeOK, TryHotplug
  <2>2. deferred' \in Nat
    BY DEF HpInv, TypeOK, TryHotplug
  <2>3. frame' \in {"none", "trylock"}
    BY DEF TryHotplug
  <2>4. run' \in Run
    BY DEF HpInv, TypeOK, TryHotplug, Woken, Run
  <2> QED
    BY <2>1, <2>2, <2>3, <2>4 DEF HpInv, TypeOK, TryHotplug
<1>2. Shape'
  <2>1. /\ run' = run \/ (run.at = "wait" /\ run'.at = "ready")
        /\ run'.who = run.who /\ run'.snap = run.snap
        /\ UNCHANGED <<slot, hotplugs, tui, hpd, client, used>>
    BY DEF TryHotplug, Woken
  <2> QED
    BY <2>1, SameSlots, SameGone DEF HpInv, Shape, Idle
<1>3. NobodyYet' /\ FirstClient'
  BY DEF HpInv, NobodyYet, TryHotplug, Woken, FirstClient, InUse, Gone
<1>4. PutOff' /\ Alone'
  BY DEF HpInv, PutOff, TryHotplug, Woken, TypeOK, Shape, Quiet, Alone, InUse
<1> QED
  BY <1>1, <1>2, <1>3, <1>4 DEF HpInv

\* A virtual display defers the handlers while it is there ...
LEMMA CreateVirtualKeeps == ASSUME HpInv, CreateVirtual PROVE HpInv'
<1> USE Bounds, IdsAssumption
<1>1. TypeOK'
  <2>1. virtual' \in BOOLEAN
    BY DEF CreateVirtual
  <2>2. used' \in Used
    BY DEF HpInv, TypeOK, CreateVirtual, Disturb, Used
  <2> QED
    BY <2>1, <2>2 DEF HpInv, TypeOK, CreateVirtual
<1>2. Shape'
  BY DEF HpInv, Shape, CreateVirtual, Disturb, Gone
<1>3. NobodyYet' /\ FirstClient'
  BY DEF HpInv, NobodyYet, CreateVirtual, Disturb, FirstClient, InUse
<1>4. PutOff' /\ Alone'
  BY DEF HpInv, PutOff, CreateVirtual, Quiet, Alone
<1> QED
  BY <1>1, <1>2, <1>3, <1>4 DEF HpInv

\* ... and its client draws when it gives it up.
LEMMA DestroyVirtualKeeps == ASSUME HpInv, DestroyVirtual PROVE HpInv'
<1> USE Bounds, IdsAssumption
<1>1. TypeOK'
  <2>1. virtual' \in BOOLEAN
    BY DEF HpInv, TypeOK, DestroyVirtual
  <2>2. client' \in Client
    BY DEF HpInv, TypeOK, DestroyVirtual, Client
  <2> QED
    BY <2>1, <2>2 DEF HpInv, TypeOK, DestroyVirtual
<1>2. Shape'
  BY DEF HpInv, Shape, DestroyVirtual, InUse, Gone
<1>3. NobodyYet' /\ FirstClient'
  BY DEF HpInv, NobodyYet, DestroyVirtual, FirstClient, InUse, Gone
<1>4. PutOff' /\ Alone'
  BY DEF HpInv, PutOff, DestroyVirtual, Quiet, Alone, InUse
<1> QED
  BY <1>1, <1>2, <1>3, <1>4 DEF HpInv

\* A session starts with the lock of the handlers ...
LEMMA TUIStartKeeps == ASSUME HpInv, TUIStart PROVE HpInv'
<1> USE Bounds, IdsAssumption
<1>1. TypeOK'
  <2>1. tui' \in BOOLEAN
    BY DEF TUIStart
  <2>2. run' \in Run
    BY DEF TUIStart, Idle, Run
  <2>3. used' \in Used
    BY DEF HpInv, TypeOK, TUIStart, Disturb, Used
  <2> QED
    BY <2>1, <2>2, <2>3 DEF HpInv, TypeOK, TUIStart
<1>2. Shape'
  BY DEF HpInv, Shape, TUIStart, Disturb, Idle, InUse
<1>3. NobodyYet' /\ FirstClient'
  BY DEF HpInv, NobodyYet, TUIStart, Disturb, Idle, FirstClient, InUse
<1>4. PutOff' /\ Alone'
  BY DEF HpInv, PutOff, TUIStart, Idle, Quiet, Alone
<1> QED
  BY <1>1, <1>2, <1>3, <1>4 DEF HpInv

\* ... until no pluggable display is left ...
LEMMA TUIStartedKeeps == ASSUME HpInv, TUIStarted PROVE HpInv'
<1> USE Bounds, IdsAssumption
<1>1. TypeOK'
  <2>1. event' \in {"None", "Event", "Processing"}
    BY DEF HpInv, TypeOK, TUIStarted
  <2>2. run' \in Run
    BY DEF TUIStarted, Idle, Run
  <2> QED
    BY <2>1, <2>2 DEF HpInv, TypeOK, TUIStarted
<1>2. Shape'
  BY DEF HpInv, Shape, TUIStarted, Idle, Gone
<1>3. NobodyYet' /\ FirstClient'
  BY DEF HpInv, NobodyYet, TUIStarted, Idle, FirstClient, InUse
<1>4. PutOff' /\ Alone'
  BY DEF HpInv, PutOff, TUIStarted, Shape, Quiet, Alone, InUse, Gone
<1> QED
  BY <1>1, <1>2, <1>3, <1>4 DEF HpInv

\* ... and its end promises a deferred event to a thread.
LEMMA TUIEndKeeps == ASSUME HpInv, TUIEnd PROVE HpInv'
<1> USE Bounds, IdsAssumption
<1>1. TypeOK'
  <2>1. tui' \in BOOLEAN
    BY DEF TUIEnd
  <2>2. event' \in {"None", "Event", "Processing"}
    BY DEF HpInv, TypeOK, TUIEnd
  <2>3. deferred' \in Nat
    BY DEF HpInv, TypeOK, TUIEnd
  <2> QED
    BY <2>1, <2>2, <2>3 DEF HpInv, TypeOK, TUIEnd
<1>2. Shape'
  BY DEF HpInv, Shape, TUIEnd, Idle, InUse
<1>3. NobodyYet' /\ FirstClient'
  BY DEF HpInv, NobodyYet, TUIEnd, FirstClient, InUse, Gone
<1>4. PutOff' /\ Alone'
  BY DEF HpInv, PutOff, TUIEnd, TypeOK, Quiet, Alone
<1> QED
  BY <1>1, <1>2, <1>3, <1>4 DEF HpInv

\* The initial states.
LEMMA InitEstablishes == Init => HpInv
<1> SUFFICES ASSUME Init PROVE HpInv
  OBVIOUS
<1>1. TypeOK
  <2>1. hpd \in Hpd /\ used \in Used
    BY Bounds DEF Init, Hpd, Used
  <2>2. run \in Run /\ reg \in Reg /\ client \in Client
    BY DEF Init, Run, Idle, Reg, Client
  <2> QED
    BY <2>1, <2>2, IdsAssumption DEF Init, TypeOK
<1>2. InUse = {}
  BY DEF Init, InUse, None
<1> QED
  BY <1>1, <1>2 DEF Init, HpInv, Shape, NobodyYet, FirstClient, PutOff, Alone, Idle

\* Every step of a uevent thread, of a handler, of the client and of a session keeps the
\* invariant.
LEMMA StepPreserves == HpInv /\ [Next]_vars => HpInv'
<1> SUFFICES ASSUME HpInv, [Next]_vars PROVE HpInv'
  OBVIOUS
<1>1. CASE \E d \in Displays : Change(d)
  BY <1>1, ChangeKeeps
<1>2. CASE Uevents
  BY <1>2, UeventsKeep
<1>3. CASE Handler
  BY <1>3, EnterKeeps, LooksKeep, NotifyGoneKeeps, DestroyGoneKeeps, CreateKeeps, AnnounceKeeps
     DEF Handler
<1>4. CASE WaitTimesOut
  BY <1>4, WaitTimesOutKeeps
<1>5. CASE Registering
  BY <1>5, RegisterKeeps, FilterListKeeps, RehotplugKeeps, DeregisterKeeps DEF Registering
<1>6. CASE Frames
  BY <1>6, PresentKeeps, TryHotplugKeeps, PresentPluggableKeeps DEF Frames
<1>7. CASE Sessions
  BY <1>7, TUIStartKeeps, TUIStartedKeeps, TUIEndKeeps, CreateVirtualKeeps, DestroyVirtualKeeps
     DEF Sessions
<1>8. CASE UNCHANGED vars
  BY <1>8 DEF vars, HpInv, TypeOK, Shape, NobodyYet, FirstClient, PutOff, Alone, Quiet, InUse,
     Gone
<1> QED
  BY <1>1, <1>2, <1>3, <1>4, <1>5, <1>6, <1>7, <1>8 DEF Next

\* The invariant holds in every behavior.
LEMMA Invariance == Spec => []HpInv
  BY InitEstablishes, StepPreserves, PTL DEF Spec

\* Every variable keeps its type; the counter of uevents never falls below zero.
THEOREM TypeTheorem == Spec => []TypeOK
<1>1. HpInv => TypeOK
  BY DEF HpInv
<1> QED
  BY <1>1, Invariance, PTL

\* While no handler runs the first client believes exactly the displays that exist to be
\* connected, but for those whose announcement waits (callbacks_.Hotplug, pending_hotplugs_).
THEOREM ViewTheorem == Spec => []ViewIsTrue
<1>1. HpInv => ViewIsTrue
  BY DEF HpInv, FirstClient, ViewIsTrue, Idle
<1> QED
  BY <1>1, Invariance, PTL

\* Pluggable displays are gone while the secure world has the display.
THEOREM TUITheorem == Spec => []NoPluggableInTUI
<1>1. HpInv => NoPluggableInTUI
  BY DEF HpInv, Alone, NoPluggableInTUI
<1> QED
  BY <1>1, Invariance, PTL

\* What was put off is taken up: an announcement, an event, or a promised thread.
THEOREM PutOffTheorem == Spec => []PutOffIsTakenUp
<1>1. HpInv => PutOffIsTakenUp
  <2> SUFFICES ASSUME HpInv PROVE PutOffIsTakenUp
    OBVIOUS
  <2>1. run = Idle => Quiet
    BY DEF Idle, Quiet
  <2>2. UnannouncedIsPending
    BY <2>1 DEF HpInv, PutOff, UnannouncedIsPending
  <2>3. DeferredIsRetried
    BY <2>1 DEF HpInv, PutOff, DeferredIsRetried
  <2>4. ProcessingHasThread
    <3>1. Quiet => run = Idle \/ run.who = "tui"
      BY DEF HpInv, Shape, Quiet
    <3> QED
      BY <2>1, <3>1 DEF HpInv, PutOff, ProcessingHasThread
  <2> QED
    BY <2>2, <2>3, <2>4 DEF PutOffIsTakenUp
<1> QED
  BY <1>1, Invariance, PTL

\* However handlers, frames and sessions interleave no display gets two slots.
THEOREM SlotTheorem == Spec => []OneSlotPerDisplay
<1>1. Init => OneSlotPerDisplay
  BY DEF Init, InUse, OneSlotPerDisplay
<1>2. HpInv /\ OneSlotPerDisplay /\ [Next]_vars => OneSlotPerDisplay'
  <2> SUFFICES ASSUME HpInv, OneSlotPerDisplay, [Next]_vars PROVE OneSlotPerDisplay'
    OBVIOUS
  <2>1. CASE DestroyGone
    BY <2>1 DEF DestroyGone, OneSlotPerDisplay, InUse
  <2>2. CASE Create
    <3>1. CASE Free = {}
      BY <2>2, <3>1, SameSlots DEF Create, OneSlotPerDisplay
    <3>2. CASE Free # {}
      <4>1. /\ slot' = [slot EXCEPT ![Min(Free)] = Min(Candidates)]
            /\ \A s \in Slots : slot[s] # Min(Candidates)
        BY <2>2, <3>2, MinOfCandidates DEF HpInv, Create, ToCreate
      <4> QED
        BY <4>1 DEF OneSlotPerDisplay, InUse
    <3> QED
      BY <3>1, <3>2
  <2>3. CASE ~DestroyGone /\ ~Create
    <3>1. UNCHANGED slot
      BY <2>3 DEF Next, vars, Change, Uevents, Handler, WaitTimesOut, Registering, Frames,
         Sessions, CountUevent, NotifyBottom, BottomWaits, BottomWakes, DropUevent, hpdOnly,
         Enter, GetDisplaysStatus, NotifyGone, DeferCreation, CreateFails, AskForFrame,
         WaitForFrame, Announce, runOnly, Register, FilterList, Rehotplug, Deregister, Present,
         TryHotplug, PresentPluggable, TUIStart, TUIStarted, TUIEnd, CreateVirtual, DestroyVirtual
    <3> QED
      BY <3>1, SameSlots DEF OneSlotPerDisplay
  <2> QED
    BY <2>1, <2>2, <2>3
<1> QED
  BY <1>1, <1>2, Invariance, PTL DEF Spec
=============================================================================
