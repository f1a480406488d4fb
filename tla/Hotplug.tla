------------------------------ MODULE Hotplug ------------------------------
(***************************************************************************)
(* Hotplug handling of HWCSession: the two uevent threads, the handler they *)
(* share with the client's registration and with deferred work, the slots   *)
(* pluggable displays live in, and what the client is told.                 *)
(*                                                                         *)
(* HandlePluggableDisplays runs under pluggable_handler_lock_ on any of     *)
(* four threads: HpdThreadBottom, the thread that registers the hotplug     *)
(* callback, a thread started by a present or by the end of a trusted UI    *)
(* session (TUI), and the TUI thread itself, which tears the displays down. *)
(* "run" is the state of the one that holds the lock.  Hotplug events reach *)
(* the client in the order they are sent (module Callbacks).                *)
(*                                                                         *)
(* The built-in display is on, and its client draws a frame when it is      *)
(* asked to and after it gave up its virtual display.  Lowering the         *)
(* configuration of the built-in display (enable_primary_reconfig_req_) and *)
(* the wait for more resources after a frame are left out.                  *)
(***************************************************************************)
EXTENDS Naturals, FiniteSets, FiniteSetsExt

CONSTANTS
  Displays,     \* the pluggable displays (their sdm ids)
  Boot,         \* the displays connected at boot
  Slots,        \* the client ids of map_info_pluggable_
  BwCheck,      \* whether disable_hotplug_bwcheck_ is 0
  MaxChanges,   \* bound on the displays plugged and unplugged
  MaxRegisters, \* bound on the registrations of the client
  MaxOthers     \* bound, together, on the TUI sessions, the virtual displays, the
                \* creations that fail for good, the frames that take longer than a
                \* handler waits for them and the registrations after the first

ASSUME IdsAssumption == Displays \subseteq Nat \ {0} /\ Boot \subseteq Displays /\ Slots \subseteq Nat
ASSUME BwCheckAssumption == BwCheck \in BOOLEAN
ASSUME BoundsAssumption == {MaxChanges, MaxRegisters, MaxOthers} \subseteq Nat

None == 0                \* sdm_id of a free slot
uevent_max_count == 3

VARIABLES
  kernel,    \* the displays the driver reports connected
  hpd,       \* the uevent threads; see Hpd
  slot,      \* hwc_display_ and sdm_id of the pluggable slots
  shown,     \* the slots with a first commit (first_cycle_ is FALSE)
  hotplugs,  \* pending_hotplugs_: created and not yet announced
  event,     \* pending_hotplug_event_
  run,       \* the holder of pluggable_handler_lock_; see Run
  deferred,  \* threads started for a deferred event that wait for the lock
  reg,       \* the thread that registers the hotplug callback; see Reg
  frame,     \* a present of the built-in display
  client,    \* the composer client; see Client
  tui,       \* whether a TUI session is open on the built-in display
  virtual,   \* whether a virtual display exists
  used       \* how much of the bounds is used

vars == <<kernel, hpd, slot, shown, hotplugs, event, run, deferred, reg, frame, client,
          tui, virtual, used>>

Hpd == [uevents : 0..MaxChanges,                 \* not yet read by HpdThreadTop
        top : {"read", "clamp"},
        counter : Nat,                           \* uevent_counter_
        bottom : {"start", "waiting", "woken", "handling", "busy"}]
Run == [who : {"none", "hpd", "reg", "deferred", "tui"},
        at : {"idle", "status", "sync", "destroy", "deferred", "refresh", "wait", "ready"},
        snap : SUBSET Displays,                  \* hw_displays_info, from GetDisplaysStatus
        last : Displays \cup {None},             \* the last display the loop came to
        err : {"none", "EAGAIN", "ENODEV", "failed"}]
Reg == [at : {"idle", "handler", "busy", "filter", "rehotplug"}, list : SUBSET Slots]
Client == [on : BOOLEAN,                         \* hotplug_ is set
           connected : BOOLEAN,                  \* client_connected_ of HWCCallbacks
           view : SUBSET Slots,                  \* the displays it was told are connected
           refresh : BOOLEAN]                    \* it was asked for a frame
Used == [changes : 0..MaxChanges, registers : 0..MaxRegisters, others : 0..MaxOthers,
         failed : BOOLEAN]                       \* a creation failed for good

InUse == {s \in Slots : slot[s] # None}
Idle == [who |-> "none", at |-> "idle", snap |-> {}, last |-> None, err |-> "none"]

TypeOK ==
  /\ kernel \subseteq Displays
  /\ hpd \in Hpd
  /\ slot \in [Slots -> Displays \cup {None}]
  /\ shown \subseteq Slots /\ hotplugs \subseteq Slots
  /\ event \in {"None", "Event", "Processing"}
  /\ run \in Run
  /\ deferred \in Nat
  /\ reg \in Reg
  /\ frame \in {"none", "trylock"}
  /\ client \in Client
  /\ tui \in BOOLEAN /\ virtual \in BOOLEAN
  /\ used \in Used

Init ==
  /\ kernel = Boot
  /\ hpd = [uevents |-> 0, top |-> "read", counter |-> 0, bottom |-> "start"]
  /\ slot = [s \in Slots |-> None]
  /\ shown = {} /\ hotplugs = {}
  /\ event = "None"
  /\ run = Idle
  /\ deferred = 0
  /\ reg = [at |-> "idle", list |-> {}]
  /\ frame = "none"
  /\ client = [on |-> FALSE, connected |-> FALSE, view |-> {}, refresh |-> FALSE]
  /\ tui = FALSE /\ virtual = FALSE
  /\ used = [changes |-> 0, registers |-> 0, others |-> 0, failed |-> FALSE]

\* One of the bounded disturbances happens.
Disturb(u) == u.others < MaxOthers /\ used' = [u EXCEPT !.others = @ + 1]

-----------------------------------------------------------------------------
(* The uevent threads. *)

\* A display is plugged or unplugged; the driver sends a uevent.
Change(d) ==
  /\ used.changes < MaxChanges
  /\ kernel' = IF d \in kernel THEN kernel \ {d} ELSE kernel \cup {d}
  /\ hpd' = [hpd EXCEPT !.uevents = @ + 1]
  /\ used' = [used EXCEPT !.changes = @ + 1]
  /\ UNCHANGED <<slot, shown, hotplugs, event, run, deferred, reg, frame, client, tui, virtual>>

hpdOnly == <<kernel, slot, shown, hotplugs, event, run, deferred, reg, frame, client, tui,
             virtual, used>>

\* uevent_counter_++ is atomic but done before the lock is taken.
CountUevent ==
  /\ hpd.top = "read" /\ hpd.uevents > 0
  /\ hpd' = [hpd EXCEPT !.uevents = @ - 1, !.counter = @ + 1, !.top = "clamp"]
  /\ UNCHANGED hpdOnly

\* Under hpd_mutex_: limit the counter and wake the bottom thread, if it waits.
NotifyBottom ==
  /\ hpd.top = "clamp"
  /\ hpd' = [hpd EXCEPT !.counter = IF @ > uevent_max_count THEN uevent_max_count ELSE @,
                        !.top = "read",
                        !.bottom = IF @ = "waiting" THEN "woken" ELSE @]
  /\ UNCHANGED hpdOnly

\* The first wait of HpdThreadBottom: what was counted before it wakes nobody.
BottomWaits ==
  /\ hpd.bottom = "start"
  /\ hpd' = [hpd EXCEPT !.bottom = "waiting"]
  /\ UNCHANGED hpdOnly

\* It wakes, spuriously perhaps, and handles as long as the counter is above zero.
BottomWakes ==
  /\ hpd.bottom \in {"waiting", "woken"}
  /\ hpd' = [hpd EXCEPT !.bottom = IF hpd.counter > 0 THEN "handling" ELSE "waiting"]
  /\ UNCHANGED hpdOnly

(* Broken variant: the counter is cleared, with the events that came while one was handled. *)
BottomForgets(h) == [h EXCEPT !.counter = 0, !.bottom = "waiting"]

BottomCounts(h) ==
  [h EXCEPT !.counter = @ - 1, !.bottom = IF h.counter > 1 THEN "handling" ELSE "waiting"]

\* UEventHandler drops the event while no client has registered yet.
DropUevent ==
  /\ hpd.bottom = "handling" /\ ~client.connected
  /\ hpd' = BottomCounts(hpd)
  /\ UNCHANGED hpdOnly

-----------------------------------------------------------------------------
(* HandlePluggableDisplays.  Each part that runs under its lock is a step. *)

\* callbacks_.Hotplug: dropped, after a wait, when no callback is set.
Told(s, connected) ==
  IF ~client.on THEN client
  ELSE [client EXCEPT !.view = IF connected THEN @ \cup s ELSE @ \ s]

\* The handler returns: its thread goes on.
Return(who) ==
  /\ hpd' = IF who = "hpd" THEN BottomCounts(hpd) ELSE hpd
  /\ reg' = IF who = "reg" THEN [reg EXCEPT !.at = "filter"] ELSE reg
  /\ run' = Idle

(* Broken variant: sessions are forgotten. *)
DeferringForVirtual == virtual

Deferring == tui \/ virtual

\* A thread takes the lock, and defers while a session or a virtual display is there.
Enter ==
  /\ run = Idle
  /\ \E who \in {"hpd", "reg", "deferred"} :
       /\ CASE who = "hpd" -> hpd.bottom = "handling" /\ client.connected
            [] who = "reg" -> reg.at = "handler"
            [] who = "deferred" -> deferred > 0
       /\ deferred' = IF who = "deferred" THEN deferred - 1 ELSE deferred
       /\ IF Deferring
          THEN event' = "Event" /\ Return(who)
          ELSE /\ run' = [Idle EXCEPT !.who = who, !.at = "status"]
               /\ hpd' = IF who = "hpd" THEN [hpd EXCEPT !.bottom = "busy"] ELSE hpd
               /\ reg' = IF who = "reg" THEN [reg EXCEPT !.at = "busy"] ELSE reg
               /\ UNCHANGED event
  /\ UNCHANGED <<kernel, slot, shown, hotplugs, frame, client, tui, virtual, used>>

runOnly == <<kernel, hpd, slot, shown, hotplugs, event, deferred, reg, frame, client, tui,
             virtual, used>>

GetDisplaysStatus ==
  /\ run.at = "status"
  /\ run' = [run EXCEPT !.snap = kernel, !.at = "sync"]
  /\ UNCHANGED runOnly

\* The used slots whose display the snapshot does not show connected; all for TUI.
Gone == {s \in InUse : slot[s] \notin run.snap}

(* Broken variant: the client is not told. *)
NotifyNobody ==
  /\ run.at = "sync" /\ Gone # {}
  /\ run' = [run EXCEPT !.at = "destroy"]
  /\ UNCHANGED runOnly

\* DestroyDisplay first tells the client and then waits for the command in progress.
NotifyGone ==
  /\ run.at = "sync" /\ Gone # {}
  /\ client' = Told({Min(Gone)}, FALSE)
  /\ run' = [run EXCEPT !.at = "destroy"]
  /\ UNCHANGED <<kernel, hpd, slot, shown, hotplugs, event, deferred, reg, frame, tui,
                 virtual, used>>

DestroyGone ==
  /\ run.at = "destroy"
  /\ slot' = [slot EXCEPT ![Min(Gone)] = None]
  /\ shown' = shown \ {Min(Gone)}
  /\ hotplugs' = hotplugs \ {Min(Gone)}
  /\ run' = [run EXCEPT !.at = "sync", !.err = IF run.who = "tui" THEN "EAGAIN" ELSE @]
  /\ UNCHANGED <<kernel, hpd, event, deferred, reg, frame, client, tui, virtual, used>>

(* Broken variant: displays that have a slot are not skipped. *)
CandidatesAll == {d \in run.snap : d > run.last}

\* The displays the loop of HandleConnectedDisplays has still to look at.
Candidates == {d \in run.snap : d > run.last /\ \A s \in Slots : slot[s] # d}
Free == Slots \ InUse
CommitPending == BwCheck /\ ~(InUse \subseteq shown)
ToCreate == run.at = "sync" /\ run.who # "tui" /\ Gone = {} /\ Candidates # {}
Created ==
  \/ run.at = "deferred"
  \/ run.at = "sync" /\ run.who # "tui" /\ Gone = {} /\ Candidates = {}

\* A display waits for the first commit of another: try again after a frame.
DeferCreation ==
  /\ ToCreate /\ CommitPending
  /\ run' = [run EXCEPT !.at = "deferred", !.err = "EAGAIN"]
  /\ client' = [client EXCEPT !.refresh = @ \/ client.on]
  /\ UNCHANGED <<kernel, hpd, slot, shown, hotplugs, event, deferred, reg, frame, tui,
                 virtual, used>>

\* A display is created in the first free slot; with no free slot it is passed over.
Create ==
  /\ ToCreate /\ ~CommitPending
  /\ LET d == Min(Candidates)
     IN  IF Free = {}
         THEN /\ run' = [run EXCEPT !.last = d]
              /\ UNCHANGED <<slot, hotplugs>>
         ELSE /\ slot' = [slot EXCEPT ![Min(Free)] = d]
              /\ hotplugs' = hotplugs \cup {Min(Free)}
              /\ run' = [run EXCEPT !.last = d]
  /\ UNCHANGED <<kernel, hpd, shown, event, deferred, reg, frame, client, tui, virtual, used>>

\* The creation fails: the display has been unplugged meanwhile, or for good.
CreateFails ==
  /\ ToCreate /\ ~CommitPending /\ Free # {}
  /\ LET d == Min(Candidates)
     IN  \/ /\ d \notin kernel
            /\ run' = [run EXCEPT !.last = d, !.err = "ENODEV"]
            /\ UNCHANGED used
         \/ /\ run' = [run EXCEPT !.last = d, !.err = "failed"]
            /\ Disturb([used EXCEPT !.failed = TRUE])
  /\ UNCHANGED <<kernel, hpd, slot, shown, hotplugs, event, deferred, reg, frame, client, tui,
                 virtual>>

\* WaitForResources (unless the client is just registering): ask for a frame ...
AskForFrame ==
  /\ Created /\ hotplugs # {} /\ run.who # "reg"
  /\ client' = [client EXCEPT !.refresh = @ \/ client.on]
  /\ run' = [run EXCEPT !.at = "refresh"]
  /\ UNCHANGED <<kernel, hpd, slot, shown, hotplugs, event, deferred, reg, frame, tui,
                 virtual, used>>

\* ... and then begin to wait for it: a frame that came in between is not seen.
WaitForFrame ==
  /\ run.at = "refresh"
  /\ run' = [run EXCEPT !.at = "wait"]
  /\ UNCHANGED runOnly

(* Broken variant: a deferral counts as a failure. *)
FinishForGood(err) ==
  /\ event' = IF err = "ENODEV" THEN "Event" ELSE "None"
  /\ Return(run.who)

\* What HandlePluggableDisplays does with the status of HandleConnectedDisplays.
Finish(err) ==
  /\ event' = IF err \in {"EAGAIN", "ENODEV"} THEN "Event" ELSE "None"
  /\ Return(run.who)

\* Five seconds without a frame, because none is under way or the client is slow.
WaitTimesOut ==
  /\ run.at = "wait"
  /\ IF client.refresh
     THEN Disturb(used)
     ELSE UNCHANGED used
  /\ client' = [client EXCEPT !.refresh = @ \/ client.on]
  /\ Finish("EAGAIN")
  /\ UNCHANGED <<kernel, slot, shown, hotplugs, deferred, frame, tui, virtual>>

\* The client is told of every display that was created; the lock is released.
Announce ==
  /\ \/ run.at = "ready"
     \/ Created /\ (hotplugs = {} \/ run.who = "reg")
  /\ client' = [Told(hotplugs, TRUE) EXCEPT
                  !.refresh = @ \/ (client.on /\ run.err \in {"EAGAIN", "ENODEV"})]
  /\ hotplugs' = {}
  /\ Finish(run.err)
  /\ UNCHANGED <<kernel, slot, shown, deferred, frame, tui, virtual, used>>

-----------------------------------------------------------------------------
(* The client. *)

\* RegisterCallback(CALLBACK_HOTPLUG) of a client that is there for the first time or again.
Register ==
  /\ reg.at = "idle" /\ ~client.on /\ used.registers < MaxRegisters
  /\ hpd.bottom # "start"                          \* HpdInit was long ago
  /\ reg' = [at |-> "handler", list |-> IF client.connected THEN InUse ELSE {}]
  /\ client' = [client EXCEPT !.on = TRUE, !.connected = TRUE]
  /\ LET u == [used EXCEPT !.registers = @ + 1]
     IN  IF client.connected THEN Disturb(u) ELSE used' = u
  /\ UNCHANGED <<kernel, hpd, slot, shown, hotplugs, event, run, deferred, frame, tui, virtual>>

\* Of the displays that were there before, those that still are ...
FilterList ==
  /\ reg.at = "filter"
  /\ reg' = [at |-> "rehotplug", list |-> reg.list \cap InUse]
  /\ UNCHANGED <<kernel, hpd, slot, shown, hotplugs, event, run, deferred, frame, client, tui,
                 virtual, used>>

\* ... are announced again, with no lock held.
Rehotplug ==
  /\ reg.at = "rehotplug"
  /\ client' = Told(reg.list, TRUE)
  /\ reg' = [at |-> "idle", list |-> {}]
  /\ UNCHANGED <<kernel, hpd, slot, shown, hotplugs, event, run, deferred, frame, tui,
                 virtual, used>>

\* The client goes; client_connected_ of HWCCallbacks stays TRUE.
Deregister ==
  /\ client.on /\ reg.at = "idle"
  /\ used.registers < MaxRegisters /\ used.others < MaxOthers   \* it can come back
  /\ client' = [client EXCEPT !.on = FALSE, !.view = {}, !.refresh = FALSE]
  /\ UNCHANGED <<kernel, hpd, slot, shown, hotplugs, event, run, deferred, reg, frame, tui,
                 virtual, used>>

\* PostCommitUnlocked of any display wakes a handler that waits for a frame.
Woken == IF run.at = "wait" THEN [run EXCEPT !.at = "ready"] ELSE run

\* The client presents a pluggable display it knows.
PresentPluggable(s) ==
  /\ client.on /\ s \in client.view \cap InUse
  /\ s \notin shown \/ run.at = "wait"
  /\ shown' = shown \cup {s}
  /\ run' = Woken
  /\ UNCHANGED <<kernel, hpd, slot, hotplugs, event, deferred, reg, frame, client, tui,
                 virtual, used>>

\* A present of the built-in display looks for a deferred event ...
Present ==
  /\ client.on /\ frame = "none"
  /\ client.refresh \/ event = "Event" \/ run.at = "wait"
  /\ client' = [client EXCEPT !.refresh = FALSE]
  /\ IF event = "Event" /\ ~tui /\ ~virtual
     THEN frame' = "trylock" /\ UNCHANGED run
     ELSE run' = Woken /\ UNCHANGED frame
  /\ UNCHANGED <<kernel, hpd, slot, shown, hotplugs, event, deferred, reg, tui, virtual, used>>

(* Broken variant: the event counts as handled though the lock was not to be had. *)
TryHotplugOnce ==
  /\ frame = "trylock"
  /\ event' = "Processing"
  /\ deferred' = IF run = Idle THEN deferred + 1 ELSE deferred
  /\ frame' = "none"
  /\ run' = Woken
  /\ UNCHANGED <<kernel, hpd, slot, shown, hotplugs, reg, client, tui, virtual, used>>

\* ... and starts a thread for it if nobody has the lock.
TryHotplug ==
  /\ frame = "trylock"
  /\ IF run = Idle
     THEN event' = "Processing" /\ deferred' = deferred + 1
     ELSE UNCHANGED <<event, deferred>>
  /\ frame' = "none"
  /\ run' = Woken
  /\ UNCHANGED <<kernel, hpd, slot, shown, hotplugs, reg, client, tui, virtual, used>>

CreateVirtual ==
  /\ client.on /\ ~virtual /\ ~tui /\ InUse = {}
  /\ virtual' = TRUE
  /\ Disturb(used)
  /\ UNCHANGED <<kernel, hpd, slot, shown, hotplugs, event, run, deferred, reg, frame, client,
                 tui>>

\* The client draws without its virtual display.
DestroyVirtual ==
  /\ virtual
  /\ virtual' = FALSE
  /\ client' = [client EXCEPT !.refresh = client.on]
  /\ UNCHANGED <<kernel, hpd, slot, shown, hotplugs, event, run, deferred, reg, frame, tui,
                 used>>

-----------------------------------------------------------------------------
(* The thread of a TUI session. *)

\* TUITransitionStart holds the lock while TUITransitionPrepare empties the slots.
TUIStart ==
  /\ run = Idle /\ ~tui
  /\ tui' = TRUE
  /\ run' = [Idle EXCEPT !.who = "tui", !.at = "sync"]
  /\ Disturb(used)
  /\ UNCHANGED <<kernel, hpd, slot, shown, hotplugs, event, deferred, reg, frame, client,
                 virtual>>

TUIStarted ==
  /\ run.at = "sync" /\ run.who = "tui" /\ Gone = {}
  /\ event' = IF run.err # "none" THEN "Event" ELSE event
  /\ run' = Idle
  /\ UNCHANGED <<kernel, hpd, slot, shown, hotplugs, deferred, reg, frame, client, tui,
                 virtual, used>>

(* Broken variant: the event waits for a frame that nobody asks for. *)
TUIEndQuietly ==
  /\ run = Idle /\ tui
  /\ tui' = FALSE
  /\ UNCHANGED <<kernel, hpd, slot, shown, hotplugs, event, run, deferred, reg, frame, client,
                 virtual, used>>

\* TUITransitionEnd; TUITransitionUnPrepare starts a thread for a deferred event.
TUIEnd ==
  /\ run = Idle /\ tui
  /\ tui' = FALSE
  /\ IF event = "Event"
     THEN event' = "Processing" /\ deferred' = deferred + 1
     ELSE UNCHANGED <<event, deferred>>
  /\ UNCHANGED <<kernel, hpd, slot, shown, hotplugs, run, reg, frame, client, virtual, used>>

-----------------------------------------------------------------------------
Uevents == CountUevent \/ NotifyBottom \/ BottomWaits \/ BottomWakes \/ DropUevent
Handler ==
  \/ Enter \/ GetDisplaysStatus \/ NotifyGone \/ DestroyGone \/ DeferCreation \/ Create
  \/ CreateFails \/ AskForFrame \/ WaitForFrame \/ Announce
Registering == Register \/ FilterList \/ Rehotplug \/ Deregister
Frames == Present \/ TryHotplug \/ \E s \in Slots : PresentPluggable(s)
Sessions == TUIStart \/ TUIStarted \/ TUIEnd \/ CreateVirtual \/ DestroyVirtual

Next ==
  \/ \E d \in Displays : Change(d)
  \/ Uevents \/ Handler \/ WaitTimesOut \/ Registering \/ Frames \/ Sessions

(* Threads go on, a wait ends, a client that was asked for a frame draws it,  *)
(* presents what it was told of, and ends its sessions; that the handler is  *)
(* late for the frame it asked for does not happen for ever.  Nobody has to   *)
(* plug, register or open anything.                                         *)
Fairness ==
  /\ WF_vars(CountUevent) /\ WF_vars(NotifyBottom) /\ WF_vars(BottomWaits)
  /\ WF_vars(hpd.bottom = "woken" /\ BottomWakes) /\ WF_vars(DropUevent)
  /\ SF_vars(Enter) /\ WF_vars(Handler) /\ WF_vars(WaitTimesOut)
  /\ SF_vars(client.refresh /\ WaitForFrame)
  /\ WF_vars(FilterList) /\ WF_vars(Rehotplug)
  /\ WF_vars(client.refresh /\ Present) /\ WF_vars(TryHotplug)
  /\ \A s \in Slots : WF_vars(s \notin shown /\ PresentPluggable(s))
  /\ WF_vars(TUIStarted) /\ SF_vars(TUIEnd) /\ WF_vars(DestroyVirtual)

Spec == Init /\ [][Next]_vars /\ Fairness

-----------------------------------------------------------------------------
(* Properties. *)

\* While no handler runs a client that registered once believes exactly the
\* displays that exist to be connected, but for those whose announcement waits.
ViewIsTrue ==
  run = Idle /\ client.on /\ used.registers = 1 => client.view = InUse \ hotplugs

\* However handlers, frames and sessions interleave no display gets two slots.
OneSlotPerDisplay == \A s, t \in InUse : slot[s] = slot[t] => s = t

\* The secure world has the display alone: once TUITransitionStart is through, no
\* pluggable display is there before TUITransitionEnd, whatever was deferred.
NoPluggableInTUI == tui /\ run.who # "tui" => InUse = {}

\* A created display whose announcement waits is not forgotten: an event is pending,
\* or a handler is about to run, that announces it.
UnannouncedIsPending == run = Idle /\ hotplugs # {} => event = "Event" \/ deferred > 0

\* What is deferred is taken up again: somebody draws, or opened a session that ends
\* with it, or a handler that starts is going to look at everything again.
DeferredIsRetried ==
  run = Idle /\ event = "Event" /\ client.on =>
    \/ client.refresh \/ frame = "trylock" \/ tui \/ virtual
    \/ deferred > 0 \/ hpd.bottom = "handling" \/ reg.at = "handler"

\* kHotPlugProcessing is a promise that a thread is on its way.
ProcessingHasThread == event = "Processing" => deferred > 0 \/ run # Idle

\* Nothing that was put off is forgotten: an announcement, an event, or a promised thread
\* (pending_hotplug_event_, pending_hotplugs).
PutOffIsTakenUp == UnannouncedIsPending /\ DeferredIsRetried /\ ProcessingHasThread

\* A client that registers again is told of the displays that still exist ("check if the
\* display is unregistered", RegisterCallback).
NoGhostDisplay == run = Idle /\ reg.at = "idle" => client.view \subseteq InUse

Settled ==
  /\ client.view = InUse
  /\ {slot[s] : s \in InUse} \subseteq kernel
  /\ Cardinality(InUse) = Min({Cardinality(kernel), Cardinality(Slots)})

\* "no uevent is lost" (UEventHandler): once nothing changes any more, the slots and
\* the client agree with the driver, if no creation failed for good.
Converges ==
  <>[](client.on /\ used.registers = 1 /\ ~virtual /\ ~used.failed => Settled)
=============================================================================
