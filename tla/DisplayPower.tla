---------------------------- MODULE DisplayPower ----------------------------
(***************************************************************************)
(* The power state of a built-in display, kept three times: the mode the   *)
(* client asked HWCDisplay for, the state and pending state of DisplayBase *)
(* and DisplayBuiltIn, and the pending and last power mode of HWDeviceDRM   *)
(* and HWPeripheralDRM.  A power call may be done at once by a null commit *)
(* or deferred to the next frame: before the first frame, while a trusted  *)
(* UI session (TUI) has the hardware, or while a writeback is torn down.   *)
(*                                                                         *)
(* A call of DisplayBase holds ClientLock and a call of HWCDisplay its      *)
(* locker_, so each is one step (a frame with the commit that its worker may *)
(* do for it); the steps of the TUI session thread, of the client and of the *)
(* frames interleave.  Operators map the record of the display to the set of *)
(* [d, err] a call may end with.  The panel does not switch between command  *)
(* and video mode, vsync commands do not fail, no unchanged frame is skipped *)
(* (enable_optimize_refresh_) and secure display sessions are left out.     *)
(***************************************************************************)
EXTENDS Naturals

CONSTANTS
  Kinds,        \* the kinds of display there are: their hardware, and what is done to them
  MaxCalls,     \* bound on the power and vsync calls of the client
  MaxSessions   \* bound on the TUI sessions

Modes == {"Off", "On", "Doze", "DozeSuspend"}

ASSUME KindsAssumption ==
  Kinds \subseteq [command : BOOLEAN, cwb : BOOLEAN, requests : SUBSET Modes, faults : Nat]
ASSUME BoundsAssumption == MaxCalls \in Nat /\ MaxSessions \in Nat

Pending == Modes \cup {"none"}
Events == {"Max", "Prepare", "Start", "End", "UnPrepare"}

VARIABLES
  kind,     \* what this display is; never changes
  dpy,      \* the display in SDM and in the hardware layer; see Display
  hwc,      \* HWCDisplay; see Layer
  tui,      \* the TUI session thread: its role for this display and where it is
  wanted,   \* the last vsync state the client asked for
  calls, sessions, faults

vars == <<kind, dpy, hwc, tui, wanted, calls, sessions, faults>>

CommandMode == kind.command   \* whether the panel is in command mode (hw_panel_info_.mode)
HasCwb == kind.cwb            \* whether the hardware has a concurrent writeback
Requests == kind.requests     \* the power modes the client asks for
MaxFaults == kind.faults      \* bound on the failures of the hardware layer

Display == [
  state : Modes, pending : Pending,          \* DisplayBase::state_, pending_power_state_
  active : BOOLEAN,
  vsync : BOOLEAN, vsync_pending : BOOLEAN,  \* vsync_enable_, vsync_enable_pending_
  secure : Events,                           \* DisplayBase::secure_event_
  refresh : BOOLEAN,                         \* a frame has been asked for (Refresh)
  hw_pending : Pending, hw_mode : Modes,     \* HWDeviceDRM: pending_power_state_, last_power_mode_
  panel : Modes,                             \* the power mode the driver was last given
  tui_state : {"None", "Start", "InProgress", "End"},
  first_cycle : BOOLEAN,
  cwb : BOOLEAN, cwb_teardown : BOOLEAN]     \* cwb_config_.enabled, pending_cwb_teardown_

Layer == [mode : Modes, secure : Events, paused : BOOLEAN, pausing : BOOLEAN]

TypeOK ==
  /\ kind \in Kinds
  /\ dpy \in Display
  /\ hwc \in Layer
  /\ tui \in [role : {"target", "other"},
              at : {"idle", "prepared", "release", "running", "ending"}]
  /\ wanted \in BOOLEAN
  /\ calls \in 0..MaxCalls /\ sessions \in 0..MaxSessions /\ faults \in 0..MaxFaults

Init ==
  /\ kind \in Kinds
  /\ dpy = [state |-> "Off", pending |-> "none", active |-> FALSE,
            vsync |-> FALSE, vsync_pending |-> FALSE, secure |-> "Max", refresh |-> FALSE,
            hw_pending |-> "none", hw_mode |-> "Off", panel |-> "Off",
            tui_state |-> "None", first_cycle |-> TRUE, cwb |-> FALSE, cwb_teardown |-> FALSE]
  /\ hwc = [mode |-> "Off", secure |-> "Max", paused |-> FALSE, pausing |-> FALSE]
  /\ tui = [role |-> "target", at |-> "idle"]
  /\ wanted = FALSE
  /\ calls = 0 /\ sessions = 0 /\ faults = 0

Ok(d) == [d |-> d, err |-> "none"]
Failed(d) == [d |-> d, err |-> "failed"]

-----------------------------------------------------------------------------
(* HWDeviceDRM and HWPeripheralDRM.  Each power call is a null commit that   *)
(* may fail, or is remembered for the next frame.                           *)
NextTui(t) == CASE t = "Start" -> "InProgress" [] OTHER -> "None"
SetTUIState(d) == [d EXCEPT !.tui_state = NextTui(@)]

NullCommit(d, m) == [d EXCEPT !.hw_mode = m, !.panel = m, !.tui_state = NextTui(@)]
Defer(d, m) == {[d |-> [d EXCEPT !.hw_pending = m], err |-> "deferred"]}
Settled(d, m) == {Ok([NullCommit(d, m) EXCEPT !.hw_pending = "none"]), Failed(d)}

(* Broken variant: a power on that a TUI session defers is not remembered.   *)
PowerOnForgotten(d) ==
  IF d.tui_state # "None" THEN {[d |-> d, err |-> "deferred"]}
  ELSE IF d.cwb_teardown \/ d.first_cycle THEN Defer(d, "On") ELSE Settled(d, "On")

PowerOn(d) ==
  IF d.tui_state # "None" \/ d.cwb_teardown \/ d.first_cycle
    THEN Defer(d, "On") ELSE Settled(d, "On")

(* Broken variant: power off is deferred only until the hand-over.           *)
PowerOffInSession(d) ==
  IF d.tui_state = "Start" \/ d.cwb_teardown THEN Defer(d, "Off")
  ELSE IF d.first_cycle THEN {Ok(SetTUIState(d))}
  ELSE Settled([d EXCEPT !.cwb = FALSE], "Off")

PowerOff(d) ==
  IF d.tui_state \in {"Start", "InProgress"} \/ d.cwb_teardown THEN Defer(d, "Off")
  ELSE IF d.first_cycle THEN {Ok(SetTUIState(d))}
  ELSE Settled([d EXCEPT !.cwb = FALSE], "Off")

(* Doze leaves pending_power_state_ alone when it succeeds.                 *)
DozeOn(d) ==
  IF d.first_cycle \/ d.tui_state # "None" \/ d.hw_mode # "Off"
    THEN Defer(d, "Doze") ELSE {Ok(NullCommit(d, "Doze")), Failed(d)}

DozeSuspend(d) ==
  IF d.tui_state \in {"Start", "InProgress"}
    THEN Defer(d, "DozeSuspend") ELSE Settled(d, "DozeSuspend")

HwPower(d, m) ==
  CASE m = "On" -> PowerOn(d)
    [] m = "Off" -> PowerOff(d)
    [] m = "Doze" -> DozeOn(d)
    [] m = "DozeSuspend" -> DozeSuspend(d)

(* AtomicCommit of a frame with or without a writeback buffer; the first    *)
(* frame powers the panel on whatever mode is pending.  last_power_mode_ is  *)
(* set when the commit is set up, even if it fails then.                    *)
CommitMode(d) ==
  IF d.first_cycle THEN "On" ELSE IF d.hw_pending # "none" THEN d.hw_pending ELSE d.hw_mode

HwCommit(d, buffer) ==
  [d EXCEPT !.hw_mode = CommitMode(d),
            !.panel = IF d.first_cycle \/ d.hw_pending # "none" THEN CommitMode(d) ELSE @,
            !.hw_pending = "none", !.first_cycle = FALSE, !.tui_state = NextTui(@),
            !.cwb = buffer /\ (@ \/ ~d.cwb_teardown), !.cwb_teardown = FALSE]

HwFlush(d) == {Ok([d EXCEPT !.cwb = FALSE]), Failed(d)}

HwSecureEvent(d, ev) ==
  CASE ev \in {"Prepare", "UnPrepare"} ->
         {Ok([d EXCEPT !.tui_state = IF @ = "None" THEN "InProgress" ELSE @])}
    [] ev = "Start" ->
         LET s == [d EXCEPT !.tui_state = IF @ = "None" THEN "Start" ELSE @]
         IN  IF CommandMode THEN {Ok(s)}
             ELSE {IF o.err = "none" THEN Ok(SetTUIState(o.d)) ELSE o : o \in HwFlush(s)}
    [] ev = "End" ->
         LET s == [d EXCEPT !.tui_state = IF @ = "InProgress" THEN "End" ELSE "None"]
         IN  IF CommandMode /\ d.hw_pending # "Off" THEN {Ok(s)}
             ELSE {IF o.err = "none" THEN Ok(SetTUIState(o.d)) ELSE o : o \in HwFlush(s)}

-----------------------------------------------------------------------------
(* DisplayBase and DisplayBuiltIn.                                          *)
SetVSyncState(d, enable) ==
  IF enable /\ (d.state = "Off" \/ d.secure # "Max")
    THEN [d EXCEPT !.vsync_pending = TRUE]
    ELSE [d EXCEPT !.vsync = enable, !.vsync_pending = enable /\ @]

HandlePendingVSyncEnable(d) ==
  IF d.vsync_pending THEN [SetVSyncState(d, TRUE) EXCEPT !.vsync_pending = FALSE] ELSE d

SuspendVSync(d) == IF d.vsync THEN [SetVSyncState(d, FALSE) EXCEPT !.vsync_pending = TRUE] ELSE d

(* Broken variant: a deferred call asks for no frame.                         *)
AfterPowerQuietly(o, m) ==
  LET noted == [o.d EXCEPT !.pending = IF o.err = "deferred" THEN m ELSE "none"]
      entered == [noted EXCEPT !.state = m, !.active = m \in {"On", "Doze"}]
      done == IF o.err = "deferred" THEN noted
              ELSE IF m = "On" THEN HandlePendingVSyncEnable(entered) ELSE entered
  IN  IF o.err = "failed" THEN {o} ELSE {Ok(done), Failed(noted)}

(* What SetDisplayState makes of an outcome of the hardware call.  It may   *)
(* still fail, in the reconfiguration of the resources.                     *)
AfterPower(o, m) ==
  LET noted == [o.d EXCEPT !.pending = IF o.err = "deferred" THEN m ELSE "none"]
      entered == [noted EXCEPT !.state = m, !.active = m \in {"On", "Doze"}]
      done == IF o.err = "deferred" THEN [noted EXCEPT !.refresh = TRUE]
              ELSE IF m = "On" THEN HandlePendingVSyncEnable(entered) ELSE entered
  IN  IF o.err = "failed" THEN {o} ELSE {Ok(done), Failed(noted)}

(* Broken variant: the hardware layer is not told.                            *)
CancelDeferredHere(d) == [d EXCEPT !.pending = "none"]

CancelDeferred(d) ==
  IF d.pending = "none" THEN d ELSE [d EXCEPT !.pending = "none", !.hw_pending = "none"]

BaseSetDisplayState(d, m) ==
  IF m = d.state THEN {Ok(CancelDeferred(d))}
  ELSE LET s == IF m \in {"Off", "DozeSuspend"} THEN SuspendVSync(d) ELSE d
       IN  UNION {AfterPower(o, m) : o \in HwPower(s, m)}

SetDisplayState(d, m) ==
  {IF o.err = "none" THEN Ok([o.d EXCEPT !.vsync = @ /\ m # "Off"]) ELSE o
     : o \in BaseSetDisplayState(d, m)}

(* PostCommit: the pending state becomes the state, whatever the hardware   *)
(* did with it.                                                             *)
ResetPendingPowerState(d) ==
  IF d.pending = "none" THEN d
  ELSE [d EXCEPT !.state = d.pending, !.active = TRUE, !.pending = "none",
                 !.refresh = @ \/ d.pending = "Doze"]

PostCommit(d) ==
  HandlePendingVSyncEnable(ResetPendingPowerState(
    [d EXCEPT !.secure = IF @ \in {"End", "UnPrepare"} THEN "Max" ELSE @]))

(* HandleSecureEvent; r is whether it needs a refresh.                      *)
Wrap(o, r) == [d |-> o.d, err |-> o.err, refresh |-> r]

StartSession(d) ==
  IF d.state # "On" \/ d.pending # "none"
    THEN {[d |-> d, err |-> "permission", refresh |-> FALSE]}
    ELSE {Wrap(IF o.err = "none" THEN Ok([o.d EXCEPT !.secure = "Start"]) ELSE o, CommandMode)
            : o \in HwSecureEvent(SuspendVSync(d), "Start")}

PrepareSession(d) ==
  {Wrap(IF o.err = "none"
          THEN Ok([o.d EXCEPT !.pending = d.state, !.secure = "Prepare",
                              !.tui_state = IF @ = "None" THEN "InProgress" ELSE @])
          ELSE o, FALSE)
     : o \in SetDisplayState(d, "Off")}

(* Broken variant: a power off that is pending at the end of a session is     *)
(* left to the next frame.                                                   *)
ResumeByFrame(o, ev) ==
  LET e == [o.d EXCEPT !.secure = ev, !.refresh = @ \/ o.d.pending = "Doze"]
  IN  IF o.err # "none" THEN {Wrap(o, FALSE)}
      ELSE IF ev = "UnPrepare" /\ e.pending # "none"
      THEN {Wrap(p, p.err = "none" /\ e.pending # "Off") : p \in SetDisplayState(e, e.pending)}
      ELSE {Wrap(Ok(e), ev = "End")}

Resume(o, ev) ==
  LET e == [o.d EXCEPT !.secure = ev, !.refresh = @ \/ o.d.pending = "Doze"]
  IN  IF o.err # "none" THEN {Wrap(o, FALSE)}
      ELSE IF ev = "End" /\ e.pending = "Off" THEN {Wrap(p, FALSE) : p \in SetDisplayState(e, "Off")}
      ELSE IF ev = "UnPrepare" /\ e.pending # "none"
      THEN {Wrap(p, p.err = "none" /\ e.pending # "Off") : p \in SetDisplayState(e, e.pending)}
      ELSE {Wrap(Ok(e), ev = "End")}

HandleSecureEvent(d, ev) ==
  CASE ev = "Start" -> StartSession(d)
    [] ev = "Prepare" -> PrepareSession(d)
    [] OTHER -> UNION {Resume(o, ev) : o \in HwSecureEvent(d, ev)}

-----------------------------------------------------------------------------
Counted(err) == faults' = faults + (IF err = "failed" THEN 1 ELSE 0) /\ faults' <= MaxFaults
Call == calls < MaxCalls /\ calls' = calls + 1

(* HWCSession::SetPowerMode and HWCDisplay::SetPowerMode.                   *)
SetPowerMode(m) ==
  /\ Call
  /\ m \in Requests \ {hwc.mode}
  /\ \E o \in SetDisplayState(dpy, m) :
       /\ dpy' = o.d
       /\ hwc' = IF o.err = "none" THEN [hwc EXCEPT !.mode = m] ELSE hwc
       /\ Counted(o.err)
  /\ UNCHANGED <<tui, wanted, sessions>>

SetVsyncEnabled(enable) ==
  /\ Call
  /\ wanted' = enable
  /\ dpy' = SetVSyncState(dpy, enable)
  /\ UNCHANGED <<hwc, tui, sessions, faults>>

(* PostCommitLayerStack of HWCDisplay.                                      *)
PostCommitLayerStack ==
  hwc' = [hwc EXCEPT !.paused = @ \/ hwc.pausing, !.pausing = FALSE,
                     !.secure = IF @ = "UnPrepare" THEN "Max" ELSE @]

Drawn(d) == [d EXCEPT !.refresh = FALSE]

(* A frame while the display is paused, or neither active nor about to be.  *)
FrameRefused ==
  /\ dpy' = Drawn(dpy)
  /\ IF hwc.paused THEN hwc' = hwc
     ELSE /\ ~dpy.active /\ dpy.pending = "none"
          /\ PostCommitLayerStack
  /\ UNCHANGED faults

Draws == ~hwc.paused /\ (dpy.active \/ dpy.pending # "none")

FrameCommitted ==
  /\ Draws
  /\ \E buffer \in {FALSE, HasCwb} : dpy' = PostCommit(HwCommit(Drawn(dpy), buffer))
  /\ PostCommitLayerStack
  /\ UNCHANGED faults

(* The frame fails in Prepare, which asks for another one, or the driver     *)
(* refuses its commit: it is flushed if the display is active, and after a    *)
(* flush PostCommit runs all the same.  The last is the commit of the worker. *)
FrameFails ==
  /\ Draws
  /\ Counted("failed")
  /\ LET d == [Drawn(dpy) EXCEPT !.hw_mode = CommitMode(dpy)]
     IN  \/ dpy' = [dpy EXCEPT !.refresh = TRUE] /\ hwc' = hwc
         \/ d.active /\ dpy' = PostCommit([d EXCEPT !.cwb = FALSE]) /\ PostCommitLayerStack
         \/ dpy' = d /\ hwc' = hwc
         \/ dpy' = d /\ PostCommitLayerStack

Frame ==
  /\ FrameRefused \/ FrameCommitted \/ FrameFails
  /\ UNCHANGED <<tui, wanted, calls, sessions>>

(* OnCwbTeardown of the resource manager, at once or in the next frame.     *)
HandleCwbTeardown ==
  /\ dpy.cwb /\ ~dpy.cwb_teardown
  /\ \E sync \in BOOLEAN :
       dpy' = [dpy EXCEPT !.cwb_teardown = TRUE, !.cwb = ~sync, !.refresh = TRUE]
  /\ UNCHANGED <<hwc, tui, wanted, calls, sessions, faults>>

-----------------------------------------------------------------------------
(* Broken variant: a pause that waits for a frame survives the session.      *)
AfterEventStillPausing(ev, refresh) ==
  IF ev \in {"Prepare", "Start"}
    THEN [hwc EXCEPT !.secure = ev, !.paused = @ \/ ~refresh, !.pausing = @ \/ refresh]
    ELSE [hwc EXCEPT !.secure = IF refresh THEN ev ELSE "Max", !.paused = FALSE]

(* HWCDisplay::HandleSecureEvent of an event that ValidateTUITransition      *)
(* accepts.  "next" is where the session thread goes if the call succeeds.  *)
AfterEvent(ev, refresh) ==
  IF ev \in {"Prepare", "Start"}
    THEN [hwc EXCEPT !.secure = ev, !.paused = @ \/ ~refresh, !.pausing = @ \/ refresh]
    ELSE [mode |-> hwc.mode, secure |-> IF refresh THEN ev ELSE "Max",
          paused |-> FALSE, pausing |-> FALSE]

SecureEvent(ev, next, back) ==
  \E o \in HandleSecureEvent(dpy, ev) :
    /\ dpy' = [o.d EXCEPT !.refresh = @ \/ (o.refresh /\ ev # "UnPrepare")]
    /\ Counted(o.err)
    /\ IF o.err = "none"
         THEN /\ tui' = [tui EXCEPT !.at = next]
              /\ hwc' = AfterEvent(ev, o.refresh)
         ELSE /\ tui' = [tui EXCEPT !.at = back]
              /\ hwc' = IF o.err = "permission" THEN [hwc EXCEPT !.secure = "Max"] ELSE hwc

(* The session is for this display (only noted) or for another one.         *)
TUIPrepare ==
  /\ tui.at = "idle"
  /\ sessions < MaxSessions /\ sessions' = sessions + 1
  /\ \/ /\ tui' = [role |-> "target", at |-> "prepared"]
        /\ hwc' = [hwc EXCEPT !.secure = "Prepare"]
        /\ UNCHANGED <<dpy, faults>>
     \/ /\ hwc.secure = "Prepare"
        /\ tui' = [role |-> "other", at |-> "prepared"]
        /\ UNCHANGED <<dpy, hwc, faults>>
     \/ /\ hwc.secure = "Max"
        /\ \E o \in PrepareSession(dpy) :
             /\ dpy' = o.d
             /\ Counted(o.err)
             /\ IF o.err = "none"
                  THEN /\ tui' = [role |-> "other", at |-> "prepared"]
                       /\ hwc' = AfterEvent("Prepare", FALSE)
                  ELSE UNCHANGED <<tui, hwc>>
  /\ UNCHANGED <<wanted, calls>>

(* A refused start is followed by UnPrepare.                                *)
TUIStart ==
  /\ tui = [role |-> "target", at |-> "prepared"]
  /\ SecureEvent("Start", IF CommandMode THEN "release" ELSE "running", "idle")
  /\ UNCHANGED <<wanted, calls, sessions>>

(* WaitForVmRelease in command mode: the frame is drawn, or the wait ends    *)
(* without it.                                                              *)
TUIReleased ==
  /\ tui.at = "release"
  /\ tui' = [tui EXCEPT !.at = "running"]
  /\ UNCHANGED <<dpy, hwc, wanted, calls, sessions, faults>>

TUIEnd ==
  /\ tui.role = "target" /\ tui.at \in {"release", "running"}
  /\ tui.at = "release" => hwc.mode = "Off"
  /\ hwc.secure = "Start"
  /\ SecureEvent("End", "ending", "running")
  /\ UNCHANGED <<wanted, calls, sessions>>

(* After WaitForCommitDone, in time or not: PostHandleSecureEvent, UnPrepare. *)
TUIEnded ==
  /\ tui.at = "ending"
  /\ tui' = [tui EXCEPT !.at = "idle"]
  /\ hwc' = [hwc EXCEPT !.secure = "Max"]
  /\ UNCHANGED <<dpy, wanted, calls, sessions, faults>>

TUIUnPrepare ==
  /\ tui = [role |-> "other", at |-> "prepared"]
  /\ SecureEvent("UnPrepare", "idle", "idle")
  /\ UNCHANGED <<wanted, calls, sessions>>

(* A session that another display, or the writeback, makes fail after        *)
(* Prepare returns without UnPrepare.                                        *)
TUIAbandoned ==
  /\ tui.at = "prepared"
  /\ Counted("failed")
  /\ tui' = [tui EXCEPT !.at = "idle"]
  /\ UNCHANGED <<dpy, hwc, wanted, calls, sessions>>

Session == TUIStart \/ TUIReleased \/ TUIEnd \/ TUIEnded \/ TUIUnPrepare

-----------------------------------------------------------------------------
Step ==
  \/ \E m \in Modes : SetPowerMode(m)
  \/ \E enable \in BOOLEAN : SetVsyncEnabled(enable)
  \/ Frame \/ HandleCwbTeardown
  \/ TUIPrepare \/ Session \/ TUIAbandoned

Next == Step /\ UNCHANGED kind

(* The TUI client ends the session it has started; the composer draws a      *)
(* frame it is asked for, unless it has turned the display off.              *)
Fairness ==
  /\ WF_vars(Session /\ UNCHANGED kind)
  /\ WF_vars(dpy.refresh /\ hwc.mode # "Off" /\ Frame /\ UNCHANGED kind)

Spec == Init /\ [][Next]_vars /\ Fairness

-----------------------------------------------------------------------------
(* Safety: without failures a request that SDM has deferred is known to the  *)
(* hardware layer, so that the next frame carries it out, except while TUI    *)
(* Prepare has put the state to resume in its place (GetPendingDisplayState,  *)
(* UnPrepare).                                                               *)
PendingReachesHw ==
  faults = 0 /\ dpy.pending # "none" /\ hwc.secure # "Prepare" => dpy.hw_pending = dpy.pending

(* Safety: without failures a deferred request has a frame coming, or a      *)
(* session that holds the display paused and asks for one when it ends       *)
(* (DisplayBuiltIn::SetDisplayState, HandleSecureEvent).                     *)
PendingHasFrame ==
  faults = 0 /\ dpy.pending # "none" => dpy.refresh \/ hwc.paused

(* Safety: a deferred request is kept by the layer that carries it out, with   *)
(* a frame to do it in (DisplayBase::SetDisplayState, HWDeviceDRM::PowerOn). *)
PendingIsKept == PendingReachesHw /\ PendingHasFrame

(* Safety: without failures a display is never left paused, or about to     *)
(* pause, when no session is on (HWCDisplay::HandleSecureEvent).             *)
IdleIsResumed == faults = 0 /\ tui.at = "idle" => ~hwc.paused /\ ~hwc.pausing

(* Liveness: without failures a deferred request is carried out, unless the   *)
(* client turns the display off, when no frame needs to come.                *)
PendingIsDone ==
  (faults = 0 /\ dpy.pending # "none")
    ~> (dpy.pending = "none" \/ hwc.mode = "Off" \/ faults > 0)

(* Safety, where the client asks for no doze: without failures, once a first *)
(* frame is shown and nothing is pending, the panel is in the state SDM says. *)
(* Three layers keep it, and each power call may be deferred in each.        *)
PanelFollowsOnOff ==
  Requests \subseteq {"Off", "On"} /\ faults = 0 /\ dpy.pending = "none" /\ ~dpy.first_cycle
    => dpy.panel = dpy.state

(* What holds of a video mode panel only if its hardware has no writeback.    *)
PlainVideo == ~CommandMode /\ ~HasCwb /\ faults = 0

(* Action property: from the pause of a session until its end no call of the *)
(* client reaches a video mode panel, which the trusted VM owns then.  With a *)
(* writeback, the frame that would end the TUI state of one session may be   *)
(* missing when the next starts, and DozeSuspend is not put off then.        *)
VmKeepsVideoPanel ==
  [][PlainVideo /\ PlainVideo' /\ hwc.secure = "Start" /\ hwc.paused /\ hwc'.secure = "Start"
       => dpy'.panel = dpy.panel]_vars

(* Safety: display_interface.h says of kStateOff "Display is OFF. Contents   *)
(* are not rendered in this state."  A video mode panel without writeback     *)
(* keeps it; elsewhere a frame that carries out a deferred power off leaves   *)
(* active_ set.                                                              *)
OffIsNotDrawn == dpy.state = "Off" /\ dpy.pending = "none" => ~dpy.active
OffVideoIsNotDrawn == PlainVideo => OffIsNotDrawn

(* What HandlePendingVSyncEnable is there for: a vsync request that was put   *)
(* off while the display was off or in a session is not lost.                *)
VsyncKept ==
  faults = 0 /\ wanted /\ dpy.state = "On" /\ dpy.secure = "Max" => dpy.vsync \/ dpy.vsync_pending

(* What kErrorDeferred stands for: the mode the client was told it has is the *)
(* state of SDM or the one it will get.                                      *)
DeferredIsKept ==
  faults = 0 => hwc.mode = (IF dpy.pending = "none" THEN dpy.state ELSE dpy.pending)
=============================================================================
