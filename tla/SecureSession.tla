--------------------------- MODULE SecureSession ---------------------------
(***************************************************************************)
(* Secure display and secure camera sessions.  A session begins and ends    *)
(* with what the layers of the active built-in display show: the command    *)
(* thread finds out at each present, turns the other displays off and, when *)
(* the session is over and a frame has told the driver so, turns them on    *)
(* again (HandleSecureSession, HandlePendingPowerMode).  Power calls of the  *)
(* client come on another thread, hotplugs on a third one.                  *)
(*                                                                         *)
(* A step is what a thread does under the lock of one display, or one read  *)
(* without a lock: a power call reads the session, the pending mode and the *)
(* last mode one after the other, and a present may run in between.  The    *)
(* modes are on and off; a call of the hardware or the driver may fail.     *)
(* That a display is destroyed between two reads of one step is left out.   *)
(***************************************************************************)
EXTENDS Naturals, FiniteSets, FiniteSetsExt

CONSTANTS
  Builtins,    \* client ids of the built-in displays, the primary one (0) among them
  Pluggables,  \* client ids of the pluggable slots
  Kinds,       \* the kinds of session, of kSecureDisplay and kSecureCamera
  MaxSwitches, \* bound on the changes of what the layers of a built-in display show
  MaxPowerCalls, \* bound on the power calls of the client
  MaxPlugs,    \* bound on the displays plugged and unplugged
  MaxFaults    \* bound on the frames that are not committed, and the calls that fail

HWC_DISPLAY_PRIMARY == 0
Displays == Builtins \cup Pluggables

ASSUME IdsAssumption ==
  /\ Displays \subseteq Nat /\ IsFiniteSet(Displays)
  /\ HWC_DISPLAY_PRIMARY \in Builtins /\ Builtins \cap Pluggables = {}
ASSUME KindsAssumption == Kinds \subseteq {"SecureDisplay", "SecureCamera"}
ASSUME SsBoundsAssumption == {MaxSwitches, MaxPowerCalls, MaxPlugs, MaxFaults} \subseteq Nat

kNumDisplays == Max(Displays) + 1     \* no display
Modes == {"Off", "On"}

VARIABLES
  dpy,      \* hwc_display_ and what belongs to it; see Display
  layers,   \* the secure layers each built-in display is shown with
  secure_session_active_,
  driver,   \* whether the last frame of a built-in display was a secure one
  cmd,      \* the command thread (command_seq_mutex_); see Command
  power,    \* a power call of the client; see Power
  plug,     \* the thread that handles a hotplug; see Plug
  connected,\* the pluggable displays the driver reports
  virtual,  \* whether a virtual display exists
  crashed,  \* a null pointer has been followed
  used      \* how much of the bounds is used

ssVars == <<dpy, layers, secure_session_active_, driver, cmd, power, plug, connected, virtual,
          crashed, used>>

Display == [exists : BOOLEAN, mode : Modes,
            saved : Modes,                    \* HWCDisplay::pending_power_mode_
            pending : BOOLEAN,                \* HWCSession::pending_power_mode_[display]
            sessions : SUBSET Kinds,          \* active_secure_sessions_
            lost : BOOLEAN,                   \* it was unplugged and not yet removed
            failed : BOOLEAN]                 \* its mode could not be restored
Command == [at : {"idle", "session", "virtual", "displays", "draw", "check", "lock", "restore"},
            display : Displays, active : Displays \cup {kNumDisplays},
            sessions : SUBSET Kinds,          \* secure_sessions
            next : 0..kNumDisplays,           \* the display the loop has come to
            found : BOOLEAN,                  \* found_active_secure_display
            fence : BOOLEAN,                  \* a retire fence came back
            snap : SUBSET Pluggables]         \* hw_displays_info
Power == [at : {"idle", "session", "active", "defer", "check", "mode", "set"},
          display : Displays, mode : Modes]
Plug == [at : {"idle", "builtin", "sync"}]
Used == [switches : 0..MaxSwitches, calls : 0..MaxPowerCalls, plugs : 0..MaxPlugs,
         faults : 0..MaxFaults]

SsTypeOK ==
  /\ dpy \in [Displays -> Display]
  /\ layers \in [Builtins -> SUBSET Kinds]
  /\ {secure_session_active_, driver, virtual, crashed} \subseteq BOOLEAN
  /\ cmd \in Command /\ power \in Power /\ plug \in Plug
  /\ connected \subseteq Pluggables
  /\ used \in Used

NoDisplay == [exists |-> FALSE, mode |-> "Off", saved |-> "Off", pending |-> FALSE,
              sessions |-> {}, lost |-> FALSE, failed |-> FALSE]
IdlePower == [at |-> "idle", display |-> HWC_DISPLAY_PRIMARY, mode |-> "Off"]
IdleCommand == [at |-> "idle", display |-> HWC_DISPLAY_PRIMARY, active |-> kNumDisplays,
                sessions |-> {}, next |-> 0, found |-> FALSE, fence |-> FALSE, snap |-> {}]

SsInit ==
  /\ dpy = [d \in Displays |-> [NoDisplay EXCEPT !.exists = d \in Builtins]]
  /\ layers = [b \in Builtins |-> {}]
  /\ secure_session_active_ = FALSE /\ driver = FALSE
  /\ cmd = IdleCommand
  /\ power = IdlePower
  /\ plug = [at |-> "idle"]
  /\ connected = {} /\ virtual = FALSE /\ crashed = FALSE
  /\ used = [switches |-> 0, calls |-> 0, plugs |-> 0, faults |-> 0]

\* The first built-in display that is on.
GetActiveBuiltinDisplay ==
  LET on == {b \in Builtins : dpy[b].mode # "Off"}
  IN  IF on = {} THEN kNumDisplays ELSE Min(on)

\* HandlePendingPowerMode keeps the lock of the active display to its end, and takes
\* pluggable_handler_lock_ meanwhile, which a hotplug may have.
Locked(d) == cmd.at \in {"lock", "restore"} /\ d = cmd.active
BuiltinsFree == \A b \in Builtins : ~Locked(b)
CanFail == used.faults < MaxFaults
OneFault == used' = [used EXCEPT !.faults = @ + 1]
PluggableHandlerFree == plug.at = "idle" /\ cmd.at # "restore"

-----------------------------------------------------------------------------
(* PresentDisplay. *)

\* The client draws a frame, of a built-in display with other layers perhaps; it ends a
\* session of one kind before it begins one of the other.
Present(d) ==
  /\ cmd.at = "idle" /\ ~crashed
  /\ dpy[d].exists /\ (dpy[d].mode = "On" \/ dpy[d].pending)
  /\ cmd' = [IdleCommand EXCEPT !.at = "session", !.display = d]
  /\ \/ UNCHANGED <<layers, used>>
     \/ /\ d \in Builtins /\ used.switches < MaxSwitches
        /\ IF layers[d] = {}
           THEN \E k \in Kinds : layers' = [layers EXCEPT ![d] = {k}]
           ELSE layers' = [layers EXCEPT ![d] = {}]
        /\ used' = [used EXCEPT !.switches = @ + 1]
  /\ UNCHANGED <<dpy, secure_session_active_, driver, power, plug, connected, virtual, crashed>>

\* HandleSecureSession: is there a session on the active built-in display, or was there?
LookForSession ==
  /\ cmd.at = "session"
  /\ LET a == GetActiveBuiltinDisplay
         sessions == IF a = kNumDisplays THEN {} ELSE layers[a]
         ours == a # kNumDisplays /\ (sessions # {} \/ secure_session_active_)
     IN  /\ secure_session_active_' = (secure_session_active_ \/ sessions # {})
         /\ cmd' = [cmd EXCEPT !.at = IF ours THEN "virtual" ELSE "draw", !.sessions = sessions]
  /\ UNCHANGED <<dpy, layers, driver, power, plug, connected, virtual, crashed, used>>

DestroyVirtualDisplay ==
  /\ cmd.at = "virtual"
  /\ virtual' = FALSE
  /\ cmd' = [cmd EXCEPT !.at = "displays"]
  /\ UNCHANGED <<dpy, layers, secure_session_active_, driver, power, plug, connected, crashed,
                 used>>

\* HWCDisplay::HandleSecureSession: at its start save the mode and turn off, which may
\* fail; at its end find out whether there is a mode to go back to; for either kind in turn.
TurnOff(d, sessions, fails) ==
  LET Switch(k, x) ==
        IF k \in x.sessions <=> k \in sessions THEN x
        ELSE IF k \in sessions
        THEN [x EXCEPT !.saved = x.mode, !.mode = IF fails THEN x.mode ELSE "Off"]
        ELSE [x EXCEPT !.pending = x.saved # "Off", !.failed = FALSE]
      after == Switch("SecureCamera", Switch("SecureDisplay", d))
  IN  [after EXCEPT !.sessions = sessions]

\* The loop of HandleSecureSession: the first built-in display that is on has the
\* session, the other displays are turned off or their modes become pending.
HandleSecureSession ==
  /\ cmd.at = "displays"
  /\ IF cmd.next = kNumDisplays
     THEN /\ cmd' = [cmd EXCEPT !.at = "draw"]
          /\ UNCHANGED <<dpy, used>>
     ELSE LET d == cmd.next
          IN  IF d \notin Displays \/ ~dpy[d].exists
              THEN /\ cmd' = [cmd EXCEPT !.next = @ + 1]
                   /\ UNCHANGED <<dpy, used>>
              ELSE LET its == ~cmd.found /\ d \in Builtins /\ dpy[d].mode # "Off"
                   IN  /\ cmd' = [cmd EXCEPT !.next = @ + 1, !.found = @ \/ its]
                       /\ \E fails \in BOOLEAN :
                            /\ dpy' = [dpy EXCEPT ![d] =
                                         IF its THEN [@ EXCEPT !.sessions = cmd.sessions,
                                                               !.pending = FALSE]
                                         ELSE TurnOff(@, cmd.sessions, fails)]
                            /\ IF fails
                               THEN ~its /\ dpy[d].mode # "Off" /\ CanFail /\ OneFault
                               ELSE UNCHANGED used
  /\ UNCHANGED <<layers, secure_session_active_, driver, power, plug, connected, virtual,
                 crashed>>

\* Under the lock of the display: no frame while its mode is pending; a frame gets a
\* fence if it is committed, and one of a built-in display tells the driver what it is.
Draw ==
  /\ cmd.at = "draw"
  /\ LET d == cmd.display
         drawn == dpy[d].exists /\ ~dpy[d].pending /\ dpy[d].mode = "On"
     IN  \/ /\ cmd' = [cmd EXCEPT !.at = "check", !.fence = drawn]
            /\ driver' = IF drawn /\ d \in Builtins THEN layers[d] # {} ELSE driver
            /\ UNCHANGED used
         \/ /\ drawn /\ CanFail /\ OneFault
            /\ cmd' = [cmd EXCEPT !.at = "check"]
            /\ UNCHANGED driver
  /\ UNCHANGED <<dpy, layers, secure_session_active_, power, plug, connected, virtual, crashed>>

-----------------------------------------------------------------------------
(* HandlePendingPowerMode, after the present. *)

PendingModes(a) == {d \in Displays \ {HWC_DISPLAY_PRIMARY, a} : dpy[d].pending}

(* Broken variant: the fence is not looked at.                               *)
CheckPendingOnly ==
  /\ cmd.at = "check"
  /\ LET a == GetActiveBuiltinDisplay
     IN  IF ~secure_session_active_ \/ cmd.display # a
         THEN cmd' = IdleCommand /\ UNCHANGED secure_session_active_
         ELSE IF PendingModes(a) = {}
         THEN cmd' = IdleCommand /\ secure_session_active_' = (layers[a] # {})
         ELSE /\ cmd' = [cmd EXCEPT !.at = "lock", !.active = a]
              /\ UNCHANGED secure_session_active_
  /\ UNCHANGED <<dpy, layers, driver, power, plug, connected, virtual, crashed, used>>

\* Only after a present of the active display; without a pending mode the session ends
\* as soon as no layer is secure, with one it lasts until a frame has been committed.
CheckPending ==
  /\ cmd.at = "check"
  /\ LET a == GetActiveBuiltinDisplay
     IN  IF ~secure_session_active_ \/ cmd.display # a
         THEN cmd' = IdleCommand /\ UNCHANGED secure_session_active_
         ELSE IF PendingModes(a) = {}
         THEN cmd' = IdleCommand /\ secure_session_active_' = (layers[a] # {})
         ELSE /\ cmd' = IF cmd.fence THEN [cmd EXCEPT !.at = "lock", !.active = a]
                        ELSE IdleCommand
              /\ UNCHANGED secure_session_active_
  /\ UNCHANGED <<dpy, layers, driver, power, plug, connected, virtual, crashed, used>>

\* pluggable_handler_lock_, taken with the lock of the active display held.  Without an
\* answer of the driver the modes stay pending until the next present.
LockHandler ==
  /\ cmd.at = "lock" /\ plug.at = "idle"
  /\ \/ /\ cmd' = [cmd EXCEPT !.at = "restore", !.next = HWC_DISPLAY_PRIMARY + 1,
                              !.snap = connected]
        /\ UNCHANGED used
     \/ cmd' = IdleCommand /\ CanFail /\ OneFault
  /\ UNCHANGED <<dpy, layers, secure_session_active_, driver, power, plug, connected, virtual,
                 crashed>>

(* Broken variant: the displays that are there are skipped, the others are not. *)
SkippedConnected(d) ==
  \/ d \notin Displays \/ d = cmd.active
  \/ ~dpy[d].exists \/ ~dpy[d].pending
  \/ d \in Pluggables /\ d \in cmd.snap

Skipped(d) ==
  \/ d \notin Displays \/ d = cmd.active
  \/ ~dpy[d].exists \/ ~dpy[d].pending
  \/ d \in Pluggables /\ d \notin cmd.snap         \* HandlePendingHotplug will remove it

(* Broken variant: the mark is cleared, whether the mode was restored or not. *)
RestoreCleared ==
  /\ cmd.at = "restore" /\ cmd.next # kNumDisplays
  /\ cmd' = [cmd EXCEPT !.next = @ + 1]
  /\ dpy' = IF Skipped(cmd.next) THEN dpy ELSE [dpy EXCEPT ![cmd.next].pending = FALSE]
  /\ UNCHANGED <<layers, secure_session_active_, driver, power, plug, connected, virtual,
                 crashed, used>>

\* The mode of one display is restored; if that fails it stays pending and the loop goes
\* on.  disp_map_info is looked up among the pluggable displays only, and is null for a
\* built-in one that is to be turned on.
Restore ==
  /\ cmd.at = "restore" /\ cmd.next # kNumDisplays
  /\ LET d == cmd.next
     IN  IF Skipped(d)
         THEN cmd' = [cmd EXCEPT !.next = @ + 1] /\ UNCHANGED <<dpy, crashed, used>>
         ELSE IF d \in Builtins /\ dpy[d].saved # "Off"
         THEN crashed' = TRUE /\ cmd' = IdleCommand /\ UNCHANGED <<dpy, used>>
         ELSE /\ \/ /\ dpy' = [dpy EXCEPT ![d].mode = dpy[d].saved, ![d].pending = FALSE,
                                           ![d].failed = FALSE]
                    /\ UNCHANGED used
                 \/ dpy' = [dpy EXCEPT ![d].failed = TRUE] /\ CanFail /\ OneFault
              /\ cmd' = [cmd EXCEPT !.next = @ + 1]
              /\ UNCHANGED crashed
  /\ UNCHANGED <<layers, secure_session_active_, driver, power, plug, connected, virtual>>

\* The session is over, whatever is still pending.
Restored ==
  /\ cmd.at = "restore" /\ cmd.next = kNumDisplays
  /\ secure_session_active_' = FALSE
  /\ cmd' = IdleCommand
  /\ UNCHANGED <<dpy, layers, driver, power, plug, connected, virtual, crashed, used>>

-----------------------------------------------------------------------------
(* HWCSession::SetPowerMode, on a thread of the client. *)

\* The class and the mode are read under the lock of the display.
CallSetPowerMode(d, mode) ==
  /\ power.at = "idle" /\ ~crashed /\ used.calls < MaxPowerCalls
  /\ dpy[d].exists /\ ~Locked(d)
  /\ mode = "On" /\ d \in Pluggables => d \in connected
  /\ power' = [display |-> d, mode |-> mode,
               at |-> IF d \in Builtins /\ dpy[d].mode = "Off" THEN "session" ELSE "check"]
  /\ used' = [used EXCEPT !.calls = @ + 1]
  /\ UNCHANGED <<dpy, layers, secure_session_active_, driver, cmd, plug, connected, virtual,
                 crashed>>

\* A built-in display that is off in a session: its mode is kept for the end, if some
\* other built-in display is on.
LookAtSession ==
  /\ power.at = "session"
  /\ power' = [power EXCEPT !.at = IF secure_session_active_ THEN "active" ELSE "check"]
  /\ UNCHANGED dpy

LookForActive ==
  /\ power.at = "active" /\ BuiltinsFree
  /\ power' = [power EXCEPT !.at = IF GetActiveBuiltinDisplay = kNumDisplays THEN "check"
                                   ELSE "defer"]
  /\ UNCHANGED dpy

SetPendingPowerMode ==
  /\ power.at = "defer" /\ ~Locked(power.display)
  /\ IF dpy[power.display].exists
     THEN dpy' = [dpy EXCEPT ![power.display].saved = power.mode] /\ power' = IdlePower
     ELSE power' = [power EXCEPT !.at = "check"] /\ UNCHANGED dpy

\* pending_power_mode_ is read without a lock; a call while the mode is pending is refused.
LookAtPending ==
  /\ power.at = "check"
  /\ power' = IF dpy[power.display].pending THEN IdlePower ELSE [power EXCEPT !.at = "mode"]
  /\ UNCHANGED dpy

\* So is the mode the display is in.
LookAtMode ==
  /\ power.at = "mode"
  /\ LET x == dpy[power.display]
     IN  power' = IF ~x.exists \/ x.mode = power.mode THEN IdlePower
                  ELSE [power EXCEPT !.at = "set"]
  /\ UNCHANGED dpy

\* CallDisplayFunction: the mode is set under the lock, which may fail.
SetMode ==
  /\ power.at = "set" /\ ~Locked(power.display)
  /\ dpy' = IF dpy[power.display].exists THEN [dpy EXCEPT ![power.display].mode = power.mode]
            ELSE dpy
  /\ power' = IdlePower

SetPowerMode ==
  /\ ~crashed
  /\ \/ /\ LookAtSession \/ LookForActive \/ SetPendingPowerMode \/ LookAtPending \/ LookAtMode
           \/ SetMode
        /\ UNCHANGED used
     \/ /\ power.at = "set" /\ ~Locked(power.display) /\ dpy[power.display].exists
        /\ CanFail /\ OneFault /\ power' = IdlePower /\ UNCHANGED dpy
  /\ UNCHANGED <<layers, secure_session_active_, driver, cmd, plug, connected, virtual, crashed>>

\* No virtual display in a session or with a pluggable one.
CreateVirtualDisplay ==
  /\ ~virtual /\ ~crashed /\ BuiltinsFree
  /\ LET a == GetActiveBuiltinDisplay IN a # kNumDisplays => layers[a] = {}
  /\ \A d \in Pluggables : ~dpy[d].exists
  /\ virtual' = TRUE
  /\ UNCHANGED <<dpy, layers, secure_session_active_, driver, cmd, power, plug, connected,
                 crashed, used>>

-----------------------------------------------------------------------------
(* HandlePluggableDisplays, as far as the two components meet. *)

\* A display is plugged or unplugged; a thread comes with pluggable_handler_lock_.
Hotplug ==
  /\ PluggableHandlerFree /\ ~crashed /\ used.plugs < MaxPlugs
  /\ \E d \in Pluggables :
       IF d \in connected
       THEN connected' = connected \ {d} /\ dpy' = [dpy EXCEPT ![d].lost = dpy[d].exists]
       ELSE connected' = connected \cup {d} /\ UNCHANGED dpy
  /\ plug' = [at |-> "builtin"]
  /\ used' = [used EXCEPT !.plugs = @ + 1]
  /\ UNCHANGED <<layers, secure_session_active_, driver, cmd, power, virtual, crashed>>

\* It asks the active built-in display for a session, and leaves the event for later.
AskForSession ==
  /\ plug.at = "builtin" /\ BuiltinsFree
  /\ LET a == GetActiveBuiltinDisplay
     IN  plug' = [at |-> IF virtual \/ (a # kNumDisplays /\ layers[a] # {})
                         THEN "idle" ELSE "sync"]
  /\ UNCHANGED <<dpy, layers, secure_session_active_, driver, cmd, power, connected, virtual,
                 crashed, used>>

\* It creates and destroys displays; the latter waits for the command in progress.
SyncDisplays ==
  /\ plug.at = "sync"
  /\ (\E d \in Pluggables \ connected : dpy[d].exists) => cmd.at = "idle"
  /\ dpy' = [d \in Displays |->
               IF d \in Pluggables /\ dpy[d].exists # (d \in connected)
               THEN [NoDisplay EXCEPT !.exists = d \in connected] ELSE dpy[d]]
  /\ plug' = [at |-> "idle"]
  /\ UNCHANGED <<layers, secure_session_active_, driver, cmd, power, connected, virtual,
                 crashed, used>>

-----------------------------------------------------------------------------
Command_ ==
  LookForSession \/ DestroyVirtualDisplay \/ HandleSecureSession \/ Draw \/ CheckPending
  \/ LockHandler \/ Restore \/ Restored
Client_ ==
  \/ \E d \in Displays : Present(d) \/ \E mode \in Modes : CallSetPowerMode(d, mode)
  \/ CreateVirtualDisplay
SsNext == Command_ \/ Client_ \/ SetPowerMode \/ Hotplug \/ AskForSession \/ SyncDisplays

(* Threads go on, and the client draws the primary display again and again    *)
(* when that is on.                                                          *)
SsFairness ==
  /\ WF_ssVars(Command_) /\ WF_ssVars(SetPowerMode) /\ WF_ssVars(AskForSession)
  /\ WF_ssVars(SyncDisplays) /\ SF_ssVars(Present(HWC_DISPLAY_PRIMARY))

SsSpec == SsInit /\ [][SsNext]_ssVars /\ SsFairness

-----------------------------------------------------------------------------
(* Properties. *)

\* A present waits for the lock of a hotplug that waits for a lock of the present.
LockCycle ==
  /\ cmd.at = "lock" /\ plug.at # "idle"
  /\ \/ plug.at = "builtin"
     \/ plug.at = "sync" /\ \E d \in Pluggables \ connected : dpy[d].exists

\* "Do hotplug handling in a different thread to avoid blocking PresentDisplay"
\* (HandlePendingHotplug): a present never waits for a hotplug for ever.
NoLockCycle == ~LockCycle

\* "if power request comes on second built-in, cache it and process once secure session
\* ends" (SetPowerMode): processing it needs no entry of map_info_pluggable_.
NoNullMapInfo == ~crashed

\* "Set power mode is not allowed during secure display session" (the warning of
\* SetPowerMode): no call turns on a display that was turned off for the session.  Does not
\* hold: what the call looks at is set only when the session ends.
NotTurnedOnInSession ==
  [][\A d \in Pluggables :
       /\ power.at = "set" /\ power' = IdlePower /\ dpy[d].sessions # {}
       /\ dpy[d].mode = "Off"
       => dpy'[d].mode = "Off"]_ssVars

\* A display whose mode is pending refuses power calls and frames, so a session must be
\* open that will end and restore it; unless its slot waits for removal, or to restore it
\* was tried and failed.
PendingHasSession ==
  \A d \in Displays :
    dpy[d].pending /\ ~dpy[d].lost => secure_session_active_ \/ dpy[d].failed

\* A display whose mode is pending comes back only after a frame has told the driver that
\* the session is over ("Otherwise any commit to non-primary display would fail",
\* HandlePendingPowerMode), if the frame it presents is not a secure one again; or by a
\* power call that found no mode pending and was overtaken by the end of the session.
ComesBackAfterSession ==
  [][\A d \in Pluggables :
       dpy[d].pending /\ dpy[d].mode = "Off" /\ dpy'[d].mode = "On"
       => \/ /\ cmd.at = "restore" /\ cmd' # cmd
             /\ layers[cmd.active] = {} => ~driver
          \/ power.at = "set" /\ power.display = d /\ power' # power]_ssVars

\* The mode that waits for the end of a session is restored, and not only forgotten: the
\* display is on again.  Else its display goes or refuses, another session began before and
\* saved that it was off, the primary display is off, or the threads wait for each other.
PendingIsRestored ==
  \A d \in Pluggables :
    dpy[d].pending ~> \/ dpy[d].mode = "On" \/ dpy[d].lost \/ dpy[d].failed
                      \/ dpy[d].pending /\ dpy[d].saved = "Off"
                      \/ dpy[HWC_DISPLAY_PRIMARY].mode = "Off" \/ LockCycle
=============================================================================
