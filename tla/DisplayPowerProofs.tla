------------------------- MODULE DisplayPowerProofs -------------------------
(***************************************************************************)
(* Proofs about DisplayPower: a deferred power request is kept and carried *)
(* out, a display that no session uses is resumed, the panel follows On    *)
(* and Off, an off video mode panel is not drawn, and a session of another *)
(* VM does not change a video mode panel.  The lemmas say what a power     *)
(* call of each layer may return (...Does) and that each action keeps the  *)
(* invariant DpInv (...Keeps).  A call that fails leaves the layers apart, *)
(* as the code does: beyond its types the invariant is about behaviors     *)
(* without failures so far.                                                *)
(***************************************************************************)
EXTENDS DisplayPower, TLAPS

\* The fields a power call or a frame is about agree; the vsync state may differ.
Alike(e, d) ==
  /\ e.state = d.state /\ e.pending = d.pending /\ e.active = d.active /\ e.refresh = d.refresh
  /\ e.hw_pending = d.hw_pending /\ e.panel = d.panel /\ e.tui_state = d.tui_state
  /\ e.first_cycle = d.first_cycle /\ e.cwb = d.cwb /\ e.cwb_teardown = d.cwb_teardown

\* The vsync calls keep what a power call or a frame is about.
LEMMA VsyncTyped ==
  ASSUME NEW d \in Display
  PROVE  /\ \A b \in BOOLEAN : SetVSyncState(d, b) \in Display /\ Alike(SetVSyncState(d, b), d)
         /\ HandlePendingVSyncEnable(d) \in Display /\ Alike(HandlePendingVSyncEnable(d), d)
         /\ SuspendVSync(d) \in Display /\ Alike(SuspendVSync(d), d)
<1>1. ASSUME NEW e \in Display, NEW v \in BOOLEAN, NEW p \in BOOLEAN
      PROVE  [e EXCEPT !.vsync = v, !.vsync_pending = p] \in Display
             /\ Alike([e EXCEPT !.vsync = v, !.vsync_pending = p], e)
  BY DEF Display, Alike
<1>2. ASSUME NEW e \in Display, NEW p \in BOOLEAN
      PROVE  /\ [e EXCEPT !.vsync_pending = p] \in Display
             /\ Alike([e EXCEPT !.vsync_pending = p], e)
  BY DEF Display, Alike
<1>3. ASSUME NEW e \in Display, NEW b \in BOOLEAN
      PROVE  SetVSyncState(e, b) \in Display /\ Alike(SetVSyncState(e, b), e)
  <2>1. e.vsync_pending \in BOOLEAN
    BY DEF Display
  <2> QED
    BY <2>1, <1>1, <1>2 DEF SetVSyncState
<1>4. HandlePendingVSyncEnable(d) \in Display /\ Alike(HandlePendingVSyncEnable(d), d)
  <2>1. SetVSyncState(d, TRUE) \in Display /\ Alike(SetVSyncState(d, TRUE), d)
    BY <1>3
  <2>2. Alike(d, d)
    BY DEF Alike
  <2> QED
    BY <1>2, <2>1, <2>2 DEF HandlePendingVSyncEnable, Alike
<1>5. SuspendVSync(d) \in Display /\ Alike(SuspendVSync(d), d)
  <2>1. SetVSyncState(d, FALSE) \in Display /\ Alike(SetVSyncState(d, FALSE), d)
    BY <1>3
  <2>2. Alike(d, d)
    BY DEF Alike
  <2> QED
    BY <1>2, <2>1, <2>2 DEF SuspendVSync, Alike
<1> QED
  BY <1>3, <1>4, <1>5

\* What a power call of the hardware layer may do.
HwDone(o, d, m) ==
  /\ o.d.state = d.state /\ o.d.pending = d.pending /\ o.d.active = d.active
  /\ o.d.refresh = d.refresh /\ o.d.first_cycle = d.first_cycle
  /\ o.d.cwb_teardown = d.cwb_teardown /\ (o.d.cwb => d.cwb)
  /\ o.err = "deferred" =>
       /\ o.d.hw_pending = m /\ o.d.panel = d.panel /\ o.d.tui_state = d.tui_state
       /\ m = "Off" => d.tui_state \in {"Start", "InProgress"} \/ d.cwb_teardown
  /\ o.err = "none" =>
       /\ o.d.tui_state = NextTui(d.tui_state) /\ d.tui_state # "InProgress"
       /\ m = "On" => ~d.first_cycle
       /\ m \in {"On", "Off"} =>
            \/ o.d.panel = m /\ o.d.hw_pending = "none"
            \/ d.first_cycle /\ o.d.panel = d.panel /\ o.d.hw_pending = d.hw_pending

\* A display and whether the hardware layer did, put off or refused the call.
Outcome == [d : Display, err : {"none", "deferred", "failed"}]

\* PowerOn, PowerOff, Doze and DozeSuspend of the hardware layer do that.
LEMMA HwPowerDoes ==
  ASSUME NEW d \in Display, NEW m \in Modes, NEW o \in HwPower(d, m)
  PROVE  o \in Outcome /\ HwDone(o, d, m)
<1>1. /\ m \in Pending /\ "none" \in Pending
      /\ d.tui_state \in {"None", "Start", "InProgress", "End"}
      /\ NextTui(d.tui_state) \in {"None", "Start", "InProgress", "End"} /\ FALSE \in BOOLEAN
  BY DEF Pending, Display, NextTui
<1>2. [d EXCEPT !.hw_pending = m] \in Display
  BY <1>1 DEF Display
<1>3. \A c \in BOOLEAN : [d EXCEPT !.cwb = c] \in Display
  BY DEF Display
<1>4. SetTUIState(d) \in Display
  BY <1>1 DEF Display, SetTUIState
<1>5. ASSUME NEW e \in Display, NextTui(e.tui_state) \in {"None", "Start", "InProgress", "End"}
      PROVE NullCommit(e, m) \in Display
  BY <1>5, <1>1 DEF Display, NullCommit
<1>6. ASSUME NEW e \in Display
      PROVE [e EXCEPT !.hw_pending = "none"] \in Display
  BY <1>1 DEF Display
<1>7. CASE /\ o \in Defer(d, m)
           /\ (m = "Off" => d.tui_state \in {"Start", "InProgress"} \/ d.cwb_teardown)
  <2>1. o = [d |-> [d EXCEPT !.hw_pending = m], err |-> "deferred"]
    BY <1>7 DEF Defer
  <2>2. o \in Outcome
    BY <2>1, <1>2 DEF Outcome
  <2> QED
    BY <1>7, <2>1, <2>2 DEF HwDone, Display
<1>8. ASSUME NEW e \in Display, NEW c \in BOOLEAN, e = d \/ e = [d EXCEPT !.cwb = FALSE],
             o \in Settled(e, m),
             d.tui_state # "InProgress", m = "On" => ~d.first_cycle
      PROVE  o \in Outcome /\ HwDone(o, d, m)
  <2>1. e.tui_state = d.tui_state /\ NullCommit(e, m) \in Display
    BY <1>8, <1>5, <1>1 DEF Display
  <2>2. CASE o = Ok([NullCommit(e, m) EXCEPT !.hw_pending = "none"])
    <3>1. o = [d |-> [NullCommit(e, m) EXCEPT !.hw_pending = "none"], err |-> "none"]
      BY <2>2 DEF Ok
    <3>2. o \in Outcome
      BY <2>1, <3>1, <1>6 DEF Outcome
    <3> QED
      BY <1>8, <3>1, <3>2 DEF HwDone, NullCommit, Display
  <2>3. CASE o = Failed(e)
    BY <1>8, <2>3 DEF Failed, Outcome, HwDone, Display
  <2> QED
    BY <1>8, <2>2, <2>3 DEF Settled
<1>9. CASE m = "On"
  <2>1. o \in PowerOn(d)
    BY <1>9 DEF HwPower
  <2> QED
    BY <2>1, <1>7, <1>8, <1>9 DEF PowerOn
<1>10. CASE m = "Off"
  <2>1. o \in PowerOff(d)
    BY <1>10 DEF HwPower
  <2>2. CASE d.tui_state \in {"Start", "InProgress"} \/ d.cwb_teardown
    BY <2>1, <2>2, <1>7, <1>10 DEF PowerOff
  <2>3. CASE ~(d.tui_state \in {"Start", "InProgress"} \/ d.cwb_teardown) /\ d.first_cycle
    <3>1. o = [d |-> SetTUIState(d), err |-> "none"]
      BY <2>1, <2>3 DEF PowerOff, Ok
    <3>2. o \in Outcome
      BY <3>1, <1>4 DEF Outcome
    <3> QED
      BY <1>10, <2>3, <3>1, <3>2 DEF HwDone, SetTUIState, Display
  <2>4. CASE ~(d.tui_state \in {"Start", "InProgress"} \/ d.cwb_teardown) /\ ~d.first_cycle
    BY <2>1, <2>4, <1>3, <1>8, <1>10 DEF PowerOff
  <2> QED
    BY <2>2, <2>3, <2>4
<1>11. CASE m = "Doze"
  <2>1. o \in DozeOn(d)
    BY <1>11 DEF HwPower
  <2>2. CASE d.first_cycle \/ d.tui_state # "None" \/ d.hw_mode # "Off"
    BY <2>1, <2>2, <1>7, <1>11 DEF DozeOn
  <2>3. CASE ~(d.first_cycle \/ d.tui_state # "None" \/ d.hw_mode # "Off")
    <3>1. o = [d |-> NullCommit(d, m), err |-> "none"] \/ o = [d |-> d, err |-> "failed"]
      BY <2>1, <2>3, <1>11 DEF DozeOn, Ok, Failed
    <3>2. o \in Outcome
      BY <3>1, <1>1, <1>5 DEF Outcome
    <3>3. /\ NullCommit(d, m).state = d.state /\ NullCommit(d, m).pending = d.pending
          /\ NullCommit(d, m).active = d.active /\ NullCommit(d, m).refresh = d.refresh
          /\ NullCommit(d, m).first_cycle = d.first_cycle
          /\ NullCommit(d, m).cwb_teardown = d.cwb_teardown /\ NullCommit(d, m).cwb = d.cwb
          /\ NullCommit(d, m).tui_state = NextTui(d.tui_state)
      BY DEF NullCommit, Display
    <3> QED
      BY <1>11, <2>3, <3>1, <3>2, <3>3 DEF HwDone
  <2> QED
    BY <2>2, <2>3
<1>12. CASE m = "DozeSuspend"
  <2>1. o \in DozeSuspend(d)
    BY <1>12 DEF HwPower
  <2> QED
    BY <2>1, <1>7, <1>8, <1>12 DEF DozeSuspend
<1> QED
  BY <1>9, <1>10, <1>11, <1>12 DEF Modes

\* What a power call of SDM may do, when it succeeds.
PutOff(e, d, m) ==
  /\ e.pending = m /\ e.hw_pending = m /\ e.refresh
  /\ e.state = d.state /\ e.active = d.active /\ e.panel = d.panel /\ e.tui_state = d.tui_state
  /\ m = "Off" => d.tui_state \in {"Start", "InProgress"} \/ d.cwb_teardown

\* The display has entered the state of the call.
Entered(e, d, m) ==
  /\ e.pending = "none" /\ e.refresh = d.refresh
  /\ e.state = m /\ (m = "Off" => ~e.active)
  /\ e.tui_state = NextTui(d.tui_state) /\ d.tui_state # "InProgress"
  /\ m = "On" => ~d.first_cycle
  /\ m \in {"On", "Off"} =>
       \/ e.panel = m /\ e.hw_pending = "none"
       \/ d.first_cycle /\ e.panel = d.panel /\ e.hw_pending = d.hw_pending

\* The display was in that state: what was put off is forgotten.
Cancelled(e, d, m) ==
  /\ m = d.state
  /\ e.pending = "none"
  /\ e.hw_pending = (IF d.pending = "none" THEN d.hw_pending ELSE "none")
  /\ e.state = d.state /\ e.active = d.active /\ e.panel = d.panel /\ e.tui_state = d.tui_state
  /\ e.refresh = d.refresh

\* The first cycle goes on and no writeback starts.
Rest(e, d) ==
  e.first_cycle = d.first_cycle /\ e.cwb_teardown = d.cwb_teardown /\ (e.cwb => d.cwb)

\* What SetDisplayState makes of the answer of the hardware layer.
LEMMA AfterPowerDoes ==
  ASSUME NEW d \in Display, NEW m \in Modes, m # d.state, NEW o \in Outcome, HwDone(o, d, m),
         NEW r \in AfterPower(o, m)
  PROVE  /\ r.d \in Display /\ r.err \in {"none", "failed"}
         /\ r.err = "none" => Rest(r.d, d) /\ (PutOff(r.d, d, m) \/ Entered(r.d, d, m))
<1> DEFINE noted == [o.d EXCEPT !.pending = IF o.err = "deferred" THEN m ELSE "none"]
           entered == [noted EXCEPT !.state = m, !.active = m \in {"On", "Doze"}]
<1>1. o.d \in Display /\ o.err \in {"none", "deferred", "failed"}
  BY DEF Outcome
<1>2. m \in Pending /\ "none" \in Pending
  BY DEF Pending
<1>3. noted \in Display
  BY <1>1, <1>2 DEF Display
<1>4. ASSUME NEW a \in BOOLEAN PROVE [noted EXCEPT !.state = m, !.active = a] \in Display
  BY <1>3 DEF Display
<1>5. entered \in Display
  <2>1. (m \in {"On", "Doze"}) \in BOOLEAN
    OBVIOUS
  <2> HIDE DEF noted
  <2> QED
    BY <2>1, <1>4
<1>6. [noted EXCEPT !.refresh = TRUE] \in Display
  BY <1>3 DEF Display
<1>7. /\ HandlePendingVSyncEnable(entered) \in Display
      /\ Alike(HandlePendingVSyncEnable(entered), entered)
  BY <1>5, VsyncTyped
<1>8. CASE o.err = "failed"
  BY <1>1, <1>8 DEF AfterPower
<1>9. CASE o.err = "deferred"
  <2>1. r = [d |-> [noted EXCEPT !.refresh = TRUE], err |-> "none"]
        \/ r = [d |-> noted, err |-> "failed"]
    BY <1>9 DEF AfterPower, Ok, Failed
  <2>2. r.d \in Display /\ r.err \in {"none", "failed"}
    BY <2>1, <1>3, <1>6
  <2>3. ASSUME r.err = "none" PROVE Rest(r.d, d) /\ PutOff(r.d, d, m)
    <3> DEFINE e == [noted EXCEPT !.refresh = TRUE]
    <3>1. /\ e.pending = m /\ e.refresh /\ e.state = o.d.state /\ e.active = o.d.active
          /\ e.panel = o.d.panel /\ e.tui_state = o.d.tui_state /\ e.hw_pending = o.d.hw_pending
          /\ e.first_cycle = o.d.first_cycle /\ e.cwb = o.d.cwb
          /\ e.cwb_teardown = o.d.cwb_teardown
      BY <1>1, <1>9 DEF Display
    <3>2. r.d = e
      BY <2>1, <2>3
    <3> HIDE DEF e
    <3> QED
      BY <1>9, <3>1, <3>2 DEF Rest, PutOff, HwDone
  <2> QED
    BY <2>2, <2>3
<1>10. CASE o.err = "none"
  <2>1. PICK e \in {entered, HandlePendingVSyncEnable(entered)} :
           r = [d |-> e, err |-> "none"] \/ r = [d |-> noted, err |-> "failed"]
    BY <1>10 DEF AfterPower, Ok, Failed
  <2>2. e \in Display /\ Alike(e, entered)
    BY <1>5, <1>7 DEF Alike
  <2>3. r.d \in Display /\ r.err \in {"none", "failed"}
    BY <2>1, <2>2, <1>3
  <2>4. /\ entered.pending = "none" /\ entered.refresh = o.d.refresh /\ entered.state = m
        /\ entered.active = (m \in {"On", "Doze"})
        /\ entered.tui_state = o.d.tui_state /\ entered.panel = o.d.panel
        /\ entered.hw_pending = o.d.hw_pending
        /\ entered.first_cycle = o.d.first_cycle /\ entered.cwb = o.d.cwb
        /\ entered.cwb_teardown = o.d.cwb_teardown
    BY <1>10, <1>1 DEF Display
  <2> HIDE DEF entered, noted
  <2>5. ASSUME r.err = "none" PROVE Rest(r.d, d) /\ Entered(r.d, d, m)
    <3>1. r.d = e
      BY <2>1, <2>5
    <3> QED
      BY <1>10, <3>1, <2>2, <2>4 DEF Rest, Entered, HwDone, Alike
  <2> QED
    BY <2>3, <2>5
<1> QED
  BY <1>1, <1>8, <1>9, <1>10

\* SetDisplayState puts the request off, enters the state, or cancels what was put off.
LEMMA SetDisplayStateDoes ==
  ASSUME NEW d \in Display, NEW m \in Modes, NEW r \in SetDisplayState(d, m)
  PROVE  /\ r.d \in Display /\ r.err \in {"none", "failed"}
         /\ r.err = "none" =>
              /\ Rest(r.d, d)
              /\ PutOff(r.d, d, m) \/ Entered(r.d, d, m) \/ Cancelled(r.d, d, m)
              /\ m = d.state => Cancelled(r.d, d, m)
<1>1. PICK q \in BaseSetDisplayState(d, m) :
         r = IF q.err = "none" THEN Ok([q.d EXCEPT !.vsync = @ /\ m # "Off"]) ELSE q
  BY DEF SetDisplayState
<1>2. /\ q.d \in Display /\ q.err \in {"none", "failed"}
      /\ q.err = "none" =>
           /\ Rest(q.d, d)
           /\ PutOff(q.d, d, m) \/ Entered(q.d, d, m) \/ Cancelled(q.d, d, m)
           /\ m = d.state => Cancelled(q.d, d, m)
  <2>1. CASE m = d.state
    <3>1. q = [d |-> CancelDeferred(d), err |-> "none"]
      BY <2>1 DEF BaseSetDisplayState, Ok
    <3>2. CancelDeferred(d) \in Display
      BY DEF CancelDeferred, Display, Pending
    <3> QED
      BY <2>1, <3>1, <3>2 DEF CancelDeferred, Cancelled, Rest, Display
  <2>2. CASE m # d.state
    <3>1. PICK s \in {d, SuspendVSync(d)} : q \in UNION {AfterPower(o, m) : o \in HwPower(s, m)}
      BY <2>2 DEF BaseSetDisplayState
    <3>2. s \in Display /\ Alike(s, d)
      BY VsyncTyped DEF Alike
    <3>3. PICK o \in HwPower(s, m) : q \in AfterPower(o, m)
      BY <3>1
    <3>4. o \in Outcome /\ HwDone(o, s, m)
      BY <3>2, HwPowerDoes
    <3>5. /\ q.d \in Display /\ q.err \in {"none", "failed"}
          /\ q.err = "none" => Rest(q.d, s) /\ (PutOff(q.d, s, m) \/ Entered(q.d, s, m))
      BY <2>2, <3>2, <3>3, <3>4, AfterPowerDoes DEF Alike
    <3> QED
      BY <2>2, <3>2, <3>5 DEF Rest, PutOff, Entered, Alike
  <2> QED
    BY <2>1, <2>2
<1>3. [q.d EXCEPT !.vsync = @ /\ m # "Off"] \in Display
  BY <1>2 DEF Display
<1>4. Alike([q.d EXCEPT !.vsync = @ /\ m # "Off"], q.d)
  BY <1>2 DEF Alike, Display
<1>5. CASE q.err = "none"
  <2>1. r = [d |-> [q.d EXCEPT !.vsync = @ /\ m # "Off"], err |-> "none"]
    BY <1>1, <1>5 DEF Ok
  <2> DEFINE e == [q.d EXCEPT !.vsync = @ /\ m # "Off"]
  <2>2. r.d = e /\ r.err = "none" /\ e \in Display /\ Alike(e, q.d)
    BY <2>1, <1>3, <1>4
  <2> HIDE DEF e
  <2> QED
    BY <1>2, <1>5, <2>2 DEF Alike, Rest, PutOff, Entered, Cancelled
<1>6. CASE q.err # "none"
  BY <1>1, <1>2, <1>6
<1> QED
  BY <1>5, <1>6
-----------------------------------------------------------------------------
(* The hardware layer of a session, and what a session leaves. *)

\* The power fields but the TUI state are kept.
Told(e, d) ==
  /\ e.state = d.state /\ e.pending = d.pending /\ e.active = d.active
  /\ d.refresh => e.refresh
  /\ e.hw_pending = d.hw_pending /\ e.panel = d.panel
  /\ Rest(e, d)

\* A secure event of the hardware layer moves its TUI state, and nothing else of a power call.
LEMMA HwSecureDoes ==
  ASSUME NEW d \in Display, NEW ev \in {"Start", "End", "UnPrepare"},
         NEW o \in HwSecureEvent(d, ev)
  PROVE  /\ o.d \in Display /\ o.err \in {"none", "failed"} /\ Told(o.d, d)
         /\ ev = "UnPrepare" =>
              o.d.tui_state = IF d.tui_state = "None" THEN "InProgress" ELSE d.tui_state
         /\ o.err = "none" /\ ev = "Start" /\ ~CommandMode =>
               o.d.tui_state = NextTui(IF d.tui_state = "None" THEN "Start" ELSE d.tui_state)
         /\ o.err = "none" /\ ev = "End" /\ ~CommandMode => o.d.tui_state = "None"
<1> DEFINE TuiStates == {"None", "Start", "InProgress", "End"}
<1>1. ASSUME NEW t \in TuiStates
      PROVE  /\ [d EXCEPT !.tui_state = t] \in Display /\ Told([d EXCEPT !.tui_state = t], d)
             /\ [d EXCEPT !.tui_state = t].tui_state = t
  BY DEF Display, Told, Rest
<1>2. ASSUME NEW e \in Display, Told(e, d), NEW x \in HwFlush(e)
      PROVE  /\ x.d \in Display /\ x.err \in {"none", "failed"} /\ Told(x.d, d)
             /\ x.d.tui_state = e.tui_state
  <2> DEFINE c == [e EXCEPT !.cwb = FALSE]
  <2>1. c \in Display /\ Told(c, e) /\ c.tui_state = e.tui_state
    BY DEF Display, Told, Rest
  <2>2. x = [d |-> c, err |-> "none"] \/ x = [d |-> e, err |-> "failed"]
    BY <1>2 DEF HwFlush, Ok, Failed
  <2> HIDE DEF c
  <2>3. Told(c, d)
    BY <1>2, <2>1 DEF Told, Rest
  <2> QED
    BY <1>2, <2>1, <2>2, <2>3
<1>3. ASSUME NEW e \in Display, Told(e, d)
      PROVE  /\ SetTUIState(e) \in Display /\ Told(SetTUIState(e), d)
             /\ SetTUIState(e).tui_state = NextTui(e.tui_state)
  BY <1>3 DEF Display, Told, Rest, SetTUIState, NextTui
<1>4. d.tui_state \in TuiStates
  BY DEF Display
<1>5. ASSUME NEW s \in Display, Told(s, d),
             o \in {IF x.err = "none" THEN Ok(SetTUIState(x.d)) ELSE x : x \in HwFlush(s)}
      PROVE  /\ o.d \in Display /\ o.err \in {"none", "failed"} /\ Told(o.d, d)
             /\ o.err = "none" => o.d.tui_state = NextTui(s.tui_state)
  <2>1. PICK x \in HwFlush(s) : o = IF x.err = "none" THEN Ok(SetTUIState(x.d)) ELSE x
    BY <1>5
  <2>2. /\ x.d \in Display /\ x.err \in {"none", "failed"} /\ Told(x.d, d)
        /\ x.d.tui_state = s.tui_state
    BY <1>2, <1>5
  <2>3. /\ SetTUIState(x.d) \in Display /\ Told(SetTUIState(x.d), d)
        /\ SetTUIState(x.d).tui_state = NextTui(x.d.tui_state)
    BY <1>3, <2>2
  <2> QED
    BY <2>1, <2>2, <2>3 DEF Ok
<1>6. CASE ev = "UnPrepare"
  <2> DEFINE t == IF d.tui_state = "None" THEN "InProgress" ELSE d.tui_state
  <2>1. o = [d |-> [d EXCEPT !.tui_state = t], err |-> "none"]
    BY <1>6 DEF HwSecureEvent, Ok
  <2>2. t \in TuiStates
    BY <1>4
  <2> QED
    BY <1>1, <1>6, <2>1, <2>2
<1>7. CASE ev = "Start"
  <2> DEFINE t == IF d.tui_state = "None" THEN "Start" ELSE d.tui_state
             s == [d EXCEPT !.tui_state = t]
  <2>1. s \in Display /\ Told(s, d) /\ s.tui_state = t
    BY <1>1, <1>4
  <2>2. CASE CommandMode
    <3>1. o = [d |-> s, err |-> "none"]
      BY <1>7, <2>2 DEF HwSecureEvent, Ok
    <3> QED
      BY <1>7, <2>1, <2>2, <3>1
  <2>3. CASE ~CommandMode
    <3>1. o \in {IF x.err = "none" THEN Ok(SetTUIState(x.d)) ELSE x : x \in HwFlush(s)}
      <4>1. s = [d EXCEPT !.tui_state = IF @ = "None" THEN "Start" ELSE @]
        BY DEF Display
      <4> HIDE DEF s
      <4> QED
        BY <1>7, <2>3, <4>1 DEF HwSecureEvent
    <3> HIDE DEF s
    <3>2. /\ o.d \in Display /\ o.err \in {"none", "failed"} /\ Told(o.d, d)
          /\ o.err = "none" => o.d.tui_state = NextTui(s.tui_state)
      BY <2>1, <3>1, <1>5
    <3> QED
      BY <1>7, <2>1, <2>3, <3>2
  <2> QED
    BY <2>2, <2>3
<1>8. CASE ev = "End"
  <2> DEFINE t == IF d.tui_state = "InProgress" THEN "End" ELSE "None"
             s == [d EXCEPT !.tui_state = t]
  <2>1. s \in Display /\ Told(s, d) /\ s.tui_state = t
    BY <1>1
  <2>2. CASE CommandMode /\ d.hw_pending # "Off"
    <3>1. o = [d |-> s, err |-> "none"]
      BY <1>8, <2>2 DEF HwSecureEvent, Ok
    <3> QED
      BY <1>8, <2>1, <2>2, <3>1
  <2>3. CASE ~(CommandMode /\ d.hw_pending # "Off")
    <3>1. o \in {IF x.err = "none" THEN Ok(SetTUIState(x.d)) ELSE x : x \in HwFlush(s)}
      <4>1. s = [d EXCEPT !.tui_state = IF @ = "InProgress" THEN "End" ELSE "None"]
        BY DEF Display
      <4> HIDE DEF s
      <4> QED
        BY <1>8, <2>3, <4>1 DEF HwSecureEvent
    <3>2. NextTui(t) = "None"
      BY DEF NextTui
    <3> QED
      BY <1>8, <2>1, <2>3, <3>1, <3>2, <1>5
  <2> QED
    BY <2>2, <2>3
<1> QED
  BY <1>6, <1>7, <1>8

\* A session starts on a display that is on with no request put off, or is refused.
LEMMA StartDoes ==
  ASSUME TypeOK, NEW d \in Display, NEW o \in HandleSecureEvent(d, "Start")
  PROVE  /\ o.d \in Display /\ o.err \in {"none", "failed", "permission"}
         /\ o.refresh \in BOOLEAN
         /\ Told(o.d, d)
         /\ o.err = "permission" => o.d = d /\ ~o.refresh
         /\ o.err = "none" => d.state = "On" /\ d.pending = "none"
         /\ o.err = "none" /\ ~CommandMode =>
              /\ ~o.refresh
              /\ o.d.tui_state = NextTui(IF d.tui_state = "None" THEN "Start" ELSE d.tui_state)
<1>1. CASE d.state # "On" \/ d.pending # "none"
  <2>1. o = [d |-> d, err |-> "permission", refresh |-> FALSE]
    BY <1>1 DEF HandleSecureEvent, StartSession
  <2> QED
    BY <2>1 DEF Told, Rest
<1>2. CASE ~(d.state # "On" \/ d.pending # "none")
  <2> DEFINE s == SuspendVSync(d)
  <2>1. s \in Display /\ Alike(s, d)
    BY VsyncTyped
  <2>2. PICK x \in HwSecureEvent(s, "Start") :
          o = Wrap(IF x.err = "none" THEN Ok([x.d EXCEPT !.secure = "Start"]) ELSE x, CommandMode)
    BY <1>2 DEF HandleSecureEvent, StartSession
  <2> HIDE DEF s
  <2>3. /\ x.d \in Display /\ x.err \in {"none", "failed"} /\ Told(x.d, s)
        /\ x.err = "none" /\ ~CommandMode =>
              x.d.tui_state = NextTui(IF s.tui_state = "None" THEN "Start" ELSE s.tui_state)
    BY <2>1, HwSecureDoes
  <2>4. /\ [x.d EXCEPT !.secure = "Start"] \in Display
        /\ Alike([x.d EXCEPT !.secure = "Start"], x.d)
    BY <2>3 DEF Display, Events, Alike
  <2>5. CommandMode \in BOOLEAN
    BY KindsAssumption DEF CommandMode, TypeOK
  <2>6. PICK e \in {x.d, [x.d EXCEPT !.secure = "Start"]} :
          o = [d |-> e, err |-> x.err, refresh |-> CommandMode]
    BY <2>2, <2>3 DEF Wrap, Ok
  <2>7. e \in Display /\ Alike(e, x.d)
    BY <2>3, <2>4 DEF Alike
  <2> QED
    BY <1>2, <2>1, <2>3, <2>5, <2>6, <2>7 DEF Told, Rest, Alike
<1> QED
  BY <1>1, <1>2

\* The end of a session tells the hardware layer and then carries out the request put off.
LEMMA ResumeDoes ==
  ASSUME TypeOK, NEW d \in Display, NEW ev \in {"End", "UnPrepare"},
         NEW o \in HandleSecureEvent(d, ev)
  PROVE  /\ o.d \in Display /\ o.err \in {"none", "failed"} /\ o.refresh \in BOOLEAN
         /\ o.err = "none" => \E e \in Display :
              /\ Told(e, d)
              /\ ev = "End" /\ ~CommandMode => e.tui_state = "None"
              /\ ev = "UnPrepare" =>
                   e.tui_state = IF d.tui_state = "None" THEN "InProgress" ELSE d.tui_state
              /\ \/ /\ d.pending # "none" /\ (ev = "End" => d.pending = "Off")
                    /\ Rest(o.d, e)
                    /\ \/ PutOff(o.d, e, d.pending) \/ Entered(o.d, e, d.pending)
                       \/ Cancelled(o.d, e, d.pending)
                    /\ d.pending = d.state => Cancelled(o.d, e, d.pending)
                 \/ /\ d.pending = "none" \/ (ev = "End" /\ d.pending # "Off")
                    /\ o.d = e /\ o.refresh = (ev = "End")
<1>1. PICK x \in HwSecureEvent(d, ev) : o \in Resume(x, ev)
  BY DEF HandleSecureEvent
<1>2. /\ x.d \in Display /\ x.err \in {"none", "failed"} /\ Told(x.d, d)
      /\ ev = "UnPrepare" =>
           x.d.tui_state = IF d.tui_state = "None" THEN "InProgress" ELSE d.tui_state
      /\ x.err = "none" /\ ev = "End" /\ ~CommandMode => x.d.tui_state = "None"
  BY HwSecureDoes
<1> DEFINE e == [x.d EXCEPT !.secure = ev, !.refresh = @ \/ x.d.pending = "Doze"]
<1>3. /\ e \in Display /\ Told(e, x.d) /\ e.tui_state = x.d.tui_state
  BY <1>2 DEF Display, Events, Told, Rest
<1>4. CASE x.err # "none"
  <2>1. o = Wrap(x, FALSE)
    BY <1>1, <1>4 DEF Resume
  <2> QED
    BY <1>2, <1>4, <2>1 DEF Wrap
<1>5. CASE x.err = "none"
  <2>1. /\ Told(e, d) /\ (ev = "End" /\ ~CommandMode => e.tui_state = "None")
        /\ ev = "UnPrepare" =>
             e.tui_state = IF d.tui_state = "None" THEN "InProgress" ELSE d.tui_state
    <3> HIDE DEF e
    <3> QED
      BY <1>2, <1>3, <1>5 DEF Told, Rest
  <2>2. CASE d.pending # "none" /\ (ev = "End" => d.pending = "Off")
    <3>1. d.pending \in Modes
      BY <2>2 DEF Display, Pending
    <3>2. e.pending = d.pending /\ e.state = d.state
      <4> HIDE DEF e
      <4> QED
        BY <2>1 DEF Told
    <3>3. PICK r \in SetDisplayState(e, d.pending), b \in BOOLEAN : o = Wrap(r, b)
      <4>1. CASE ev = "End"
        <5>1. o \in {Wrap(r, FALSE) : r \in SetDisplayState(e, "Off")}
          BY <1>1, <1>5, <2>2, <3>2, <4>1 DEF Resume
        <5> QED
          BY <2>2, <4>1, <5>1
      <4>2. CASE ev = "UnPrepare"
        <5>1. o \in {Wrap(r, r.err = "none" /\ e.pending # "Off") :
                     r \in SetDisplayState(e, e.pending)}
          BY <1>1, <1>5, <2>2, <3>2, <4>2 DEF Resume
        <5> HIDE DEF e
        <5> QED
          BY <3>2, <5>1
      <4> QED
        BY <4>1, <4>2
    <3> HIDE DEF e
    <3>4. /\ r.d \in Display /\ r.err \in {"none", "failed"}
          /\ r.err = "none" =>
              /\ Rest(r.d, e)
              /\ \/ PutOff(r.d, e, d.pending) \/ Entered(r.d, e, d.pending)
                 \/ Cancelled(r.d, e, d.pending)
              /\ d.pending = e.state => Cancelled(r.d, e, d.pending)
      BY <1>3, <3>1, SetDisplayStateDoes
    <3>5. o.d = r.d /\ o.err = r.err /\ o.refresh \in BOOLEAN
      BY <3>3 DEF Wrap
    <3> QED
      BY <1>3, <2>1, <2>2, <3>2, <3>4, <3>5
  <2>3. CASE ~(d.pending # "none" /\ (ev = "End" => d.pending = "Off"))
    <3>1. e.pending = d.pending
      <4> HIDE DEF e
      <4> QED
        BY <2>1 DEF Told
    <3>2. o = [d |-> e, err |-> "none", refresh |-> ev = "End"]
      BY <1>1, <1>5, <2>3, <3>1 DEF Resume, Wrap, Ok
    <3> HIDE DEF e
    <3> QED
      BY <1>3, <2>1, <2>3, <3>1, <3>2
  <2> QED
    BY <2>2, <2>3
<1> QED
  BY <1>2, <1>4, <1>5

\* A session of another display turns this one off and keeps its state as the request put off.
LEMMA PrepareDoes ==
  ASSUME NEW d \in Display, NEW o \in PrepareSession(d)
  PROVE  /\ o.d \in Display /\ o.err \in {"none", "failed"}
         /\ o.err = "none" => \E q \in Display :
              /\ Rest(q, d)
              /\ PutOff(q, d, "Off") \/ Entered(q, d, "Off") \/ Cancelled(q, d, "Off")
              /\ d.state = "Off" => Cancelled(q, d, "Off")
              /\ Rest(o.d, q) /\ o.d.pending = d.state
              /\ o.d.state = q.state /\ o.d.active = q.active /\ o.d.panel = q.panel
              /\ o.d.tui_state = IF q.tui_state = "None" THEN "InProgress" ELSE q.tui_state
<1>1. PICK r \in SetDisplayState(d, "Off") :
        o = Wrap(IF r.err = "none"
                   THEN Ok([r.d EXCEPT !.pending = d.state, !.secure = "Prepare",
                                       !.tui_state = IF @ = "None" THEN "InProgress" ELSE @])
                   ELSE r, FALSE)
  BY DEF PrepareSession
<1>2. /\ r.d \in Display /\ r.err \in {"none", "failed"}
      /\ r.err = "none" =>
              /\ Rest(r.d, d)
              /\ PutOff(r.d, d, "Off") \/ Entered(r.d, d, "Off") \/ Cancelled(r.d, d, "Off")
              /\ "Off" = d.state => Cancelled(r.d, d, "Off")
  BY SetDisplayStateDoes DEF Modes
<1>3. CASE r.err = "none"
  <2> DEFINE e == [r.d EXCEPT !.pending = d.state, !.secure = "Prepare",
                              !.tui_state = IF @ = "None" THEN "InProgress" ELSE @]
  <2>1. o.d = e /\ o.err = "none"
    BY <1>1, <1>3 DEF Wrap, Ok
  <2>2. /\ e \in Display /\ Rest(e, r.d) /\ e.pending = d.state
        /\ e.state = r.d.state /\ e.active = r.d.active /\ e.panel = r.d.panel
        /\ e.tui_state = IF r.d.tui_state = "None" THEN "InProgress" ELSE r.d.tui_state
    <3> DEFINE t == IF r.d.tui_state = "None" THEN "InProgress" ELSE r.d.tui_state
    <3>1. r.d \in Display
      BY <1>2
    <3>2. t \in {"None", "Start", "InProgress", "End"}
      BY <3>1 DEF Display
    <3>3. d.state \in Pending /\ "Prepare" \in Events
      BY DEF Display, Pending, Events
    <3>4. e = [r.d EXCEPT !.pending = d.state, !.secure = "Prepare", !.tui_state = t]
      BY <3>1 DEF Display
    <3> HIDE DEF e, t
    <3>5. e \in Display
      BY <3>1, <3>2, <3>3, <3>4 DEF Display
    <3>6. /\ Rest(e, r.d) /\ e.pending = d.state
          /\ e.state = r.d.state /\ e.active = r.d.active /\ e.panel = r.d.panel
          /\ e.tui_state = t
      BY <3>1, <3>4 DEF Display, Rest
    <3> QED
      BY <3>5, <3>6 DEF t
  <2> HIDE DEF e
  <2>3. r.d \in Display
    BY <1>2
  <2>4. \E q \in Display :
          /\ Rest(q, d)
          /\ PutOff(q, d, "Off") \/ Entered(q, d, "Off") \/ Cancelled(q, d, "Off")
          /\ d.state = "Off" => Cancelled(q, d, "Off")
          /\ Rest(o.d, q) /\ o.d.pending = d.state
          /\ o.d.state = q.state /\ o.d.active = q.active /\ o.d.panel = q.panel
          /\ o.d.tui_state = IF q.tui_state = "None" THEN "InProgress" ELSE q.tui_state
    <3> WITNESS r.d \in Display
    <3> QED
      BY <1>2, <1>3, <2>1, <2>2
  <2> QED
    BY <2>1, <2>2, <2>4
<1>4. CASE r.err # "none"
  BY <1>1, <1>2, <1>4 DEF Wrap
<1> QED
  BY <1>3, <1>4

-----------------------------------------------------------------------------
(* The invariant. *)

\* A session uses another display and has turned this one off for it.
Elsewhere == tui = [role |-> "other", at |-> "prepared"]

\* The client of the display is paused for a session only.
InSession ==
  /\ tui.at = "idle" => hwc.secure # "Prepare"
  /\ tui.at \in {"idle", "ending"} \/ (tui.role = "target" /\ tui.at = "prepared")
       => ~hwc.paused /\ ~hwc.pausing
  /\ Elsewhere => hwc.paused /\ hwc.secure = "Prepare"

\* The hardware layer knows what was put off, and a frame is due or a session will resume.
RequestKept ==
  /\ dpy.pending # "none" /\ ~Elsewhere => dpy.hw_pending = dpy.pending
  /\ dpy.pending # "none" => dpy.refresh \/ hwc.paused

\* For a display that is only turned on and off.
PanelKept ==
  Requests \subseteq {"Off", "On"} =>
    /\ dpy.state \in {"Off", "On"} /\ dpy.pending \in {"Off", "On", "none"}
    /\ dpy.first_cycle => dpy.state = "Off" /\ ~dpy.active /\ (dpy.pending = "Off" => Elsewhere)
    /\ ~dpy.first_cycle =>
         dpy.panel = dpy.state /\ (dpy.pending = "none" => dpy.hw_pending = "none")

\* For a video mode panel without writeback.
VideoKept ==
  ~CommandMode /\ ~HasCwb =>
    /\ ~dpy.cwb /\ ~dpy.cwb_teardown /\ ~hwc.pausing
    /\ dpy.tui_state \in {"None", "InProgress"}
    /\ hwc.secure = "Start" /\ hwc.paused => dpy.tui_state = "InProgress"
    /\ dpy.tui_state = "InProgress" => hwc.paused \/ dpy.state = "Off"
    /\ dpy.pending = "Off" => hwc.paused
    /\ dpy.state = "Off" => ~dpy.active
    /\ Elsewhere => dpy.state = "Off" /\ dpy.tui_state = "InProgress"

\* What holds as long as no call has failed.
Good == InSession /\ RequestKept /\ PanelKept /\ VideoKept

\* The inductive invariant.
DpInv == TypeOK /\ (faults = 0 => Good)

\* The display is off, with no session.
LEMMA InitEstablishes == Init => DpInv
<1> SUFFICES ASSUME Init PROVE DpInv
  OBVIOUS
<1>1. TypeOK
  <2>1. dpy \in Display
    BY DEF Init, Display, Modes, Pending, Events
  <2>2. 0 \in 0..MaxCalls /\ 0 \in 0..MaxSessions /\ 0 \in 0..MaxFaults
    <3>1. MaxFaults \in Nat
      BY KindsAssumption DEF Init, MaxFaults
    <3> QED
      BY <3>1, BoundsAssumption
  <2>3. hwc \in Layer /\ tui \in [role : {"target", "other"},
                                 at : {"idle", "prepared", "release", "running", "ending"}]
    BY DEF Init, Layer, Modes, Events
  <2>4. kind \in Kinds /\ wanted = FALSE /\ calls = 0 /\ sessions = 0 /\ faults = 0
    BY DEF Init
  <2> QED
    BY <2>1, <2>2, <2>3, <2>4 DEF TypeOK
<1>2. Good
  BY DEF Init, Good, InSession, RequestKept, PanelKept, VideoKept, Elsewhere
<1> QED
  BY <1>1, <1>2 DEF DpInv

\* The kind of the display is one of Kinds.
LEMMA KindTyped ==
  ASSUME TypeOK
  PROVE  /\ CommandMode \in BOOLEAN /\ HasCwb \in BOOLEAN /\ Requests \subseteq Modes
         /\ MaxFaults \in Nat
  BY KindsAssumption DEF TypeOK, CommandMode, HasCwb, Requests, MaxFaults

\* A failure is counted, so that what holds without failures need not be shown after it.
LEMMA Counts ==
  ASSUME TypeOK, UNCHANGED kind, NEW err, Counted(err)
  PROVE  faults' \in 0..MaxFaults' /\ (faults' = 0 => faults = 0 /\ err # "failed")
  BY KindTyped DEF TypeOK, Counted, MaxFaults

\* A power call of the client or of a session, seen from the invariant.
LEMMA SetPowerModeKeeps ==
  ASSUME DpInv, UNCHANGED kind, NEW m \in Modes, SetPowerMode(m) PROVE DpInv'
<1>1. PICK o \in SetDisplayState(dpy, m) :
        /\ dpy' = o.d
        /\ hwc' = IF o.err = "none" THEN [hwc EXCEPT !.mode = m] ELSE hwc
        /\ Counted(o.err)
  BY DEF SetPowerMode
<1>2. /\ o.d \in Display /\ o.err \in {"none", "failed"}
      /\ o.err = "none" =>
           /\ Rest(o.d, dpy)
           /\ PutOff(o.d, dpy, m) \/ Entered(o.d, dpy, m) \/ Cancelled(o.d, dpy, m)
           /\ m = dpy.state => Cancelled(o.d, dpy, m)
  BY SetDisplayStateDoes DEF DpInv, TypeOK
<1>3. faults' \in 0..MaxFaults' /\ (faults' = 0 => faults = 0 /\ o.err # "failed")
  BY <1>1, Counts DEF DpInv
<1>4. /\ UNCHANGED <<tui, wanted, sessions>>
      /\ calls' = calls + 1 /\ calls < MaxCalls /\ m \in Requests
  BY DEF SetPowerMode, Call
<1>5. /\ hwc' \in Layer /\ hwc'.secure = hwc.secure
      /\ hwc'.paused = hwc.paused /\ hwc'.pausing = hwc.pausing
  BY <1>1 DEF DpInv, TypeOK, Layer
<1>6. TypeOK'
  <2>1. calls' \in 0..MaxCalls
    BY <1>4, BoundsAssumption DEF DpInv, TypeOK
  <2> QED
    BY <1>1, <1>2, <1>3, <1>4, <1>5, <2>1 DEF DpInv, TypeOK
<1>7. ASSUME faults' = 0 PROVE Good'
  <2>1. Good /\ o.err = "none" /\ dpy \in Display
    BY <1>2, <1>3, <1>7 DEF DpInv, TypeOK
  <2>2. InSession'
    BY <1>4, <1>5, <2>1 DEF Good, InSession, Elsewhere
  <2>3. RequestKept'
    BY <1>1, <1>2, <1>4, <1>5, <2>1 DEF Good, RequestKept, Elsewhere, PutOff, Entered, Cancelled
  <2>4. PanelKept'
    BY <1>1, <1>2, <1>4, <2>1 DEF Good, PanelKept, Elsewhere, PutOff, Entered, Cancelled, Rest,
           Requests
  <2>5. VideoKept'
    BY <1>1, <1>2, <1>4, <1>5, <2>1
       DEF Good, VideoKept, Elsewhere, PutOff, Entered, Cancelled, Rest, CommandMode, HasCwb,
           NextTui
  <2> QED
    BY <2>2, <2>3, <2>4, <2>5 DEF Good
<1> QED
  BY <1>6, <1>7 DEF DpInv

\* SetVsyncEnabled touches the vsync state alone.
LEMMA SetVsyncKeeps ==
  ASSUME DpInv, UNCHANGED kind, NEW enable \in BOOLEAN, SetVsyncEnabled(enable) PROVE DpInv'
<1>1. dpy' \in Display /\ Alike(dpy', dpy)
  BY VsyncTyped DEF DpInv, TypeOK, SetVsyncEnabled
<1>2. UNCHANGED <<hwc, tui, sessions, faults>> /\ wanted' \in BOOLEAN /\ calls' \in 0..MaxCalls
  BY BoundsAssumption DEF DpInv, TypeOK, SetVsyncEnabled, Call
<1>3. TypeOK'
  BY <1>1, <1>2 DEF DpInv, TypeOK, MaxFaults
<1>4. Good => Good'
  BY <1>1, <1>2 DEF Good, InSession, RequestKept, PanelKept, VideoKept, Elsewhere, Alike,
         Requests,
                    CommandMode, HasCwb
<1> QED
  BY <1>2, <1>3, <1>4 DEF DpInv

\* What a committed frame makes of a display: it carries out what was put off.
LEMMA CommitDoes ==
  ASSUME NEW d \in Display
  PROVE  /\ CommitMode(d) \in Modes
         /\ PostCommit(d) \in Display
         /\ \A buffer \in BOOLEAN : LET e == PostCommit(HwCommit(Drawn(d), buffer)) IN
              /\ e \in Display
              /\ e.pending = "none" /\ e.hw_pending = "none" /\ ~e.first_cycle
              /\ e.state = IF d.pending = "none" THEN d.state ELSE d.pending
              /\ e.active = (d.active \/ d.pending # "none")
              /\ e.panel = IF d.first_cycle THEN "On"
                           ELSE IF d.hw_pending # "none" THEN d.hw_pending ELSE d.panel
              /\ e.tui_state = NextTui(d.tui_state)
              /\ (e.cwb => buffer) /\ ~e.cwb_teardown
<1>1. CommitMode(d) \in Modes
  BY DEF CommitMode, Display, Pending, Modes
<1>2. ASSUME NEW x \in Display
      PROVE  LET e == PostCommit(x) IN
             /\ e \in Display
             /\ e.pending = "none" /\ e.hw_pending = x.hw_pending /\ e.first_cycle = x.first_cycle
             /\ e.state = IF x.pending = "none" THEN x.state ELSE x.pending
             /\ e.active = (x.active \/ x.pending # "none")
             /\ e.panel = x.panel /\ e.tui_state = x.tui_state /\ e.cwb = x.cwb
             /\ e.cwb_teardown = x.cwb_teardown
  <2> DEFINE y == [x EXCEPT !.secure = IF @ \in {"End", "UnPrepare"} THEN "Max" ELSE @]
             r == ResetPendingPowerState(y)
  <2>1. y \in Display /\ Alike(y, x)
    BY DEF Display, Events, Alike
  <2> HIDE DEF y
  <2>2. /\ r \in Display
        /\ r.pending = "none" /\ r.hw_pending = y.hw_pending /\ r.first_cycle = y.first_cycle
        /\ r.state = IF y.pending = "none" THEN y.state ELSE y.pending
        /\ r.active = (y.active \/ y.pending # "none")
        /\ r.panel = y.panel /\ r.tui_state = y.tui_state /\ r.cwb = y.cwb
        /\ r.cwb_teardown = y.cwb_teardown
    <3>1. CASE y.pending = "none"
      BY <2>1, <3>1 DEF ResetPendingPowerState, Display
    <3>2. CASE y.pending # "none"
      <4>1. r = [y EXCEPT !.state = y.pending, !.active = TRUE, !.pending = "none",
                          !.refresh = y.refresh \/ y.pending = "Doze"]
        BY <2>1, <3>2 DEF ResetPendingPowerState
      <4>2. y.pending \in Modes /\ (y.refresh \/ y.pending = "Doze") \in BOOLEAN
        BY <2>1, <3>2 DEF Display, Pending
      <4>3. r \in Display
        BY <2>1, <4>1, <4>2 DEF Display, Pending
      <4> QED
        BY <2>1, <3>2, <4>1, <4>3 DEF Display
    <3> QED
      BY <3>1, <3>2
  <2> HIDE DEF r
  <2>3. PostCommit(x) \in Display /\ Alike(PostCommit(x), r)
    <3>1. PostCommit(x) = HandlePendingVSyncEnable(r)
      BY DEF PostCommit, r, y
    <3> QED
      BY <2>2, <3>1, VsyncTyped
  <2> QED
    BY <2>1, <2>2, <2>3 DEF Alike
<1>3. ASSUME NEW buffer \in BOOLEAN
      PROVE  LET e == PostCommit(HwCommit(Drawn(d), buffer)) IN
              /\ e \in Display
              /\ e.pending = "none" /\ e.hw_pending = "none" /\ ~e.first_cycle
              /\ e.state = IF d.pending = "none" THEN d.state ELSE d.pending
              /\ e.active = (d.active \/ d.pending # "none")
              /\ e.panel = IF d.first_cycle THEN "On"
                           ELSE IF d.hw_pending # "none" THEN d.hw_pending ELSE d.panel
              /\ e.tui_state = NextTui(d.tui_state)
              /\ (e.cwb => buffer) /\ ~e.cwb_teardown
  <2> DEFINE w == Drawn(d)
             c == HwCommit(w, buffer)
  <2>1. /\ w \in Display /\ w.state = d.state /\ w.pending = d.pending /\ w.active = d.active
        /\ w.hw_pending = d.hw_pending /\ w.panel = d.panel /\ w.tui_state = d.tui_state
        /\ w.first_cycle = d.first_cycle /\ w.hw_mode = d.hw_mode
    BY DEF Drawn, Display
  <2> HIDE DEF w
  <2>2. CommitMode(w) \in Modes /\ NextTui(w.tui_state) \in {"None", "InProgress"}
    BY <2>1 DEF CommitMode, Display, Pending, Modes, NextTui
  <2>3. c \in Display
    <3>1. ASSUME NEW m \in Modes, NEW q \in Modes, NEW b \in BOOLEAN,
                 NEW t \in {"None", "InProgress"}
          PROVE  [w EXCEPT !.hw_mode = m, !.panel = q,
                            !.hw_pending = "none", !.first_cycle = FALSE,
                           !.tui_state = t, !.cwb = b, !.cwb_teardown = FALSE] \in Display
      BY <2>1 DEF Display, Pending
    <3>2. PICK q \in Modes :
            q = IF w.first_cycle \/ w.hw_pending # "none" THEN CommitMode(w) ELSE w.panel
      BY <2>1, <2>2 DEF Display
    <3>3. PICK b \in BOOLEAN : b = (buffer /\ (w.cwb \/ ~w.cwb_teardown))
      OBVIOUS
    <3>4. c = [w EXCEPT !.hw_mode = CommitMode(w), !.panel = q,
                        !.hw_pending = "none", !.first_cycle = FALSE,
                        !.tui_state = NextTui(w.tui_state), !.cwb = b, !.cwb_teardown = FALSE]
      BY <2>1, <3>2, <3>3 DEF HwCommit
    <3> HIDE DEF c
    <3> QED
      BY <2>2, <3>1, <3>4
  <2>4. /\ c.state = w.state /\ c.pending = w.pending /\ c.active = w.active
        /\ c.hw_pending = "none" /\ ~c.first_cycle /\ c.tui_state = NextTui(w.tui_state)
        /\ (c.cwb => buffer) /\ ~c.cwb_teardown
    BY <2>1 DEF HwCommit, Display
  <2>5. c.panel = IF d.first_cycle THEN "On"
                  ELSE IF d.hw_pending # "none" THEN d.hw_pending ELSE d.panel
    BY <2>1 DEF HwCommit, CommitMode, Display
  <2> HIDE DEF c
  <2>6. PostCommit(c) = PostCommit(HwCommit(Drawn(d), buffer))
    BY DEF c, w
  <2> QED
    BY <1>2, <2>1, <2>3, <2>4, <2>5, <2>6
<1> QED
  BY <1>1, <1>2, <1>3

\* A frame that is refused, committed, or fails.
LEMMA FrameKeeps == ASSUME DpInv, UNCHANGED kind, Frame PROVE DpInv'
<1>1. /\ UNCHANGED <<tui, wanted, calls, sessions>>
      /\ dpy \in Display /\ hwc \in Layer
  BY DEF Frame, DpInv, TypeOK
<1>2. [hwc EXCEPT !.paused = hwc.paused \/ hwc.pausing, !.pausing = FALSE,
                  !.secure = IF hwc.secure = "UnPrepare" THEN "Max" ELSE hwc.secure] \in Layer
  BY <1>1 DEF Layer, Events
<1>3. ASSUME PostCommitLayerStack
      PROVE  /\ hwc' \in Layer /\ hwc'.paused = (hwc.paused \/ hwc.pausing) /\ ~hwc'.pausing
             /\ hwc'.secure = IF hwc.secure = "UnPrepare" THEN "Max" ELSE hwc.secure
  BY <1>1, <1>2, <1>3 DEF PostCommitLayerStack, Layer
<1>4. CASE FrameRefused
  <2>1. /\ dpy' \in Display /\ dpy'.state = dpy.state /\ dpy'.pending = dpy.pending
        /\ dpy'.active = dpy.active /\ dpy'.hw_pending = dpy.hw_pending /\ dpy'.panel = dpy.panel
        /\ dpy'.tui_state = dpy.tui_state /\ dpy'.first_cycle = dpy.first_cycle
        /\ dpy'.cwb = dpy.cwb /\ dpy'.cwb_teardown = dpy.cwb_teardown
    BY <1>1, <1>4 DEF FrameRefused, Drawn, Display
  <2>2. /\ hwc' \in Layer
        /\ \/ hwc.paused /\ hwc' = hwc
           \/ /\ ~hwc.paused /\ dpy.pending = "none" /\ hwc'.paused = hwc.pausing /\ ~hwc'.pausing
              /\ hwc'.secure = IF hwc.secure = "UnPrepare" THEN "Max" ELSE hwc.secure
    BY <1>1, <1>3, <1>4 DEF FrameRefused, Layer
  <2>3. UNCHANGED faults
    BY <1>4 DEF FrameRefused
  <2>4. TypeOK'
    BY <1>1, <2>1, <2>2, <2>3 DEF DpInv, TypeOK, MaxFaults
  <2>5. Good => InSession'
    BY <1>1, <2>2 DEF Good, InSession, Elsewhere
  <2>6. Good => RequestKept' /\ PanelKept'
    BY <1>1, <2>1, <2>2 DEF Good, RequestKept, PanelKept, Elsewhere, Requests
  <2>7. Good => VideoKept'
    BY <1>1, <2>1, <2>2 DEF Good, InSession, VideoKept, Elsewhere, CommandMode, HasCwb
  <2> QED
    BY <2>3, <2>4, <2>5, <2>6, <2>7 DEF DpInv, Good
<1>5. CASE FrameCommitted
  <2>1. PICK buffer \in {FALSE, HasCwb} : dpy' = PostCommit(HwCommit(Drawn(dpy), buffer))
    BY <1>5 DEF FrameCommitted
  <2>2. buffer \in BOOLEAN
    BY KindTyped DEF DpInv
  <2>3. /\ dpy' \in Display
        /\ dpy'.pending = "none" /\ dpy'.hw_pending = "none" /\ ~dpy'.first_cycle
        /\ dpy'.state = IF dpy.pending = "none" THEN dpy.state ELSE dpy.pending
        /\ dpy'.active = (dpy.active \/ dpy.pending # "none")
        /\ dpy'.panel = IF dpy.first_cycle THEN "On"
                        ELSE IF dpy.hw_pending # "none" THEN dpy.hw_pending ELSE dpy.panel
        /\ dpy'.tui_state = NextTui(dpy.tui_state)
        /\ (dpy'.cwb => buffer) /\ ~dpy'.cwb_teardown
    BY <1>1, <2>1, <2>2, CommitDoes
  <2>4. /\ ~hwc.paused /\ (dpy.active \/ dpy.pending # "none") /\ UNCHANGED faults
        /\ hwc' \in Layer /\ hwc'.paused = (hwc.paused \/ hwc.pausing) /\ ~hwc'.pausing
        /\ hwc'.secure = IF hwc.secure = "UnPrepare" THEN "Max" ELSE hwc.secure
    BY <1>3, <1>5 DEF FrameCommitted, Draws
  <2>5. TypeOK'
    BY <1>1, <2>3, <2>4 DEF DpInv, TypeOK, MaxFaults
  <2>6. Good => InSession' /\ RequestKept'
    BY <1>1, <2>3, <2>4 DEF Good, InSession, RequestKept, Elsewhere
  <2>7. Good => PanelKept'
    BY <1>1, <2>3, <2>4 DEF Good, InSession, RequestKept, PanelKept, Elsewhere, Requests
  <2>8. Good => VideoKept'
    BY <1>1, <2>3, <2>4 DEF Good, InSession, VideoKept, Elsewhere, CommandMode, HasCwb, NextTui
  <2> QED
    BY <2>4, <2>5, <2>6, <2>7, <2>8 DEF DpInv, Good
<1>6. CASE FrameFails
  <2> DEFINE d == [Drawn(dpy) EXCEPT !.hw_mode = CommitMode(dpy)]
  <2>1. faults' \in 0..MaxFaults' /\ faults' # 0
    BY <1>6, Counts DEF FrameFails, DpInv
  <2>2. /\ d \in Display /\ [d EXCEPT !.cwb = FALSE] \in Display
        /\ [dpy EXCEPT !.refresh = TRUE] \in Display
    <3>1. CommitMode(dpy) \in Modes
      BY <1>1, CommitDoes
    <3>2. d \in Display
      BY <1>1, <3>1 DEF Drawn, Display
    <3>3. [d EXCEPT !.cwb = FALSE] \in Display
      BY <3>2 DEF Display
    <3>4. [dpy EXCEPT !.refresh = TRUE] \in Display
      BY <1>1 DEF Display
    <3> QED
      BY <3>2, <3>3, <3>4
  <2>3. PostCommit([d EXCEPT !.cwb = FALSE]) \in Display
    BY <2>2, CommitDoes
  <2>4. /\ dpy' \in {[dpy EXCEPT !.refresh = TRUE], PostCommit([d EXCEPT !.cwb = FALSE]), d}
        /\ hwc' = hwc \/ PostCommitLayerStack
    BY <1>6 DEF FrameFails
  <2>5. dpy' \in Display /\ hwc' \in Layer
    BY <1>1, <1>3, <2>2, <2>3, <2>4
  <2> QED
    BY <1>1, <2>1, <2>5 DEF DpInv, TypeOK
<1> QED
  BY <1>4, <1>5, <1>6 DEF Frame

\* The teardown of a writeback, with or without the frame that ends it.
LEMMA TeardownKeeps == ASSUME DpInv, UNCHANGED kind, HandleCwbTeardown PROVE DpInv'
<1>1. PICK sync \in BOOLEAN :
        dpy' = [dpy EXCEPT !.cwb_teardown = TRUE, !.cwb = ~sync, !.refresh = TRUE]
  BY DEF HandleCwbTeardown
<1>2. /\ dpy' \in Display /\ dpy'.state = dpy.state /\ dpy'.pending = dpy.pending
      /\ dpy'.active = dpy.active /\ dpy'.hw_pending = dpy.hw_pending /\ dpy'.panel = dpy.panel
      /\ dpy'.tui_state = dpy.tui_state /\ dpy'.first_cycle = dpy.first_cycle /\ dpy'.refresh
  BY <1>1 DEF DpInv, TypeOK, Display
<1>3. UNCHANGED <<hwc, tui, wanted, calls, sessions, faults>> /\ dpy.cwb
  BY DEF HandleCwbTeardown
<1>4. TypeOK'
  BY <1>2, <1>3 DEF DpInv, TypeOK, MaxFaults
<1>5. Good => InSession' /\ RequestKept' /\ PanelKept' /\ VideoKept'
  BY <1>2, <1>3 DEF Good, InSession, RequestKept, PanelKept, VideoKept, Elsewhere, Requests,
                    CommandMode, HasCwb
<1> QED
  BY <1>3, <1>4, <1>5 DEF DpInv, Good

\* A step of the session thread alone.
LEMMA ThreadKeeps ==
  ASSUME DpInv, UNCHANGED kind, TUIReleased \/ TUIEnded \/ TUIAbandoned PROVE DpInv'
<1>1. hwc \in Layer /\ tui \in [role : {"target", "other"},
                               at : {"idle", "prepared", "release", "running", "ending"}]
  BY DEF DpInv, TypeOK
<1>2. CASE TUIReleased
  <2>1. /\ UNCHANGED <<dpy, hwc, wanted, calls, sessions, faults>>
        /\ tui' = [tui EXCEPT !.at = "running"] /\ tui.at = "release"
    BY <1>2 DEF TUIReleased
  <2>2. tui'.role = tui.role /\ tui'.at = "running" /\ ~Elsewhere /\ ~Elsewhere'
    BY <1>1, <2>1 DEF Elsewhere
  <2>3. TypeOK'
    BY <1>1, <2>1 DEF DpInv, TypeOK, MaxFaults
  <2>4. Good => Good'
    BY <2>1, <2>2 DEF Good, InSession, RequestKept, PanelKept, VideoKept, Requests, CommandMode,
           HasCwb
  <2> QED
    BY <2>1, <2>3, <2>4 DEF DpInv
<1>3. CASE TUIEnded
  <2>1. /\ UNCHANGED <<dpy, wanted, calls, sessions, faults>>
        /\ tui' = [tui EXCEPT !.at = "idle"] /\ tui.at = "ending"
        /\ hwc' = [hwc EXCEPT !.secure = "Max"]
    BY <1>3 DEF TUIEnded
  <2>2. tui'.role = tui.role /\ tui'.at = "idle" /\ ~Elsewhere /\ ~Elsewhere'
    BY <1>1, <2>1 DEF Elsewhere
  <2>3. /\ hwc' \in Layer /\ hwc'.secure = "Max" /\ hwc'.paused = hwc.paused
        /\ hwc'.pausing = hwc.pausing
    BY <1>1, <2>1 DEF Layer, Events
  <2>4. TypeOK'
    BY <1>1, <2>1, <2>3 DEF DpInv, TypeOK, MaxFaults
  <2>5. Good => Good'
    BY <2>1, <2>2, <2>3
       DEF Good, InSession, RequestKept, PanelKept, VideoKept, Requests, CommandMode, HasCwb
  <2> QED
    BY <2>1, <2>4, <2>5 DEF DpInv
<1>4. CASE TUIAbandoned
  <2>1. faults' \in 0..MaxFaults' /\ faults' # 0
    BY <1>4, Counts DEF TUIAbandoned, DpInv
  <2> QED
    BY <1>1, <1>4, <2>1 DEF TUIAbandoned, DpInv, TypeOK
<1> QED
  BY <1>2, <1>3, <1>4

\* The events a session sends this display.
LEMMA EventTyped ==
  ASSUME TypeOK, NEW ev \in {"Prepare", "Start", "End", "UnPrepare"}, NEW b \in BOOLEAN
  PROVE  LET h == AfterEvent(ev, b) IN
         /\ h \in Layer /\ h.mode = hwc.mode
         /\ ev \in {"Prepare", "Start"} =>
              /\ h.secure = ev /\ h.paused = (hwc.paused \/ ~b) /\ h.pausing = (hwc.pausing \/ b)
         /\ ev \in {"End", "UnPrepare"} =>
              h.secure \in {ev, "Max"} /\ ~h.paused /\ ~h.pausing
<1>1. hwc \in Layer
  BY DEF TypeOK
<1>2. \A s \in Events, p \in BOOLEAN, q \in BOOLEAN :
        /\ [hwc EXCEPT !.secure = s, !.paused = p, !.pausing = q] \in Layer
        /\ [mode |-> hwc.mode, secure |-> s, paused |-> p, pausing |-> q] \in Layer
  BY <1>1 DEF Layer
<1>3. CASE ev \in {"Prepare", "Start"}
  <2>1. AfterEvent(ev, b) = [hwc EXCEPT !.secure = ev, !.paused = hwc.paused \/ ~b,
                                  !.pausing = hwc.pausing \/ b]
    BY <1>1, <1>3 DEF AfterEvent
  <2>2. ev \in Events /\ (hwc.paused \/ ~b) \in BOOLEAN /\ (hwc.pausing \/ b) \in BOOLEAN
    BY <1>3 DEF Events
  <2>3. AfterEvent(ev, b) \in Layer
    BY <1>2, <2>1, <2>2
  <2> QED
    BY <1>1, <1>3, <2>1, <2>3 DEF Layer
<1>4. CASE ev \in {"End", "UnPrepare"}
  <2>1. AfterEvent(ev, b) = [mode |-> hwc.mode, secure |-> IF b THEN ev ELSE "Max",
                             paused |-> FALSE, pausing |-> FALSE]
    BY <1>4 DEF AfterEvent
  <2>2. (IF b THEN ev ELSE "Max") \in {ev, "Max"} /\ {ev, "Max"} \subseteq Events
    BY <1>4 DEF Events
  <2>3. AfterEvent(ev, b) \in Layer
    BY <1>2, <2>1, <2>2
  <2> DEFINE h == AfterEvent(ev, b)
  <2>4. h.mode = hwc.mode /\ h.secure = (IF b THEN ev ELSE "Max") /\ ~h.paused /\ ~h.pausing
    BY <2>1
  <2> HIDE DEF h
  <2>5. h \in Layer /\ h.mode = hwc.mode /\ h.secure \in {ev, "Max"} /\ ~h.paused /\ ~h.pausing
    BY <2>2, <2>3, <2>4 DEF h
  <2>6. ~(ev \in {"Prepare", "Start"})
    BY <1>4
  <2> QED
    BY <2>5, <2>6 DEF h
<1> QED
  BY <1>3, <1>4

\* What SecureEvent makes of the answer of HandleSecureEvent.
LEMMA SecureEventDoes ==
  ASSUME TypeOK, UNCHANGED kind, NEW ev \in {"Start", "End", "UnPrepare"}, NEW next, NEW back,
         SecureEvent(ev, next, back)
  PROVE  \E o \in HandleSecureEvent(dpy, ev) :
           /\ o.d \in Display /\ o.err \in {"none", "failed", "permission"}
           /\ o.refresh \in BOOLEAN
           /\ dpy' = [o.d EXCEPT !.refresh = @ \/ (o.refresh /\ ev # "UnPrepare")]
           /\ dpy' \in Display /\ hwc' \in Layer
           /\ dpy'.refresh = (o.d.refresh \/ (o.refresh /\ ev # "UnPrepare"))
           /\ dpy'.state = o.d.state /\ dpy'.pending = o.d.pending /\ dpy'.active = o.d.active
           /\ dpy'.hw_pending = o.d.hw_pending /\ dpy'.panel = o.d.panel
           /\ dpy'.tui_state = o.d.tui_state /\ dpy'.first_cycle = o.d.first_cycle
           /\ dpy'.cwb = o.d.cwb /\ dpy'.cwb_teardown = o.d.cwb_teardown
           /\ faults' \in 0..MaxFaults' /\ (faults' = 0 => faults = 0 /\ o.err # "failed")
           /\ o.err = "none" =>
                tui' = [tui EXCEPT !.at = next] /\ hwc' = AfterEvent(ev, o.refresh)
           /\ o.err # "none" => tui' = [tui EXCEPT !.at = back]
           /\ o.err = "permission" => hwc' = [hwc EXCEPT !.secure = "Max"]
<1>1. PICK o \in HandleSecureEvent(dpy, ev) :
    /\ dpy' = [o.d EXCEPT !.refresh = @ \/ (o.refresh /\ ev # "UnPrepare")]
    /\ Counted(o.err)
    /\ IF o.err = "none"
         THEN /\ tui' = [tui EXCEPT !.at = next]
              /\ hwc' = AfterEvent(ev, o.refresh)
         ELSE /\ tui' = [tui EXCEPT !.at = back]
              /\ hwc' = IF o.err = "permission" THEN [hwc EXCEPT !.secure = "Max"] ELSE hwc
  BY DEF SecureEvent
<1>2. /\ o.d \in Display /\ o.err \in {"none", "failed", "permission"}
      /\ o.refresh \in BOOLEAN
  <2>1. dpy \in Display
    BY DEF TypeOK
  <2> QED
    BY <2>1, StartDoes, ResumeDoes
<1>3. faults' \in 0..MaxFaults' /\ (faults' = 0 => faults = 0 /\ o.err # "failed")
  BY <1>1, Counts
<1>4. hwc' \in Layer
  <2>1. AfterEvent(ev, o.refresh) \in Layer
    BY <1>2, EventTyped
  <2>2. hwc \in Layer /\ [hwc EXCEPT !.secure = "Max"] \in Layer
    BY DEF TypeOK, Layer, Events
  <2> QED
    BY <1>1, <2>1, <2>2
<1>5. /\ dpy' \in Display
      /\ dpy'.refresh = (o.d.refresh \/ (o.refresh /\ ev # "UnPrepare"))
      /\ dpy'.state = o.d.state /\ dpy'.pending = o.d.pending /\ dpy'.active = o.d.active
      /\ dpy'.hw_pending = o.d.hw_pending /\ dpy'.panel = o.d.panel
      /\ dpy'.tui_state = o.d.tui_state /\ dpy'.first_cycle = o.d.first_cycle
      /\ dpy'.cwb = o.d.cwb /\ dpy'.cwb_teardown = o.d.cwb_teardown
  BY <1>1, <1>2 DEF Display
<1> QED
  BY <1>1, <1>2, <1>3, <1>4, <1>5

\* A session is prepared, on this display or another.
LEMMA TUIPrepareKeeps == ASSUME DpInv, UNCHANGED kind, TUIPrepare PROVE DpInv'
<1>1. /\ tui.at = "idle" /\ ~Elsewhere /\ UNCHANGED <<wanted, calls>>
      /\ sessions' \in 0..MaxSessions
      /\ dpy \in Display /\ hwc \in Layer
  BY BoundsAssumption DEF TUIPrepare, DpInv, TypeOK, Elsewhere
<1>2. CASE /\ tui' = [role |-> "target", at |-> "prepared"]
           /\ hwc' = [hwc EXCEPT !.secure = "Prepare"]
           /\ UNCHANGED <<dpy, faults>>
  <2>1. /\ hwc' \in Layer /\ hwc'.secure = "Prepare" /\ hwc'.paused = hwc.paused
        /\ hwc'.pausing = hwc.pausing /\ ~Elsewhere'
    BY <1>1, <1>2 DEF Layer, Events, Elsewhere
  <2>2. TypeOK'
    BY <1>1, <1>2, <2>1 DEF DpInv, TypeOK, MaxFaults
  <2>3. Good => Good'
    BY <1>1, <1>2, <2>1
       DEF Good, InSession, RequestKept, PanelKept, VideoKept, Requests, CommandMode, HasCwb
  <2> QED
    BY <1>2, <2>2, <2>3 DEF DpInv
<1>3. CASE /\ hwc.secure = "Prepare"
           /\ tui' = [role |-> "other", at |-> "prepared"]
           /\ UNCHANGED <<dpy, hwc, faults>>
  <2>1. TypeOK'
    BY <1>1, <1>3 DEF DpInv, TypeOK, MaxFaults
  <2>2. ~Good
    BY <1>1, <1>3 DEF Good, InSession
  <2> QED
    BY <1>3, <2>1, <2>2 DEF DpInv
<1>4. CASE /\ hwc.secure = "Max"
           /\ \E o \in PrepareSession(dpy) :
                /\ dpy' = o.d
                /\ Counted(o.err)
                /\ IF o.err = "none"
                     THEN /\ tui' = [role |-> "other", at |-> "prepared"]
                          /\ hwc' = AfterEvent("Prepare", FALSE)
                     ELSE UNCHANGED <<tui, hwc>>
  <2>1. PICK o \in PrepareSession(dpy) :
                /\ dpy' = o.d
                /\ Counted(o.err)
                /\ IF o.err = "none"
                     THEN /\ tui' = [role |-> "other", at |-> "prepared"]
                          /\ hwc' = AfterEvent("Prepare", FALSE)
                     ELSE UNCHANGED <<tui, hwc>>
    BY <1>4
  <2>2. faults' \in 0..MaxFaults' /\ (faults' = 0 => faults = 0 /\ o.err # "failed")
    BY <2>1, Counts DEF DpInv
  <2>3. /\ o.d \in Display /\ o.err \in {"none", "failed"}
        /\ o.err = "none" => \E q \in Display :
              /\ Rest(q, dpy)
              /\ PutOff(q, dpy, "Off") \/ Entered(q, dpy, "Off") \/ Cancelled(q, dpy, "Off")
              /\ dpy.state = "Off" => Cancelled(q, dpy, "Off")
              /\ Rest(o.d, q) /\ o.d.pending = dpy.state
              /\ o.d.state = q.state /\ o.d.active = q.active /\ o.d.panel = q.panel
              /\ o.d.tui_state = IF q.tui_state = "None" THEN "InProgress" ELSE q.tui_state
    BY <1>1, PrepareDoes
  <2>4. o.err = "none" =>
          /\ hwc' \in Layer /\ hwc'.secure = "Prepare" /\ hwc'.paused
          /\ hwc'.pausing = hwc.pausing
          /\ Elsewhere'
    <3> DEFINE h == AfterEvent("Prepare", FALSE)
    <3>1. ASSUME o.err = "none"
          PROVE  hwc' = h /\ tui' = [role |-> "other", at |-> "prepared"]
      BY <2>1, <3>1
    <3>2. h \in Layer /\ h.secure = "Prepare" /\ h.paused /\ h.pausing = hwc.pausing
      <4>1. TypeOK /\ FALSE \in BOOLEAN /\ "Prepare" \in {"Prepare", "Start", "End", "UnPrepare"}
        BY DEF DpInv
      <4>2. /\ h \in Layer
            /\ h.secure = "Prepare" /\ h.paused = (hwc.paused \/ ~FALSE)
            /\ h.pausing = (hwc.pausing \/ FALSE)
        BY <4>1, EventTyped
      <4> HIDE DEF h
      <4> QED
        BY <1>1, <4>2 DEF Layer
    <3> HIDE DEF h
    <3> QED
      BY <3>1, <3>2 DEF Elsewhere
  <2>5. TypeOK'
    <3>1. kind' \in Kinds /\ dpy' \in Display /\ wanted' \in BOOLEAN /\ calls' \in 0..MaxCalls
      BY <1>1, <2>1, <2>3 DEF DpInv, TypeOK
    <3>2. hwc' \in Layer
      BY <1>1, <2>1, <2>4
    <3>3. tui' \in [role : {"target", "other"},
                    at : {"idle", "prepared", "release", "running", "ending"}]
      <4>1. tui' = [role |-> "other", at |-> "prepared"] \/ tui' = tui
        BY <2>1
      <4> QED
        BY <4>1 DEF DpInv, TypeOK
    <3> QED
      BY <1>1, <2>2, <3>1, <3>2, <3>3 DEF TypeOK
  <2>6. ASSUME faults' = 0 PROVE Good'
    <3>1. o.err = "none" /\ Good /\ ~hwc.paused /\ ~hwc.pausing
      BY <1>1, <2>2, <2>3, <2>6 DEF DpInv, Good, InSession
    <3>2. PICK q \in Display :
              /\ Rest(q, dpy)
              /\ PutOff(q, dpy, "Off") \/ Entered(q, dpy, "Off") \/ Cancelled(q, dpy, "Off")
              /\ dpy.state = "Off" => Cancelled(q, dpy, "Off")
              /\ Rest(o.d, q) /\ o.d.pending = dpy.state
              /\ o.d.state = q.state /\ o.d.active = q.active /\ o.d.panel = q.panel
              /\ o.d.tui_state = IF q.tui_state = "None" THEN "InProgress" ELSE q.tui_state
      BY <2>3, <3>1
    <3>3. dpy' = o.d
      BY <2>1
    <3>4. InSession' /\ RequestKept'
      BY <2>4, <3>1 DEF InSession, RequestKept, Elsewhere
    <3>5. PanelKept'
      BY <1>1, <2>4, <3>1, <3>2, <3>3
         DEF Good, PanelKept, Requests, Rest, PutOff, Entered, Cancelled, Display, Modes
    <3>6. VideoKept'
      BY <1>1, <2>4, <3>1, <3>2, <3>3
         DEF Good, VideoKept, CommandMode, HasCwb, Rest, PutOff, Entered, Cancelled, NextTui
    <3> QED
      BY <3>4, <3>5, <3>6 DEF Good
  <2> QED
    BY <2>5, <2>6 DEF DpInv
<1> QED
  BY <1>2, <1>3, <1>4 DEF TUIPrepare

\* A session starts on this display.
LEMMA TUIStartKeeps == ASSUME DpInv, UNCHANGED kind, TUIStart PROVE DpInv'
<1> DEFINE next == IF CommandMode THEN "release" ELSE "running"
<1>1. /\ tui = [role |-> "target", at |-> "prepared"] /\ SecureEvent("Start", next, "idle")
      /\ UNCHANGED <<wanted, calls, sessions>>
      /\ dpy \in Display /\ hwc \in Layer /\ next \in {"release", "running"}
  BY DEF TUIStart, DpInv, TypeOK
<1> HIDE DEF next
<1>2. PICK o \in HandleSecureEvent(dpy, "Start") :
           /\ o.d \in Display /\ o.err \in {"none", "failed", "permission"}
           /\ o.refresh \in BOOLEAN
           /\ dpy' \in Display /\ hwc' \in Layer
           /\ dpy'.refresh = (o.d.refresh \/ o.refresh)
           /\ dpy'.state = o.d.state /\ dpy'.pending = o.d.pending /\ dpy'.active = o.d.active
           /\ dpy'.hw_pending = o.d.hw_pending /\ dpy'.panel = o.d.panel
           /\ dpy'.tui_state = o.d.tui_state /\ dpy'.first_cycle = o.d.first_cycle
           /\ dpy'.cwb = o.d.cwb /\ dpy'.cwb_teardown = o.d.cwb_teardown
           /\ faults' \in 0..MaxFaults' /\ (faults' = 0 => faults = 0 /\ o.err # "failed")
           /\ o.err = "none" =>
                tui' = [tui EXCEPT !.at = next] /\ hwc' = AfterEvent("Start", o.refresh)
           /\ o.err # "none" => tui' = [tui EXCEPT !.at = "idle"]
           /\ o.err = "permission" => hwc' = [hwc EXCEPT !.secure = "Max"]
  BY <1>1, SecureEventDoes DEF DpInv
<1>3. /\ Told(o.d, dpy)
      /\ o.err = "permission" => o.d = dpy /\ ~o.refresh
      /\ o.err = "none" => dpy.state = "On" /\ dpy.pending = "none"
      /\ o.err = "none" /\ ~CommandMode =>
           /\ ~o.refresh
           /\ o.d.tui_state = NextTui(IF dpy.tui_state = "None" THEN "Start" ELSE dpy.tui_state)
  BY <1>1, <1>2, StartDoes DEF DpInv
<1>4. /\ o.err = "none" => tui' = [role |-> "target", at |-> next]
      /\ o.err # "none" => tui' = [role |-> "target", at |-> "idle"]
      /\ ~Elsewhere /\ ~Elsewhere'
  BY <1>1, <1>2 DEF Elsewhere
<1>5. TypeOK'
  BY <1>1, <1>2, <1>4 DEF DpInv, TypeOK
<1>6. CASE o.err = "none"
  <2>1. /\ hwc'.secure = "Start" /\ hwc'.paused = (hwc.paused \/ ~o.refresh)
        /\ hwc'.pausing = (hwc.pausing \/ o.refresh)
    BY <1>2, <1>6, EventTyped DEF DpInv
  <2>2. ASSUME faults' = 0 PROVE Good'
    <3>1. Good /\ ~hwc.paused /\ ~hwc.pausing
      BY <1>1, <1>2, <2>2 DEF DpInv, Good, InSession
    <3>2. InSession' /\ RequestKept' /\ PanelKept'
      BY <1>1, <1>2, <1>3, <1>4, <1>6, <2>1, <3>1
         DEF Good, InSession, RequestKept, PanelKept, Requests, Told, Rest
    <3>3. VideoKept'
      BY <1>1, <1>2, <1>3, <1>4, <1>6, <2>1, <3>1
         DEF Good, VideoKept, CommandMode, HasCwb, Told, Rest, NextTui
    <3> QED
      BY <3>2, <3>3 DEF Good
  <2> QED
    BY <1>5, <2>2 DEF DpInv
<1>7. CASE o.err = "permission"
  <2>1. hwc'.secure = "Max" /\ hwc'.paused = hwc.paused /\ hwc'.pausing = hwc.pausing
    <3>1. hwc' = [hwc EXCEPT !.secure = "Max"]
      BY <1>2, <1>7
    <3> QED
      BY <1>1, <3>1 DEF Layer
  <2>2. /\ dpy'.refresh = dpy.refresh
        /\ dpy'.state = dpy.state /\ dpy'.pending = dpy.pending /\ dpy'.active = dpy.active
        /\ dpy'.hw_pending = dpy.hw_pending /\ dpy'.panel = dpy.panel
        /\ dpy'.tui_state = dpy.tui_state /\ dpy'.first_cycle = dpy.first_cycle
        /\ dpy'.cwb = dpy.cwb /\ dpy'.cwb_teardown = dpy.cwb_teardown
    <3>1. o.d = dpy /\ ~o.refresh
      BY <1>3, <1>7
    <3> QED
      BY <1>1, <1>2, <3>1 DEF Display
  <2>3. tui' = [role |-> "target", at |-> "idle"]
    BY <1>4, <1>7
  <2>4. Good => InSession' /\ RequestKept'
    BY <1>1, <1>4, <2>1, <2>2, <2>3 DEF Good, InSession, RequestKept
  <2>5. Good => PanelKept' /\ VideoKept'
    BY <1>1, <1>4, <2>1, <2>2, <2>3
       DEF Good, InSession, PanelKept, VideoKept, Requests, CommandMode, HasCwb
  <2> QED
    BY <1>2, <1>5, <2>4, <2>5 DEF DpInv, Good
<1>8. CASE o.err = "failed"
  BY <1>2, <1>5, <1>8 DEF DpInv
<1> QED
  BY <1>2, <1>6, <1>7, <1>8

\* A session ends, or is refused before it started.
LEMMA TUIEndKeeps == ASSUME DpInv, UNCHANGED kind, TUIEnd PROVE DpInv'
<1>1. /\ tui.role = "target" /\ tui.at \in {"release", "running"}
      /\ hwc.secure = "Start" /\ SecureEvent("End", "ending", "running")
      /\ UNCHANGED <<wanted, calls, sessions>>
      /\ dpy \in Display /\ hwc \in Layer
      /\ tui \in [role : {"target", "other"},
                  at : {"idle", "prepared", "release", "running", "ending"}]
  BY DEF TUIEnd, DpInv, TypeOK
<1>2. PICK o \in HandleSecureEvent(dpy, "End") :
           /\ o.d \in Display /\ o.err \in {"none", "failed", "permission"}
           /\ o.refresh \in BOOLEAN
           /\ dpy' \in Display /\ hwc' \in Layer
           /\ dpy'.refresh = (o.d.refresh \/ o.refresh)
           /\ dpy'.state = o.d.state /\ dpy'.pending = o.d.pending /\ dpy'.active = o.d.active
           /\ dpy'.hw_pending = o.d.hw_pending /\ dpy'.panel = o.d.panel
           /\ dpy'.tui_state = o.d.tui_state /\ dpy'.first_cycle = o.d.first_cycle
           /\ dpy'.cwb = o.d.cwb /\ dpy'.cwb_teardown = o.d.cwb_teardown
           /\ faults' \in 0..MaxFaults' /\ (faults' = 0 => faults = 0 /\ o.err # "failed")
           /\ o.err = "none" =>
                tui' = [tui EXCEPT !.at = "ending"] /\ hwc' = AfterEvent("End", o.refresh)
           /\ o.err # "none" => tui' = [tui EXCEPT !.at = "running"]
           /\ o.err = "permission" => hwc' = [hwc EXCEPT !.secure = "Max"]
  BY <1>1, SecureEventDoes DEF DpInv
<1>3. /\ o.err \in {"none", "failed"}
      /\ o.err = "none" => \E e \in Display :
           /\ Told(e, dpy)
           /\ ~CommandMode => e.tui_state = "None"
           /\ \/ /\ dpy.pending = "Off"
                 /\ Rest(o.d, e)
                 /\ \/ PutOff(o.d, e, "Off") \/ Entered(o.d, e, "Off") \/ Cancelled(o.d, e, "Off")
                 /\ "Off" = dpy.state => Cancelled(o.d, e, "Off")
              \/ /\ dpy.pending # "Off"
                 /\ o.d = e /\ o.refresh
  <2>1. "End" \in {"End", "UnPrepare"} /\ TypeOK
    BY DEF DpInv
  <2>2. /\ o.err \in {"none", "failed"}
        /\ o.err = "none" => \E e \in Display :
              /\ Told(e, dpy)
              /\ "End" = "End" /\ ~CommandMode => e.tui_state = "None"
              /\ \/ /\ dpy.pending # "none" /\ ("End" = "End" => dpy.pending = "Off")
                    /\ Rest(o.d, e)
                    /\ \/ PutOff(o.d, e, dpy.pending) \/ Entered(o.d, e, dpy.pending)
                       \/ Cancelled(o.d, e, dpy.pending)
                    /\ dpy.pending = dpy.state => Cancelled(o.d, e, dpy.pending)
                 \/ /\ dpy.pending = "none" \/ ("End" = "End" /\ dpy.pending # "Off")
                    /\ o.d = e /\ o.refresh = ("End" = "End")
    BY <1>1, <1>2, <2>1, ResumeDoes
  <2> QED
    BY <2>2
<1>4. /\ tui'.role = "target" /\ tui'.at \in {"ending", "running"}
      /\ o.err = "none" => tui'.at = "ending"
      /\ tui' \in [role : {"target", "other"},
                   at : {"idle", "prepared", "release", "running", "ending"}]
      /\ ~Elsewhere /\ ~Elsewhere'
  BY <1>1, <1>2 DEF Elsewhere
<1>5. TypeOK'
  BY <1>1, <1>2, <1>4 DEF DpInv, TypeOK
<1>6. CASE o.err = "none"
  <2>1. hwc'.secure \in {"End", "Max"} /\ ~hwc'.paused /\ ~hwc'.pausing
    BY <1>2, <1>6, EventTyped DEF DpInv
  <2>2. ASSUME faults' = 0 PROVE Good'
    <3>1. Good
      BY <1>2, <2>2 DEF DpInv
    <3>2. PICK e \in Display :
           /\ Told(e, dpy)
           /\ ~CommandMode => e.tui_state = "None"
           /\ \/ /\ dpy.pending = "Off"
                 /\ Rest(o.d, e)
                 /\ \/ PutOff(o.d, e, "Off") \/ Entered(o.d, e, "Off") \/ Cancelled(o.d, e, "Off")
                 /\ "Off" = dpy.state => Cancelled(o.d, e, "Off")
              \/ /\ dpy.pending # "Off"
                 /\ o.d = e /\ o.refresh
      BY <1>3, <1>6
    <3>3. InSession'
      BY <1>4, <1>6, <2>1 DEF InSession
    <3>4. RequestKept'
      BY <1>1, <1>2, <1>4, <2>1, <3>1, <3>2
         DEF Good, RequestKept, Told, Rest, PutOff, Entered, Cancelled, Display
    <3>5. PanelKept'
      BY <1>1, <1>2, <1>4, <3>1, <3>2
         DEF Good, PanelKept, Requests, Told, Rest, PutOff, Entered, Cancelled
    <3>6. VideoKept'
      BY <1>1, <1>2, <1>4, <2>1, <3>1, <3>2
         DEF Good, VideoKept, CommandMode, HasCwb, Told, Rest, PutOff, Entered, Cancelled, NextTui
    <3> QED
      BY <3>3, <3>4, <3>5, <3>6 DEF Good
  <2> QED
    BY <1>5, <2>2 DEF DpInv
<1>7. CASE o.err = "failed"
  BY <1>2, <1>5, <1>7 DEF DpInv
<1> QED
  BY <1>3, <1>6, <1>7

\* The display that made room for a session is resumed.
LEMMA TUIUnPrepareKeeps == ASSUME DpInv, UNCHANGED kind, TUIUnPrepare PROVE DpInv'
<1>1. /\ Elsewhere /\ tui = [role |-> "other", at |-> "prepared"]
      /\ SecureEvent("UnPrepare", "idle", "idle")
      /\ UNCHANGED <<wanted, calls, sessions>>
      /\ dpy \in Display /\ hwc \in Layer
  BY DEF TUIUnPrepare, Elsewhere, DpInv, TypeOK
<1>2. PICK o \in HandleSecureEvent(dpy, "UnPrepare") :
           /\ o.d \in Display /\ o.err \in {"none", "failed", "permission"}
           /\ o.refresh \in BOOLEAN
           /\ dpy' \in Display /\ hwc' \in Layer
           /\ dpy'.refresh = o.d.refresh
           /\ dpy'.state = o.d.state /\ dpy'.pending = o.d.pending /\ dpy'.active = o.d.active
           /\ dpy'.hw_pending = o.d.hw_pending /\ dpy'.panel = o.d.panel
           /\ dpy'.tui_state = o.d.tui_state /\ dpy'.first_cycle = o.d.first_cycle
           /\ dpy'.cwb = o.d.cwb /\ dpy'.cwb_teardown = o.d.cwb_teardown
           /\ faults' \in 0..MaxFaults' /\ (faults' = 0 => faults = 0 /\ o.err # "failed")
           /\ tui' = [tui EXCEPT !.at = "idle"]
           /\ o.err = "none" => hwc' = AfterEvent("UnPrepare", o.refresh)
  <2>1. "UnPrepare" \in {"Start", "End", "UnPrepare"} /\ TypeOK
    BY DEF DpInv
  <2>2. PICK o \in HandleSecureEvent(dpy, "UnPrepare") :
           /\ o.d \in Display /\ o.err \in {"none", "failed", "permission"}
           /\ o.refresh \in BOOLEAN
           /\ dpy' \in Display /\ hwc' \in Layer
           /\ dpy'.refresh = (o.d.refresh \/ (o.refresh /\ "UnPrepare" # "UnPrepare"))
           /\ dpy'.state = o.d.state /\ dpy'.pending = o.d.pending /\ dpy'.active = o.d.active
           /\ dpy'.hw_pending = o.d.hw_pending /\ dpy'.panel = o.d.panel
           /\ dpy'.tui_state = o.d.tui_state /\ dpy'.first_cycle = o.d.first_cycle
           /\ dpy'.cwb = o.d.cwb /\ dpy'.cwb_teardown = o.d.cwb_teardown
           /\ faults' \in 0..MaxFaults' /\ (faults' = 0 => faults = 0 /\ o.err # "failed")
           /\ o.err = "none" =>
                tui' = [tui EXCEPT !.at = "idle"] /\ hwc' = AfterEvent("UnPrepare", o.refresh)
           /\ o.err # "none" => tui' = [tui EXCEPT !.at = "idle"]
    BY <1>1, <2>1, SecureEventDoes
  <2>3. o.d.refresh \in BOOLEAN
    BY <2>2 DEF Display
  <2> QED
    BY <2>2, <2>3
<1>3. /\ o.err \in {"none", "failed"}
      /\ o.err = "none" => \E e \in Display :
           /\ Told(e, dpy)
           /\ e.tui_state = IF dpy.tui_state = "None" THEN "InProgress" ELSE dpy.tui_state
           /\ \/ /\ dpy.pending # "none"
                 /\ Rest(o.d, e)
                 /\ \/ PutOff(o.d, e, dpy.pending) \/ Entered(o.d, e, dpy.pending)
                    \/ Cancelled(o.d, e, dpy.pending)
                 /\ dpy.pending = dpy.state => Cancelled(o.d, e, dpy.pending)
              \/ dpy.pending = "none" /\ o.d = e
  <2>1. "UnPrepare" \in {"End", "UnPrepare"} /\ "UnPrepare" # "End" /\ TypeOK
    BY DEF DpInv
  <2> DEFINE ev == "UnPrepare"
  <2>2. /\ o.err \in {"none", "failed"}
        /\ o.err = "none" => \E e \in Display :
              /\ Told(e, dpy)
              /\ ev = "UnPrepare" =>
                   e.tui_state = IF dpy.tui_state = "None" THEN "InProgress" ELSE dpy.tui_state
              /\ \/ /\ dpy.pending # "none" /\ (ev = "End" => dpy.pending = "Off")
                    /\ Rest(o.d, e)
                    /\ \/ PutOff(o.d, e, dpy.pending) \/ Entered(o.d, e, dpy.pending)
                       \/ Cancelled(o.d, e, dpy.pending)
                    /\ dpy.pending = dpy.state => Cancelled(o.d, e, dpy.pending)
                 \/ /\ dpy.pending = "none" \/ (ev = "End" /\ dpy.pending # "Off")
                    /\ o.d = e /\ o.refresh = (ev = "End")
    BY <1>1, <1>2, <2>1, ResumeDoes
  <2> QED
    BY <2>1, <2>2
<1>4. tui' = [role |-> "other", at |-> "idle"] /\ ~Elsewhere'
  BY <1>1, <1>2 DEF Elsewhere
<1>5. TypeOK'
  BY <1>1, <1>2, <1>4 DEF DpInv, TypeOK
<1>6. CASE o.err = "none"
  <2>1. hwc'.secure \in {"UnPrepare", "Max"} /\ ~hwc'.paused /\ ~hwc'.pausing
    BY <1>2, <1>6, EventTyped DEF DpInv
  <2>2. ASSUME faults' = 0 PROVE Good'
    <3>1. Good
      BY <1>2, <2>2 DEF DpInv
    <3>2. PICK e \in Display :
           /\ Told(e, dpy)
           /\ e.tui_state = IF dpy.tui_state = "None" THEN "InProgress" ELSE dpy.tui_state
           /\ \/ /\ dpy.pending # "none"
                 /\ Rest(o.d, e)
                 /\ \/ PutOff(o.d, e, dpy.pending) \/ Entered(o.d, e, dpy.pending)
                    \/ Cancelled(o.d, e, dpy.pending)
                 /\ dpy.pending = dpy.state => Cancelled(o.d, e, dpy.pending)
              \/ dpy.pending = "none" /\ o.d = e
      BY <1>3, <1>6
    <3>3. InSession'
      BY <1>4, <2>1 DEF InSession
    <3>4. RequestKept'
      BY <1>1, <1>2, <1>4, <2>1, <3>1, <3>2
         DEF Good, RequestKept, Told, Rest, PutOff, Entered, Cancelled, Display
    <3>5. PanelKept'
      BY <1>1, <1>2, <1>4, <3>1, <3>2
         DEF Good, PanelKept, Requests, Told, Rest, PutOff, Entered, Cancelled
    <3>6. VideoKept'
      BY <1>1, <1>2, <1>4, <2>1, <3>1, <3>2
         DEF Good, VideoKept, CommandMode, HasCwb, Told, Rest, PutOff, Entered, Cancelled, NextTui
    <3> QED
      BY <3>3, <3>4, <3>5, <3>6 DEF Good
  <2> QED
    BY <1>5, <2>2 DEF DpInv
<1>7. CASE o.err = "failed"
  BY <1>2, <1>5, <1>7 DEF DpInv
<1> QED
  BY <1>3, <1>6, <1>7

\* Nothing of the invariant reads anything but vars.
LEMMA StutterKeeps == ASSUME DpInv, UNCHANGED vars PROVE DpInv'
<1>1. /\ UNCHANGED <<kind, dpy, hwc>> /\ UNCHANGED <<tui, wanted, calls, sessions, faults>>
  BY DEF vars
<1>2. TypeOK'
  BY <1>1 DEF DpInv, TypeOK, MaxFaults
<1>3. Good => Good'
  BY <1>1 DEF Good, InSession, RequestKept, PanelKept, VideoKept, Elsewhere, Requests,
              CommandMode, HasCwb
<1> QED
  BY <1>1, <1>2, <1>3 DEF DpInv

\* Each action of Step keeps the invariant.
LEMMA Invariance == Spec => []DpInv
<1>1. Init => DpInv
  BY InitEstablishes
<1>2. DpInv /\ [Next]_vars => DpInv'
  <2> SUFFICES ASSUME DpInv, [Next]_vars PROVE DpInv'
    OBVIOUS
  <2>1. CASE UNCHANGED vars
    BY <2>1, StutterKeeps
  <2>2. CASE Next
    <3>1. Step /\ UNCHANGED kind
      BY <2>2 DEF Next
    <3>2. ASSUME NEW m \in Modes, SetPowerMode(m) PROVE DpInv'
      BY <3>1, <3>2, SetPowerModeKeeps
    <3>3. ASSUME NEW enable \in BOOLEAN, SetVsyncEnabled(enable) PROVE DpInv'
      BY <3>1, <3>3, SetVsyncKeeps
    <3>4. CASE Frame
      BY <3>1, <3>4, FrameKeeps
    <3>5. CASE HandleCwbTeardown
      BY <3>1, <3>5, TeardownKeeps
    <3>6. CASE TUIPrepare
      BY <3>1, <3>6, TUIPrepareKeeps
    <3>7. CASE TUIStart
      BY <3>1, <3>7, TUIStartKeeps
    <3>8. CASE TUIEnd
      BY <3>1, <3>8, TUIEndKeeps
    <3>9. CASE TUIUnPrepare
      BY <3>1, <3>9, TUIUnPrepareKeeps
    <3>10. CASE TUIReleased \/ TUIEnded \/ TUIAbandoned
      BY <3>1, <3>10, ThreadKeeps
    <3> QED
      BY <3>1, <3>2, <3>3, <3>4, <3>5, <3>6, <3>7, <3>8, <3>9, <3>10 DEF Step, Session
  <2> QED
    BY <2>1, <2>2
<1> QED
  BY <1>1, <1>2, PTL DEF Spec

-----------------------------------------------------------------------------
\* Every field keeps its type.
THEOREM TypeTheorem == Spec => []TypeOK
<1>1. DpInv => TypeOK
  BY DEF DpInv
<1> QED
  BY <1>1, Invariance, PTL

\* A power request that was put off is known to the hardware layer as well, and a frame is due
\* that carries it out, unless a session in another VM holds the display.
THEOREM PendingTheorem == Spec => []PendingIsKept
<1>1. DpInv => PendingIsKept
  BY DEF DpInv, Good, RequestKept, InSession, Elsewhere, PendingIsKept, PendingReachesHw,
         PendingHasFrame
<1> QED
  BY <1>1, Invariance, PTL

\* When no session runs, nothing of one is left: the client of the display is neither paused nor
\* about to be.
THEOREM IdleTheorem == Spec => []IdleIsResumed
<1>1. DpInv => IdleIsResumed
  BY DEF DpInv, Good, InSession, IdleIsResumed
<1> QED
  BY <1>1, Invariance, PTL

\* A display that is only turned on and off has its panel in the state of its client, from the
\* end of its first frame on.
THEOREM PanelTheorem == Spec => []PanelFollowsOnOff
<1>1. DpInv => PanelFollowsOnOff
  BY DEF DpInv, Good, PanelKept, PanelFollowsOnOff
<1> QED
  BY <1>1, Invariance, PTL

\* A video mode panel without writeback draws no frame while it is off.
THEOREM VideoTheorem == Spec => []OffVideoIsNotDrawn
<1>1. DpInv => OffVideoIsNotDrawn
  BY DEF DpInv, Good, VideoKept, OffVideoIsNotDrawn, OffIsNotDrawn, PlainVideo
<1> QED
  BY <1>1, Invariance, PTL

\* No step without a failure changes the panel of a session that goes on.
LEMMA PanelStays ==
  ASSUME DpInv, DpInv', Step, UNCHANGED kind, PlainVideo, PlainVideo',
         hwc.secure = "Start", hwc.paused, hwc'.secure = "Start"
  PROVE  dpy'.panel = dpy.panel
<1>1. /\ TypeOK /\ dpy \in Display /\ hwc \in Layer
      /\ tui.at \notin {"idle", "ending"} /\ ~(tui.role = "target" /\ tui.at = "prepared")
      /\ ~Elsewhere
      /\ dpy.tui_state = "InProgress" /\ faults' = 0
  BY DEF DpInv, TypeOK, Good, InSession, VideoKept, PlainVideo
<1>2. ASSUME NEW m \in Modes, SetPowerMode(m) PROVE dpy'.panel = dpy.panel
  <2>1. PICK o \in SetDisplayState(dpy, m) : dpy' = o.d /\ Counted(o.err)
    BY <1>2 DEF SetPowerMode
  <2>2. /\ o.err \in {"none", "failed"}
        /\ o.err = "none" => PutOff(o.d, dpy, m) \/ Entered(o.d, dpy, m) \/ Cancelled(o.d, dpy, m)
    BY <1>1, SetDisplayStateDoes
  <2>3. o.err # "failed"
    BY <1>1, <2>1, Counts
  <2> QED
    BY <1>1, <2>1, <2>2, <2>3 DEF PutOff, Entered, Cancelled
<1>3. ASSUME NEW enable \in BOOLEAN, SetVsyncEnabled(enable) PROVE dpy'.panel = dpy.panel
  BY <1>1, <1>3, VsyncTyped DEF SetVsyncEnabled, Alike
<1>4. CASE Frame
  <2>1. CASE FrameRefused
    BY <1>1, <2>1 DEF FrameRefused, Drawn, Display
  <2> QED
    BY <1>4, <2>1 DEF Frame, FrameCommitted, FrameFails, Draws
<1>5. CASE HandleCwbTeardown
  BY <1>1, <1>5 DEF HandleCwbTeardown, Display
<1>6. CASE TUIPrepare
  BY <1>1, <1>6 DEF TUIPrepare
<1>7. CASE TUIStart \/ TUIUnPrepare \/ TUIEnded
  BY <1>1, <1>7 DEF TUIStart, TUIUnPrepare, TUIEnded, Elsewhere
<1>8. CASE TUIEnd
  <2>1. PICK o \in HandleSecureEvent(dpy, "End") :
           /\ o.err \in {"none", "failed", "permission"} /\ o.refresh \in BOOLEAN
           /\ o.err # "failed"
           /\ o.err = "none" => hwc' = AfterEvent("End", o.refresh)
    BY <1>1, <1>8, SecureEventDoes DEF TUIEnd
  <2>2. o.err \in {"none", "failed"}
    BY <1>1, ResumeDoes
  <2>3. hwc'.secure \in {"End", "Max"}
    BY <1>1, <2>1, <2>2, EventTyped
  <2> QED
    BY <2>3
<1>9. CASE TUIReleased \/ TUIAbandoned
  BY <1>9 DEF TUIReleased, TUIAbandoned
<1> QED
  BY <1>2, <1>3, <1>4, <1>5, <1>6, <1>7, <1>8, <1>9 DEF Step, Session

\* While a session of another VM uses a video mode panel without writeback, no step of this one
\* turns the panel on or off.
THEOREM VmTheorem == Spec => VmKeepsVideoPanel
<1>1. DpInv /\ DpInv' /\ [Next]_vars =>
        [PlainVideo /\ PlainVideo' /\ hwc.secure = "Start" /\ hwc.paused /\ hwc'.secure = "Start"
           => dpy'.panel = dpy.panel]_vars
  BY PanelStays DEF Next
<1> QED
  BY <1>1, Invariance, PTL DEF Spec, VmKeepsVideoPanel
=============================================================================
