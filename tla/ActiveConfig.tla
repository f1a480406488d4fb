---------------------------- MODULE ActiveConfig ----------------------------
(***************************************************************************)
(* Configurations and refresh rates of a built-in display with dynamic fps  *)
(* that is on.  A configuration is a group (the resolution) and a rate; the *)
(* panel has a mode for each.                                               *)
(*                                                                         *)
(* Three layers keep their own idea of the rate.  HWCDisplay stores what    *)
(* the client asks for until a frame; DisplayBuiltIn chooses a rate for     *)
(* each validated frame and defers the vote for a lower one; HWDeviceDRM     *)
(* keeps the mode it will send with the next commit.  Calls wait for the    *)
(* frame sequence to end, and for the commit of a frame (ClientLock): each   *)
(* is one step.  A frame is validated and presented in two steps, or in one *)
(* (a unified draw, which the resource manager does not order first).       *)
(***************************************************************************)
EXTENDS Naturals, FiniteSets

CONSTANTS Groups, Rates, FramesToDefer,
          CanIdle,       \* whether an idle display falls back to the lowest rate
          MaxCalls, MaxOverrides, MaxFailures    \* bounds on what the environment does

\* The driver lists a lowest and a highest rate, and none of zero.
ASSUME RatesAssumption ==
  /\ Rates \subseteq Nat \ {0}
  /\ \E low, high \in Rates : \A r \in Rates : low <= r /\ r <= high

ASSUME DeferAssumption == FramesToDefer \in Nat

VARIABLES
  req,      \* HWCDisplay: first_cycle_, the stored requests, active_config_index_
  sdm,      \* DisplayBuiltIn, HWDeviceDRM, and what the composition manager was told
  screen,   \* the mode sent with the last commit that did
  phase,    \* whether a frame is between its validation and its present
  latest,   \* the configuration the client asked for last
  asks, overrides, failures

acVars == <<req, sdm, screen, phase, latest, asks, overrides, failures>>

Configs == Groups \X Rates
Nothing == <<>>
Group(c) == c[1]
Fps(c) == c[2]
MinFps == CHOOSE r \in Rates : \A q \in Rates : r <= q
MaxFps == CHOOSE r \in Rates : \A q \in Rates : q <= r

AcTypeOK ==
  /\ req \in [first : BOOLEAN, deferred : Configs \cup {Nothing}, pending : Configs \cup {Nothing},
             wanted : Configs \cup {Nothing}, due : BOOLEAN, cached : Configs]
  /\ sdm \in [active : Rates, current : Rates, forced : Rates \cup {0}, validated : BOOLEAN,
             attr : Configs, left : 0..FramesToDefer, fps : Rates, dirty : BOOLEAN, apply : BOOLEAN,
             mode : Configs, vrefresh : Rates \cup {0}, update : BOOLEAN, voted : Configs]
  /\ screen \in Configs /\ phase \in {"none", "validated"} /\ latest \in Configs
  /\ asks \in 0..MaxCalls /\ overrides \in 0..MaxOverrides
  /\ failures \subseteq {"vote", "split", "validate", "commit"}

AcInit ==
  \E g \in Groups :
    LET c == <<g, MaxFps>> IN
    /\ req = [first |-> TRUE, deferred |-> Nothing, pending |-> Nothing, wanted |-> Nothing,
              due |-> FALSE, cached |-> c]
    /\ sdm = [active |-> MaxFps, current |-> MaxFps, forced |-> 0, validated |-> FALSE,
              attr |-> c, left |-> 0, fps |-> MaxFps, dirty |-> FALSE, apply |-> FALSE,
              mode |-> c, vrefresh |-> 0, update |-> FALSE, voted |-> c]
    /\ screen = c /\ phase = "none" /\ latest = c
    /\ asks = 0 /\ overrides = 0 /\ failures = {}

-----------------------------------------------------------------------------
(* DisplayBuiltIn.  "fails" is the step that fails: the composition manager *)
(* refuses the new attributes ("vote") or the split ("split"), the driver    *)
(* the validation ("validate") or the commit ("commit").                    *)

Clear(s) == [s EXCEPT !.left = 0, !.dirty = FALSE, !.apply = FALSE]
MarkDirty(s) == [s EXCEPT !.dirty = (s.left # 0)]
SetDeferredFpsConfig(s) == Clear([s EXCEPT !.attr = <<Group(@), s.fps>>])
CanDeferFpsConfig(s, fps) == ~s.apply /\ FramesToDefer # 0 /\ Fps(s.attr) > fps

Vote(s, c, fails) == IF fails = "vote" THEN s ELSE [s EXCEPT !.voted = c, !.attr = c]

ReconfigureDisplay(s, fails) ==
  LET t == IF s.left # 0 /\ s.dirty THEN SetDeferredFpsConfig(s) ELSE s
      c == IF s.left # 0 /\ ~s.dirty THEN <<Group(s.mode), Fps(s.attr)>> ELSE s.mode
  IN IF ~s.dirty /\ c = t.attr THEN t
     ELSE IF CanDeferFpsConfig(t, Fps(c))
     THEN Vote([t EXCEPT !.left = FramesToDefer, !.fps = Fps(c), !.dirty = FALSE],
               <<Group(c), Fps(t.attr)>>, fails)
     ELSE Vote(t, c, fails)

\* SetActiveConfig of both layers and SetDisplayAttributes of the driver.
SetSdmConfig(s, c, fails) ==
  LET t == [MarkDirty(s) EXCEPT !.validated = FALSE, !.active = Fps(c)]
  IN IF s.mode = c THEN t
     ELSE ReconfigureDisplay([t EXCEPT !.mode = c, !.update = TRUE], fails)

SetFails(s, c, fails) == fails = "vote" /\ s.mode # c

OptimalRate(s, lower) ==
  IF s.forced # 0 THEN s.forced ELSE IF lower THEN MinFps ELSE s.active

\* Broken variant: the rate that was set is not noted.
ChangeFpsUnnoted(s, lower, fails) ==
  LET r == OptimalRate(s, lower)
      t == IF s.current = r THEN s ELSE [s EXCEPT !.vrefresh = r]
  IN ReconfigureDisplay(MarkDirty(t), fails)

ChangeFps(s, lower, fails) ==
  LET r == OptimalRate(s, lower)
      t == IF s.current = r THEN s ELSE [s EXCEPT !.vrefresh = r]
  IN IF s.current # r /\ fails = "split" THEN t
     ELSE ReconfigureDisplay(MarkDirty([t EXCEPT !.current = r]), fails)

\* PrePrepare, unless it can skip the validation, and Prepare; a validation that the driver
\* refuses is repeated with another strategy.
Prepare(s, lower, skip, fails) ==
  LET t == IF skip THEN s ELSE ChangeFps(s, lower, fails)
  IN [t EXCEPT !.vrefresh = IF fails = "validate" THEN 0 ELSE @, !.validated = TRUE]

\* The commit of the driver; one that fails is flushed and not reported.
Sent(s) == IF s.vrefresh # 0 THEN <<Group(s.mode), s.vrefresh>> ELSE s.mode
HwCommit(s, fails) ==
  IF fails = "commit" THEN [s EXCEPT !.vrefresh = 0, !.validated = FALSE]
  ELSE [s EXCEPT !.mode = Sent(s), !.vrefresh = 0, !.update = FALSE]

\* Broken variant: the display is not configured again after the commit.
PostCommitAsIs(s, fails) ==
  LET t == IF s.left = 0 THEN s ELSE [s EXCEPT !.left = @ - 1, !.apply = (s.left = 1)]
  IN IF t.apply THEN Clear([t EXCEPT !.validated = FALSE]) ELSE t

PostCommit(s, fails) ==
  LET t == IF s.left = 0 THEN s ELSE [s EXCEPT !.left = @ - 1, !.apply = (s.left = 1)]
      u == ReconfigureDisplay(t, fails)
  IN IF u.apply THEN Clear([u EXCEPT !.validated = FALSE]) ELSE u

-----------------------------------------------------------------------------
(* HWCDisplay.  h is its part of the state, s that of the layers below.     *)

\* GetActiveConfig is the stored request, or else the mode of the driver.
ActiveConfigOf(h, s) == IF h.pending # Nothing THEN h.pending ELSE s.mode

SetActiveConfigOf(h, s, c) ==
  IF ActiveConfigOf(h, s) = c THEN h
  ELSE IF h.first THEN [h EXCEPT !.deferred = c]
  ELSE [h EXCEPT !.deferred = Nothing, !.pending = c]

\* A slip: the request is carried out and not forgotten.
SubmitKept(h, s, fails) ==
  IF SetFails(s, h.wanted, fails) THEN h ELSE [h EXCEPT !.cached = h.wanted]

\* SubmitActiveConfigChange: a request that fails is kept.
Submit(h, s, fails) ==
  IF SetFails(s, h.wanted, fails) THEN h
  ELSE [h EXCEPT !.cached = h.wanted, !.wanted = Nothing, !.due = FALSE]

\* ProcessActiveConfigChange, and UpdateActiveConfig, which drops a request that fails.
Process(h, s, fails) ==
  IF h.wanted # Nothing /\ h.due
  THEN <<Submit(h, s, fails), SetSdmConfig(s, h.wanted, fails)>> ELSE <<h, s>>
UpdateActiveConfig(h, s, fails) ==
  IF h.pending = Nothing THEN <<h, s>>
  ELSE <<[h EXCEPT !.pending = Nothing,
                   !.cached = IF SetFails(s, h.pending, fails) THEN @ ELSE h.pending],
         SetSdmConfig(s, h.pending, fails)>>

\* PostCommitLayerStack takes up the request that waited for the first commit.
PostCommitLayerStack(h, s) ==
  IF h.deferred = Nothing THEN h
  ELSE SetActiveConfigOf([h EXCEPT !.deferred = Nothing], s, h.deferred)

-----------------------------------------------------------------------------
(* Calls of the client and of the configuration service.                    *)

Ask == phase = "none" /\ asks < MaxCalls /\ asks' = asks + 1
       /\ UNCHANGED <<sdm, screen, phase, overrides, failures>>

SetActiveConfig(c) ==
  /\ Ask
  /\ req' = SetActiveConfigOf(req, sdm, c)
  /\ latest' = IF ActiveConfigOf(req, sdm) = c THEN latest ELSE c

\* The time a client desires is past or to come.
SetActiveConfigWithConstraints(c, seamless, due) ==
  /\ Ask
  /\ IF req.first
     THEN req' = [req EXCEPT !.deferred = c] /\ latest' = c
     ELSE IF seamless /\ Group(c) # Group(req.cached)
     THEN req' = [req EXCEPT !.deferred = Nothing] /\ UNCHANGED latest
     ELSE req' = [req EXCEPT !.deferred = Nothing, !.wanted = c, !.due = due] /\ latest' = c

TimePasses ==
  /\ req.wanted # Nothing /\ ~req.due
  /\ req' = [req EXCEPT !.due = TRUE]
  /\ UNCHANGED <<sdm, screen, phase, latest, asks, overrides, failures>>

Override == phase = "none" /\ overrides < MaxOverrides /\ overrides' = overrides + 1
            /\ UNCHANGED <<screen, phase, latest, asks, failures>>

\* SetActiveConfigIndex of the service sets a configuration at once.
SetActiveDisplayConfig(c) ==
  /\ Override /\ sdm.mode # c
  /\ sdm' = SetSdmConfig(sdm, c, "none")
  /\ req' = [req EXCEPT !.cached = c]

ForceRefreshRate(r) ==
  /\ Override /\ sdm.forced # r
  /\ sdm' = [sdm EXCEPT !.forced = r]
  /\ UNCHANGED req

\* Power off, power on.
TurnOffAndOn ==
  /\ Override
  /\ sdm' = LET s == IF sdm.left # 0 THEN SetDeferredFpsConfig(sdm) ELSE sdm
            IN ReconfigureDisplay([s EXCEPT !.voted = s.attr, !.validated = FALSE], "none")
  /\ UNCHANGED req

-----------------------------------------------------------------------------
(* Frames.                                                                 *)

Fails(kinds, fails) ==
  \/ fails = "none" /\ UNCHANGED failures
  \/ fails \in kinds /\ Cardinality(failures) < MaxFailures /\ failures' = failures \cup {fails}

\* HWCSession::CommitOrPrepare up to the commit: what the two layers are then.
Validated(lower, skip, fails) ==
  {<<q[1], Prepare(q[2], lower, skip /\ q[2].validated, fails)>> :
     q \in {UpdateActiveConfig(p[1], p[2], fails) : p \in {Process(req, sdm, fails)}}}

\* What a commit leaves; a present notes that the first cycle is over.
Committed(h, s, presents, fails) ==
  \E t \in {PostCommit(u, fails) : u \in {HwCommit(s, fails)}} :
    /\ sdm' = t
    /\ req' = PostCommitLayerStack([h EXCEPT !.first = @ /\ ~presents], t)
    /\ screen' = IF fails # "commit" /\ (s.update \/ s.vrefresh # 0) THEN Sent(s) ELSE screen

Validate(lower, skip, fails) ==
  /\ phase = "none" /\ phase' = "validated"
  /\ Fails({"vote", "split", "validate"}, fails)
  /\ UNCHANGED <<screen, latest, asks, overrides>>
  /\ \E v \in Validated(lower, skip, fails) : req' = v[1] /\ sdm' = v[2]

ValidateAndCommit(lower, skip, fails) ==
  /\ phase = "none" /\ ~req.first
  /\ UNCHANGED <<phase, latest, asks, overrides>>
  /\ Fails({"vote", "split", "validate", "commit"}, fails)
  /\ \E v \in Validated(lower, skip, fails) : Committed(v[1], v[2], FALSE, fails)

\* A request that came due meanwhile is submitted to a display that was validated without it.
Present(fails) ==
  /\ phase = "validated" /\ phase' = "none"
  /\ UNCHANGED <<latest, asks, overrides>>
  /\ Fails({"vote", "commit"}, fails)
  /\ \E p \in {Process(req, sdm, fails)} : Committed(p[1], p[2], TRUE, fails)

Kinds == {"none", "vote", "split", "validate", "commit"}
Lowers == IF CanIdle THEN BOOLEAN ELSE {FALSE}
Draw == \E lower \in Lowers, skip \in BOOLEAN, fails \in Kinds :
          Validate(lower, skip, fails) \/ ValidateAndCommit(lower, skip, fails)
Shows == \E fails \in Kinds : Present(fails)

AcNext ==
  \/ \E c \in Configs : SetActiveConfig(c) \/ SetActiveDisplayConfig(c)
  \/ \E c \in Configs, seamless \in BOOLEAN, due \in BOOLEAN :
       SetActiveConfigWithConstraints(c, seamless, due)
  \/ \E r \in Rates \cup {0} : ForceRefreshRate(r)
  \/ TimePasses \/ TurnOffAndOn \/ Draw \/ Shows

\* A client draws a frame it was asked for: by Refresh, or by the timeline of its request.
DrawsWhenAsked == (req.deferred # Nothing \/ req.pending # Nothing \/ req.due) /\ Draw

AcSpec ==
  AcInit /\ [][AcNext]_acVars
  /\ WF_acVars(TimePasses) /\ WF_acVars(DrawsWhenAsked) /\ WF_acVars(Shows)

-----------------------------------------------------------------------------
(* After a frame that was validated for the active rate, the panel runs the  *)
(* configuration the client is told, at that rate.  The rate of a frame is   *)
(* sent only if it differs from the one noted, while three other calls and   *)
(* the idle fallback change the mode.                                       *)
ScreenIsAsTold ==
  phase = "none" /\ sdm.validated /\ sdm.current = sdm.active /\ failures = {}
    => screen = req.cached /\ Fps(screen) = sdm.active

(* What was voted for covers the rate the panel runs at, once the driver has *)
(* sent its mode and no rate is deferred: a lower rate may be voted for      *)
(* late, a higher one may not.                                              *)
VoteCoversScreen ==
  phase = "none" /\ ~sdm.update /\ sdm.left = 0 /\ "vote" \notin failures
    => Fps(sdm.voted) >= Fps(screen)

(* Every request of the client is taken up, also one that failed and one     *)
(* that waited for the first commit.                                        *)
RequestsAreTakenUp ==
  <>[](req.deferred = Nothing /\ req.pending = Nothing /\ req.wanted = Nothing)

(* What the comments in the two setters say ("Honour latest request."): when *)
(* nothing is stored any more, the configuration is the one asked for last.  *)
LatestRequestWins ==
  (/\ phase = "none" /\ ~req.first /\ overrides = 0 /\ failures = {}
   /\ req.deferred = Nothing /\ req.pending = Nothing /\ req.wanted = Nothing)
    => req.cached = latest
=============================================================================
