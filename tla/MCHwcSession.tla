---------------------------- MODULE MCHwcSession ----------------------------
(***************************************************************************)
(* Two parts of HWCSession that share no state, checked side by side:       *)
(* "part" is the one that moves in a behavior.                              *)
(***************************************************************************)
EXTENDS SessionCommit, MCSecureSession

VARIABLE part

hsVars == <<vars, ssVars, part>>

CommitOnly(Step) == part = "commit" /\ Step /\ UNCHANGED <<ssVars, part>>
SecureOnly(Step) == part = "secure" /\ Step /\ UNCHANGED <<vars, part>>

HsInit == Init /\ SsInit /\ part \in {"commit", "secure"}

HsNext == CommitOnly(Next) \/ SecureOnly(SsNext)

\* The fairness of each specification: as one part moves in a behavior, one condition may
\* stand for one of both components.
HsFairness ==
  /\ WF_hsVars(CommitOnly(FinishCall) \/ SecureOnly(Command_))
  /\ WF_hsVars(CommitOnly(PresentValidated) \/ SecureOnly(SetPowerMode))
  /\ WF_hsVars(SecureOnly(AskForSession)) /\ WF_hsVars(SecureOnly(SyncDisplays))
  /\ SF_hsVars(SecureOnly(Present(HWC_DISPLAY_PRIMARY)))
  /\ \A w \in Waiters :
       WF_hsVars(CommitOnly(WaiterStep(w))) /\ WF_hsVars(CommitOnly(Timeout(w)))

HsSpec == HsInit /\ [][HsNext]_hsVars /\ HsFairness
=============================================================================
