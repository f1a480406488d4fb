-------------------------- MODULE HwcSessionProofs --------------------------
(***************************************************************************)
(* Proofs about the two models of HWCSession's present: SessionCommit, for  *)
(* any set of waiters, and SecureSession, for any built-in and pluggable    *)
(* displays and any kinds of session; both for any bounds.                  *)
(***************************************************************************)
EXTENDS SessionCommit, SecureSession, FiniteSetTheorems, WellFoundedInduction, TLAPS

WaiterPC == {"idle", "seq_asleep", "seq_awake", "asleep", "awake", "timeout"}

(* The inductive invariant: the flag of the lock and the composer's place   *)
(* agree, and no waiter is forgotten.                                       *)
SeqInv ==
  /\ wpc \in [Waiters -> WaiterPC]
  /\ sequence_wait = 1 <=> InFrame
  /\ NoForgottenWaiter

-----------------------------------------------------------------------------
(* A broadcast leaves nobody asleep.                                        *)
LEMMA BroadcastWakesAll ==
  ASSUME wpc \in [Waiters -> WaiterPC], Broadcast
  PROVE  /\ wpc' \in [Waiters -> WaiterPC]
         /\ \A w \in Waiters : wpc'[w] \notin {"seq_asleep", "asleep"}
<1>1. ASSUME NEW label \in WaiterPC
      PROVE  Wake(label) \in WaiterPC \ {"seq_asleep", "asleep"}
  BY DEF Wake, WaiterPC
<1>2. \A w \in Waiters : wpc[w] \in WaiterPC
  OBVIOUS
<1> QED BY <1>1, <1>2 DEF Broadcast

(* The composer's steps keep the invariant: those that close the sequence    *)
(* or clear the bits broadcast, or are about to.                            *)
LEMMA ComposerKeeps ==
  ASSUME SeqInv, CommitOrPrepare \/ PresentDisplay \/ FinishCall
  PROVE  SeqInv'
<1> USE DEF SeqInv, NoForgottenWaiter, InFrame, NewCall, ErrorStep, shared, waiter
<1>1. CASE CommitOrPrepare
  BY <1>1 DEF CommitOrPrepare
<1>2. CASE PresentDisplay
  BY <1>2, BroadcastWakesAll DEF PresentDisplay
<1>3. CASE FinishUnifiedCommit
  BY <1>3, BroadcastWakesAll DEF FinishUnifiedCommit
<1>4. CASE ErrorCheck
  BY <1>4 DEF ErrorCheck
<1>5. CASE ErrorFence \/ ErrorCode
  BY <1>5 DEF ErrorFence, ErrorCode
<1>6. CASE ErrorReset
  BY <1>6 DEF ErrorReset
<1>7. CASE CancelSequence
  BY <1>7, BroadcastWakesAll DEF CancelSequence
<1> QED BY <1>1, <1>2, <1>3, <1>4, <1>5, <1>6, <1>7 DEF FinishCall

(* A waiter registers before it sleeps, and sleeps for the sequence only     *)
(* while it is open.                                                        *)
LEMMA WaiterKeeps ==
  ASSUME SeqInv, NEW w \in Waiters,
         \/ WaitForCommitDone(w) \/ WaiterStep(w) \/ ResetLost(w)
         \/ Timeout(w) \/ SpuriousWake(w)
  PROVE  SeqInv'
<1> USE DEF SeqInv, NoForgottenWaiter, InFrame, WaiterPC, shared, frame
<1>1. CASE WaitForCommitDone(w) \/ WaitForSequence(w)
  BY <1>1 DEF WaitForCommitDone, WaitForSequence, SleepOrRegister, Register
<1>2. CASE ResetLost(w)
  BY <1>2 DEF ResetLost, ErrorStep, Register
<1>3. CASE TimedOut(w) \/ Collect(w)
  BY <1>3 DEF TimedOut, Collect, Return
<1>4. CASE Timeout(w)
  BY <1>4 DEF Timeout
<1>5. CASE SpuriousWake(w)
  BY <1>5 DEF SpuriousWake, Wake
<1> QED BY <1>1, <1>2, <1>3, <1>4, <1>5 DEF WaiterStep

(* SeqInv holds in every reachable state.                                   *)
LEMMA Invariance == Spec => []SeqInv
<1>1. Init => SeqInv
  BY DEF Init, SeqInv, WaiterPC, InFrame, NoForgottenWaiter
<1>2. SeqInv /\ [Next]_vars => SeqInv'
  <2> SUFFICES ASSUME SeqInv, [Next]_vars PROVE SeqInv'
    OBVIOUS
  <2>1. CASE UNCHANGED vars
    BY <2>1 DEF vars, shared, waiter, frame, SeqInv, InFrame, NoForgottenWaiter
  <2> QED BY <2>1, ComposerKeeps, WaiterKeeps DEF Next
<1> QED BY <1>1, <1>2, PTL DEF Spec

-----------------------------------------------------------------------------
(* No waiter is forgotten, however the composer's calls succeed or fail.    *)
THEOREM ForgottenTheorem == Spec => []NoForgottenWaiter
<1>1. SeqInv => NoForgottenWaiter
  BY DEF SeqInv
<1> QED BY <1>1, Invariance, PTL

(* No waiter passes the wait lock inside a frame.                           *)
THEOREM SnapshotTheorem == Spec => NoTransitionalSnapshot
<1>1. ASSUME SeqInv, [Next]_vars, NEW w \in Waiters, wpc[w] # "asleep", wpc'[w] = "asleep"
      PROVE  ~InFrame
  <2> USE <1>1 DEF SeqInv, WaiterPC
  <2>1. ~Broadcast
    BY BroadcastWakesAll
  <2>2. wpc' # wpc
    OBVIOUS
  <2>3. PICK v \in Waiters :
          \/ WaitForCommitDone(v) \/ WaiterStep(v) \/ ResetLost(v)
          \/ Timeout(v) \/ SpuriousWake(v)
    BY <2>1, <2>2 DEF Next, vars, waiter, CommitOrPrepare, PresentDisplay, FinishCall,
       FinishUnifiedCommit, ErrorCheck, ErrorFence, ErrorCode, ErrorReset, CancelSequence
  <2>4. wpc' = [wpc EXCEPT ![v] = wpc'[v]]
    BY <2>3 DEF WaitForCommitDone, WaiterStep, ResetLost, Timeout, SpuriousWake,
       WaitForSequence, SleepOrRegister, Register, TimedOut, Collect, Return
  <2>5. v = w
    BY <2>4
  <2>6. sequence_wait # 1
    BY <2>3, <2>5 DEF WaitForCommitDone, WaiterStep, ResetLost, Timeout, SpuriousWake,
       WaitForSequence, SleepOrRegister, TimedOut, Collect, Return, Wake
  <2> QED BY <2>6
<1>2. SeqInv /\ [Next]_vars =>
        [\A w \in Waiters : wpc[w] # "asleep" /\ wpc'[w] = "asleep" => ~InFrame]_vars
  BY <1>1
<1> QED BY <1>2, Invariance, PTL DEF Spec, NoTransitionalSnapshot

\* Every variable of SessionCommit has its type: there is a call for each frame that was
\* committed, and one that validated a frame has not committed it.
THEOREM SequenceTypes == Spec => []TypeOK
<1> DEFINE Typed == TypeOK /\ (composer = "validated" => committed < frames)
<1>1. Init => Typed
  <2> SUFFICES ASSUME Init PROVE Typed
    OBVIOUS
  <2> USE BoundsAssumption DEF Init, NoFence
  <2>1. sequence_wait \in {-1, 0, 1} /\ composer = "idle" /\ waiting \in SUBSET Waiters
    OBVIOUS
  <2>2. commit_error \in BOOLEAN
    OBVIOUS
  <2>3. out_fence \in 0..MaxFrames /\ retire_fence \in 0..MaxFrames
    OBVIOUS
  <2>4. frames \in 0..MaxFrames /\ committed \in 0..frames /\ spurious \in 0..MaxSpurious
    OBVIOUS
  <2>5. /\ wpc \in [Waiters -> WaiterPC]
        /\ result \in [Waiters -> {"none", "ok", "error", "timeout"}]
    BY DEF WaiterPC
  <2>6. calls \in [Waiters -> 0..MaxCalls] /\ seen \in [Waiters -> 0..MaxFrames]
    OBVIOUS
  <2> QED
    BY <2>1, <2>2, <2>3, <2>4, <2>5, <2>6 DEF TypeOK, WaiterPC
<1>2. Typed /\ [Next]_vars => Typed'
  <2> SUFFICES ASSUME Typed, [Next]_vars PROVE Typed'
    OBVIOUS
  <2> USE BoundsAssumption DEF TypeOK, WaiterPC, shared, waiter, frame
  <2>1. CASE UNCHANGED vars
    BY <2>1 DEF vars
  <2>fence. NoFence \in 0..MaxFrames /\ TRUE \in BOOLEAN /\ FALSE \in BOOLEAN
    BY DEF NoFence
  <2>2. wpc \in [Waiters -> WaiterPC] /\ (Broadcast => wpc' \in [Waiters -> WaiterPC])
    BY BroadcastWakesAll
  <2>3. CASE CommitOrPrepare
    BY <2>3, <2>fence DEF CommitOrPrepare, NewCall
  <2>4. CASE PresentDisplay
    <3>1. committed' \in 0..frames' /\ frames' \in 0..MaxFrames /\ committed' \in 0..MaxFrames
          /\ composer' \in {"idle", "failed"}
      BY <2>4 DEF PresentDisplay, NewCall
    <3>2. retire_fence' \in 0..MaxFrames
      BY <2>4, <2>fence, <3>1 DEF PresentDisplay, PostCommitLocked
    <3>3. commit_error' \in BOOLEAN /\ waiting' \in SUBSET Waiters
      BY <2>4 DEF PresentDisplay, PostCommitLocked
    <3> QED
      BY <2>2, <2>4, <3>1, <3>2, <3>3 DEF PresentDisplay
  <2>5. CASE FinishUnifiedCommit
    BY <2>2, <2>5 DEF FinishUnifiedCommit, PostCommitLocked
  <2>6. CASE ErrorCheck \/ ErrorFence \/ ErrorCode \/ ErrorReset
    BY <2>6, <2>fence DEF ErrorCheck, ErrorFence, ErrorCode, ErrorReset, ErrorStep
  <2>7. CASE CancelSequence
    BY <2>2, <2>7 DEF CancelSequence
  <2>8. ASSUME NEW w \in Waiters,
               \/ WaitForCommitDone(w) \/ WaiterStep(w) \/ ResetLost(w)
               \/ Timeout(w) \/ SpuriousWake(w)
        PROVE  Typed'
    <3>1. CASE WaitForCommitDone(w) \/ WaitForSequence(w)
      BY <3>1 DEF WaitForCommitDone, WaitForSequence, SleepOrRegister, Register, Begin, Resume
    <3>2. CASE ResetLost(w)
      BY <3>2 DEF ResetLost, ErrorStep, Register, Begin, Resume
    <3>3. CASE TimedOut(w) \/ Collect(w)
      BY <3>3, <2>fence DEF TimedOut, Collect, Return
    <3>4. CASE Timeout(w)
      BY <3>4 DEF Timeout
    <3>5. CASE SpuriousWake(w)
      BY <3>5 DEF SpuriousWake, Wake
    <3> QED BY <2>8, <3>1, <3>2, <3>3, <3>4, <3>5 DEF WaiterStep
  <2> QED BY <2>1, <2>3, <2>4, <2>5, <2>6, <2>7, <2>8 DEF Next, FinishCall
<1>3. Typed => TypeOK
  OBVIOUS
<1> QED BY <1>1, <1>2, <1>3, PTL DEF Spec

-----------------------------------------------------------------------------
(* Secure sessions. *)

\* The driver is asked for nothing before the frame is drawn; a present that is going to
\* restore modes has drawn the frame of the active built-in display, so the driver knows
\* what its layers show.
DriverKnows ==
  /\ cmd.at \in {"session", "virtual", "displays", "draw"} => ~cmd.fence
  /\ cmd.at = "check" /\ cmd.fence /\ cmd.display \in Builtins =>
       (driver <=> layers[cmd.display] # {})
  /\ cmd.at \in {"lock", "restore"} =>
       cmd.active \in Builtins /\ (driver <=> layers[cmd.active] # {})

SsInv == SsTypeOK /\ DriverKnows

\* A set of numbers that is not empty has a smallest.
LEMMA MinIsIn ==
  ASSUME NEW S \in SUBSET Nat, S # {}
  PROVE  Min(S) \in S
<1> DEFINE Less == {p \in Nat \X Nat : p[1] < p[2]}
<1>1. IsWellFoundedOn(Less, Nat)
  BY NatLessThanWellFounded DEF OpToRel
<1>2. PICK x \in S : \A y \in S : ~(<<y, x>> \in Less)
  BY <1>1, WFMin
<1>3. ASSUME NEW y \in S PROVE x <= y
  <2>1. y \in Nat /\ x \in Nat /\ ~(<<y, x>> \in Less)
    BY <1>2
  <2> QED
    BY <2>1
<1> QED
  BY <1>3 DEF Min

\* A finite set of numbers is bounded: one of the smallest sets that are not would be
\* bounded without one of its elements.
LEMMA FiniteIsBounded ==
  ASSUME NEW S \in SUBSET Nat, IsFiniteSet(S)
  PROVE  \E b \in Nat : \A x \in S : x <= b
<1> DEFINE Bounded(T) == \E b \in Nat : \A x \in T : x <= b
           Sizes == {n \in Nat : \E T \in SUBSET Nat :
                       IsFiniteSet(T) /\ Cardinality(T) = n /\ ~Bounded(T)}
<1>1. SUFFICES ASSUME ~Bounded(S) PROVE FALSE
  OBVIOUS
<1>2. Cardinality(S) \in Sizes
  BY <1>1, FS_CardinalityType
<1>3. Sizes \in SUBSET Nat /\ Sizes # {}
  BY <1>2
<1> DEFINE Less == {p \in Nat \X Nat : p[1] < p[2]}
<1>4. IsWellFoundedOn(Less, Nat)
  BY NatLessThanWellFounded DEF OpToRel
<1>5. PICK n \in Sizes : \A m \in Sizes : ~(<<m, n>> \in Less)
  <2> HIDE DEF Less, Sizes
  <2> QED
    BY <1>3, <1>4, WFMin
<1>6. PICK T \in SUBSET Nat : IsFiniteSet(T) /\ Cardinality(T) = n /\ ~Bounded(T)
  BY <1>5
<1>7. PICK y \in T : TRUE
  BY <1>6
<1>8. /\ IsFiniteSet(T \ {y}) /\ Cardinality(T \ {y}) = n - 1 /\ n - 1 \in Nat
  <2> HIDE DEF Bounded, Sizes, Less
  <2>1. IsFiniteSet(T) /\ Cardinality(T) = n /\ y \in T
    BY <1>6, <1>7
  <2>2. IsFiniteSet(T \ {y}) /\ Cardinality(T \ {y}) = Cardinality(T) - 1
    BY <2>1, FS_RemoveElement
  <2>3. n \in Nat
    BY <2>1, FS_CardinalityType
  <2>4. n # 0
    BY <2>1, FS_EmptySet
  <2>5. n - 1 \in Nat
    BY <2>3, <2>4
  <2> QED
    BY <2>1, <2>2, <2>5
<1>9. Bounded(T \ {y})
  <2>1. SUFFICES ASSUME ~Bounded(T \ {y}) PROVE FALSE
    OBVIOUS
  <2>2. n - 1 \in Sizes
    BY <2>1, <1>8, T \ {y} \in SUBSET Nat
  <2>3. <<n - 1, n>> \in Less
    BY <1>8, n \in Nat
  <2> QED
    BY <2>2, <2>3, <1>5
<1>10. PICK b \in Nat : \A x \in T \ {y} : x <= b
  BY <1>9
<1>11. y \in Nat
  BY <1>7, <1>6
<1>12. CASE b <= y
  <2>1. \A x \in T : x <= y
    BY <1>12, <1>10, <1>11, <1>6
  <2> QED
    BY <2>1, <1>11, <1>6
<1>13. CASE ~(b <= y)
  <2>1. \A x \in T : x <= b
    BY <1>13, <1>10, <1>11, <1>6
  <2> QED
    BY <2>1, <1>10, <1>6
<1> QED
  BY <1>12, <1>13

\* kNumDisplays is above every id.
LEMMA IdsBelow ==
  /\ kNumDisplays \in Nat /\ kNumDisplays # HWC_DISPLAY_PRIMARY
  /\ \A d \in Displays : d \in Nat /\ d < kNumDisplays
<1>1. PICK b \in Nat : \A d \in Displays : d <= b
  BY FiniteIsBounded, IdsAssumption
<1> DEFINE Gaps == {b - d : d \in Displays}
<1>2. Gaps \in SUBSET Nat /\ Gaps # {}
  BY <1>1, IdsAssumption DEF Displays
<1> DEFINE Less == {p \in Nat \X Nat : p[1] < p[2]}
<1>3. IsWellFoundedOn(Less, Nat)
  BY NatLessThanWellFounded DEF OpToRel
<1>4. PICK g \in Gaps : \A h \in Gaps : ~(<<h, g>> \in Less)
  <2> HIDE DEF Less, Gaps
  <2> QED
    BY <1>2, <1>3, WFMin
<1>5. PICK m \in Displays : g = b - m
  BY <1>4
<1>6. ASSUME NEW d \in Displays PROVE m >= d
  <2>1. b - d \in Nat /\ b - m \in Nat /\ d \in Nat /\ m \in Nat
    BY <1>1, <1>5, IdsAssumption
  <2>2. ~(<<b - d, b - m>> \in Less)
    BY <1>4, <1>5
  <2> QED
    BY <2>1, <2>2
<1>7. Max(Displays) \in Displays /\ \A d \in Displays : Max(Displays) >= d
  BY <1>5, <1>6 DEF Max
<1>8. Displays \subseteq Nat /\ Max(Displays) \in Nat
  BY <1>7, IdsAssumption
<1> HIDE DEF Gaps, Less
<1>9. kNumDisplays = Max(Displays) + 1 /\ HWC_DISPLAY_PRIMARY = 0
  BY DEF kNumDisplays, HWC_DISPLAY_PRIMARY
<1> QED
  BY <1>7, <1>8, <1>9

\* The active display is a built-in one, or there is none.
LEMMA ActiveIsBuiltin ==
  /\ GetActiveBuiltinDisplay \in Builtins \cup {kNumDisplays}
  /\ GetActiveBuiltinDisplay \in Displays => GetActiveBuiltinDisplay \in Builtins
<1> DEFINE on == {b \in Builtins : dpy[b].mode # "Off"}
<1>1. on \in SUBSET Nat
  BY IdsAssumption DEF Displays
<1>2. on # {} => Min(on) \in on
  BY <1>1, MinIsIn
<1>3. kNumDisplays \notin Displays
  BY IdsBelow
<1> QED
  BY <1>2, <1>3 DEF GetActiveBuiltinDisplay

\* The state of a command thread without a command.
LEMMA IdleTyped == IdleCommand \in Command /\ IdleCommand.at = "idle" /\ ~IdleCommand.fence
BY IdsAssumption, IdsBelow DEF Command, IdleCommand, Displays

\* A fault is counted.
LEMMA FaultTyped == ASSUME used \in Used, CanFail, OneFault PROVE used' \in Used
BY SsBoundsAssumption DEF Used, CanFail, OneFault

-----------------------------------------------------------------------------
\* The steps of the command thread that only take it further.
LEMMA CmdKeeps ==
  ASSUME SsInv, UNCHANGED <<dpy, layers, driver, power, plug, connected, crashed>>,
         used' \in Used,
         secure_session_active_' \in BOOLEAN, virtual' \in BOOLEAN, cmd' \in Command,
         cmd'.at \in {"session", "virtual", "displays", "draw"} => ~cmd'.fence,
         cmd'.at # "check",
         cmd'.at \in {"lock", "restore"} =>
           cmd'.active \in Builtins /\ (driver <=> layers[cmd'.active] # {})
  PROVE  SsInv'
<1>1. SsTypeOK'
  BY DEF SsInv, SsTypeOK
<1>2. DriverKnows'
  BY DEF DriverKnows
<1> QED BY <1>1, <1>2 DEF SsInv

\* A fence that came back is that of the active display.
LEMMA CommandKeeps ==
  ASSUME SsInv, LookForSession \/ DestroyVirtualDisplay \/ CheckPending \/ LockHandler \/ Restored
  PROVE  SsInv'
<1> USE DEF SsInv, DriverKnows
<1>types. /\ cmd \in Command /\ secure_session_active_ \in BOOLEAN /\ virtual \in BOOLEAN
          /\ used \in Used
  BY DEF SsTypeOK
<1>1. CASE LookForSession
  <2> DEFINE a == GetActiveBuiltinDisplay
             sessions == IF a = kNumDisplays THEN {} ELSE layers[a]
             at == IF a # kNumDisplays /\ (sessions # {} \/ secure_session_active_)
                   THEN "virtual" ELSE "draw"
  <2>1. sessions \in SUBSET Kinds
    BY ActiveIsBuiltin DEF SsTypeOK
  <2>2. at \in {"virtual", "draw"} /\ cmd' = [cmd EXCEPT !.at = at, !.sessions = sessions]
        /\ cmd.at = "session"
    BY <1>1 DEF LookForSession
  <2> HIDE DEF a, sessions, at
  <2>3. cmd' \in Command /\ cmd'.at = at /\ cmd'.fence = cmd.fence
    BY <2>1, <2>2, <1>types DEF Command
  <2> QED
    BY <1>1, <1>types, <2>2, <2>3, CmdKeeps DEF LookForSession
<1>2. CASE DestroyVirtualDisplay
  <2>1. cmd' \in Command /\ cmd'.at = "displays" /\ cmd'.fence = cmd.fence /\ cmd.at = "virtual"
    BY <1>2, <1>types DEF DestroyVirtualDisplay, Command
  <2> QED
    BY <1>2, <1>types, <2>1, CmdKeeps DEF DestroyVirtualDisplay
<1>3. CASE CheckPending
  <2> DEFINE a == GetActiveBuiltinDisplay
  <2>1. secure_session_active_' \in BOOLEAN
    BY <1>3, <1>types DEF CheckPending
  <2>2. CASE cmd' = IdleCommand
    BY <1>3, <1>types, IdleTyped, <2>1, <2>2, CmdKeeps DEF CheckPending
  <2>3. CASE cmd' # IdleCommand
    <3>1. cmd' = [cmd EXCEPT !.at = "lock", !.active = a] /\ cmd.display = a /\ cmd.fence
          /\ cmd.at = "check"
      BY <1>3, <2>3 DEF CheckPending
    <3>2. a \in Builtins /\ a \in Displays
      BY <3>1, <1>types, ActiveIsBuiltin DEF Command
    <3>3. driver <=> layers[a] # {}
      BY <3>1, <3>2
    <3> HIDE DEF a
    <3>4. cmd' \in Command /\ cmd'.at = "lock" /\ cmd'.active = a
      BY <3>1, <3>2, <1>types DEF Command
    <3> QED
      BY <1>3, <1>types, <2>1, <3>2, <3>3, <3>4, CmdKeeps DEF CheckPending
  <2> QED
    BY <2>2, <2>3
<1>4. CASE LockHandler
  <2>1. HWC_DISPLAY_PRIMARY + 1 \in 0..kNumDisplays
    BY IdsBelow, IdsAssumption DEF HWC_DISPLAY_PRIMARY
  <2>2. connected \in SUBSET Pluggables
    BY DEF SsTypeOK
  <2>3. \/ /\ cmd' = [cmd EXCEPT !.at = "restore", !.next = HWC_DISPLAY_PRIMARY + 1,
                                 !.snap = connected]
           /\ used' = used
        \/ cmd' = IdleCommand /\ CanFail /\ OneFault
    BY <1>4 DEF LockHandler
  <2>4. used' \in Used /\ cmd.at = "lock"
    BY <1>4, <1>types, <2>3, FaultTyped DEF LockHandler
  <2>5. \/ cmd' \in Command /\ cmd'.at = "restore" /\ cmd'.active = cmd.active
        \/ cmd' \in Command /\ cmd'.at = "idle"
    BY <1>types, <2>1, <2>2, <2>3, IdleTyped DEF Command
  <2> QED
    BY <1>4, <1>types, <2>4, <2>5, CmdKeeps DEF LockHandler
<1>5. CASE Restored
  BY <1>5, <1>types, IdleTyped, CmdKeeps DEF Restored
<1> QED BY <1>1, <1>2, <1>3, <1>4, <1>5

\* What a display becomes in a step is a display.
LEMMA DisplayTyped ==
  ASSUME NEW x \in Display
  PROVE  /\ \A m \in Modes : /\ [x EXCEPT !.mode = m] \in Display
                              /\ [x EXCEPT !.saved = m] \in Display
                              /\ [x EXCEPT !.mode = m, !.pending = FALSE,
                                           !.failed = FALSE] \in Display
         /\ \A b \in BOOLEAN : /\ [x EXCEPT !.pending = b] \in Display
                                /\ [x EXCEPT !.lost = b] \in Display
                                /\ [x EXCEPT !.failed = b] \in Display
         /\ \A S \in SUBSET Kinds : /\ [x EXCEPT !.sessions = S] \in Display
                                    /\ [x EXCEPT !.sessions = S, !.pending = FALSE] \in Display
         /\ x.mode \in Modes /\ x.saved \in Modes /\ x.exists \in BOOLEAN
  BY DEF Display, Modes

\* A display that is created is off.
LEMMA NewTyped ==
  ASSUME NEW b \in BOOLEAN
  PROVE  /\ [NoDisplay EXCEPT !.exists = b] \in Display
         /\ [NoDisplay EXCEPT !.exists = b].mode = "Off"
BY DEF NoDisplay, Display, Modes

\* A display that is turned off for a session, or whose mode is to be restored after it,
\* stays there; one that was off stays off, and has nothing to restore if it had nothing.
LEMMA TurnOffDoes ==
  ASSUME NEW x \in Display, NEW S \in SUBSET Kinds, NEW fails \in BOOLEAN
  PROVE  LET y == TurnOff(x, S, fails) IN
         /\ y \in Display /\ y.exists = x.exists /\ y.lost = x.lost
         /\ x.mode = "Off" => y.mode = "Off"
         /\ x.mode = "Off" /\ x.saved = "Off" /\ ~x.pending => y.saved = "Off" /\ ~y.pending
<1> DEFINE Switch(k, y) ==
             IF k \in y.sessions <=> k \in S THEN y
             ELSE IF k \in S
             THEN [y EXCEPT !.saved = y.mode, !.mode = IF fails THEN y.mode ELSE "Off"]
             ELSE [y EXCEPT !.pending = y.saved # "Off", !.failed = FALSE]
           Like(y, z) ==
             /\ z \in Display /\ z.exists = y.exists /\ z.lost = y.lost
             /\ y.mode = "Off" => z.mode = "Off"
             /\ y.mode = "Off" /\ y.saved = "Off" /\ ~y.pending => z.saved = "Off" /\ ~z.pending
           first == Switch("SecureDisplay", x)
           second == Switch("SecureCamera", first)
<1>1. ASSUME NEW k, NEW y \in Display PROVE Like(y, Switch(k, y))
  <2>1. CASE k \in y.sessions <=> k \in S
    BY <2>1
  <2>2. CASE k \notin y.sessions /\ k \in S
    <3>1. Switch(k, y) = [y EXCEPT !.saved = y.mode, !.mode = IF fails THEN y.mode ELSE "Off"]
      BY <2>2
    <3> HIDE DEF Switch
    <3>2. CASE fails
      <4>1. Switch(k, y) = [y EXCEPT !.saved = y.mode, !.mode = y.mode]
        BY <3>1, <3>2
      <4> QED
        BY <4>1 DEF Display, Modes
    <3>3. CASE ~fails
      <4>1. Switch(k, y) = [y EXCEPT !.saved = y.mode, !.mode = "Off"]
        BY <3>1, <3>3
      <4> QED
        BY <4>1 DEF Display, Modes
    <3> QED
      BY <3>2, <3>3
  <2>3. CASE k \in y.sessions /\ k \notin S
    <3>1. Switch(k, y) = [y EXCEPT !.pending = y.saved # "Off", !.failed = FALSE]
      BY <2>3
    <3> QED
      BY <3>1 DEF Display, Modes
  <2> QED
    BY <2>1, <2>2, <2>3
<1>2. TurnOff(x, S, fails) = [second EXCEPT !.sessions = S]
  BY DEF TurnOff
<1> HIDE DEF Switch
<1>3. Like(x, first) /\ Like(first, second)
  BY <1>1
<1> HIDE DEF first, second
<1>4. Like(second, [second EXCEPT !.sessions = S])
  <2>1. second \in Display
    BY <1>3
  <2> QED
    BY <2>1 DEF Display
<1> QED
  BY <1>2, <1>3, <1>4

\* The loop of HandleSecureSession changes the display it has come to.
LEMMA LoopKeeps == ASSUME SsInv, HandleSecureSession PROVE SsInv'
<1>1. /\ cmd \in Command /\ cmd.at = "displays" /\ ~cmd.fence /\ dpy \in [Displays -> Display]
      /\ cmd.next \in 0..kNumDisplays /\ cmd.sessions \in SUBSET Kinds /\ used \in Used
  BY DEF HandleSecureSession, SsInv, SsTypeOK, DriverKnows, Command
<1>2. cmd' \in Command /\ cmd'.at \in {"displays", "draw"} /\ ~cmd'.fence
  <2>1. CASE cmd.next = kNumDisplays
    BY <1>1, <2>1 DEF HandleSecureSession, Command
  <2>2. CASE cmd.next # kNumDisplays
    <3>1. cmd.next + 1 \in 0..kNumDisplays
      BY <1>1, <2>2, IdsBelow
    <3>2. \/ cmd' = [cmd EXCEPT !.next = @ + 1]
          \/ \E b \in BOOLEAN : cmd' = [cmd EXCEPT !.next = @ + 1, !.found = b]
      <4>1. cmd.found \in BOOLEAN
        BY <1>1 DEF Command
      <4> QED
        BY <2>2, <4>1 DEF HandleSecureSession
    <3>3. CASE cmd' = [cmd EXCEPT !.next = @ + 1]
      BY <1>1, <3>1, <3>3 DEF Command
    <3>4. ASSUME NEW b \in BOOLEAN, cmd' = [cmd EXCEPT !.next = @ + 1, !.found = b]
          PROVE  cmd' \in Command /\ cmd'.at \in {"displays", "draw"} /\ ~cmd'.fence
      BY <1>1, <3>1, <3>4 DEF Command
    <3> QED
      BY <3>2, <3>3, <3>4
  <2> QED
    BY <2>1, <2>2
<1>3. dpy' \in [Displays -> Display]
  <2>1. CASE UNCHANGED dpy
    BY <1>1, <2>1
  <2>2. CASE dpy' # dpy
    <3>1. PICK new \in {[dpy[cmd.next] EXCEPT !.sessions = cmd.sessions, !.pending = FALSE],
                        TurnOff(dpy[cmd.next], cmd.sessions, TRUE),
                        TurnOff(dpy[cmd.next], cmd.sessions, FALSE)} :
            cmd.next \in Displays /\ dpy' = [dpy EXCEPT ![cmd.next] = new]
      BY <2>2 DEF HandleSecureSession
    <3>2. dpy[cmd.next] \in Display
      BY <1>1, <3>1
    <3>3. /\ [dpy[cmd.next] EXCEPT !.sessions = cmd.sessions, !.pending = FALSE] \in Display
          /\ TurnOff(dpy[cmd.next], cmd.sessions, TRUE) \in Display
          /\ TurnOff(dpy[cmd.next], cmd.sessions, FALSE) \in Display
      BY <1>1, <3>2, DisplayTyped, TurnOffDoes
    <3>4. new \in Display
      BY <3>1, <3>3
    <3> QED
      BY <1>1, <3>1, <3>4
  <2> QED
    BY <2>1, <2>2
<1>4. UNCHANGED <<layers, secure_session_active_, driver, power, plug, connected, virtual,
                  crashed>>
  BY DEF HandleSecureSession
<1>5. used' \in Used
  <2>1. used' = used \/ (CanFail /\ OneFault)
    BY DEF HandleSecureSession
  <2> QED
    BY <1>1, <2>1, FaultTyped
<1>6. SsTypeOK'
  BY <1>2, <1>3, <1>4, <1>5 DEF SsInv, SsTypeOK
<1> QED
  BY <1>2, <1>6 DEF SsInv, DriverKnows

\* A frame that is drawn with a fence has told the driver what its layers are.
LEMMA DrawKeeps == ASSUME SsInv, Draw PROVE SsInv'
<1> DEFINE d == cmd.display
           drawn == dpy[d].exists /\ ~dpy[d].pending /\ dpy[d].mode = "On"
<1>1. cmd \in Command /\ cmd.at = "draw" /\ ~cmd.fence /\ drawn \in BOOLEAN
  BY DEF Draw, SsInv, SsTypeOK, DriverKnows
<1>2. UNCHANGED <<dpy, layers, secure_session_active_, power, plug, connected, virtual, crashed>>
  BY DEF Draw
<1>3. \/ /\ cmd' = [cmd EXCEPT !.at = "check", !.fence = drawn]
         /\ driver' = IF drawn /\ d \in Builtins THEN layers[d] # {} ELSE driver
         /\ used' = used
      \/ /\ cmd' = [cmd EXCEPT !.at = "check"]
         /\ driver' = driver
         /\ CanFail /\ OneFault
  BY DEF Draw
<1>4. driver' \in BOOLEAN
  BY <1>3 DEF SsInv, SsTypeOK
<1>5. used' \in Used
  <2>1. used \in Used
    BY DEF SsInv, SsTypeOK
  <2> QED
    BY <1>3, <2>1, FaultTyped
<1>6. /\ cmd' \in Command /\ cmd'.at = "check" /\ cmd'.display = d
      /\ cmd'.fence /\ d \in Builtins => (driver' <=> layers[d] # {})
  <2> HIDE DEF drawn, d
  <2>1. CASE cmd' = [cmd EXCEPT !.at = "check", !.fence = drawn]
             /\ driver' = IF drawn /\ d \in Builtins THEN layers[d] # {} ELSE driver
    <3>1. /\ cmd' \in Command /\ cmd'.at = "check"
          /\ cmd'.display = cmd.display /\ cmd'.fence = drawn
      BY <1>1, <2>1 DEF Command
    <3> QED
      BY <3>1, <2>1 DEF d
  <2>2. CASE cmd' = [cmd EXCEPT !.at = "check"]
    BY <1>1, <2>2 DEF Command, d
  <2> QED
    BY <1>3, <2>1, <2>2
<1>7. SsTypeOK'
  BY <1>2, <1>4, <1>5, <1>6 DEF SsInv, SsTypeOK
<1> QED
  BY <1>2, <1>6, <1>7 DEF SsInv, DriverKnows

\* The mode of one display is restored.
LEMMA RestoreKeeps == ASSUME SsInv, Restore PROVE SsInv'
<1>1. /\ cmd \in Command /\ cmd.at = "restore" /\ dpy \in [Displays -> Display]
      /\ cmd.active \in Builtins /\ (driver <=> layers[cmd.active] # {})
  BY DEF Restore, SsInv, SsTypeOK, DriverKnows
<1>2. UNCHANGED <<layers, secure_session_active_, driver, power, plug, connected, virtual>>
  BY DEF Restore
<1>3. crashed' \in BOOLEAN /\ used' \in Used
  <2>1. used' = used \/ (CanFail /\ OneFault)
    BY DEF Restore
  <2> QED
    BY <2>1, FaultTyped DEF Restore, SsInv, SsTypeOK
<1>4. \/ cmd' = IdleCommand
      \/ cmd' \in Command /\ cmd'.at = "restore" /\ cmd'.active = cmd.active
  <2>1. cmd.next + 1 \in 0..kNumDisplays
    BY <1>1, IdsBelow DEF Restore, Command
  <2>2. cmd' = IdleCommand \/ cmd' = [cmd EXCEPT !.next = @ + 1]
    BY DEF Restore
  <2> QED
    BY <1>1, <2>1, <2>2 DEF Command
<1>5. cmd' \in Command /\ (cmd' = IdleCommand => cmd'.at = "idle")
  BY <1>4, IdleTyped
<1>6. dpy' \in [Displays -> Display]
  <2>1. CASE UNCHANGED dpy
    BY <1>1, <2>1
  <2>2. CASE dpy' # dpy
    <3> DEFINE e == cmd.next
    <3>1. /\ e \in Displays
          /\ \/ dpy' = [dpy EXCEPT ![e].mode = dpy[e].saved, ![e].pending = FALSE,
                                   ![e].failed = FALSE]
             \/ dpy' = [dpy EXCEPT ![e].failed = TRUE]
      BY <2>2 DEF Restore, Skipped
    <3>2. PICK new \in {[dpy[e] EXCEPT !.mode = dpy[e].saved, !.pending = FALSE,
                                      !.failed = FALSE],
                        [dpy[e] EXCEPT !.failed = TRUE]} :
            dpy' = [dpy EXCEPT ![e] = new]
      BY <1>1, <3>1
    <3>3. new \in Display
      <4>1. dpy[e] \in Display
        BY <1>1, <3>1
      <4>2. /\ dpy[e].saved \in Modes /\ [dpy[e] EXCEPT !.failed = TRUE] \in Display
            /\ \A m \in Modes : [dpy[e] EXCEPT !.mode = m, !.pending = FALSE,
                                             !.failed = FALSE] \in Display
        BY <4>1, DisplayTyped
      <4> HIDE DEF e
      <4> QED
        BY <3>2, <4>2
    <3> HIDE DEF e
    <3> QED
      BY <1>1, <3>1, <3>2, <3>3
  <2> QED
    BY <2>1, <2>2
<1>7. SsTypeOK'
  BY <1>2, <1>3, <1>5, <1>6 DEF SsInv, SsTypeOK
<1>8. DriverKnows'
  BY <1>1, <1>2, <1>4, <1>5 DEF DriverKnows
<1> QED
  BY <1>7, <1>8 DEF SsInv

\* The other threads leave the command and the driver alone; the client may begin a command.
LEMMA OthersKeep ==
  ASSUME SsInv, UNCHANGED driver,
         \/ UNCHANGED <<layers, cmd>>
         \/ cmd'.at = "session" /\ ~cmd'.fence,
         SsTypeOK'
  PROVE  SsInv'
<1>1. CASE UNCHANGED <<layers, cmd>>
  BY <1>1 DEF SsInv, DriverKnows
<1>2. CASE cmd'.at = "session" /\ ~cmd'.fence
  BY <1>2 DEF SsInv, DriverKnows
<1> QED BY <1>1, <1>2

\* The client draws a frame.
LEMMA PresentKeeps == ASSUME SsInv, NEW d \in Displays, Present(d) PROVE SsInv'
<1>1. cmd' = [IdleCommand EXCEPT !.at = "session", !.display = d]
  BY DEF Present
<1>2. cmd' \in Command /\ cmd'.at = "session" /\ ~cmd'.fence
  BY <1>1, IdleTyped DEF Command
<1>3. layers' \in [Builtins -> SUBSET Kinds]
  <2>1. layers \in [Builtins -> SUBSET Kinds]
    BY DEF SsInv, SsTypeOK
  <2> QED
    BY <2>1 DEF Present
<1>4. used' \in Used
  <2>1. used \in Used
    BY DEF SsInv, SsTypeOK
  <2>2. used' = used \/ (used.switches < MaxSwitches /\ used' = [used EXCEPT !.switches = @ + 1])
    BY DEF Present
  <2>3. MaxSwitches \in Nat
    BY SsBoundsAssumption
  <2> QED
    BY <2>1, <2>2, <2>3 DEF Used
<1>5. UNCHANGED <<dpy, secure_session_active_, driver, power, plug, connected, virtual, crashed>>
  BY DEF Present
<1>6. SsTypeOK'
  BY <1>2, <1>3, <1>4, <1>5 DEF SsInv, SsTypeOK
<1> QED
  BY <1>2, <1>5, <1>6, OthersKeep

\* A step of a power call changes the saved mode of a built-in display, or the mode of the
\* display it is for, or nothing but its own place.
LEMMA PowerDoes ==
  ASSUME SsInv, SetPowerMode
  PROVE  /\ UNCHANGED <<layers, secure_session_active_, driver, cmd, plug, connected, virtual,
                        crashed>>
         /\ power' \in Power /\ used' \in Used
         /\ power.display \in Displays /\ power.mode \in Modes
         /\ power'.at # "idle" => power'.display = power.display
         /\ \/ dpy' = dpy
            \/ power.at = "defer" /\ dpy' = [dpy EXCEPT ![power.display].saved = power.mode]
            \/ /\ power.at = "set" /\ power'.at = "idle"
               /\ dpy' = [dpy EXCEPT ![power.display].mode = power.mode]
<1>1. power \in Power /\ used \in Used /\ IdlePower \in Power /\ IdlePower.at = "idle"
  BY IdsAssumption DEF SsInv, SsTypeOK, IdlePower, Power, Displays, Modes
<1>2. used' \in Used
  <2>1. used' = used \/ (CanFail /\ OneFault)
    BY DEF SetPowerMode
  <2> QED
    BY <1>1, <2>1, FaultTyped
<1>3. \/ power' = IdlePower
      \/ \E at \in {"active", "defer", "check", "mode", "set"} : power' = [power EXCEPT !.at = at]
  BY DEF SetPowerMode, LookAtSession, LookForActive, SetPendingPowerMode, LookAtPending,
         LookAtMode, SetMode
<1>4. power' \in Power /\ (power'.at # "idle" => power'.display = power.display)
  <2>1. CASE power' = IdlePower
    BY <1>1, <2>1
  <2>2. ASSUME NEW at \in {"active", "defer", "check", "mode", "set"},
               power' = [power EXCEPT !.at = at]
        PROVE  power' \in Power /\ power'.display = power.display
    BY <1>1, <2>2 DEF Power
  <2> QED
    BY <1>3, <2>1, <2>2
<1>5. \/ dpy' = dpy
      \/ power.at = "defer" /\ dpy' = [dpy EXCEPT ![power.display].saved = power.mode]
      \/ /\ power.at = "set" /\ power' = IdlePower
         /\ dpy' = [dpy EXCEPT ![power.display].mode = power.mode]
  BY DEF SetPowerMode, LookAtSession, LookForActive, SetPendingPowerMode, LookAtPending,
         LookAtMode, SetMode
<1>6. power.display \in Displays /\ power.mode \in Modes
  BY <1>1 DEF Power
<1>7. UNCHANGED <<layers, secure_session_active_, driver, cmd, plug, connected, virtual, crashed>>
  BY DEF SetPowerMode
<1> QED
  BY <1>1, <1>2, <1>4, <1>5, <1>6, <1>7

\* A power call of the client is looked at, and carried out.
LEMMA PowerKeeps ==
  ASSUME SsInv,
         SetPowerMode \/ \E d \in Displays, mode \in Modes : CallSetPowerMode(d, mode)
  PROVE  SsInv'
<1>1. power \in Power /\ used \in Used /\ dpy \in [Displays -> Display]
  BY DEF SsInv, SsTypeOK
<1>2. CASE SetPowerMode
  <2> DEFINE d == power.display
  <2>1. /\ power' \in Power /\ used' \in Used
        /\ UNCHANGED <<layers, secure_session_active_, driver, cmd, plug, connected, virtual,
                       crashed>>
    BY <1>2, PowerDoes
  <2>2. d \in Displays /\ power.mode \in Modes /\ dpy[d] \in Display
    BY <1>1 DEF Power
  <2>3. dpy' \in {dpy, [dpy EXCEPT ![d].saved = power.mode], [dpy EXCEPT ![d].mode = power.mode]}
    BY <1>2, PowerDoes
  <2>4. /\ [dpy[d] EXCEPT !.saved = power.mode] \in Display
        /\ [dpy[d] EXCEPT !.mode = power.mode] \in Display
    BY <2>2, DisplayTyped
  <2>5. dpy' \in [Displays -> Display]
    <3>1. CASE dpy' = dpy
      BY <1>1, <3>1
    <3>2. CASE dpy' = [dpy EXCEPT ![d].saved = power.mode]
      <4>1. dpy' = [dpy EXCEPT ![d] = [dpy[d] EXCEPT !.saved = power.mode]]
        BY <3>2
      <4> QED
        BY <1>1, <2>2, <2>4, <4>1
    <3>3. CASE dpy' = [dpy EXCEPT ![d].mode = power.mode]
      <4>1. dpy' = [dpy EXCEPT ![d] = [dpy[d] EXCEPT !.mode = power.mode]]
        BY <3>3
      <4> QED
        BY <1>1, <2>2, <2>4, <4>1
    <3> QED
      BY <2>3, <3>1, <3>2, <3>3
  <2>6. SsTypeOK'
    BY <2>1, <2>5 DEF SsInv, SsTypeOK
  <2> QED
    BY <2>1, <2>6, OthersKeep
<1>3. ASSUME NEW d \in Displays, NEW mode \in Modes, CallSetPowerMode(d, mode) PROVE SsInv'
  <2>1. power' \in Power
    <3>1. \E at \in {"session", "check"} : power' = [display |-> d, mode |-> mode, at |-> at]
      BY <1>3 DEF CallSetPowerMode
    <3> QED
      BY <3>1 DEF Power
  <2>2. used' \in Used
    <3>1. /\ used.calls < MaxPowerCalls /\ used' = [used EXCEPT !.calls = @ + 1]
          /\ MaxPowerCalls \in Nat
      BY <1>3, SsBoundsAssumption DEF CallSetPowerMode
    <3> QED
      BY <1>1, <3>1 DEF Used
  <2>3. UNCHANGED <<dpy, layers, secure_session_active_, driver, cmd, plug, connected, virtual,
                    crashed>>
    BY <1>3 DEF CallSetPowerMode
  <2>4. SsTypeOK'
    BY <2>1, <2>2, <2>3 DEF SsInv, SsTypeOK
  <2> QED
    BY <2>3, <2>4, OthersKeep
<1> QED BY <1>2, <1>3

\* Displays come and go.
LEMMA PlugKeeps ==
  ASSUME SsInv, CreateVirtualDisplay \/ Hotplug \/ AskForSession \/ SyncDisplays
  PROVE  SsInv'
<1>1. /\ used \in Used /\ dpy \in [Displays -> Display] /\ connected \subseteq Pluggables
      /\ Pluggables \subseteq Displays
  BY DEF SsInv, SsTypeOK, Displays
<1>2. CASE CreateVirtualDisplay
  <2>1. SsTypeOK'
    BY <1>2 DEF CreateVirtualDisplay, SsInv, SsTypeOK
  <2> QED
    BY <1>2, <2>1, OthersKeep DEF CreateVirtualDisplay
<1>3. CASE AskForSession
  <2>1. plug' \in Plug
    BY <1>3 DEF AskForSession, Plug
  <2>2. SsTypeOK'
    BY <1>3, <2>1 DEF AskForSession, SsInv, SsTypeOK
  <2> QED
    BY <1>3, <2>2, OthersKeep DEF AskForSession
<1>4. CASE Hotplug
  <2>1. plug' \in Plug
    BY <1>4 DEF Hotplug, Plug
  <2>2. used' \in Used
    <3>1. used.plugs < MaxPlugs /\ used' = [used EXCEPT !.plugs = @ + 1] /\ MaxPlugs \in Nat
      BY <1>4, SsBoundsAssumption DEF Hotplug
    <3> QED
      BY <1>1, <3>1 DEF Used
  <2>3. PICK d \in Pluggables :
          IF d \in connected
          THEN connected' = connected \ {d} /\ dpy' = [dpy EXCEPT ![d].lost = dpy[d].exists]
          ELSE connected' = connected \cup {d} /\ UNCHANGED dpy
    BY <1>4 DEF Hotplug
  <2>4. connected' \subseteq Pluggables
    BY <1>1, <2>3
  <2>5. dpy' \in [Displays -> Display]
    <3>1. CASE dpy' = [dpy EXCEPT ![d].lost = dpy[d].exists]
      <4>1. dpy[d] \in Display /\ dpy[d].exists \in BOOLEAN
        BY <1>1, DisplayTyped
      <4>2. [dpy[d] EXCEPT !.lost = dpy[d].exists] \in Display
        BY <4>1, DisplayTyped
      <4>3. dpy' = [dpy EXCEPT ![d] = [dpy[d] EXCEPT !.lost = dpy[d].exists]]
        BY <3>1
      <4> QED
        BY <1>1, <4>2, <4>3
    <3>2. CASE UNCHANGED dpy
      BY <1>1, <3>2
    <3> QED
      BY <2>3, <3>1, <3>2
  <2>6. SsTypeOK'
    BY <1>4, <2>1, <2>2, <2>4, <2>5 DEF Hotplug, SsInv, SsTypeOK
  <2> QED
    BY <1>4, <2>6, OthersKeep DEF Hotplug
<1>5. CASE SyncDisplays
  <2>1. plug' \in Plug
    BY <1>5 DEF SyncDisplays, Plug
  <2> DEFINE New(d) == [NoDisplay EXCEPT !.exists = d \in connected]
  <2>2. \A d \in Displays : New(d) \in Display
    <3> TAKE d \in Displays
    <3> QED
      BY NewTyped, (d \in connected) \in BOOLEAN
  <2>3. dpy' = [d \in Displays |->
                  IF d \in Pluggables /\ dpy[d].exists # (d \in connected)
                  THEN New(d) ELSE dpy[d]]
    BY <1>5 DEF SyncDisplays
  <2>4. dpy' \in [Displays -> Display]
    <3> HIDE DEF New
    <3> QED
      BY <1>1, <2>2, <2>3
  <2>5. SsTypeOK'
    BY <1>5, <2>1, <2>4 DEF SyncDisplays, SsInv, SsTypeOK
  <2> QED
    BY <1>5, <2>5, OthersKeep DEF SyncDisplays
<1> QED BY <1>2, <1>3, <1>4, <1>5

\* At the start the built-in displays are there and off.
LEMMA SsInitEstablishes == SsInit => SsInv
<1> SUFFICES ASSUME SsInit PROVE SsInv
  OBVIOUS
<1> USE DEF SsInit
<1>1. dpy \in [Displays -> Display]
  <2>1. \A d \in Displays : [NoDisplay EXCEPT !.exists = d \in Builtins] \in Display
    <3> TAKE d \in Displays
    <3> QED
      BY NewTyped, (d \in Builtins) \in BOOLEAN
  <2> QED
    BY <2>1
<1>2. cmd \in Command /\ cmd.at = "idle"
  BY IdleTyped
<1>3. power \in Power /\ plug \in Plug
  BY IdsAssumption DEF Power, Plug, Modes, Displays, IdlePower
<1>4. used \in Used
  BY SsBoundsAssumption DEF Used
<1>5. SsTypeOK
  BY <1>1, <1>2, <1>3, <1>4 DEF SsTypeOK
<1> QED
  BY <1>2, <1>5 DEF SsInv, DriverKnows

LEMMA SsStepPreserves == SsInv /\ [SsNext]_ssVars => SsInv'
<1> SUFFICES ASSUME SsInv, [SsNext]_ssVars PROVE SsInv'
  OBVIOUS
<1>1. CASE UNCHANGED ssVars
  BY <1>1 DEF ssVars, SsInv, SsTypeOK, DriverKnows
<1>2. CASE Command_
  BY <1>2, CommandKeeps, LoopKeeps, DrawKeeps, RestoreKeeps DEF Command_
<1>3. CASE Client_ \/ SetPowerMode
  BY <1>3, PresentKeeps, PowerKeeps, PlugKeeps DEF Client_
<1>4. CASE Hotplug \/ AskForSession \/ SyncDisplays
  BY <1>4, PlugKeeps
<1> QED BY <1>1, <1>2, <1>3, <1>4 DEF SsNext

LEMMA SsInvariance == SsSpec => []SsInv
BY SsInitEstablishes, SsStepPreserves, PTL DEF SsSpec

-----------------------------------------------------------------------------
\* Every variable of SecureSession has its type.
THEOREM SessionTypes == SsSpec => []SsTypeOK
<1>1. SsInv => SsTypeOK
  BY DEF SsInv
<1> QED BY <1>1, SsInvariance, PTL

\* A pluggable display that was turned off for a session comes back in the loop of
\* HandlePendingPowerMode, when the driver knows that the session is over, or by a power
\* call that had looked for a pending mode before the session ended.
THEOREM ComesBackTheorem == SsSpec => ComesBackAfterSession
<1>1. ASSUME SsInv, [SsNext]_ssVars, NEW d \in Pluggables,
             dpy[d].pending, dpy[d].mode = "Off", dpy'[d].mode = "On"
      PROVE  \/ cmd.at = "restore" /\ cmd' # cmd
             \/ power.at = "set" /\ power.display = d /\ power' # power
  <2>1. d \in Displays /\ dpy \in [Displays -> Display] /\ dpy' # dpy
    BY <1>1 DEF Displays, SsInv, SsTypeOK
  <2>2. ~HandleSecureSession
    <3>1. SUFFICES ASSUME HandleSecureSession PROVE FALSE
      OBVIOUS
    <3>2. ASSUME NEW fails \in BOOLEAN PROVE TurnOff(dpy[d], cmd.sessions, fails).mode = "Off"
      <4>1. dpy[d] \in Display /\ cmd.sessions \in SUBSET Kinds
        BY <1>1, <2>1 DEF SsInv, SsTypeOK, Command
      <4> QED
        BY <1>1, <4>1, TurnOffDoes
    <3>3. \/ dpy' = [dpy EXCEPT ![cmd.next] =
                        [@ EXCEPT !.sessions = cmd.sessions, !.pending = FALSE]]
          \/ \E fails \in BOOLEAN :
               dpy' = [dpy EXCEPT ![cmd.next] = TurnOff(@, cmd.sessions, fails)]
      BY <2>1, <3>1 DEF HandleSecureSession
    <3>4. ASSUME NEW fails \in BOOLEAN,
                 dpy' = [dpy EXCEPT ![cmd.next] = TurnOff(@, cmd.sessions, fails)]
          PROVE  FALSE
      BY <1>1, <2>1, <3>2, <3>4
    <3>5. CASE dpy' = [dpy EXCEPT ![cmd.next] =
                         [@ EXCEPT !.sessions = cmd.sessions, !.pending = FALSE]]
      <4>1. [dpy[d] EXCEPT !.sessions = cmd.sessions, !.pending = FALSE].mode = "Off"
        BY <1>1, <2>1 DEF Display
      <4> QED
        BY <1>1, <2>1, <3>5, <4>1
    <3> QED
      BY <3>3, <3>4, <3>5
  <2>3. SetPowerMode => power.at = "set" /\ power.display = d /\ power' # power
    <3>1. SUFFICES ASSUME SetPowerMode
                   PROVE  power.at = "set" /\ power.display = d /\ power' # power
      OBVIOUS
    <3>2. \/ dpy' = [dpy EXCEPT ![power.display].saved = power.mode]
          \/ /\ power.at = "set" /\ power'.at = "idle"
             /\ dpy' = [dpy EXCEPT ![power.display].mode = power.mode]
      BY <1>1, <2>1, <3>1, PowerDoes
    <3>3. CASE dpy' = [dpy EXCEPT ![power.display].saved = power.mode]
      <4>1. [dpy[d] EXCEPT !.saved = power.mode].mode = "Off"
        BY <1>1, <2>1 DEF Display
      <4> QED
        BY <1>1, <2>1, <3>3, <4>1
    <3>4. CASE /\ power.at = "set" /\ power'.at = "idle"
               /\ dpy' = [dpy EXCEPT ![power.display].mode = power.mode]
      BY <1>1, <2>1, <3>4
    <3> QED
      BY <3>2, <3>3, <3>4
  <2>4. ~Hotplug
    <3>1. SUFFICES ASSUME Hotplug PROVE FALSE
      OBVIOUS
    <3>2. PICK e \in Pluggables : dpy' = [dpy EXCEPT ![e].lost = dpy[e].exists]
      BY <2>1, <3>1 DEF Hotplug
    <3>3. [dpy[d] EXCEPT !.lost = dpy[e].exists].mode = "Off"
      BY <1>1, <2>1 DEF Display
    <3> QED
      BY <1>1, <2>1, <3>2, <3>3
  <2>5. ~SyncDisplays
    <3>1. SUFFICES ASSUME SyncDisplays PROVE FALSE
      OBVIOUS
    <3>2. dpy'[d] \in {[NoDisplay EXCEPT !.exists = d \in connected], dpy[d]}
      BY <2>1, <3>1 DEF SyncDisplays
    <3>3. [NoDisplay EXCEPT !.exists = d \in connected].mode = "Off"
      BY DEF NoDisplay
    <3> QED
      BY <1>1, <3>2, <3>3
  <2>6. Restore \/ SetPowerMode
    BY <1>1, <2>1, <2>2, <2>4, <2>5
       DEF SsNext, ssVars, Command_, Client_, LookForSession, DestroyVirtualDisplay, Draw,
           CheckPending, LockHandler, Restored, Present, CallSetPowerMode, CreateVirtualDisplay,
           AskForSession
  <2>7. Restore => cmd.at = "restore" /\ cmd' # cmd
    <3>1. SUFFICES ASSUME Restore PROVE cmd.at = "restore" /\ cmd' # cmd
      OBVIOUS
    <3>2. cmd.at = "restore" /\ cmd \in Command
      BY <1>1, <3>1 DEF Restore, SsInv, SsTypeOK
    <3>3. cmd' = IdleCommand \/ cmd' = [cmd EXCEPT !.next = @ + 1]
      BY <3>1 DEF Restore
    <3>4. cmd.next \in Nat /\ cmd.next + 1 # cmd.next /\ IdleCommand.at = "idle"
      BY <3>2, IdsBelow, IdleTyped DEF Command
    <3> QED
      BY <3>2, <3>3, <3>4 DEF Command
  <2> QED
    BY <2>3, <2>6, <2>7
<1>2. ASSUME SsInv, [SsNext]_ssVars
      PROVE  \A d \in Pluggables :
               dpy[d].pending /\ dpy[d].mode = "Off" /\ dpy'[d].mode = "On"
               => \/ /\ cmd.at = "restore" /\ cmd' # cmd
                     /\ layers[cmd.active] = {} => ~driver
                  \/ power.at = "set" /\ power.display = d /\ power' # power
  BY <1>1, <1>2 DEF SsInv, DriverKnows
<1> QED BY <1>2, SsInvariance, PTL DEF SsSpec, ComesBackAfterSession

-----------------------------------------------------------------------------
\* A device with one built-in display.
OneBuiltin == Builtins = {HWC_DISPLAY_PRIMARY}

\* The primary display is never turned off for a session, so it has no mode to restore;
\* a call that asks for a session found it off, and is not put off.
PrimaryHasNoPending ==
  /\ dpy[HWC_DISPLAY_PRIMARY].saved = "Off" /\ ~dpy[HWC_DISPLAY_PRIMARY].pending
  /\ power.at # "defer"
  /\ power.at \in {"session", "active"} => dpy[HWC_DISPLAY_PRIMARY].mode = "Off"

\* The loop over the displays begins with the primary one, in a session.
LoopStarts ==
  /\ cmd.at \in {"session", "virtual"} => cmd.next = HWC_DISPLAY_PRIMARY /\ ~cmd.found
  /\ cmd.at = "displays" /\ cmd.next = HWC_DISPLAY_PRIMARY => ~cmd.found
  /\ cmd.at \in {"virtual", "displays"} => secure_session_active_

\* A mode is pending on a display that exists; one that was not unplugged is connected.
SlotsAgree ==
  \A d \in Pluggables :
    /\ dpy[d].pending => dpy[d].exists
    /\ dpy[d].exists /\ ~dpy[d].lost => d \in connected

\* No hotplug changes the displays while the modes are restored, and the loop leaves no
\* pending mode behind, but where it was tried and failed.
RestoresAll ==
  cmd.at = "restore" =>
    /\ plug.at = "idle" /\ cmd.snap = connected /\ cmd.next # HWC_DISPLAY_PRIMARY
    /\ \A d \in Pluggables : dpy[d].pending /\ ~dpy[d].lost /\ ~dpy[d].failed => cmd.next <= d

PendInv == PrimaryHasNoPending /\ LoopStarts /\ SlotsAgree /\ RestoresAll /\ PendingHasSession

\* The one built-in display is the active one while it is on.
LEMMA OneActive ==
  ASSUME OneBuiltin
  PROVE  /\ GetActiveBuiltinDisplay =
               IF dpy[HWC_DISPLAY_PRIMARY].mode = "Off" THEN kNumDisplays ELSE HWC_DISPLAY_PRIMARY
         /\ HWC_DISPLAY_PRIMARY \in Displays /\ HWC_DISPLAY_PRIMARY \notin Pluggables
         /\ Displays = Pluggables \cup {HWC_DISPLAY_PRIMARY}
         /\ \A d \in Pluggables : d \in Nat /\ d # HWC_DISPLAY_PRIMARY /\ d < kNumDisplays
<1>1. HWC_DISPLAY_PRIMARY \in Nat
  BY DEF HWC_DISPLAY_PRIMARY
<1>2. Min({HWC_DISPLAY_PRIMARY}) = HWC_DISPLAY_PRIMARY
  BY <1>1, MinIsIn
<1>3. {b \in Builtins : dpy[b].mode # "Off"} =
        IF dpy[HWC_DISPLAY_PRIMARY].mode = "Off" THEN {} ELSE {HWC_DISPLAY_PRIMARY}
  BY DEF OneBuiltin
<1>4. GetActiveBuiltinDisplay =
        IF dpy[HWC_DISPLAY_PRIMARY].mode = "Off" THEN kNumDisplays ELSE HWC_DISPLAY_PRIMARY
  BY <1>2, <1>3 DEF GetActiveBuiltinDisplay
<1>5. HWC_DISPLAY_PRIMARY \in Displays /\ Displays = Pluggables \cup {HWC_DISPLAY_PRIMARY}
  BY DEF OneBuiltin, Displays
<1>6. HWC_DISPLAY_PRIMARY \notin Pluggables
  BY IdsAssumption DEF OneBuiltin
<1> QED
  BY <1>4, <1>5, <1>6, IdsBelow

\* Steps that change no display and do not restore.
LEMMA StillPends ==
  ASSUME PendInv, UNCHANGED <<dpy, connected>>, power'.at # "defer",
         power'.at \in {"session", "active"} => dpy[HWC_DISPLAY_PRIMARY].mode = "Off",
         secure_session_active_ => secure_session_active_', LoopStarts', RestoresAll'
  PROVE  PendInv'
BY DEF PendInv, PrimaryHasNoPending, SlotsAgree, PendingHasSession

\* The session is ended by a present that finds nothing pending, or has restored all.
LEMMA EndPends ==
  ASSUME OneBuiltin, SsInv, PendInv, CheckPending \/ LockHandler \/ Restored
  PROVE  PendInv'
<1> USE DEF PendInv
<1>1. cmd \in Command /\ IdleCommand.at = "idle"
  BY IdleTyped DEF SsInv, SsTypeOK
<1>2. CASE CheckPending
  <2> DEFINE a == GetActiveBuiltinDisplay
  <2>1. UNCHANGED <<dpy, connected, power>> /\ cmd.at = "check"
    BY <1>2 DEF CheckPending
  <2>2. cmd'.at \in {"idle", "lock"}
    BY <1>1, <1>2 DEF CheckPending, Command
  <2>3. LoopStarts' /\ RestoresAll' /\ SlotsAgree' /\ PrimaryHasNoPending'
    BY <2>1, <2>2 DEF LoopStarts, RestoresAll, SlotsAgree, PrimaryHasNoPending
  <2>4. PendingHasSession'
    <3>1. CASE secure_session_active_' = secure_session_active_
      BY <2>1, <3>1 DEF PendingHasSession
    <3>2. CASE secure_session_active_' # secure_session_active_
      <4>1. PendingModes(a) = {}
        BY <1>2, <3>2 DEF CheckPending
      <4>2. a = HWC_DISPLAY_PRIMARY
        <5>1. cmd.display = a /\ a \in Displays
          BY <1>1, <1>2, <3>2 DEF CheckPending, Command
        <5> QED
          BY <5>1, OneActive, IdsBelow
      <4>3. \A d \in Displays : ~dpy[d].pending
        BY <4>1, <4>2, OneActive DEF PendingModes, PrimaryHasNoPending
      <4> QED
        BY <2>1, <4>3 DEF PendingHasSession
    <3> QED
      BY <3>1, <3>2
  <2> QED
    BY <2>3, <2>4
<1>3. CASE LockHandler
  <2>1. /\ UNCHANGED <<dpy, connected, power, secure_session_active_, plug>>
        /\ plug.at = "idle"
        /\ \/ cmd' = [cmd EXCEPT !.at = "restore", !.next = HWC_DISPLAY_PRIMARY + 1,
                                 !.snap = connected]
           \/ cmd' = IdleCommand
    BY <1>3 DEF LockHandler
  <2>2. CASE cmd' = IdleCommand
    <3>1. LoopStarts' /\ RestoresAll'
      BY <1>1, <2>2 DEF LoopStarts, RestoresAll
    <3> QED
      BY <2>1, <3>1, StillPends DEF PrimaryHasNoPending
  <2>3. CASE cmd' = [cmd EXCEPT !.at = "restore", !.next = HWC_DISPLAY_PRIMARY + 1,
                                !.snap = connected]
    <3>1. cmd'.at = "restore" /\ cmd'.next = HWC_DISPLAY_PRIMARY + 1 /\ cmd'.snap = connected
      BY <1>1, <2>3 DEF Command
    <3>2. \A d \in Pluggables : HWC_DISPLAY_PRIMARY + 1 <= d
      BY OneActive DEF HWC_DISPLAY_PRIMARY
    <3>3. HWC_DISPLAY_PRIMARY + 1 # HWC_DISPLAY_PRIMARY
      BY DEF HWC_DISPLAY_PRIMARY
    <3>4. LoopStarts' /\ RestoresAll'
      BY <2>1, <3>1, <3>2, <3>3 DEF LoopStarts, RestoresAll
    <3> QED
      BY <2>1, <3>4, StillPends DEF PrimaryHasNoPending
  <2> QED
    BY <2>1, <2>2, <2>3
<1>4. CASE Restored
  <2>1. /\ UNCHANGED <<dpy, connected, power>> /\ cmd' = IdleCommand
        /\ cmd.at = "restore" /\ cmd.next = kNumDisplays
    BY <1>4 DEF Restored
  <2>2. \A d \in Pluggables : dpy[d].pending => dpy[d].lost \/ dpy[d].failed
    BY <2>1, OneActive, IdsBelow DEF RestoresAll
  <2>3. PendingHasSession'
    BY <2>1, <2>2, OneActive DEF PendingHasSession, PrimaryHasNoPending
  <2> QED
    BY <1>1, <2>1, <2>3 DEF LoopStarts, RestoresAll, SlotsAgree, PrimaryHasNoPending
<1> QED
  BY <1>2, <1>3, <1>4

\* The other steps that change no display.
LEMMA QuietPends ==
  ASSUME OneBuiltin, SsInv, PendInv,
         \/ LookForSession \/ DestroyVirtualDisplay \/ Draw
         \/ CreateVirtualDisplay \/ AskForSession
         \/ \E d \in Displays : Present(d) \/ \E mode \in Modes : CallSetPowerMode(d, mode)
  PROVE  PendInv'
<1> USE DEF PendInv
<1>1. /\ cmd \in Command /\ secure_session_active_ \in BOOLEAN
      /\ IdleCommand \in Command /\ IdleCommand.at = "idle"
  BY IdleTyped DEF SsInv, SsTypeOK
<1>2. CASE LookForSession
  <2>1. /\ UNCHANGED <<dpy, connected, power>> /\ cmd.at = "session"
        /\ secure_session_active_ => secure_session_active_'
    BY <1>2 DEF LookForSession
  <2>2. /\ cmd'.at \in {"virtual", "draw"}
        /\ cmd'.next = cmd.next
        /\ cmd'.found = cmd.found
        /\ cmd'.at = "virtual" => secure_session_active_'
    BY <1>1, <1>2 DEF LookForSession, Command
  <2> QED
    BY <2>1, <2>2, StillPends DEF LoopStarts, RestoresAll, PrimaryHasNoPending
<1>3. CASE DestroyVirtualDisplay
  <2>1. UNCHANGED <<dpy, connected, power, secure_session_active_>> /\ cmd.at = "virtual"
    BY <1>3 DEF DestroyVirtualDisplay
  <2>2. cmd'.at = "displays" /\ cmd'.next = cmd.next /\ cmd'.found = cmd.found
    BY <1>1, <1>3 DEF DestroyVirtualDisplay, Command
  <2> QED
    BY <2>1, <2>2, StillPends DEF LoopStarts, RestoresAll, PrimaryHasNoPending
<1>4. CASE Draw
  <2>1. UNCHANGED <<dpy, connected, power, secure_session_active_>>
    BY <1>4 DEF Draw
  <2>2. cmd'.at = "check"
    BY <1>1, <1>4 DEF Draw, Command
  <2> QED
    BY <2>1, <2>2, StillPends DEF LoopStarts, RestoresAll, PrimaryHasNoPending
<1>5. CASE CreateVirtualDisplay
  <2>1. UNCHANGED <<dpy, connected, power, secure_session_active_, cmd, plug>>
    BY <1>5 DEF CreateVirtualDisplay
  <2> QED
    BY <2>1, StillPends DEF LoopStarts, RestoresAll, PrimaryHasNoPending
<1>6. CASE AskForSession
  <2>1. UNCHANGED <<dpy, connected, power, secure_session_active_, cmd>> /\ plug.at = "builtin"
    BY <1>6 DEF AskForSession
  <2> QED
    BY <2>1, StillPends DEF LoopStarts, RestoresAll, PrimaryHasNoPending
<1>7. ASSUME NEW d \in Displays, Present(d) PROVE PendInv'
  <2>1. UNCHANGED <<dpy, connected, power, secure_session_active_>>
        /\ cmd' = [IdleCommand EXCEPT !.at = "session", !.display = d]
    BY <1>7 DEF Present
  <2>2. cmd'.at = "session" /\ cmd'.next = HWC_DISPLAY_PRIMARY /\ ~cmd'.found
    BY <2>1 DEF IdleCommand, HWC_DISPLAY_PRIMARY
  <2> QED
    BY <2>1, <2>2, StillPends DEF LoopStarts, RestoresAll, PrimaryHasNoPending
<1>8. ASSUME NEW d \in Displays, NEW mode \in Modes, CallSetPowerMode(d, mode) PROVE PendInv'
  <2>1. UNCHANGED <<dpy, connected, cmd, plug, secure_session_active_>>
    BY <1>8 DEF CallSetPowerMode
  <2>2. \/ power'.at = "check"
        \/ power'.at = "session" /\ dpy[HWC_DISPLAY_PRIMARY].mode = "Off"
    BY <1>8 DEF CallSetPowerMode, OneBuiltin
  <2> QED
    BY <2>1, <2>2, StillPends DEF LoopStarts, RestoresAll
<1> QED
  BY <1>2, <1>3, <1>4, <1>5, <1>6, <1>7, <1>8

\* What the loop of HandleSecureSession marks is marked in a session, and the primary
\* display never is.
LEMMA LoopPends == ASSUME OneBuiltin, SsInv, PendInv, HandleSecureSession PROVE PendInv'
<1> USE DEF PendInv
<1>1. /\ cmd \in Command /\ cmd.at = "displays" /\ dpy \in [Displays -> Display]
      /\ cmd.next \in 0..kNumDisplays /\ cmd.sessions \in SUBSET Kinds /\ secure_session_active_
  BY DEF HandleSecureSession, SsInv, SsTypeOK, LoopStarts, Command
<1>2. UNCHANGED <<secure_session_active_, power, plug, connected>>
  BY DEF HandleSecureSession
<1>3. /\ cmd'.at \in {"displays", "draw"}
      /\ cmd'.at = "displays" => cmd'.next # HWC_DISPLAY_PRIMARY
  <2>1. CASE cmd.next = kNumDisplays
    BY <1>1, <2>1 DEF HandleSecureSession, Command
  <2>2. CASE cmd.next # kNumDisplays
    <3>1. cmd'.at = "displays" /\ cmd'.next = cmd.next + 1
      BY <1>1, <2>2 DEF HandleSecureSession, Command
    <3> QED
      BY <1>1, <3>1 DEF HWC_DISPLAY_PRIMARY
  <2> QED
    BY <2>1, <2>2
<1>4. LoopStarts' /\ RestoresAll' /\ PendingHasSession'
  BY <1>1, <1>2, <1>3 DEF LoopStarts, RestoresAll, PendingHasSession
<1>5. CASE UNCHANGED dpy
  BY <1>2, <1>4, <1>5 DEF SlotsAgree, PrimaryHasNoPending
<1>6. CASE dpy' # dpy
  <2>0. PICK fails \in BOOLEAN :
          /\ cmd.next \in Displays /\ dpy[cmd.next].exists
          /\ dpy' = [dpy EXCEPT ![cmd.next] =
                       IF ~cmd.found /\ cmd.next \in Builtins /\ dpy[cmd.next].mode # "Off"
                       THEN [@ EXCEPT !.sessions = cmd.sessions, !.pending = FALSE]
                       ELSE TurnOff(@, cmd.sessions, fails)]
    BY <1>1, <1>6 DEF HandleSecureSession
  <2> DEFINE d == cmd.next
             its == ~cmd.found /\ d \in Builtins /\ dpy[d].mode # "Off"
             marked == [dpy[d] EXCEPT !.sessions = cmd.sessions, !.pending = FALSE]
             new == IF its THEN marked ELSE TurnOff(dpy[d], cmd.sessions, fails)
  <2>1. /\ d \in Displays /\ dpy[d].exists /\ dpy[d] \in Display
        /\ dpy' = [dpy EXCEPT ![d] = new]
    BY <1>1, <2>0
  <2>2. marked.exists = dpy[d].exists /\ marked.lost = dpy[d].lost
        /\ marked.saved = dpy[d].saved /\ ~marked.pending /\ marked.mode = dpy[d].mode
    BY <2>1 DEF Display
  <2>3. new.exists = dpy[d].exists /\ new.lost = dpy[d].lost
    <3> DEFINE off == TurnOff(dpy[d], cmd.sessions, fails)
    <3>1. off.exists = dpy[d].exists /\ off.lost = dpy[d].lost
      BY <1>1, <2>1, TurnOffDoes
    <3> HIDE DEF off, marked
    <3>2. new = marked \/ new = off
      BY DEF marked, off
    <3> QED
      BY <2>2, <3>1, <3>2
  <2>4. d = HWC_DISPLAY_PRIMARY => new.saved = "Off" /\ ~new.pending
    <3>1. SUFFICES ASSUME d = HWC_DISPLAY_PRIMARY PROVE new.saved = "Off" /\ ~new.pending
      OBVIOUS
    <3>2. ~cmd.found /\ dpy[d].saved = "Off" /\ ~dpy[d].pending
      BY <1>1, <3>1 DEF LoopStarts, PrimaryHasNoPending
    <3>3. its \/ dpy[d].mode = "Off"
      BY <3>1, <3>2 DEF OneBuiltin
    <3> QED
      BY <1>1, <2>1, <2>2, <3>2, <3>3, TurnOffDoes
  <2>off. dpy[d].mode = "Off" => new.mode = "Off"
    BY <1>1, <2>1, <2>2, TurnOffDoes
  <2> HIDE DEF new, d
  <2>5. \A e \in Displays : dpy'[e] = IF e = d THEN new ELSE dpy[e]
    BY <1>1, <2>1
  <2>6. SlotsAgree'
    BY <1>2, <2>1, <2>3, <2>5, OneActive DEF SlotsAgree
  <2>7. PrimaryHasNoPending'
    BY <1>2, <2>4, <2>5, <2>off, OneActive DEF PrimaryHasNoPending
  <2> QED
    BY <1>4, <2>6, <2>7
<1> QED
  BY <1>5, <1>6

\* A display that is passed over in the loop has nothing pending, or is gone.
LEMMA RestorePends == ASSUME OneBuiltin, SsInv, PendInv, Restore PROVE PendInv'
<1> USE DEF PendInv
<1> DEFINE d == cmd.next
<1>1. /\ cmd \in Command /\ cmd.at = "restore" /\ dpy \in [Displays -> Display]
      /\ d \in 0..kNumDisplays /\ d # kNumDisplays /\ d # HWC_DISPLAY_PRIMARY
      /\ cmd.active = HWC_DISPLAY_PRIMARY
  BY DEF Restore, SsInv, SsTypeOK, DriverKnows, RestoresAll, Command, OneBuiltin
<1>2. UNCHANGED <<secure_session_active_, power, plug, connected>>
  BY DEF Restore
<1>3. cmd' = [cmd EXCEPT !.next = @ + 1]
  BY <1>1 DEF Restore, OneBuiltin
<1>4. /\ cmd'.at = "restore" /\ cmd'.next = d + 1 /\ cmd'.snap = cmd.snap
      /\ d + 1 # HWC_DISPLAY_PRIMARY
  BY <1>1, <1>3 DEF Command, HWC_DISPLAY_PRIMARY
<1>5. \A e \in Displays :
        /\ dpy'[e].exists = dpy[e].exists /\ dpy'[e].lost = dpy[e].lost
        /\ dpy'[e].pending => dpy[e].pending
        /\ dpy'[e].pending /\ dpy[e].failed => dpy'[e].failed
        /\ (e = d /\ dpy'[e].pending) => Skipped(d) \/ dpy'[e].failed
        /\ e # d => dpy'[e] = dpy[e]
  <2>1. CASE Skipped(d)
    <3>1. UNCHANGED dpy
      BY <2>1 DEF Restore
    <3> QED
      BY <2>1, <3>1
  <2>2. CASE ~Skipped(d)
    <3> DEFINE back == [dpy[d] EXCEPT !.mode = dpy[d].saved, !.pending = FALSE,
                                      !.failed = FALSE]
               stays == [dpy[d] EXCEPT !.failed = TRUE]
    <3>1. d \in Displays /\ dpy[d] \in Display
      BY <1>1, <2>2 DEF Skipped
    <3>2. \/ dpy' = [dpy EXCEPT ![d].mode = dpy[d].saved, ![d].pending = FALSE,
                                ![d].failed = FALSE]
          \/ dpy' = [dpy EXCEPT ![d].failed = TRUE]
      BY <1>1, <2>2 DEF Restore, OneBuiltin
    <3>3. dpy' = [dpy EXCEPT ![d] = back] \/ dpy' = [dpy EXCEPT ![d] = stays]
      BY <1>1, <3>1, <3>2
    <3>4. back.exists = dpy[d].exists /\ back.lost = dpy[d].lost /\ ~back.pending
      BY <3>1 DEF Display
    <3>5. /\ stays.exists = dpy[d].exists /\ stays.lost = dpy[d].lost /\ stays.failed
          /\ stays.pending = dpy[d].pending
      BY <3>1 DEF Display
    <3> HIDE DEF back, stays, d
    <3> QED
      BY <1>1, <3>1, <3>3, <3>4, <3>5
  <2> QED
    BY <2>1, <2>2
<1>6. \A e \in Pluggables : e \in Displays /\ e \in Nat
  BY OneActive
<1>7. RestoresAll'
  <2>1. ASSUME NEW e \in Pluggables, dpy'[e].pending, ~dpy'[e].lost, ~dpy'[e].failed
        PROVE  d + 1 <= e
    <3>1. dpy[e].pending /\ ~dpy[e].lost /\ d <= e
      BY <1>1, <1>5, <1>6, <2>1 DEF RestoresAll
    <3>2. e # d
      <4>1. SUFFICES ASSUME e = d PROVE FALSE
        OBVIOUS
      <4>2. Skipped(d)
        BY <1>5, <1>6, <2>1, <4>1
      <4>3. dpy[d].exists /\ d \in connected /\ d \in Displays /\ dpy[d].pending
        BY <3>1, <4>1, <1>6 DEF SlotsAgree
      <4> QED
        BY <1>1, <4>2, <4>3 DEF Skipped, RestoresAll
    <3> QED
      BY <1>1, <1>6, <3>1, <3>2
  <2> QED
    BY <1>1, <1>2, <1>4, <2>1 DEF RestoresAll
<1>8. LoopStarts'
  BY <1>4 DEF LoopStarts
<1>9. SlotsAgree' /\ PendingHasSession'
  BY <1>2, <1>5, <1>6 DEF SlotsAgree, PendingHasSession
<1>10. PrimaryHasNoPending'
  <2>1. dpy'[HWC_DISPLAY_PRIMARY] = dpy[HWC_DISPLAY_PRIMARY]
    BY <1>1, <1>5, OneActive
  <2> QED
    BY <1>2, <2>1 DEF PrimaryHasNoPending
<1> QED
  BY <1>7, <1>8, <1>9, <1>10

\* Power calls and hotplugs make no mode pending.
LEMMA OthersPend ==
  ASSUME OneBuiltin, SsInv, PendInv, SetPowerMode \/ Hotplug \/ SyncDisplays
  PROVE  PendInv'
<1> USE DEF PendInv
<1>1. cmd \in Command /\ dpy \in [Displays -> Display] /\ power \in Power
  BY DEF SsInv, SsTypeOK
<1>2. \A e \in Pluggables : e \in Displays /\ e # HWC_DISPLAY_PRIMARY
  BY OneActive
<1>3. HWC_DISPLAY_PRIMARY \in Displays /\ HWC_DISPLAY_PRIMARY \notin Pluggables
  BY OneActive
<1>4. CASE SetPowerMode
  <2> DEFINE d == power.display
  <2>1. UNCHANGED <<secure_session_active_, cmd, plug, connected>>
    BY <1>4 DEF SetPowerMode
  <2>2. dpy' = dpy \/ (power'.at = "idle" /\ dpy' = [dpy EXCEPT ![d].mode = power.mode])
    BY <1>4, PowerDoes DEF PrimaryHasNoPending
  <2>3. \A e \in Displays :
          /\ dpy'[e].exists = dpy[e].exists /\ dpy'[e].lost = dpy[e].lost
          /\ dpy'[e].pending = dpy[e].pending /\ dpy'[e].saved = dpy[e].saved
          /\ dpy'[e].failed = dpy[e].failed
    BY <1>1, <2>2 DEF Display
  <2>4. /\ power'.at # "defer"
        /\ power'.at \in {"session", "active"} => dpy'[HWC_DISPLAY_PRIMARY].mode = "Off"
    <3>1. \/ power' = IdlePower
          \/ power.at = "session" /\ \E at \in {"active", "check"} :
               power' = [power EXCEPT !.at = at] /\ dpy' = dpy
          \/ power.at = "active" /\ power' = [power EXCEPT !.at = "check"]
          \/ \E at \in {"check", "mode", "set"} : power' = [power EXCEPT !.at = at]
      BY <1>4, IdsBelow, OneActive
         DEF SetPowerMode, LookAtSession, LookForActive, SetPendingPowerMode, LookAtPending,
             LookAtMode, SetMode, PrimaryHasNoPending
    <3>2. IdlePower.at = "idle"
      BY DEF IdlePower
    <3> QED
      BY <1>1, <3>1, <3>2 DEF Power, PrimaryHasNoPending
  <2> QED
    BY <1>2, <1>3, <2>1, <2>3, <2>4
       DEF LoopStarts, RestoresAll, SlotsAgree, PendingHasSession, PrimaryHasNoPending
<1>5. CASE Hotplug
  <2>1. UNCHANGED <<secure_session_active_, cmd, power>> /\ cmd.at # "restore"
    BY <1>5 DEF Hotplug, PluggableHandlerFree
  <2>2. PICK d \in Pluggables :
          IF d \in connected
          THEN connected' = connected \ {d} /\ dpy' = [dpy EXCEPT ![d].lost = dpy[d].exists]
          ELSE connected' = connected \cup {d} /\ UNCHANGED dpy
    BY <1>5 DEF Hotplug
  <2>3. \A e \in Displays :
          /\ dpy'[e].exists = dpy[e].exists /\ dpy'[e].pending = dpy[e].pending
          /\ dpy'[e].saved = dpy[e].saved /\ dpy'[e].failed = dpy[e].failed
          /\ dpy'[e].mode = dpy[e].mode
          /\ dpy'[e].lost = IF e = d /\ d \in connected THEN dpy[e].exists ELSE dpy[e].lost
    BY <1>1, <2>2 DEF Display
  <2>4. SlotsAgree'
    BY <1>2, <2>2, <2>3 DEF SlotsAgree
  <2>5. PendingHasSession'
    <3>1. \A e \in Displays : dpy'[e].pending /\ ~dpy'[e].lost => /\ dpy[e].pending /\ ~dpy[e].lost
                                                             /\ dpy'[e].failed = dpy[e].failed
      BY <1>2, <1>3, <2>3, OneActive DEF SlotsAgree, PrimaryHasNoPending
    <3> QED
      BY <2>1, <3>1 DEF PendingHasSession
  <2> QED
    BY <1>3, <2>1, <2>3, <2>4, <2>5 DEF LoopStarts, RestoresAll, PrimaryHasNoPending
<1>6. CASE SyncDisplays
  <2>1. UNCHANGED <<secure_session_active_, cmd, power, connected>> /\ plug.at = "sync"
    BY <1>6 DEF SyncDisplays
  <2>2. \A e \in Displays :
          \/ dpy'[e] = dpy[e]
          \/ e \in Pluggables /\ dpy'[e] = [NoDisplay EXCEPT !.exists = e \in connected]
    BY <1>6 DEF SyncDisplays
  <2>3. \A b \in BOOLEAN : /\ ~[NoDisplay EXCEPT !.exists = b].pending
                            /\ [NoDisplay EXCEPT !.exists = b].exists = b
    BY DEF NoDisplay
  <2>4. \A e \in Displays :
          \/ dpy'[e] = dpy[e]
          \/ e \in Pluggables /\ ~dpy'[e].pending /\ (dpy'[e].exists => e \in connected)
    <3> TAKE e \in Displays
    <3> DEFINE there == e \in connected
    <3>1. there \in BOOLEAN
      OBVIOUS
    <3> QED
      BY <2>2, <2>3, <3>1
  <2>5. cmd.at # "restore"
    BY <2>1 DEF RestoresAll
  <2> QED
    BY <1>2, <1>3, <2>1, <2>4, <2>5
       DEF LoopStarts, RestoresAll, SlotsAgree, PendingHasSession, PrimaryHasNoPending
<1> QED
  BY <1>4, <1>5, <1>6

\* At the start nothing is pending.
LEMMA InitPends == ASSUME OneBuiltin PROVE SsInit => PendInv
<1> SUFFICES ASSUME SsInit PROVE PendInv
  OBVIOUS
<1>1. cmd.at = "idle" /\ power.at = "idle"
  BY IdleTyped DEF SsInit, IdlePower
<1>2. \A d \in Displays :
        /\ dpy[d].saved = "Off" /\ ~dpy[d].pending
        /\ d \in Pluggables => ~dpy[d].exists
  <2>1. ASSUME NEW b \in BOOLEAN, NEW x, x = [NoDisplay EXCEPT !.exists = b]
        PROVE  x.saved = "Off" /\ ~x.pending /\ (x.exists <=> b)
    BY <2>1 DEF NoDisplay
  <2>2. TAKE d \in Displays
  <2>3. dpy[d] = [NoDisplay EXCEPT !.exists = d \in Builtins] /\ (d \in Builtins) \in BOOLEAN
    BY DEF SsInit
  <2>4. d \in Pluggables => d \notin Builtins
    BY IdsAssumption
  <2> QED
    BY <2>1, <2>3, <2>4
<1>3. \A d \in Pluggables : d \in Displays
  BY OneActive
<1> QED
  BY <1>1, <1>2, <1>3, OneActive
     DEF PendInv, PrimaryHasNoPending, LoopStarts, SlotsAgree, RestoresAll, PendingHasSession

LEMMA StepPends ==
  ASSUME OneBuiltin
  PROVE  SsInv /\ PendInv /\ [SsNext]_ssVars => PendInv'
<1> SUFFICES ASSUME SsInv, PendInv, [SsNext]_ssVars PROVE PendInv'
  OBVIOUS
<1>1. CASE UNCHANGED ssVars
  BY <1>1 DEF ssVars, PendInv, PrimaryHasNoPending, LoopStarts, SlotsAgree, RestoresAll,
              PendingHasSession
<1>2. CASE Command_
  BY <1>2, EndPends, QuietPends, LoopPends, RestorePends DEF Command_
<1>3. CASE Client_ \/ SetPowerMode \/ Hotplug \/ AskForSession \/ SyncDisplays
  BY <1>3, QuietPends, OthersPend DEF Client_
<1> QED BY <1>1, <1>2, <1>3 DEF SsNext

\* With one built-in display, a display whose mode is pending waits in a session, which
\* will end and restore it (HandlePendingPowerMode), or its slot waits for removal, or to
\* restore it was tried and failed; otherwise it would refuse power calls and frames
\* without a session to end.
THEOREM PendingTheorem == ASSUME OneBuiltin PROVE SsSpec => []PendingHasSession
<1>1. PendInv => PendingHasSession
  BY DEF PendInv
<1> QED BY <1>1, InitPends, StepPends, SsInvariance, PTL DEF SsSpec
=============================================================================
