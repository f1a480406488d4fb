------------------------- MODULE DrmResourcesProofs -------------------------
(***************************************************************************)
(* Proofs about DrmResources, for any displays, connectors, encoders and    *)
(* CRTCs, and any way they can be wired.                                    *)
(***************************************************************************)
EXTENDS DrmResources, TLAPS

\* What the driver's resources are: Nil is none of them, and what a connector or an
\* encoder can use is among them.
Wired ==
  /\ Nil \notin Connectors \cup Encoders \cup Crtcs
  /\ \A c \in Connectors : EncodersOf[c] \subseteq Encoders
  /\ \A e \in Encoders : CrtcsOf[e] \subseteq Crtcs
  /\ Removable \subseteq Connectors

Tokens == [conn : Connectors \cup {Nil}, enc : Encoders \cup {Nil}, crtc : Crtcs \cup {Nil}]

Types ==
  /\ pool \subseteq Connectors /\ driver \subseteq Connectors /\ connected \subseteq Connectors
  /\ connBusy \subseteq pool /\ encBusy \subseteq Encoders
  /\ step \in [Users -> {"none", "registered"} \cup Moving]
  /\ token \in [Users -> Tokens]
  /\ seen \in [Users -> Encoders \cup {Nil}]

\* What a user has at each step.
Has(u) ==
  /\ step[u] = "none" => token[u] = NoToken
  /\ token[u].conn # Nil <=> step[u] \notin {"none", "freeEncoder", "freeCrtc"}
  /\ token[u].enc # Nil <=> step[u] \in {"crtc", "undoEncoder", "registered", "freeEncoder"}
  /\ token[u].crtc # Nil <=> step[u] \in {"registered", "freeEncoder", "freeCrtc"}
  /\ step[u] = "lock" => seen[u] \in Encoders

\* What is BUSY has one user, or is lost.
Owned ==
  /\ \A c : c \in connBusy <=> (c \in lost \/ (c # Nil /\ \E u \in Users : token[u].conn = c))
  /\ \A k : k \in crtcBusy <=> (k # Nil /\ \E u \in Users : token[u].crtc = k)
  /\ \A e \in encBusy : \E u \in Users : token[u].enc = e
  /\ \A u \in Users : token[u].conn \notin lost
  /\ Nil \notin lost

RgInv == Types /\ (\A u \in Users : Has(u)) /\ Owned /\ OneDisplayPerPipe

LEMMA InitEstablishes == ASSUME Wired PROVE RgInit => RgInv
BY DEF Wired, RgInit, RgInv, Types, Tokens, Has, Owned, OneDisplayPerPipe, NoToken, Moving

\* The driver's changes and the listing of connectors touch no user.
LEMMA DriverPreserves ==
  ASSUME Wired, RgInv, (\E c \in Connectors : Plug(c) \/ Unplug(c)) \/ Update
  PROVE  RgInv'
<1> DEFINE Quiet ==
      /\ UNCHANGED <<crtcBusy, encBusy, step, token, seen>>
      /\ connBusy' = connBusy /\ lost' = lost /\ connBusy' \subseteq pool'
      /\ pool' \subseteq Connectors /\ driver' \subseteq Connectors /\ connected' \subseteq Connectors
<1>1. Quiet
  <2>1. ASSUME NEW c \in Connectors, Plug(c) PROVE Quiet
    BY <2>1 DEF Plug, RgInv, Types
  <2>2. ASSUME NEW c \in Connectors, Unplug(c) PROVE Quiet
    BY <2>2 DEF Unplug, RgInv, Types
  <2>3. CASE Update
    <3>1. connBusy \subseteq pool'
      BY <2>3 DEF Update, Stays, RgInv, Types
    <3>2. lost \subseteq connBusy
      BY DEF RgInv, Owned
    <3> QED
      BY <2>3, <3>1, <3>2 DEF Update, RgInv, Types
  <2> QED
    BY <2>1, <2>2, <2>3
<1>2. Types'
  BY <1>1 DEF RgInv, Types
<1>3. \A u \in Users : Has(u)'
  BY <1>1 DEF RgInv, Has
<1>4. Owned' /\ OneDisplayPerPipe'
  BY <1>1 DEF RgInv, Owned, OneDisplayPerPipe
<1> QED
  BY <1>2, <1>3, <1>4 DEF RgInv

\* A free connector or CRTC has no user yet.
LEMMA TakePreserves ==
  ASSUME Wired, RgInv, NEW u \in Users, ReserveConnector(u) \/ ReserveCrtc(u)
  PROVE  RgInv'
<1>1. CASE ReserveConnector(u)
  <2>1. PICK c \in Choices(u) : connBusy' = connBusy \cup {c} /\ token' = [token EXCEPT ![u].conn = c]
    BY <1>1 DEF ReserveConnector
  <2>2. c \in pool /\ c \notin connBusy /\ c \in Connectors /\ c # Nil
    BY <2>1 DEF Choices, Matching, RgInv, Types, Wired
  <2>3. Types' /\ \A v \in Users : Has(v)'
    BY <1>1, <2>1, <2>2 DEF ReserveConnector, RgInv, Types, Tokens, Has, NoToken, Moving
  <2>4. Owned' /\ OneDisplayPerPipe'
    BY <1>1, <2>1, <2>2 DEF ReserveConnector, RgInv, Types, Tokens, Has, NoToken, Owned, OneDisplayPerPipe
  <2> QED
    BY <2>3, <2>4 DEF RgInv
<1>2. CASE ReserveCrtc(u)
  <2>1. PICK k \in FreeCrtcs(u) : crtcBusy' = crtcBusy \cup {k} /\ token' = [token EXCEPT ![u].crtc = k]
    BY <1>2 DEF ReserveCrtc
  <2>2. k \notin crtcBusy /\ k \in Crtcs /\ k # Nil
    BY <1>2, <2>1 DEF ReserveCrtc, FreeCrtcs, RgInv, Types, Tokens, Has, Wired
  <2>3. Types' /\ \A v \in Users : Has(v)'
    BY <1>2, <2>1, <2>2 DEF ReserveCrtc, RgInv, Types, Tokens, Has, NoToken, Moving
  <2>4. Owned' /\ OneDisplayPerPipe'
    BY <1>2, <2>1, <2>2 DEF ReserveCrtc, RgInv, Types, Tokens, Has, NoToken, Owned, OneDisplayPerPipe
  <2> QED
    BY <2>3, <2>4 DEF RgInv
<1> QED
  BY <1>1, <1>2

\* The two halves of the encoder's reservation, and its failure and that of the CRTC's.
LEMMA EncoderPreserves ==
  ASSUME Wired, RgInv, NEW u \in Users, FindEncoder(u) \/ LockEncoder(u) \/ NoEncoder(u) \/ NoCrtc(u)
  PROVE  RgInv'
<1>1. CASE FindEncoder(u)
  <2>1. PICK e \in FreeEncoders(u) : seen' = [seen EXCEPT ![u] = e]
    BY <1>1 DEF FindEncoder
  <2>2. e \in Encoders
    BY <1>1, <2>1 DEF FindEncoder, FreeEncoders, RgInv, Types, Tokens, Has, Wired
  <2>3. Types' /\ \A v \in Users : Has(v)'
    BY <1>1, <2>1, <2>2 DEF FindEncoder, RgInv, Types, Tokens, Has, NoToken, Moving
  <2> QED
    BY <1>1, <2>3 DEF FindEncoder, RgInv, Owned, OneDisplayPerPipe
<1>2. CASE LockEncoder(u)
  <2>1. Types' /\ \A v \in Users : Has(v)'
    BY <1>2 DEF LockEncoder, RgInv, Types, Tokens, Has, NoToken, Moving, Wired
  <2>2. token[u].enc = Nil /\ \A v \in Users :
          token'[v].conn = token[v].conn /\ token'[v].crtc = token[v].crtc
          /\ token'[v].enc = IF v = u THEN seen[u] ELSE token[v].enc
    BY <1>2 DEF LockEncoder, RgInv, Types, Tokens, Has
  <2>3. \A e \in encBusy' : \E v \in Users : token'[v].enc = e
    BY <1>2, <2>2 DEF LockEncoder, RgInv, Types, Owned, Wired
  <2>4. Owned' /\ OneDisplayPerPipe'
    BY <1>2, <2>2, <2>3 DEF LockEncoder, RgInv, Owned, OneDisplayPerPipe
  <2> QED
    BY <2>1, <2>4 DEF RgInv
<1>3. CASE NoEncoder(u)
  <2>1. Types' /\ \A v \in Users : Has(v)'
    BY <1>3 DEF NoEncoder, RgInv, Types, Tokens, Has, NoToken, Moving
  <2>2. CASE Target[u] \in Connectors
    <3>1. /\ token[u].enc = Nil /\ token[u].crtc = Nil /\ token[u].conn # Nil
          /\ token' = [token EXCEPT ![u] = NoToken] /\ lost' = lost \cup {token[u].conn}
          /\ UNCHANGED <<connBusy, encBusy, crtcBusy>>
      BY <1>3, <2>2 DEF NoEncoder, RgInv, Has
    <3>2. \A v \in Users : token'[v] = IF v = u THEN NoToken ELSE token[v]
      BY <3>1 DEF RgInv, Types
    <3>3. \A e \in encBusy' : \E v \in Users : token'[v].enc = e
      BY <3>1, <3>2 DEF RgInv, Types, Owned, Wired
    <3>4. OneDisplayPerPipe' /\ (\A v \in Users : token'[v].conn \notin lost') /\ Nil \notin lost'
      BY <3>1, <3>2 DEF RgInv, Owned, OneDisplayPerPipe, NoToken
    <3>5. /\ \A c : (c # Nil /\ \E v \in Users : token'[v].conn = c)
                  <=> (c # Nil /\ c # token[u].conn /\ \E v \in Users : token[v].conn = c)
          /\ \A k : (k # Nil /\ \E v \in Users : token'[v].crtc = k)
                  <=> (k # Nil /\ \E v \in Users : token[v].crtc = k)
      BY <3>1, <3>2 DEF RgInv, OneDisplayPerPipe, NoToken
    <3>6. \A c : c \in lost' <=> (c \in lost \/ c = token[u].conn)
      BY <3>1
    <3>7. /\ \A c : c \in connBusy' <=> (c \in lost' \/ (c # Nil /\ \E v \in Users : token'[v].conn = c))
          /\ \A k : k \in crtcBusy' <=> (k # Nil /\ \E v \in Users : token'[v].crtc = k)
      BY <3>1, <3>5, <3>6 DEF RgInv, Owned
    <3>8. Owned'
      BY <3>3, <3>4, <3>7 DEF Owned
    <3> QED
      BY <2>1, <3>4, <3>8 DEF RgInv
  <2>3. CASE Target[u] \notin Connectors
    <3>1. UNCHANGED <<connBusy, encBusy, crtcBusy, lost, token>>
      BY <1>3, <2>3 DEF NoEncoder
    <3>2. Owned' /\ OneDisplayPerPipe'
      BY <3>1 DEF RgInv, Owned, OneDisplayPerPipe
    <3> QED
      BY <2>1, <3>2 DEF RgInv
  <2> QED
    BY <2>2, <2>3
<1>4. CASE NoCrtc(u)
  <2>1. Types' /\ \A v \in Users : Has(v)'
    BY <1>4 DEF NoCrtc, UndoFrom, RgInv, Types, Tokens, Has, NoToken, Moving
  <2> QED
    BY <1>4, <2>1 DEF NoCrtc, RgInv, Owned, OneDisplayPerPipe
<1> QED
  BY <1>1, <1>2, <1>3, <1>4

\* What a user gives back was its own.
LEMMA GivePreserves ==
  ASSUME Wired, RgInv, NEW u \in Users, FreeEncoder(u) \/ FreeConnector(u) \/ FreeCrtc(u)
  PROVE  RgInv'
<1>1. CASE FreeEncoder(u)
  <2>1. Types' /\ \A v \in Users : Has(v)'
    BY <1>1 DEF FreeEncoder, RgInv, Types, Tokens, Has, NoToken, Moving
  <2>2. Owned' /\ OneDisplayPerPipe'
    BY <1>1 DEF FreeEncoder, RgInv, Types, Tokens, Has, NoToken, Owned, OneDisplayPerPipe
  <2> QED
    BY <2>1, <2>2 DEF RgInv
<1>2. CASE FreeConnector(u)
  <2>1. Types' /\ \A v \in Users : Has(v)'
    BY <1>2 DEF FreeConnector, RgInv, Types, Tokens, Has, NoToken, Moving
  <2>2. Owned' /\ OneDisplayPerPipe'
    BY <1>2 DEF FreeConnector, RgInv, Types, Tokens, Has, NoToken, Owned, OneDisplayPerPipe
  <2> QED
    BY <2>1, <2>2 DEF RgInv
<1>3. CASE FreeCrtc(u)
  <2>1. Types' /\ \A v \in Users : Has(v)'
    BY <1>3 DEF FreeCrtc, RgInv, Types, Tokens, Has, NoToken, Moving
  <2>2. Owned' /\ OneDisplayPerPipe'
    BY <1>3 DEF FreeCrtc, RgInv, Types, Tokens, Has, NoToken, Owned, OneDisplayPerPipe
  <2> QED
    BY <2>1, <2>2 DEF RgInv
<1> QED
  BY <1>1, <1>2, <1>3

LEMMA StepPreserves == ASSUME Wired PROVE RgInv /\ [RgNext]_rgVars => RgInv'
<1> SUFFICES ASSUME RgInv, [RgNext]_rgVars PROVE RgInv'
  OBVIOUS
<1>1. CASE UNCHANGED rgVars
  <2>1. Types' /\ \A u \in Users : Has(u)'
    BY <1>1 DEF rgVars, RgInv, Types, Has
  <2> QED
    BY <1>1, <2>1 DEF rgVars, RgInv, Owned, OneDisplayPerPipe
<1>2. CASE (\E c \in Connectors : Plug(c) \/ Unplug(c)) \/ Update
  BY <1>2, DriverPreserves
<1>3. ASSUME NEW u \in Users,
             \/ ReserveConnector(u) \/ FindEncoder(u) \/ LockEncoder(u) \/ NoEncoder(u)
             \/ ReserveCrtc(u) \/ NoCrtc(u) \/ FreeEncoder(u) \/ FreeConnector(u) \/ FreeCrtc(u)
      PROVE  RgInv'
  BY <1>3, TakePreserves, EncoderPreserves, GivePreserves
<1> QED
  BY <1>1, <1>2, <1>3 DEF RgNext

LEMMA Invariance == ASSUME Wired PROVE RgSpec => []RgInv
<1>1. RgInv /\ [RgNext]_rgVars => RgInv'
  BY StepPreserves
<1> QED
  BY <1>1, InitEstablishes, PTL DEF RgSpec

\* However displays are registered, removed and fail half way, no two have the same
\* connector or CRTC (drm_connector.cpp, drm_crtc.cpp).
THEOREM PipeTheorem == ASSUME Wired PROVE RgSpec => []OneDisplayPerPipe
<1>1. RgInv => OneDisplayPerPipe
  BY DEF RgInv
<1> QED
  BY <1>1, Invariance, PTL

\* Nothing stays BUSY without a display that will free it, except what drm_manager.cpp:293
\* leaves behind.
THEOREM LeakTheorem == ASSUME Wired PROVE RgSpec => []NothingLeaks
<1>1. RgInv => NothingLeaks
  BY DEF RgInv, Owned, NothingLeaks
<1> QED
  BY <1>1, Invariance, PTL

\* A connector that is given back is still in the pool, so Free finds it
\* (drm_connector.cpp, Update).
THEOREM PoolTheorem == ASSUME Wired PROVE RgSpec => []ReservedIsInPool
<1>1. RgInv => ReservedIsInPool
  BY DEF RgInv, Types, Owned, ReservedIsInPool
<1> QED
  BY <1>1, Invariance, PTL

\* A user's token names what it has and nothing else, at every step of a registration, however
\* it fails (drm_manager.cpp, RegisterDisplay and UnregisterDisplay).
THEOREM RgTypeTheorem == ASSUME Wired PROVE RgSpec => []RgTypeOK
<1>1. RgInv => RgTypeOK
  <2> SUFFICES ASSUME RgInv PROVE RgTypeOK
    OBVIOUS
  <2>1. crtcBusy \subseteq Crtcs
    BY DEF RgInv, Types, Tokens, Owned
  <2>2. lost \subseteq connBusy
    BY DEF RgInv, Owned
  <2> QED
    BY <2>1, <2>2 DEF RgInv, Types, Tokens, RgTypeOK
<1> QED
  BY <1>1, Invariance, PTL
=============================================================================
