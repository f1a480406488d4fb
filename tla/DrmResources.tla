---------------------------- MODULE DrmResources ----------------------------
(***************************************************************************)
(* DRMManager::RegisterDisplay and UnregisterDisplay: a display, or the     *)
(* concurrent writeback of one, takes a connector, an encoder and a CRTC    *)
(* from the managers' pools, one after the other, and gives them back.      *)
(*                                                                         *)
(* Displays are created and destroyed under CoreImpl's locker_, writeback   *)
(* is set up and torn down under cwb_state_lock_, so that one of each can   *)
(* be under way at a time.  The connector and CRTC managers lock their      *)
(* pools for each call; the encoder manager does not, and looks at the      *)
(* status of an encoder and sets it in two steps.                           *)
(***************************************************************************)
EXTENDS Naturals, FiniteSets

CONSTANTS
  Users,              \* who registers: displays and the writeback of displays
  Connectors, Encoders, Crtcs,
  Target,             \* the connector a user asks for by id, or the type it asks for
  Locker,             \* the lock under which a user registers and unregisters
  TypeOf,             \* the type of a connector
  EncodersOf, CrtcsOf, \* the encoders a connector can use, the CRTCs an encoder can
  Removable,          \* the connectors the driver adds and removes (DP MST)
  Nil

VARIABLES
  pool,               \* the connectors in connector_pool_
  driver,             \* the connectors the driver has
  connected,          \* the connectors a sink is connected to
  connBusy, encBusy, crtcBusy, \* what has the status BUSY
  step,               \* where a user is
  token,              \* what a user's token names
  seen,               \* the encoder a user found free
  lost                \* the connectors nobody will free, see NothingLeaks

rgVars == <<pool, driver, connected, connBusy, encBusy, crtcBusy, step, token, seen, lost>>

NoToken == [conn |-> Nil, enc |-> Nil, crtc |-> Nil]
Moving == {"encoder", "lock", "crtc", "undoEncoder", "undoConnector", "freeEncoder", "freeCrtc"}

RgTypeOK ==
  /\ pool \subseteq Connectors /\ driver \subseteq Connectors /\ connected \subseteq Connectors
  /\ connBusy \subseteq pool /\ lost \subseteq connBusy
  /\ encBusy \subseteq Encoders /\ crtcBusy \subseteq Crtcs
  /\ step \in [Users -> {"none", "registered"} \cup Moving]
  /\ token \in [Users -> [conn : Connectors \cup {Nil}, enc : Encoders \cup {Nil}, crtc : Crtcs \cup {Nil}]]
  /\ seen \in [Users -> Encoders \cup {Nil}]

RgInit ==
  /\ pool = Connectors \ Removable /\ driver = pool /\ connected = {}
  /\ connBusy = {} /\ encBusy = {} /\ crtcBusy = {}
  /\ step = [u \in Users |-> "none"] /\ token = [u \in Users |-> NoToken]
  /\ seen = [u \in Users |-> Nil] /\ lost = {}

-----------------------------------------------------------------------------
\* The driver: a sink is connected or removed, and with it an MST connector,
\* unless a display still uses it.
Plug(c) ==
  /\ driver' = driver \cup {c} /\ connected' = connected \cup {c}
  /\ UNCHANGED <<pool, connBusy, encBusy, crtcBusy, step, token, seen, lost>>

Unplug(c) ==
  /\ c \in connected
  /\ connected' = connected \ {c}
  /\ driver' = IF c \in Removable THEN driver \ {c} ELSE driver
  /\ UNCHANGED <<pool, connBusy, encBusy, crtcBusy, step, token, seen, lost>>

\* Broken variant: a connector in use is removed with the others.
StaysOnlyInDriver(c) == c \in driver

\* A connector the driver removed stays in the pool while it is BUSY.
Stays(c) == c \in driver \/ c \in connBusy

\* DRMConnectorManager::Update, when the connectors are listed.
Update ==
  /\ pool' = {c \in pool : Stays(c)} \cup driver
  /\ connBusy' = connBusy \cap pool'
  /\ lost' = lost \cap pool'
  /\ UNCHANGED <<driver, connected, encBusy, crtcBusy, step, token, seen>>

-----------------------------------------------------------------------------
Alone(u) == \A v \in Users : Locker[v] = Locker[u] => step[v] \notin Moving

\* Reserve by id or by type: a free connector; by type one with a sink if there is one.
Matching(u) == {c \in pool \ connBusy : Target[u] \in {c, TypeOf[c]}}
Choices(u) == IF Matching(u) \cap connected = {} THEN Matching(u) ELSE Matching(u) \cap connected

ReserveConnector(u) ==
  /\ step[u] = "none" /\ Alone(u)
  /\ \E c \in Choices(u) :
       /\ connBusy' = connBusy \cup {c}
       /\ token' = [token EXCEPT ![u].conn = c]
  /\ step' = [step EXCEPT ![u] = "encoder"]
  /\ UNCHANGED <<pool, driver, connected, encBusy, crtcBusy, seen, lost>>

\* DRMEncoderManager::Reserve finds a free encoder ...
FreeEncoders(u) == EncodersOf[token[u].conn] \ encBusy

FindEncoder(u) ==
  /\ step[u] = "encoder"
  /\ \E e \in FreeEncoders(u) : seen' = [seen EXCEPT ![u] = e]
  /\ step' = [step EXCEPT ![u] = "lock"]
  /\ UNCHANGED <<pool, driver, connected, connBusy, encBusy, crtcBusy, token, lost>>

\* ... and takes it.
LockEncoder(u) ==
  /\ step[u] = "lock"
  /\ encBusy' = encBusy \cup {seen[u]}
  /\ token' = [token EXCEPT ![u].enc = seen[u]]
  /\ seen' = [seen EXCEPT ![u] = Nil]
  /\ step' = [step EXCEPT ![u] = "crtc"]
  /\ UNCHANGED <<pool, driver, connected, connBusy, crtcBusy, lost>>

\* No encoder: by type the connector is freed, by id it is not (drm_manager.cpp:293-298).
NoEncoder(u) ==
  /\ step[u] = "encoder" /\ FreeEncoders(u) = {}
  /\ IF Target[u] \in Connectors
     THEN /\ step' = [step EXCEPT ![u] = "none"]
          /\ lost' = lost \cup {token[u].conn}
          /\ token' = [token EXCEPT ![u] = NoToken]
     ELSE step' = [step EXCEPT ![u] = "undoConnector"] /\ UNCHANGED <<lost, token>>
  /\ UNCHANGED <<pool, driver, connected, connBusy, encBusy, crtcBusy, seen>>

\* Broken variant: the status of the CRTC is not looked at.
FreeCrtcsBusy(u) == CrtcsOf[token[u].enc]

FreeCrtcs(u) == CrtcsOf[token[u].enc] \ crtcBusy

\* DRMCrtcManager::Reserve; the display is registered.
ReserveCrtc(u) ==
  /\ step[u] = "crtc"
  /\ \E k \in FreeCrtcs(u) :
       /\ crtcBusy' = crtcBusy \cup {k}
       /\ token' = [token EXCEPT ![u].crtc = k]
  /\ step' = [step EXCEPT ![u] = "registered"]
  /\ UNCHANGED <<pool, driver, connected, connBusy, encBusy, seen, lost>>

\* Broken variant: only the connector is freed.
UndoConnectorOnly == "undoConnector"

UndoFrom == "undoEncoder"

\* No CRTC: the encoder and the connector are freed.
NoCrtc(u) ==
  /\ step[u] = "crtc" /\ FreeCrtcs(u) = {}
  /\ step' = [step EXCEPT ![u] = UndoFrom]
  /\ UNCHANGED <<pool, driver, connected, connBusy, encBusy, crtcBusy, token, seen, lost>>

\* DRMEncoderManager::Free, in the failed registration and in UnregisterDisplay.
FreeEncoder(u) ==
  /\ step[u] \in {"undoEncoder", "freeEncoder"}
  /\ encBusy' = encBusy \ {token[u].enc}
  /\ token' = [token EXCEPT ![u].enc = Nil]
  /\ step' = [step EXCEPT ![u] = IF step[u] = "undoEncoder" THEN "undoConnector" ELSE "freeCrtc"]
  /\ UNCHANGED <<pool, driver, connected, connBusy, crtcBusy, seen, lost>>

\* DRMConnectorManager::Free at the end of a failed registration, or as the
\* first step of UnregisterDisplay.
FreeConnector(u) ==
  /\ \/ step[u] = "undoConnector" /\ step' = [step EXCEPT ![u] = "none"]
     \/ step[u] = "registered" /\ Alone(u) /\ step' = [step EXCEPT ![u] = "freeEncoder"]
  /\ connBusy' = connBusy \ {token[u].conn}
  /\ token' = IF step[u] = "registered" THEN [token EXCEPT ![u].conn = Nil]
              ELSE [token EXCEPT ![u] = NoToken]
  /\ UNCHANGED <<pool, driver, connected, encBusy, crtcBusy, seen, lost>>

FreeCrtc(u) ==
  /\ step[u] = "freeCrtc"
  /\ crtcBusy' = crtcBusy \ {token[u].crtc}
  /\ token' = [token EXCEPT ![u] = NoToken]
  /\ step' = [step EXCEPT ![u] = "none"]
  /\ UNCHANGED <<pool, driver, connected, connBusy, encBusy, seen, lost>>

RgNext ==
  \/ \E c \in Connectors : Plug(c) \/ Unplug(c)
  \/ Update
  \/ \E u \in Users :
       \/ ReserveConnector(u) \/ FindEncoder(u) \/ LockEncoder(u) \/ NoEncoder(u)
       \/ ReserveCrtc(u) \/ NoCrtc(u) \/ FreeEncoder(u) \/ FreeConnector(u) \/ FreeCrtc(u)

RgSpec == RgInit /\ [][RgNext]_rgVars

-----------------------------------------------------------------------------
(* Properties                                                              *)

\* Two displays never drive the same CRTC or connector.  (The encoder is not
\* in the list: two users can find the same one free, see the README.)
OneDisplayPerPipe == \A u, v \in Users : u # v =>
  /\ token[u].conn # token[v].conn \/ token[u].conn = Nil
  /\ token[u].crtc # token[v].crtc \/ token[u].crtc = Nil

\* What is BUSY has a display that will free it, whatever step of a
\* registration failed, except the connector of a registration by id that
\* found no encoder.
NothingLeaks ==
  /\ connBusy = ({token[u].conn : u \in Users} \ {Nil}) \cup lost
  /\ encBusy \subseteq {token[u].enc : u \in Users}
  /\ crtcBusy = {token[u].crtc : u \in Users} \ {Nil}

\* The connector of a token is in the pool although the driver may have
\* removed it: DRMConnectorManager::Free looks it up with at(), which throws.
ReservedIsInPool == \A u \in Users : token[u].conn # Nil => token[u].conn \in pool
=============================================================================
