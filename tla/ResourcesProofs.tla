--------------------------- MODULE ResourcesProofs ---------------------------
(***************************************************************************)
(* Proofs about the components of MCResources, for all values of their      *)
(* constants: the references and caches of gralloc buffers, the caches and  *)
(* LUTs of the DRM planes, the pool of tone mapping sessions, the frames of *)
(* the client, the layout of buffers, and the three displays that reserve   *)
(* DRM resources.  Each component has its own inductive invariant (BmInv,   *)
(* DpInv and LutInv, TmInv, LfInv, BlInv); Parts then says that a behavior  *)
(* of the composition is one of every component, so that what a run checks  *)
(* of the composition follows from the invariants.                          *)
(***************************************************************************)
EXTENDS MCResources, FiniteSetTheorems, SequenceTheorems, WellFoundedInduction, TLAPS

\* The users that hold a handle.
Holders(h) == {u \in Users : h \in holds[u]}

\* The types of the buffer manager.
BmTypes ==
  /\ refs \in [Handles -> Nat]
  /\ mapped \in [Handles -> BOOLEAN] /\ needsFlush \in [Handles -> BOOLEAN]
  /\ holds \in [Users -> SUBSET Handles]
  /\ access \in [Users -> [Handles -> {"no", "read", "write"}]]
  /\ cpuCache \in [Handles -> {"same", "dirty", "stale"}]

\* A count of references is the number of holders.
Counted == \A h \in Handles : refs[h] = Cardinality(Holders(h))

\* Only a holder locks a buffer, and what is locked is mapped.
LockedIsMapped ==
  \A h \in Handles, u \in Users : access[u][h] # "no" => h \in holds[u] /\ mapped[h]

\* A writer is alone, and its unlock will flush.
WriterIsAlone ==
  \A h \in Handles, u \in Users : access[u][h] = "write" =>
    needsFlush[h] /\ \A v \in Users : access[v][h] # "no" => v = u

\* What the CPU wrote is not flushed yet only while it is locked; what the device wrote is
\* unseen only while no one reads.
Coherent == \A h \in Handles :
  /\ cpuCache[h] = "dirty" => \E u \in Users : access[u][h] = "write"
  /\ cpuCache[h] = "stale" => \A u \in Users : access[u][h] = "no"

\* The inductive invariant of the buffer manager.
BmInv == BmTypes /\ Counted /\ LockedIsMapped /\ WriterIsAlone /\ Coherent

-----------------------------------------------------------------------------

\* Finitely many users hold a handle.
LEMMA HoldersFinite ==
  ASSUME IsFiniteSet(Users), NEW h \in Handles
  PROVE  IsFiniteSet(Holders(h)) /\ Cardinality(Holders(h)) \in Nat
  BY FS_Subset, FS_CardinalityType DEF Holders

\* No handle is held.
LEMMA BmInitEstablishes == BmInit => BmInv
<1> SUFFICES ASSUME BmInit PROVE BmInv
  OBVIOUS
<1>1. BmTypes
  BY DEF BmInit, BmTypes
<1>2. Counted
  <2> SUFFICES ASSUME NEW h \in Handles PROVE refs[h] = Cardinality(Holders(h))
    BY DEF Counted
  <2>1. Holders(h) = {}
    BY DEF BmInit, Holders
  <2> QED
    BY <2>1, FS_EmptySet DEF BmInit
<1>3. LockedIsMapped /\ WriterIsAlone /\ Coherent
  BY DEF BmInit, LockedIsMapped, WriterIsAlone, Coherent
<1> QED
  BY <1>1, <1>2, <1>3 DEF BmInv

\* The count of a handle follows a user who takes a reference, and one who gives it back.
LEMMA CountAfterTaking ==
  ASSUME IsFiniteSet(Users), BmTypes, Counted, NEW u \in Users, NEW h \in Handles,
         h \notin holds[u],
         holds' = [holds EXCEPT ![u] = @ \cup {h}], refs' = [refs EXCEPT ![h] = @ + 1]
  PROVE  Counted'
<1> SUFFICES ASSUME NEW k \in Handles PROVE refs'[k] = Cardinality(Holders(k)')
  BY DEF Counted, Holders
<1>1. CASE k = h
  <2>1. Holders(k)' = Holders(h) \cup {u} /\ u \notin Holders(h)
    BY <1>1 DEF Holders, BmTypes
  <2>2. refs'[k] = Cardinality(Holders(h)) + 1
    BY <1>1 DEF Counted, BmTypes
  <2>3. Cardinality(Holders(h) \cup {u}) = Cardinality(Holders(h)) + 1
    BY <2>1, HoldersFinite, FS_AddElement
  <2> QED
    BY <2>1, <2>2, <2>3
<1>2. CASE k # h
  <2>1. Holders(k)' = Holders(k)
    BY <1>2 DEF Holders, BmTypes
  <2> QED
    BY <1>2, <2>1 DEF Counted, BmTypes
<1> QED
  BY <1>1, <1>2

\* The count of a handle follows a user who gives a reference back.
LEMMA CountAfterGiving ==
  ASSUME IsFiniteSet(Users), BmTypes, Counted, NEW u \in Users, NEW h \in Handles, h \in holds[u],
         holds' = [holds EXCEPT ![u] = @ \ {h}], refs' = [refs EXCEPT ![h] = @ - 1]
  PROVE  Counted'
<1> SUFFICES ASSUME NEW k \in Handles PROVE refs'[k] = Cardinality(Holders(k)')
  BY DEF Counted, Holders
<1>1. CASE k = h
  <2>1. Holders(k)' = Holders(h) \ {u} /\ u \in Holders(h)
    BY <1>1 DEF Holders, BmTypes
  <2> QED
    BY <1>1, <2>1, HoldersFinite, FS_RemoveElement DEF Counted, BmTypes
<1>2. CASE k # h
  <2>1. Holders(k)' = Holders(k)
    BY <1>2 DEF Holders, BmTypes
  <2> QED
    BY <1>2, <2>1 DEF Counted, BmTypes
<1> QED
  BY <1>1, <1>2

\* A handle without references is held, and locked, by nobody.
LEMMA UnreferencedIsFree ==
  ASSUME IsFiniteSet(Users), BmInv, NEW h \in Handles, refs[h] = 0
  PROVE  \A u \in Users : h \notin holds[u] /\ access[u][h] = "no"
<1>1. Holders(h) = {}
  BY HoldersFinite, FS_EmptySet DEF BmInv, Counted
<1> QED
  BY <1>1 DEF Holders, BmInv, BmTypes, LockedIsMapped

\* The last reference is one user's alone.
LEMMA LastHolder ==
  ASSUME IsFiniteSet(Users), BmInv, NEW u \in Users, NEW h \in Handles,
         refs[h] = 1, h \in holds[u]
  PROVE  \A v \in Users : v # u => h \notin holds[v] /\ access[v][h] = "no"
<1>1. PICK x : Holders(h) = {x}
  BY HoldersFinite, FS_Singleton DEF BmInv, Counted
<1> QED
  BY <1>1 DEF Holders, BmInv, BmTypes, LockedIsMapped

\* A new entry of the map.
LEMMA RegisterPreserves ==
  ASSUME IsFiniteSet(Users), BmInv, NEW u \in Users, NEW h \in Handles,
         refs[h] = 0, Register(u, h)
  PROVE  BmInv'
<1> USE DEF BmInv
<1>1. \A v \in Users : h \notin holds[v] /\ access[v][h] = "no"
  BY UnreferencedIsFree
<1>2. BmTypes'
  BY DEF Register, BmTypes
<1>3. Counted'
  <2>1. refs' = [refs EXCEPT ![h] = @ + 1]
    BY DEF Register, BmTypes
  <2> QED
    BY <1>1, <2>1, CountAfterTaking DEF Register
<1>4. LockedIsMapped' /\ WriterIsAlone' /\ Coherent'
  BY <1>1 DEF Register, BmTypes, LockedIsMapped, WriterIsAlone, Coherent
<1> QED
  BY <1>2, <1>3, <1>4

\* A user retains a buffer that another one holds.
LEMMA RetainPreserves ==
  ASSUME IsFiniteSet(Users), BmInv, NEW u \in Users, NEW h \in Handles, RetainBuffer(u, h)
  PROVE  BmInv'
<1> USE DEF BmInv, RetainBuffer, IncRef
<1>1. BmTypes'
  BY DEF BmTypes
<1>2. Counted'
  BY CountAfterTaking
<1>3. LockedIsMapped' /\ WriterIsAlone' /\ Coherent'
  BY DEF BmTypes, LockedIsMapped, WriterIsAlone, Coherent
<1> QED
  BY <1>1, <1>2, <1>3

\* A user releases a buffer; with the last reference it is unmapped.
LEMMA ReleasePreserves ==
  ASSUME IsFiniteSet(Users), BmInv, NEW u \in Users, NEW h \in Handles, ReleaseBuffer(u, h)
  PROVE  BmInv'
<1> USE DEF BmInv, ReleaseBuffer
<1>1. BmTypes'
  <2>1. refs' \in [Handles -> Nat] /\ holds' \in [Users -> SUBSET Handles]
    BY DEF BmTypes
  <2>2. mapped' \in [Handles -> BOOLEAN] /\ needsFlush' \in [Handles -> BOOLEAN]
        /\ cpuCache' \in [Handles -> {"same", "dirty", "stale"}]
    BY DEF BmTypes
  <2> QED
    BY <2>1, <2>2 DEF BmTypes
<1>2. Counted'
  BY CountAfterGiving
<1>3. CASE refs[h] = 1
  <2>1. \A v \in Users : access[v][h] = "no"
    BY <1>3, LastHolder
  <2> QED
    BY <1>1, <1>2, <1>3, <2>1 DEF BmTypes, LockedIsMapped, WriterIsAlone, Coherent
<1>4. CASE refs[h] # 1
  BY <1>1, <1>2, <1>4 DEF BmTypes, LockedIsMapped, WriterIsAlone, Coherent
<1> QED
  BY <1>3, <1>4

\* Locking, unlocking and the accesses between them leave the references alone.
LEMMA AccessPreserves ==
  ASSUME BmInv, NEW u \in Users, NEW h \in Handles, NEW how \in {"read", "write"},
         \/ LockBuffer(u, h, how) \/ Write(u, h) \/ FlushBuffer(u, h)
         \/ UnlockBuffer(u, h) \/ DeviceWrites(h)
  PROVE  BmInv'
<1> USE DEF BmInv, BmTypes
<1>1. Counted'
  <2>1. UNCHANGED <<refs, holds>>
    BY DEF LockBuffer, Write, FlushBuffer, UnlockBuffer, DeviceWrites
  <2> QED
    BY <2>1 DEF Counted, Holders
<1>2. CASE LockBuffer(u, h, how)
  <2> USE <1>2 DEF LockBuffer, CacheAtLock, Invalidated
  <2>1. BmTypes'
    OBVIOUS
  <2>2. LockedIsMapped'
    BY DEF MayLock, LockedIsMapped
  <2>3. WriterIsAlone'
    <3> SUFFICES ASSUME NEW k \in Handles, NEW w \in Users, access'[w][k] = "write"
                 PROVE  needsFlush'[k] /\ \A v \in Users : access'[v][k] # "no" => v = w
      BY DEF WriterIsAlone
    <3>1. CASE k # h
      BY <3>1 DEF WriterIsAlone
    <3>2. CASE k = h /\ how = "write"
      <4>1. \A v \in Users : access[v][h] = "no"
        BY <3>2 DEF MayLock, Locked
      <4>2. w = u /\ \A v \in Users \ {u} : access'[v][k] = "no"
        BY <3>2, <4>1
      <4>3. needsFlush'[k]
        BY <3>2
      <4> QED
        BY <4>2, <4>3
    <3>3. CASE k = h /\ how = "read"
      <4>1. w # u /\ access[w][h] = "write"
        BY <3>3
      <4>2. access[w][h] = "read"
        BY <3>3, <4>1 DEF MayLock, Locked
      <4> QED
        BY <4>1, <4>2
    <3> QED
      BY <3>1, <3>2, <3>3
  <2>4. Coherent'
    BY DEF MayLock, Locked, Coherent
  <2> QED
    BY <1>1, <2>1, <2>2, <2>3, <2>4
<1>3. CASE Write(u, h)
  BY <1>1, <1>3 DEF Write, LockedIsMapped, WriterIsAlone, Coherent
<1>4. CASE FlushBuffer(u, h)
  BY <1>1, <1>4 DEF FlushBuffer, Cleaned, LockedIsMapped, WriterIsAlone, Coherent
<1>5. CASE UnlockBuffer(u, h)
  <2> USE <1>5 DEF UnlockBuffer, Cleaned, ReadDone
  <2>1. BmTypes'
    OBVIOUS
  <2>2. LockedIsMapped' /\ WriterIsAlone'
    BY DEF LockedIsMapped, WriterIsAlone
  <2>3. Coherent'
    BY DEF Coherent, WriterIsAlone
  <2> QED
    BY <1>1, <2>1, <2>2, <2>3
<1>6. CASE DeviceWrites(h)
  BY <1>1, <1>6 DEF DeviceWrites, Locked, LockedIsMapped, WriterIsAlone, Coherent
<1> QED
  BY <1>2, <1>3, <1>4, <1>5, <1>6

\* Each operation of the buffer manager keeps the invariant.
LEMMA BmStepPreserves ==
  ASSUME IsFiniteSet(Users)
  PROVE  BmInv /\ [BmNext]_bmVars => BmInv'
<1> SUFFICES ASSUME BmInv, [BmNext]_bmVars PROVE BmInv'
  OBVIOUS
<1>1. CASE UNCHANGED bmVars
  BY <1>1 DEF bmVars, BmInv, BmTypes, Counted, Holders, LockedIsMapped, WriterIsAlone, Coherent
<1>2. ASSUME NEW h \in Handles, DeviceWrites(h) PROVE BmInv'
  <2>1. CASE Users = {}
    BY <1>2, <2>1 DEF DeviceWrites, BmInv, BmTypes, Counted, Holders, LockedIsMapped,
           WriterIsAlone, Coherent
  <2>2. ASSUME NEW u \in Users PROVE BmInv'
    BY <1>2, <2>2, AccessPreserves
  <2> QED
    BY <2>1, <2>2
<1>3. ASSUME NEW h \in Handles, NEW u \in Users, AllocateBuffer(u, h) \/ ImportBuffer(u, h)
      PROVE  BmInv'
  BY <1>3, RegisterPreserves DEF AllocateBuffer, ImportBuffer
<1>4. ASSUME NEW h \in Handles, NEW u \in Users, RetainBuffer(u, h) PROVE BmInv'
  BY <1>4, RetainPreserves
<1>5. ASSUME NEW h \in Handles, NEW u \in Users, ReleaseBuffer(u, h) PROVE BmInv'
  BY <1>5, ReleasePreserves
<1>6. ASSUME NEW h \in Handles, NEW u \in Users, NEW how \in {"read", "write"},
             LockBuffer(u, h, how)
      PROVE  BmInv'
  BY <1>6, AccessPreserves
<1>7. ASSUME NEW h \in Handles, NEW u \in Users,
             Write(u, h) \/ FlushBuffer(u, h) \/ UnlockBuffer(u, h)
      PROVE  BmInv'
  BY <1>7, AccessPreserves
<1> QED
  BY <1>1, <1>2, <1>3, <1>4, <1>5, <1>6, <1>7 DEF BmNext

\* The invariant of the buffer manager, in every behavior.
LEMMA BmInvariance == ASSUME IsFiniteSet(Users) PROVE BmSpec => []BmInv
<1>1. BmInv /\ [BmNext]_bmVars => BmInv'
  BY BmStepPreserves
<1> QED
  BY <1>1, BmInitEstablishes, PTL DEF BmSpec

\* However users import, retain and release it, a buffer is in the map with the count of
\* its holders, and mapped while it is locked (gr_buf_mgr.cpp, ReleaseBuffer).
THEOREM HeldTheorem == ASSUME IsFiniteSet(Users) PROVE BmSpec => []HeldIsThere
<1>1. BmInv => HeldIsThere
  <2> SUFFICES ASSUME BmInv, NEW h \in Handles
               PROVE  /\ refs[h] = Cardinality({u \in Users : h \in holds[u]})
                      /\ Locked(h) # {} => refs[h] > 0 /\ mapped[h]
    BY DEF HeldIsThere
  <2>1. refs[h] = Cardinality({u \in Users : h \in holds[u]})
    BY DEF BmInv, Counted, Holders
  <2>2. refs[h] = 0 => Locked(h) = {}
    BY UnreferencedIsFree DEF Locked
  <2> QED
    BY <2>1, <2>2 DEF BmInv, BmTypes, LockedIsMapped, Locked
<1> QED
  BY <1>1, BmInvariance, PTL

\* Between users the CPU's cache and memory agree where it matters (gr_buf_mgr.cpp,
\* LockBuffer and UnlockBuffer).
THEOREM CoherenceTheorem == ASSUME IsFiniteSet(Users) PROVE BmSpec => []CacheIsCoherent
<1>1. BmInv => CacheIsCoherent
  BY DEF BmInv, Coherent, CacheIsCoherent, Locked
<1> QED
  BY <1>1, BmInvariance, PTL

-----------------------------------------------------------------------------
\* The display that plane p is in use by or asked for by, if there is one.
Owner(p) == IF request[p] # None THEN request[p] ELSE assigned[p]

\* A commit of d was applied and is not booked yet (PostCommit is to come).
Done(d) == pc[d] = "post" /\ ok[d] /\ kind[d] \in Commits

\* The owner of the plane is such a display.
Booked(p) == Owner(p) # None /\ Done(Owner(p))

\* What is cached of a plane is what the plane has.
Agrees(cache, plane) == /\ cache.crtc \in {Absent, plane.crtc}
                        /\ cache.conf \in {Absent, plane.conf}

\* The request of d has something for the plane.
Sends(d, p) ==
  req[d][p].crtc # Absent \/ req[d][p].conf # Absent \/ req[d][p].fp16 # Absent

\* The plane after the request of the display that asks for it.
Will(p) == Applied(hw[p], req[request[p]][p])

\* What a request may have for a plane.
Request == [crtc : Displays \cup {None, Absent}, conf : Values \cup {None, Absent},
            fp16 : Fp16s \cup {Absent}, lut : {"on", "off", Absent}]

\* The state of a plane in the kernel.
Plane == [crtc : Displays \cup {None}, conf : Values \cup {None}, fp16 : Fp16s,
          lut : {"off", "on", "stale"}]

\* The types of the planes.
DpTypes ==
  /\ request \in [Planes -> Displays \cup {None}]
  /\ assigned \in [Planes -> Displays \cup {None}]
  /\ tmp \in [Planes -> Cache] /\ committed \in [Planes -> Cache]
  /\ fp16 \in [Planes -> Fp16s] /\ unsent \in SUBSET Planes
  /\ req \in [Displays -> [Planes -> Request]]
  /\ pc \in [Displays -> {"idle", "reset", "setup", "ioctl", "post"}]
  /\ kind \in [Displays -> Frames \cup Commits]
  /\ ok \in [Displays -> BOOLEAN]
  /\ asked \in [Displays -> [Planes -> Use \cup {None}]]
  /\ hw \in [Planes -> Plane]

\* A plane is asked for by the display that has it, in a round of that display.
Requests(p) == request[p] # None =>
  assigned[p] \in {None, request[p]} /\ pc[request[p]] \in {"setup", "ioctl", "post"}

\* What the kernel has: the plane as it is assigned or, before PostCommit, requested;
\* one of the caches agrees.
Known(p) == IF Booked(p) THEN hw[p].crtc = request[p] /\ Agrees(tmp[p], hw[p])
                         ELSE hw[p].crtc = assigned[p] /\ Agrees(committed[p], hw[p])

\* What the round will make of the plane.
Tried(p) ==
  /\ request[p] = None => Agrees(tmp[p], hw[p])
  /\ request[p] # None /\ pc[request[p]] # "post" =>
       Will(p).crtc = request[p] /\ Agrees(tmp[p], Will(p))

\* A plane that is being given up.
GivenUp(p) == request[p] = None /\ assigned[p] # None /\ pc[assigned[p]] \in {"ioctl", "post"} =>
  /\ tmp[p] = Empty /\ committed[p] = Empty
  /\ pc[assigned[p]] = "ioctl" => req[assigned[p]][p].crtc = None

\* A request sends something only for planes that its display asks for or gives up.
Sent(p) == \A d \in Displays : Sends(d, p) =>
  \/ request[p] = d
  \/ request[p] = None /\ assigned[p] = d /\ pc[d] \in {"ioctl", "post"}

\* A null commit that retains the planes sends nothing.
Retained(p) == \A d \in Displays :
  kind[d] = "retain" /\ pc[d] \in {"setup", "ioctl"} => ~Sends(d, p)

\* The frame of the round is what is requested, and its settings if they are updated.
Framed(p) == \A d \in Displays :
  /\ asked[d][p] # None <=> (request[p] = d /\ kind[d] \in Frames)
  /\ request[p] = d /\ kind[d] \in Frames /\ asked[d][p].conf # None =>
       /\ pc[d] \in {"setup", "ioctl"} => Will(p).conf = asked[d][p].conf
       /\ Done(d) => hw[p].conf = asked[d][p].conf

\* The invariant of one plane.
PlaneInv(p) ==
  Requests(p) /\ Known(p) /\ Tried(p) /\ GivenUp(p) /\ Sent(p) /\ Retained(p) /\ Framed(p)

\* The invariant.  It speaks of one plane at a time: two displays meet only in the planes.
DpInv == DpTypes /\ \A p \in Planes : PlaneInv(p)

\* Nothing is requested, assigned or cached.
LEMMA DpInitEstablishes == DpInit => DpInv
<1> USE NamesAreDistinct
<1> SUFFICES ASSUME DpInit PROVE DpInv
  OBVIOUS
<1>1. DpTypes
  BY DEF DpInit, DpTypes, Cache, Empty, Request, Nothing, Plane, Frames, Commits, Fp16s
<1>2. ASSUME NEW p \in Planes PROVE PlaneInv(p)
  BY <1>2 DEF DpInit, PlaneInv, Requests, Known, Booked, Owner, Agrees, Tried, GivenUp, Sent,
       Sends, Retained, Framed, Frames, Empty, Nothing
<1> QED
  BY <1>1, <1>2 DEF DpInv

\* Nothing is sent for a plane that another display asks for, nor by a display that is idle.
LEMMA NothingForOthers ==
  ASSUME DpInv, NEW d \in Displays, NEW p \in Planes
  PROVE  /\ pc[d] \in {"idle", "reset"} => ~Sends(d, p)
         /\ request[p] \notin {None, d} => ~Sends(d, p)
         /\ request[p] = None /\ pc[d] = "setup" => ~Sends(d, p)
         /\ request[p] = None /\ assigned[p] # d => ~Sends(d, p)
BY NamesAreDistinct DEF DpInv, PlaneInv, Sent, Requests

\* A round begins: nothing was requested by a display that was idle.
LEMMA BeginPreserves ==
  ASSUME DpInv, NEW d \in Displays, NEW k \in Frames \cup Commits, Begin(d, k)
  PROVE  DpInv'
<1> USE NamesAreDistinct
<1>1. DpTypes'
  BY DEF DpInv, Begin, DpTypes, Cache, Request, Nothing, Plane, Frames, Commits, Applied
<1>2. ASSUME NEW p \in Planes PROVE Requests(p)'
  BY <1>2 DEF Begin, DpInv, PlaneInv, Requests
<1>3. ASSUME NEW p \in Planes PROVE Known(p)'
  BY <1>3 DEF Begin, DpInv, PlaneInv, Known, Booked, Owner, Done, Agrees
<1>4. ASSUME NEW p \in Planes PROVE Tried(p)'
  BY <1>4 DEF Begin, DpInv, PlaneInv, Tried, Will, Applied, Agrees
<1>5. ASSUME NEW p \in Planes PROVE GivenUp(p)'
  BY <1>5 DEF Begin, DpInv, PlaneInv, GivenUp
<1>6. ASSUME NEW p \in Planes PROVE Sent(p)'
  BY <1>6 DEF Begin, DpInv, PlaneInv, Sent, Sends
<1>7. ASSUME NEW p \in Planes PROVE Retained(p)'
  <2>1. ~Sends(d, p) /\ (Sends(d, p)' <=> Sends(d, p))
    BY <1>7, NothingForOthers DEF Begin, Sends
  <2>2. ASSUME NEW e \in Displays, e # d, kind'[e] = "retain" /\ pc'[e] \in {"setup", "ioctl"}
        PROVE  ~Sends(e, p)'
    <3>1. UNCHANGED <<kind[e], pc[e], req>>
      BY <2>2 DEF Begin, DpInv, DpTypes
    <3>2. ~Sends(e, p)
      BY <1>7, <2>2, <3>1 DEF DpInv, PlaneInv, Retained
    <3> QED
      BY <3>1, <3>2 DEF Sends
  <2> QED
    BY <2>1, <2>2 DEF Retained
<1>8. ASSUME NEW p \in Planes PROVE Framed(p)'
  <2>1. \A e \in Displays : request[p] = e => e # d
    BY <1>8, NamesAreDistinct DEF Begin, DpInv, PlaneInv, Requests
  <2>2. \A e \in Displays : e # d => kind'[e] = kind[e] /\ pc'[e] = pc[e]
    BY DEF Begin, DpInv, DpTypes
  <2> QED
    BY <1>8, <2>1, <2>2 DEF Begin, DpInv, PlaneInv, Framed, Will, Applied, Done
<1> QED
  BY <1>1, <1>2, <1>3, <1>4, <1>5, <1>6, <1>7, <1>8 DEF DpInv, PlaneInv

\* A cache that is emptied agrees with anything, whichever round another display is in.
LEMMA ResetPreserves ==
  ASSUME DpInv, NEW d \in Displays, ResetPlanesLUT(d)
  PROVE  DpInv'
<1> USE NamesAreDistinct
<1>1. DpTypes'
  <2>1. ASSUME NEW p \in Planes PROVE [req[d][p] EXCEPT !.lut = "off"] \in Request
    <3>1. ASSUME NEW r \in Request PROVE [r EXCEPT !.lut = "off"] \in Request
      BY DEF Request
    <3> QED
      BY <2>1, <3>1 DEF DpInv, DpTypes
  <2>2. req' \in [Displays -> [Planes -> Request]]
    BY <2>1 DEF DpInv, DpTypes, ResetPlanesLUT
  <2> QED
    BY <2>2 DEF DpInv, DpTypes, ResetPlanesLUT, Empty, Cache
<1>2. ASSUME NEW p \in Planes PROVE Requests(p)'
  BY <1>2 DEF ResetPlanesLUT, DpInv, PlaneInv, Requests
<1>3. ASSUME NEW p \in Planes PROVE Known(p)'
  BY <1>3 DEF ResetPlanesLUT, Empty, MarkedDirty, DpInv, PlaneInv, Known, Booked, Owner, Done,
       Agrees
<1>4. ASSUME NEW p \in Planes PROVE Tried(p)'
  BY <1>4 DEF ResetPlanesLUT, Empty, MarkedDirty, DpInv, PlaneInv, Tried, Will, Applied, Agrees
<1>5. ASSUME NEW p \in Planes PROVE GivenUp(p)'
  BY <1>5 DEF ResetPlanesLUT, DpInv, PlaneInv, GivenUp
<1>6. ASSUME NEW p \in Planes PROVE Sent(p)'
  BY <1>6 DEF ResetPlanesLUT, DpInv, PlaneInv, Sent, Sends
<1>7. ASSUME NEW p \in Planes PROVE Retained(p)'
  BY <1>7 DEF ResetPlanesLUT, Empty, MarkedDirty, DpInv, PlaneInv, Retained, Sends, DpTypes,
       Requests, Known, Booked, Owner, Done, Agrees, Sent
<1>8. ASSUME NEW p \in Planes PROVE Framed(p)'
  BY <1>8 DEF ResetPlanesLUT, Empty, MarkedDirty, DpInv, PlaneInv, Framed, Will, Applied, Done,
       DpTypes, Requests
<1> QED
  BY <1>1, <1>2, <1>3, <1>4, <1>5, <1>6, <1>7, <1>8 DEF DpInv, PlaneInv

\* The plane was free, so what the round makes of it is what was just set: either it is
\* sent, or the cache that held it back was true.
LEMMA SetPreserves ==
  ASSUME DpInv, NEW d \in Displays, NEW q \in Planes, NEW u \in Use, SetPlane(d, q, u)
  PROVE  DpInv'
<1> USE NamesAreDistinct
<1>1. DpTypes'
  <2>1. [crtc |-> d, conf |-> IF u.conf # None THEN u.conf ELSE tmp[q].conf] \in Cache
    BY DEF DpInv, DpTypes, Cache, Use
  <2>2. tmp' \in [Planes -> Cache] /\ fp16' \in [Planes -> Fp16s]
    BY <2>1 DEF DpInv, DpTypes, SetPlane, Use, Fp16s
  <2>3. req'[d][q] \in Request
    BY DEF DpInv, DpTypes, SetPlane, Request, Queue, Use
  <2>4. req' \in [Displays -> [Planes -> Request]]
    BY <2>3 DEF DpInv, DpTypes, SetPlane
  <2>5. asked' \in [Displays -> [Planes -> Use \cup {None}]]
    BY DEF DpInv, DpTypes, SetPlane
  <2> QED
    BY <2>2, <2>4, <2>5 DEF DpInv, DpTypes, SetPlane
<1>2. ASSUME NEW p \in Planes PROVE Requests(p)'
  BY <1>2 DEF SetPlane, Available, Queue, DpInv, PlaneInv, Requests
<1>3. ASSUME NEW p \in Planes PROVE Known(p)'
  <2>1. hw'[p] = hw[p] /\ committed'[p] = committed[p] /\ assigned'[p] = assigned[p]
    BY DEF SetPlane
  <2>2. CASE p = q
    <3>1. ~Booked(p) /\ ~Booked(p)'
      BY <2>2 DEF SetPlane, Available, Booked, Owner, Done, DpInv, DpTypes
    <3> QED
      BY <1>3, <2>1, <3>1 DEF DpInv, PlaneInv, Known, Agrees
  <2>3. CASE p # q
    <3>1. tmp'[p] = tmp[p] /\ request'[p] = request[p] /\ (Booked(p)' <=> Booked(p))
      BY <2>3 DEF SetPlane, Booked, Owner, Done, DpInv, DpTypes
    <3> QED
      BY <1>3, <2>1, <3>1 DEF DpInv, PlaneInv, Known, Agrees
  <2> QED
    BY <2>2, <2>3
<1>4. ASSUME NEW p \in Planes PROVE Tried(p)'
  BY <1>4 DEF SetPlane, Available, Queue, DpInv, PlaneInv, Tried, Will, Applied, Agrees, DpTypes,
       Sent, Sends
<1>5. ASSUME NEW p \in Planes PROVE GivenUp(p)'
  BY <1>5 DEF SetPlane, DpInv, PlaneInv, GivenUp, DpTypes
<1>6. ASSUME NEW p \in Planes PROVE Sent(p)'
  BY <1>6 DEF SetPlane, Available, Queue, DpInv, PlaneInv, Sent, Sends, DpTypes
<1>7. ASSUME NEW p \in Planes PROVE Retained(p)'
  BY <1>7 DEF SetPlane, Available, Queue, DpInv, PlaneInv, Retained, Sends, DpTypes, Requests,
       Known, Booked, Owner, Done, Agrees, Sent, Frames, Commits
<1>8. ASSUME NEW p \in Planes PROVE Framed(p)'
  <2>1. ASSUME NEW e \in Displays, e # d \/ p # q
        PROVE  /\ asked'[e][p] = asked[e][p] /\ req'[e][p] = req[e][p]
               /\ request'[p] = e <=> request[p] = e
    BY <2>1 DEF SetPlane, Available, DpInv, DpTypes
  <2>2. ASSUME NEW e \in Displays, e # d \/ p # q
        PROVE  /\ asked'[e][p] # None <=> (request'[p] = e /\ kind'[e] \in Frames)
               /\ request'[p] = e /\ kind'[e] \in Frames /\ asked'[e][p].conf # None =>
                    /\ pc'[e] \in {"setup", "ioctl"} => Will(p)'.conf = asked'[e][p].conf
                    /\ Done(e)' => hw'[p].conf = asked'[e][p].conf
    <3>1. UNCHANGED <<kind[e], pc[e], ok[e], hw[p]>>
      BY DEF SetPlane
    <3>2. /\ asked'[e][p] = asked[e][p] /\ req'[e][p] = req[e][p]
          /\ request'[p] = e <=> request[p] = e
      BY <2>1, <2>2
    <3>3. request'[p] = e => Will(p)' = Will(p)
      BY <3>1, <3>2 DEF SetPlane, Will
    <3> QED
      BY <1>8, <3>1, <3>2, <3>3 DEF DpInv, PlaneInv, Framed, Done
  <2>3. CASE p = q
    <3>1. asked'[d][p] = u /\ request'[p] = d /\ u # None
      BY <2>3 DEF SetPlane, DpInv, DpTypes
    <3>2. ASSUME u.conf # None PROVE Will(p)'.conf = u.conf
      <4>1. /\ request[p] = None /\ pc[d] = "setup" /\ hw'[p] = hw[p]
            /\ req'[d][p].conf = Queue(req[d][p].conf, tmp[p].conf, u.conf)
        BY <2>3, <3>2 DEF SetPlane, Available, DpInv, DpTypes
      <4>2. req[d][p].conf = Absent /\ tmp[p].conf \in {Absent, hw[p].conf}
        BY <1>8, <4>1, NothingForOthers DEF Sends, DpInv, PlaneInv, Tried, Agrees
      <4>3. Will(p)'.conf = IF req'[d][p].conf = Absent THEN hw[p].conf ELSE req'[d][p].conf
        BY <3>1, <4>1 DEF Will, Applied
      <4>4. u.conf # Absent
        BY <3>2 DEF Use
      <4> QED
        BY <4>1, <4>2, <4>3, <4>4 DEF Queue
    <3> QED
      BY <2>2, <2>3, <3>1, <3>2 DEF SetPlane, Framed, Done
  <2> QED
    BY <2>2, <2>3 DEF Framed
<1> QED
  BY <1>1, <1>2, <1>3, <1>4, <1>5, <1>6, <1>7, <1>8 DEF DpInv, PlaneInv

\* What is given up was assigned, so the cache cannot say it has no CRTC and the unset is
\* sent; what is retained was shown and nothing was sent for it.
LEMMA UnsetPreserves ==
  ASSUME DpInv, NEW d \in Displays, UnsetUnusedResources(d)
  PROVE  DpInv'
<1> USE NamesAreDistinct
<1>1. DpTypes'
  BY DEF DpInv, UnsetUnusedResources, Unused, InUse, Requested, ClearsLut, CachesAfterUnset,
       Fp16AfterUnset, Fp16s, Empty, Queue, DpTypes, Cache, Request, Nothing, Plane, Frames,
       Commits, Applied
<1>2. ASSUME NEW p \in Planes PROVE Requests(p)'
  BY <1>2 DEF UnsetUnusedResources, Unused, InUse, Requested, ClearsLut, CachesAfterUnset, Empty,
       Queue, DpInv, PlaneInv, Requests
<1>3. ASSUME NEW p \in Planes PROVE Known(p)'
  <2>1. /\ UNCHANGED <<hw, assigned, ok, kind>> /\ pc[d] = "setup" /\ pc'[d] = "ioctl"
        /\ \A e \in Displays : e # d => pc'[e] = pc[e]
    BY DEF UnsetUnusedResources, DpInv, DpTypes
  <2>2. request'[p] = Requested(d)[p] /\ (assigned[p] # d => request'[p] = request[p])
    BY <1>3 DEF UnsetUnusedResources, Requested
  <2>3. assigned[p] = d => request[p] \in {None, d}
    BY <1>3, NamesAreDistinct DEF DpInv, DpTypes, PlaneInv, Requests
  <2>4. Owner(p)' = Owner(p) /\ (request'[p] # request[p] => Owner(p) = d)
    BY <1>3, <2>1, <2>2, <2>3, NamesAreDistinct DEF Owner, Requested
  <2>5. Booked(p)' <=> Booked(p)
    BY <1>3, <2>1, <2>4 DEF Booked, Done, Owner, DpInv, DpTypes
  <2>6. Booked(p) => Owner(p) # d
    BY <2>1 DEF Booked, Done
  <2>7. p \in Unused(d) => Owner(p) = d
    BY <2>3, NamesAreDistinct DEF Unused, Owner, Requested
  <2>8. /\ p \in Unused(d) => committed'[p] = Empty
        /\ p \notin Unused(d) => tmp'[p] = tmp[p] /\ committed'[p] = committed[p]
    BY <1>3 DEF UnsetUnusedResources, CachesAfterUnset
  <2>9. CASE Booked(p)
    BY <1>3, <2>1, <2>4, <2>5, <2>6, <2>7, <2>8, <2>9 DEF DpInv, PlaneInv, Known, Agrees
  <2>10. CASE ~Booked(p)
    BY <1>3, <2>1, <2>5, <2>8, <2>10 DEF DpInv, PlaneInv, Known, Agrees, Empty
  <2> QED
    BY <2>9, <2>10
<1>4. ASSUME NEW p \in Planes PROVE Tried(p)'
  BY <1>4 DEF UnsetUnusedResources, Unused, InUse, Requested, ClearsLut, CachesAfterUnset, Empty,
       Queue, DpInv, PlaneInv, Tried, Will, Applied, Agrees, DpTypes, Requests, Known, Booked,
       Owner, Done, Sent, Sends
<1>5. ASSUME NEW p \in Planes PROVE GivenUp(p)'
  BY <1>5 DEF UnsetUnusedResources, Unused, InUse, Requested, ClearsLut, CachesAfterUnset, Empty,
       Queue, DpInv, DpTypes, Frames, Commits, Cache, Request, Plane, PlaneInv, Requests, Known,
       Booked, Owner, Done, Agrees, Tried, Will, Applied, GivenUp, Sent, Sends, Retained, Framed
<1>6. ASSUME NEW p \in Planes PROVE Sent(p)'
  BY <1>6 DEF UnsetUnusedResources, Unused, InUse, Requested, ClearsLut, CachesAfterUnset, Empty,
       Queue, DpInv, PlaneInv, Sent, Sends, DpTypes, Requests
<1>7. ASSUME NEW p \in Planes PROVE Retained(p)'
  BY <1>7 DEF UnsetUnusedResources, Unused, InUse, Requested, ClearsLut, CachesAfterUnset, Empty,
       Queue, DpInv, PlaneInv, Retained, Sends
<1>8. ASSUME NEW p \in Planes PROVE Framed(p)'
  BY <1>8 DEF UnsetUnusedResources, Unused, InUse, Requested, ClearsLut, CachesAfterUnset, Empty,
       Queue, DpInv, PlaneInv, Framed, Will, Applied, Done, DpTypes, Requests, Known, Booked,
       Owner,
       Agrees, Sent, Sends, Frames, Commits
<1> QED
  BY <1>1, <1>2, <1>3, <1>4, <1>5, <1>6, <1>7, <1>8 DEF DpInv, PlaneInv

\* The kernel applies what was to come to the planes of the display, and changes no other.
LEMMA IoctlPreserves ==
  ASSUME DpInv, NEW d \in Displays, AtomicIoctl(d)
  PROVE  DpInv'
<1> USE NamesAreDistinct
<1>1. DpTypes'
  <2>1. ASSUME NEW p \in Planes PROVE Applied(hw[p], req[d][p]) \in Plane
    BY DEF DpInv, DpTypes, Applied, Request, Plane
  <2>2. hw' \in [Planes -> Plane]
    BY <2>1 DEF DpInv, DpTypes, AtomicIoctl
  <2> QED
    BY <2>2 DEF DpInv, DpTypes, AtomicIoctl
<1>2. ASSUME NEW p \in Planes PROVE Requests(p)'
  BY <1>2 DEF AtomicIoctl, DpInv, PlaneInv, Requests
<1>3. ASSUME NEW p \in Planes PROVE Known(p)'
  <2>1. CASE Owner(p) = d
    <3>1. ~Booked(p)
      BY <2>1 DEF AtomicIoctl, Booked, Done
    <3>2. CASE Booked(p)'
      <4>1. hw'[p] = Applied(hw[p], req[d][p]) /\ UNCHANGED <<request[p], tmp[p]>>
        BY <1>3, <2>1, <3>2 DEF AtomicIoctl, Booked, Owner, Done, DpInv, DpTypes
      <4>2. CASE request[p] = d
        BY <1>3, <3>2, <4>1, <4>2 DEF AtomicIoctl, DpInv, PlaneInv, Known, Tried, Will, Agrees
      <4>3. CASE request[p] # d
        <5>1. tmp[p] = Empty /\ req[d][p].crtc = None /\ request[p] = None
          BY <1>3, <2>1, <4>3 DEF AtomicIoctl, Owner, DpInv, DpTypes, PlaneInv, GivenUp
        <5> QED
          BY <3>2, <4>1, <5>1, NamesAreDistinct DEF Known, Agrees, Empty, Applied
      <4> QED
        BY <4>2, <4>3
    <3>3. CASE ~Booked(p)'
      <4>1. hw'[p] = hw[p] /\ UNCHANGED <<assigned[p], committed[p]>>
        BY <1>3, <2>1, <3>3 DEF AtomicIoctl, Booked, Owner, Done, DpInv, DpTypes
      <4> QED
        BY <1>3, <3>1, <3>3, <4>1 DEF DpInv, PlaneInv, Known, Agrees
    <3> QED
      BY <3>2, <3>3
  <2>2. CASE Owner(p) # d
    <3>1. ~Sends(d, p)
      BY <1>3, <2>2 DEF Owner, DpInv, PlaneInv, Sent
    <3>2. hw'[p].crtc = hw[p].crtc /\ hw'[p].conf = hw[p].conf
      BY <1>3, <3>1 DEF AtomicIoctl, Sends, Applied, DpInv, DpTypes
    <3>3. Booked(p)' <=> Booked(p)
      BY <2>2 DEF AtomicIoctl, Booked, Owner, Done, DpInv, DpTypes
    <3> QED
      BY <1>3, <3>2, <3>3 DEF AtomicIoctl, DpInv, PlaneInv, Known, Agrees
  <2> QED
    BY <2>1, <2>2
<1>4. ASSUME NEW p \in Planes PROVE Tried(p)'
  <2>1. CASE Owner(p) = d
    BY <1>4, <2>1 DEF AtomicIoctl, Owner, DpInv, DpTypes, PlaneInv, Tried, Agrees, GivenUp, Empty
  <2>2. CASE Owner(p) # d
    <3>1. ~Sends(d, p)
      BY <1>4, <2>2 DEF Owner, DpInv, PlaneInv, Sent
    <3>2. hw'[p].crtc = hw[p].crtc /\ hw'[p].conf = hw[p].conf
      BY <1>4, <3>1 DEF AtomicIoctl, Sends, Applied, DpInv, DpTypes
    <3>3. Will(p)'.crtc = Will(p).crtc /\ Will(p)'.conf = Will(p).conf
      BY <3>2 DEF AtomicIoctl, Will, Applied
    <3>4. request[p] # None => pc'[request[p]] = pc[request[p]]
      BY <2>2 DEF AtomicIoctl, Owner, DpInv, DpTypes
    <3> QED
      BY <1>4, <3>2, <3>3, <3>4 DEF AtomicIoctl, DpInv, PlaneInv, Tried, Agrees
  <2> QED
    BY <2>1, <2>2
<1>5. ASSUME NEW p \in Planes PROVE GivenUp(p)'
  BY <1>5 DEF AtomicIoctl, DpInv, PlaneInv, GivenUp
<1>6. ASSUME NEW p \in Planes PROVE Sent(p)'
  BY <1>6 DEF AtomicIoctl, DpInv, PlaneInv, Sent, Sends
<1>7. ASSUME NEW p \in Planes PROVE Retained(p)'
  BY <1>7 DEF AtomicIoctl, DpInv, PlaneInv, Retained, Sends
<1>8. ASSUME NEW p \in Planes PROVE Framed(p)'
  BY <1>8 DEF AtomicIoctl, Mine, Others, DpInv, DpTypes, Frames, Commits, Cache, Request, Plane,
       PlaneInv, Requests, Known, Booked, Owner, Done, Agrees, Tried, Will, Applied, GivenUp,
       Sent, Sends, Retained, Framed
<1> QED
  BY <1>1, <1>2, <1>3, <1>4, <1>5, <1>6, <1>7, <1>8 DEF DpInv, PlaneInv

\* Nothing was applied, so the cache of what was committed still agrees.
LEMMA PostValidatePreserves ==
  ASSUME DpInv, NEW d \in Displays, PostValidate(d)
  PROVE  DpInv'
<1> USE NamesAreDistinct
<1>1. DpTypes'
  BY DEF DpInv, PostValidate, Finished, Nothing, Restored, Empty, DpTypes, Cache, Request, Plane,
       Frames, Commits, Applied
<1>2. ASSUME NEW p \in Planes PROVE Requests(p)'
  BY <1>2 DEF PostValidate, Finished, Nothing, Restored, Empty, DpInv, PlaneInv, Requests
<1>3. ASSUME NEW p \in Planes PROVE Known(p)'
  BY <1>3 DEF PostValidate, Finished, Nothing, Restored, Empty, DpInv, PlaneInv, Known, Booked,
       Owner, Done, Agrees, DpTypes, Requests
<1>4. ASSUME NEW p \in Planes PROVE Tried(p)'
  BY <1>4 DEF PostValidate, Finished, Nothing, Restored, Empty, DpInv, PlaneInv, Tried, Will,
       Applied, Agrees, DpTypes, Requests, Known, Booked, Owner, Done
<1>5. ASSUME NEW p \in Planes PROVE GivenUp(p)'
  BY <1>5 DEF PostValidate, Finished, Nothing, Restored, Empty, DpInv, PlaneInv, GivenUp, DpTypes,
       Requests
<1>6. ASSUME NEW p \in Planes PROVE Sent(p)'
  BY <1>6 DEF PostValidate, Finished, Nothing, Restored, Empty, DpInv, PlaneInv, Sent, Sends,
         DpTypes
<1>7. ASSUME NEW p \in Planes PROVE Retained(p)'
  BY <1>7 DEF PostValidate, Finished, Nothing, Restored, Empty, DpInv, PlaneInv, Retained, Sends
<1>8. ASSUME NEW p \in Planes PROVE Framed(p)'
  BY <1>8 DEF PostValidate, Finished, Nothing, Restored, Empty, DpInv, PlaneInv, Framed, Will,
       Applied, Done, DpTypes
<1> QED
  BY <1>1, <1>2, <1>3, <1>4, <1>5, <1>6, <1>7, <1>8 DEF DpInv, PlaneInv

\* The request was applied, so the cache of what was tried agrees.
LEMMA PostCommitPreserves ==
  ASSUME DpInv, NEW d \in Displays, PostCommit(d)
  PROVE  DpInv'
<1> USE NamesAreDistinct
<1>1. DpTypes'
  BY DEF DpInv, PostCommit, Finished, Nothing, NowAssigned, Mine, Empty, DpTypes, Cache, Request,
       Plane, Frames, Commits, Applied
<1>2. ASSUME NEW p \in Planes PROVE Requests(p)'
  BY <1>2 DEF PostCommit, Finished, Nothing, NowAssigned, Mine, Empty, DpInv, PlaneInv, Requests
<1>3. ASSUME NEW p \in Planes PROVE Known(p)'
  BY <1>3 DEF PostCommit, Finished, Nothing, NowAssigned, Mine, Empty, DpInv, PlaneInv, Known,
       Booked, Owner, Done, Agrees, DpTypes, Requests
<1>4. ASSUME NEW p \in Planes PROVE Tried(p)'
  <2>1. CASE Owner(p) = d
    <3>1. Booked(p) /\ request'[p] = None /\ tmp'[p] = tmp[p] /\ hw'[p] = hw[p]
      BY <1>4, <2>1 DEF PostCommit, Finished, Booked, Done, Owner, Mine, DpInv, DpTypes
    <3> QED
      BY <1>4, <3>1 DEF DpInv, PlaneInv, Known, Tried, Agrees
  <2>2. CASE Owner(p) # d
    <3>1. request[p] # d /\ p \notin Mine(d)
      BY <1>4, <2>2 DEF Owner, Mine, DpInv, PlaneInv, Requests
    <3>2. /\ request'[p] = request[p] /\ tmp'[p] = tmp[p] /\ hw'[p] = hw[p]
          /\ request[p] # None => pc'[request[p]] = pc[request[p]] /\ Will(p)' = Will(p)
      BY <1>4, <3>1 DEF PostCommit, Finished, Will, Applied, DpInv, DpTypes
    <3> QED
      BY <1>4, <3>2 DEF DpInv, PlaneInv, Tried, Agrees
  <2> QED
    BY <2>1, <2>2
<1>5. ASSUME NEW p \in Planes PROVE GivenUp(p)'
  BY <1>5 DEF PostCommit, Finished, Nothing, NowAssigned, Mine, Empty, DpInv, PlaneInv, GivenUp,
       DpTypes, Requests
<1>6. ASSUME NEW p \in Planes PROVE Sent(p)'
  BY <1>6 DEF PostCommit, Finished, Nothing, NowAssigned, Mine, Empty, DpInv, PlaneInv, Sent,
       Sends, DpTypes, Requests
<1>7. ASSUME NEW p \in Planes PROVE Retained(p)'
  BY <1>7 DEF PostCommit, Finished, Nothing, NowAssigned, Mine, Empty, DpInv, PlaneInv, Retained,
       Sends
<1>8. ASSUME NEW p \in Planes PROVE Framed(p)'
  BY <1>8 DEF PostCommit, Finished, Nothing, NowAssigned, Mine, Empty, DpInv, PlaneInv, Framed,
       Will, Applied, Done, DpTypes, Requests
<1> QED
  BY <1>1, <1>2, <1>3, <1>4, <1>5, <1>6, <1>7, <1>8 DEF DpInv, PlaneInv

\* The trusted VM changes the settings of the planes that the display shows, and nothing else.
LEMMA TUIEndDoes ==
  ASSUME DpTypes, NEW d \in Displays, NEW v \in Values, NEW f \in Fp16s, HandleTUIEnd(d, v, f)
  PROVE  /\ pc[d] = "idle"
         /\ UNCHANGED <<request, assigned, fp16, lut, resetLuts, req, pc, kind, ok, asked, doubt>>
         /\ hw' \in [Planes -> Plane]
         /\ \A p \in Planes :
              /\ hw'[p].crtc = hw[p].crtc /\ hw'[p].lut = hw[p].lut
              /\ hw[p].crtc # d => hw'[p] = hw[p]
              /\ p \notin unsent' => p \notin unsent /\ hw'[p].fp16 = hw[p].fp16
<1>1. /\ pc[d] = "idle"
      /\ UNCHANGED <<request, assigned, fp16, lut, resetLuts, req, pc, kind, ok, asked, doubt>>
  BY DEF HandleTUIEnd
<1>2. ASSUME NEW p \in Planes
      PROVE  /\ p \notin unsent' => p \notin unsent /\ hw'[p].fp16 = hw[p].fp16
             /\ hw'[p] = IF hw[p].crtc # d THEN hw[p]
                         ELSE [hw[p] EXCEPT !.conf = v, !.fp16 = IF p \in Fp16Planes THEN f ELSE @]
  BY DEF HandleTUIEnd, LeftByVm
<1>3. ASSUME NEW p \in Planes
      PROVE  hw'[p] \in Plane /\ hw'[p].crtc = hw[p].crtc /\ hw'[p].lut = hw[p].lut
  <2>1. hw[p] \in Plane
    BY DEF DpTypes
  <2> QED
    BY <1>2, <2>1 DEF Plane
<1>4. hw' \in [Planes -> Plane]
  BY <1>3 DEF HandleTUIEnd, LeftByVm
<1> QED
  BY <1>1, <1>2, <1>3, <1>4

\* The planes that change are assigned to the display, which is idle: their caches are emptied.
LEMMA TUIEndPreserves ==
  ASSUME DpInv, NEW d \in Displays, NEW v \in Values, NEW f \in Fp16s, HandleTUIEnd(d, v, f)
  PROVE  DpInv'
<1> USE NamesAreDistinct
<1>a. DpTypes
  BY DEF DpInv
<1>b. /\ pc[d] = "idle"
      /\ UNCHANGED <<request, assigned, fp16, lut, resetLuts, req, pc, kind, ok, asked, doubt>>
      /\ hw' \in [Planes -> Plane]
      /\ \A p \in Planes : hw'[p].crtc = hw[p].crtc /\ (hw[p].crtc # d => hw'[p] = hw[p])
  BY <1>a, TUIEndDoes
<1>c. \A p \in Planes :
        /\ tmp'[p] = IF assigned[p] = d THEN Empty ELSE tmp[p]
        /\ committed'[p] = IF assigned[p] = d THEN Empty ELSE committed[p]
  BY DEF HandleTUIEnd
<1>d. \A p \in Planes : /\ Booked(p)' <=> Booked(p)
                        /\ \A e \in Displays : Sends(e, p)' <=> Sends(e, p)
  BY <1>b DEF Booked, Owner, Done, Sends
<1>e. ASSUME NEW p \in Planes, assigned[p] = d
      PROVE  request[p] = None /\ ~Booked(p)
  BY <1>b, <1>e DEF DpInv, PlaneInv, Requests, Booked, Owner, Done
<1>f. ASSUME NEW p \in Planes, assigned[p] # d
      PROVE  hw'[p] = hw[p]
  <2>1. CASE Booked(p)
    BY <1>b, <2>1 DEF DpInv, PlaneInv, Known, Requests, Booked, Owner, Done
  <2>2. CASE ~Booked(p)
    BY <1>b, <1>f, <2>2 DEF DpInv, PlaneInv, Known
  <2> QED
    BY <2>1, <2>2
<1>1. DpTypes'
  <2>1. tmp' \in [Planes -> Cache] /\ committed' \in [Planes -> Cache]
    BY <1>a DEF HandleTUIEnd, DpTypes, Empty, Cache
  <2>2. unsent' \in SUBSET Planes
    BY <1>a DEF HandleTUIEnd, LeftByVm, DpTypes
  <2> QED
    BY <1>a, <1>b, <2>1, <2>2 DEF DpTypes
<1>2. ASSUME NEW p \in Planes PROVE (Requests(p) /\ Sent(p) /\ Retained(p))'
  BY <1>b, <1>d DEF DpInv, PlaneInv, Requests, Sent, Retained
<1>3. ASSUME NEW p \in Planes PROVE Known(p)'
  BY <1>b, <1>c, <1>d, <1>e, <1>f DEF DpInv, PlaneInv, Known, Agrees, Empty
<1>4. ASSUME NEW p \in Planes PROVE Tried(p)'
  <2>1. CASE assigned[p] = d
    BY <1>b, <1>c, <1>e, <2>1 DEF Tried, Agrees, Empty
  <2>2. CASE assigned[p] # d
    BY <1>b, <1>c, <1>f, <2>2 DEF DpInv, PlaneInv, Tried, Will, Agrees
  <2> QED
    BY <2>1, <2>2
<1>5. ASSUME NEW p \in Planes PROVE GivenUp(p)'
  BY <1>b, <1>c DEF DpInv, PlaneInv, GivenUp, Empty
<1>6. ASSUME NEW p \in Planes PROVE Framed(p)'
  <2>1. CASE assigned[p] = d
    BY <1>b, <1>e, <2>1 DEF DpInv, PlaneInv, Framed
  <2>2. CASE assigned[p] # d
    BY <1>b, <1>f, <2>2 DEF DpInv, PlaneInv, Framed, Will, Done
  <2> QED
    BY <2>1, <2>2
<1> QED
  BY <1>1, <1>2, <1>3, <1>4, <1>5, <1>6 DEF DpInv, PlaneInv

\* Every step of every display keeps the invariant.
LEMMA DpStepPreserves == DpInv /\ [DpNext]_dpVars => DpInv'
<1> SUFFICES ASSUME DpInv, [DpNext]_dpVars PROVE DpInv'
  OBVIOUS
<1>1. CASE UNCHANGED dpVars
  BY <1>1 DEF dpVars, DpInv, DpTypes, PlaneInv, Requests, Known, Booked, Owner, Done, Agrees,
         Tried,
       Will, Applied, GivenUp, Sent, Sends, Retained, Framed
<1>2. ASSUME NEW d \in Displays,
             \/ \E k \in Frames \cup Commits : Begin(d, k)
             \/ ResetPlanesLUT(d)
             \/ \E p \in Planes, u \in Use : SetPlane(d, p, u)
             \/ UnsetUnusedResources(d) \/ AtomicIoctl(d) \/ PostValidate(d) \/ PostCommit(d)
             \/ \E v \in Values, f \in Fp16s : HandleTUIEnd(d, v, f)
      PROVE  DpInv'
  BY <1>2, BeginPreserves, ResetPreserves, SetPreserves, UnsetPreserves, IoctlPreserves,
       PostValidatePreserves, PostCommitPreserves, TUIEndPreserves
<1> QED
  BY <1>1, <1>2 DEF DpNext

\* The invariant of the planes, in every behavior.
LEMMA DpInvariance == DpSpec => []DpInv
<1> QED
  BY DpInitEstablishes, DpStepPreserves, PTL DEF DpSpec

-----------------------------------------------------------------------------
(* The notes of the FP16 conversions. *)

\* The request of d may still reach the kernel.
Pending(d) == pc[d] \in {"setup", "ioctl"}

\* What is sent for the plane is what was noted.
NotedSent(p) == \A d \in Displays :
  Pending(d) /\ req[d][p].fp16 # Absent => fp16[p] = req[d][p].fp16

\* Where nothing is on its way, the note is what the kernel has, but for planes in unsent.
NotedKept(p) ==
  p \notin unsent /\ (\A d \in Displays : req[d][p].fp16 = Absent \/ ~Pending(d)) =>
    fp16[p] = hw[p].fp16

\* The note of a plane of the frame is what the frame asks for.
NotedFrame(p) == \A d \in Displays :
  request[p] = d /\ kind[d] \in Frames /\ asked[d][p].conf # None => fp16[p] = asked[d][p].fp16

\* The invariant of the notes, next to DpInv.
NoteInv == \A p \in Planes : NotedSent(p) /\ NotedKept(p) /\ NotedFrame(p)

\* Nothing is noted.
LEMMA NoteInit == DpInit => NoteInv
BY NamesAreDistinct DEF DpInit, NoteInv, NotedSent, NotedKept, NotedFrame, Pending, Nothing

\* A round begins with an empty request.
LEMMA NoteBegin ==
  ASSUME DpInv, NoteInv, NEW d \in Displays, NEW k \in Frames \cup Commits, Begin(d, k)
  PROVE  NoteInv'
<1> SUFFICES ASSUME NEW p \in Planes PROVE (NotedSent(p) /\ NotedKept(p) /\ NotedFrame(p))'
  BY DEF NoteInv
<1>1. /\ UNCHANGED <<request, fp16, req, asked, hw, unsent>>
      /\ req[d][p].fp16 = Absent /\ request[p] # d
      /\ \A e \in Displays : e # d => pc'[e] = pc[e] /\ kind'[e] = kind[e]
  BY NothingForOthers, NamesAreDistinct DEF Sends, Begin, DpInv, DpTypes, PlaneInv, Requests
<1> QED
  BY <1>1, NamesAreDistinct DEF NoteInv, NotedSent, NotedKept, NotedFrame, Pending

\* No FP16 conversion is touched when the LUTs are reset.
LEMMA NoteReset ==
  ASSUME DpInv, NoteInv, NEW d \in Displays, ResetPlanesLUT(d)
  PROVE  NoteInv'
<1> SUFFICES ASSUME NEW p \in Planes PROVE (NotedSent(p) /\ NotedKept(p) /\ NotedFrame(p))'
  BY DEF NoteInv
<1>1. /\ UNCHANGED <<request, fp16, kind, asked, hw, unsent>> /\ req[d][p].fp16 = Absent
      /\ \A e \in Displays : e # d => pc'[e] = pc[e]
  BY NothingForOthers DEF Sends, ResetPlanesLUT, DpInv, DpTypes
<1>2. \A e \in Displays : req'[e][p].fp16 = req[e][p].fp16
  BY DEF ResetPlanesLUT, DpInv, DpTypes, Request
<1> QED
  BY <1>1, <1>2 DEF NoteInv, NotedSent, NotedKept, NotedFrame, Pending

\* The conversion is sent, or the note held it back and stays.
LEMMA NoteSet ==
  ASSUME DpInv, NoteInv, NEW d \in Displays, NEW q \in Planes, NEW u \in Use, SetPlane(d, q, u)
  PROVE  NoteInv'
<1> SUFFICES ASSUME NEW p \in Planes PROVE (NotedSent(p) /\ NotedKept(p) /\ NotedFrame(p))'
  BY DEF NoteInv
<1>1. UNCHANGED <<pc, kind, hw, unsent>>
  BY DEF SetPlane
<1>2. CASE p # q
  <2>1. /\ fp16'[p] = fp16[p] /\ request'[p] = request[p]
        /\ \A e \in Displays : req'[e][p] = req[e][p] /\ asked'[e][p] = asked[e][p]
    BY <1>2 DEF SetPlane, DpInv, DpTypes
  <2> QED
    BY <1>1, <2>1 DEF NoteInv, NotedSent, NotedKept, NotedFrame, Pending
<1>3. CASE p = q
  <2>1. /\ request[p] = None /\ assigned[p] \in {None, d} /\ pc[d] = "setup"
        /\ request'[p] = d /\ asked'[d][p] = u
        /\ fp16'[p] = IF u.conf # None THEN u.fp16 ELSE fp16[p]
        /\ req'[d][p].fp16 =
             IF u.conf # None THEN Queue(req[d][p].fp16, fp16[p], u.fp16) ELSE req[d][p].fp16
    BY <1>3 DEF SetPlane, Available, DpInv, DpTypes
  <2>2. \A e \in Displays : req[e][p].fp16 = Absent
    BY <2>1, NothingForOthers, NamesAreDistinct DEF Sends
  <2>3. \A e \in Displays : e # d => req'[e][p] = req[e][p]
    BY DEF SetPlane, DpInv, DpTypes
  <2>4. Absent \notin Fp16s /\ fp16[p] \in Fp16s /\ (u.conf # None => u.fp16 \in Fp16s)
    BY NamesAreDistinct DEF Fp16s, DpInv, DpTypes, Use
  <2>5. NotedSent(p)'
    BY <2>1, <2>2, <2>3 DEF NotedSent, Pending, Queue
  <2>6. NotedKept(p)'
    <3>1. CASE u.conf # None /\ fp16[p] # u.fp16
      BY <1>1, <2>1, <2>2, <2>4, <3>1 DEF NotedKept, Pending, Queue
    <3>2. CASE ~(u.conf # None /\ fp16[p] # u.fp16)
      <4>1. fp16'[p] = fp16[p]
        BY <2>1, <3>2
      <4> QED
        BY <1>1, <2>2, <4>1 DEF NoteInv, NotedKept
    <3> QED
      BY <3>1, <3>2
  <2>7. NotedFrame(p)'
    BY <2>1 DEF NotedFrame
  <2> QED
    BY <2>5, <2>6, <2>7
<1> QED
  BY <1>2, <1>3

\* The reset of a conversion is sent if there was one, and noted.
LEMMA NoteUnset ==
  ASSUME DpInv, NoteInv, NEW d \in Displays, UnsetUnusedResources(d)
  PROVE  NoteInv'
<1> SUFFICES ASSUME NEW p \in Planes PROVE (NotedSent(p) /\ NotedKept(p) /\ NotedFrame(p))'
  BY DEF NoteInv
<1>1. /\ UNCHANGED <<kind, asked, hw, unsent>> /\ pc[d] = "setup" /\ pc'[d] = "ioctl"
      /\ \A e \in Displays : e # d => pc'[e] = pc[e] /\ req'[e] = req[e]
  BY DEF UnsetUnusedResources, DpInv, DpTypes
<1>2. \A e \in Displays : Pending(e)' <=> Pending(e)
  BY <1>1 DEF Pending
<1>3. CASE p \in Unused(d)
  <2>1. /\ request[p] = None /\ request'[p] = None /\ assigned[p] = d /\ fp16'[p] = None
        /\ req'[d][p].fp16 = Queue(req[d][p].fp16, fp16[p], None)
    <3>1. request[p] = None /\ assigned[p] = d /\ Requested(d)[p] = None
      BY <1>3, NamesAreDistinct DEF Unused, Requested
    <3>2. request'[p] = None /\ fp16'[p] = None
      BY <1>3, <3>1 DEF UnsetUnusedResources, Fp16AfterUnset
    <3>3. req'[d][p].fp16 = Queue(req[d][p].fp16, fp16[p], None)
      BY <1>3 DEF UnsetUnusedResources, DpInv, DpTypes
    <3> QED
      BY <3>1, <3>2, <3>3
  <2>2. \A e \in Displays : req[e][p].fp16 = Absent
    BY <1>1, <2>1, NothingForOthers DEF Sends
  <2>3. NotedSent(p)'
    BY <1>1, <2>1, <2>2 DEF NotedSent, Queue
  <2>4. NotedKept(p)'
    <3>1. CASE fp16[p] = None
      BY <1>1, <2>1, <2>2, <3>1 DEF NoteInv, NotedKept
    <3>2. CASE fp16[p] # None
      BY <1>1, <2>1, <3>2, NamesAreDistinct DEF NotedKept, Pending, Queue
    <3> QED
      BY <3>1, <3>2
  <2>5. NotedFrame(p)'
    BY <2>1, NamesAreDistinct DEF NotedFrame
  <2> QED
    BY <2>3, <2>4, <2>5
<1>4. CASE p \notin Unused(d)
  <2>1. fp16'[p] = fp16[p] /\ \A e \in Displays : req'[e][p].fp16 = req[e][p].fp16
    BY <1>1, <1>4 DEF UnsetUnusedResources, Fp16AfterUnset, DpInv, DpTypes
  <2>2. ASSUME NEW e \in Displays, request'[p] = e, kind[e] \in Frames PROVE request[p] = e
    BY <2>2, NamesAreDistinct DEF UnsetUnusedResources, Requested, Frames
  <2> QED
    BY <1>1, <1>2, <2>1, <2>2 DEF NoteInv, NotedSent, NotedKept, NotedFrame
<1> QED
  BY <1>3, <1>4

\* What is applied was noted; what was only tested or refused is in unsent.
LEMMA NoteIoctl ==
  ASSUME DpInv, NoteInv, NEW d \in Displays, AtomicIoctl(d)
  PROVE  NoteInv'
<1> SUFFICES ASSUME NEW p \in Planes PROVE (NotedSent(p) /\ NotedKept(p) /\ NotedFrame(p))'
  BY DEF NoteInv
<1>1. /\ UNCHANGED <<request, fp16, req, kind, asked>> /\ pc[d] = "ioctl" /\ pc'[d] = "post"
      /\ \A e \in Displays : e # d => pc'[e] = pc[e]
  BY DEF AtomicIoctl, DpInv, DpTypes
<1>2. NotedSent(p)' /\ NotedFrame(p)'
  BY <1>1 DEF NoteInv, NotedSent, NotedFrame, Pending
<1>3. CASE req[d][p].fp16 = Absent
  <2>1. hw'[p].fp16 = hw[p].fp16 /\ (p \in unsent' <=> p \in unsent)
    BY <1>3 DEF AtomicIoctl, Applied, DpInv, DpTypes, Plane
  <2> QED
    BY <1>1, <1>2, <1>3, <2>1 DEF NoteInv, NotedKept, Pending
<1>4. CASE req[d][p].fp16 # Absent
  <2>1. p \in unsent' \/ hw'[p].fp16 = req[d][p].fp16
    BY <1>4 DEF AtomicIoctl, Applied, DpInv, DpTypes
  <2>2. fp16[p] = req[d][p].fp16
    BY <1>1, <1>4 DEF NoteInv, NotedSent, Pending
  <2> QED
    BY <1>1, <1>2, <2>1, <2>2 DEF NotedKept
<1> QED
  BY <1>3, <1>4

\* The round is over: its request no longer counts, and did not since the kernel answered.
LEMMA NotePost ==
  ASSUME DpInv, NoteInv, NEW d \in Displays, PostValidate(d) \/ PostCommit(d)
  PROVE  NoteInv'
<1> SUFFICES ASSUME NEW p \in Planes PROVE (NotedSent(p) /\ NotedKept(p) /\ NotedFrame(p))'
  BY DEF NoteInv
<1>1. /\ UNCHANGED <<fp16, hw, unsent>> /\ ~Pending(d) /\ ~Pending(d)'
      /\ \A e \in Displays : e # d => /\ Pending(e)' <=> Pending(e)
                                     /\ UNCHANGED <<req[e], kind[e], asked[e]>>
  BY DEF PostValidate, PostCommit, Finished, Pending, DpInv, DpTypes
<1>2. request'[p] # d /\ request'[p] \in {None, request[p]}
  BY NamesAreDistinct DEF PostValidate, PostCommit, Mine
<1> QED
  BY <1>1, <1>2, NamesAreDistinct DEF NoteInv, NotedSent, NotedKept, NotedFrame

\* Planes whose conversion the trusted VM changed are in unsent.
LEMMA NoteTUIEnd ==
  ASSUME DpInv, NoteInv, NEW d \in Displays, NEW v \in Values, NEW f \in Fp16s,
         HandleTUIEnd(d, v, f)
  PROVE  NoteInv'
<1> SUFFICES ASSUME NEW p \in Planes PROVE (NotedSent(p) /\ NotedKept(p) /\ NotedFrame(p))'
  BY DEF NoteInv
<1>1. /\ UNCHANGED <<request, fp16, req, kind, asked, pc>>
      /\ p \notin unsent' => p \notin unsent /\ hw'[p].fp16 = hw[p].fp16
  BY TUIEndDoes DEF DpInv
<1> QED
  BY <1>1 DEF NoteInv, NotedSent, NotedKept, NotedFrame, Pending

\* Each step of the planes keeps the invariant of the notes.
LEMMA NoteStep == DpInv /\ NoteInv /\ [DpNext]_dpVars => NoteInv'
<1> SUFFICES ASSUME DpInv, NoteInv, [DpNext]_dpVars PROVE NoteInv'
  OBVIOUS
<1>1. CASE UNCHANGED dpVars
  BY <1>1 DEF dpVars, NoteInv, NotedSent, NotedKept, NotedFrame, Pending
<1>2. ASSUME NEW d \in Displays,
             \/ \E k \in Frames \cup Commits : Begin(d, k)
             \/ ResetPlanesLUT(d)
             \/ \E p \in Planes, u \in Use : SetPlane(d, p, u)
             \/ UnsetUnusedResources(d) \/ AtomicIoctl(d) \/ PostValidate(d) \/ PostCommit(d)
             \/ \E v \in Values, f \in Fp16s : HandleTUIEnd(d, v, f)
      PROVE  NoteInv'
  BY <1>2, NoteBegin, NoteReset, NoteSet, NoteUnset, NoteIoctl, NotePost, NoteTUIEnd
<1> QED
  BY <1>1, <1>2 DEF DpNext

\* Both invariants, in every behavior.
LEMMA NoteInvariance == DpSpec => [](DpInv /\ NoteInv)
<1> QED
  BY DpInitEstablishes, NoteInit, DpStepPreserves, NoteStep, PTL DEF DpSpec

-----------------------------------------------------------------------------
(* The LUTs. *)

\* Before any LUT was reset no frame has been set up and no plane is used.
Fresh ==
  /\ resetLuts
  /\ \A p \in Planes : request[p] = None /\ assigned[p] = None /\ lut[p] = "inactive"
  /\ \A d \in Displays, p \in Planes : req[d][p].lut = Absent
  /\ \A d \in Displays : kind[d] \in Frames => pc[d] \in {"idle", "reset"}

\* What the state of a LUT says of the LUT.
Fine(p) == /\ lut[p] = "inactive" => hw[p].lut = "off"
           /\ lut[p] = "active" => hw[p].lut # "stale"

\* A plane without a LUT has none set.
NoLut(p) == p \notin LutPlanes =>
  lut[p] = "inactive" /\ hw[p].lut = "off" /\ \A d \in Displays : req[d][p].lut = Absent

\* No operation is queued outside of a round, and none is set for a plane not asked for.
Silent(p) == \A d \in Displays :
  /\ pc[d] \in {"idle", "reset"} => req[d][p].lut = Absent
  /\ req[d][p].lut = "on" => request[p] = d

\* The LUT of a plane that is shown is not stale, and of a plane that is off not on.
Clean(p) == /\ p \notin doubt /\ hw[p].crtc # None => hw[p].lut # "stale"
            /\ hw[p].crtc = None => hw[p].lut # "on"

\* The state of a plane nobody asks for; the LUT of one that is given up is dirty.
LutAtRest(p) == request[p] = None =>
  /\ p \notin doubt => Fine(p)
  /\ \A d \in Displays : assigned[p] = d =>
       /\ pc[d] = "setup" \/ (pc[d] = "ioctl" /\ kind[d] \in Commits) =>
            (req[d][p].lut = "off" => lut[p] = "dirty")
       /\ pc[d] = "ioctl" /\ kind[d] \in Commits => lut[p] # "active"

\* The state of a plane that d asks for: what is queued agrees with it.
LutInRound(p) == \A d \in Displays : request[p] = d =>
  /\ pc[d] # "post" =>
       /\ req[d][p].lut = "on" => lut[p] # "inactive"
       /\ p \notin doubt /\ asked[d][p] # None /\ asked[d][p].op = "set" =>
            req[d][p].lut = "on" /\ lut[p] = "active"
  /\ p \notin doubt =>
       /\ req[d][p].lut = Absent \/ Done(d) => Fine(p)
       /\ pc[d] = "ioctl" /\ kind[d] \in Commits => lut[p] # "dirty"

\* The type of the LUT states.
LutTypes == lut \in [Planes -> {"inactive", "active", "dirty"}]

\* The LUTs between rounds and in them.
Settled == \A p \in Planes : LutAtRest(p) /\ LutInRound(p)

\* The inductive invariant of the LUTs, next to DpInv.
LutInv ==
  /\ LutTypes
  /\ \A p \in Planes : NoLut(p) /\ Silent(p) /\ Clean(p)
  /\ Fresh \/ Settled

\* The LUTs were not reset yet.
LEMMA LutInit == DpInit => LutInv
<1> SUFFICES ASSUME DpInit PROVE LutInv
  OBVIOUS
<1>1. LutTypes /\ Fresh
  BY NamesAreDistinct DEF DpInit, LutTypes, Fresh, Nothing, Frames
<1>2. ASSUME NEW p \in Planes PROVE NoLut(p) /\ Silent(p) /\ Clean(p)
  BY <1>2, NamesAreDistinct, AbsentIsNoLutState DEF DpInit, NoLut, Silent, Clean, Nothing
<1> QED
  BY <1>1, <1>2 DEF LutInv

\* Nothing is queued yet.
LEMMA LutBegin ==
  ASSUME DpInv, LutInv, NEW d \in Displays, NEW k \in Frames \cup Commits, Begin(d, k)
  PROVE  LutInv'
<1> USE NamesAreDistinct, AbsentIsNoLutState
<1>1. LutTypes'
  BY DEF Begin, LutInv, LutTypes, Use, LutOps, DpInv, DpTypes
<1>2. ASSUME NEW p \in Planes PROVE NoLut(p)'
  BY <1>2 DEF Begin, LutInv, NoLut
<1>3. ASSUME NEW p \in Planes PROVE Silent(p)'
  BY <1>3 DEF Begin, LutInv, Silent
<1>4. ASSUME NEW p \in Planes PROVE Clean(p)'
  BY <1>4 DEF Begin, LutInv, Clean
<1>5. CASE Fresh
  BY <1>1, <1>2, <1>3, <1>4, <1>5 DEF Begin, LutInv, Fresh, DpInv, DpTypes
<1>6. CASE Settled
  <2>1. ASSUME NEW p \in Planes PROVE LutAtRest(p)'
    <3>1. UNCHANGED <<request, assigned, lut, hw, doubt, req>>
      BY DEF Begin
    <3>2. req[d][p].lut = Absent
      BY <2>1 DEF Begin, LutInv, Silent
    <3>3. \A e \in Displays : e # d => pc'[e] = pc[e] /\ kind'[e] = kind[e]
      BY DEF Begin, DpInv, DpTypes
    <3>4. pc'[d] # "ioctl"
      BY DEF Begin, DpInv, DpTypes
    <3> QED
      BY <1>6, <2>1, <3>1, <3>2, <3>3, <3>4 DEF Settled, LutAtRest, Fine
  <2>2. ASSUME NEW p \in Planes PROVE LutInRound(p)'
    BY <1>6, <2>2 DEF Begin, Settled, LutInRound, Fine, Done
  <2> QED
    BY <1>1, <1>2, <1>3, <1>4, <2>1, <2>2 DEF LutInv, Settled
<1> QED
  BY <1>5, <1>6 DEF LutInv

\* The LUTs that are nobody's or the display's own are dirty until a frame uses them.
LEMMA LutReset ==
  ASSUME DpInv, LutInv, NEW d \in Displays, ResetPlanesLUT(d)
  PROVE  LutInv'
<1> USE NamesAreDistinct, AbsentIsNoLutState
<1>1. LutTypes'
  BY DEF ResetPlanesLUT, MarkedDirty, Others, LutInv, LutTypes, Use, LutOps, DpInv, DpTypes
<1>2. ASSUME NEW p \in Planes PROVE NoLut(p)'
  BY <1>2 DEF ResetPlanesLUT, MarkedDirty, LutInv, NoLut
<1>3. ASSUME NEW p \in Planes PROVE Silent(p)'
  BY <1>3 DEF ResetPlanesLUT, LutInv, Silent, DpInv, DpTypes
<1>4. ASSUME NEW p \in Planes PROVE Clean(p)'
  BY <1>4 DEF ResetPlanesLUT, LutInv, Clean
<1>5. CASE Fresh
  BY <1>1, <1>2, <1>3, <1>4, <1>5 DEF ResetPlanesLUT, MarkedDirty, LutInv, Settled, Fresh,
       NoLut, LutAtRest, LutInRound, Fine
<1>6. CASE Settled
  <2>1. ASSUME NEW p \in Planes PROVE LutAtRest(p)'
    <3>1. CASE p \in LutPlanes
      BY <2>1, <3>1 DEF ResetPlanesLUT, MarkedDirty, LutAtRest, Fine
    <3>2. CASE p \notin LutPlanes
      <4>1. lut'[p] = lut[p] /\ hw'[p] = hw[p] /\ lut[p] = "inactive" /\ hw[p].lut = "off"
        BY <2>1, <3>2 DEF ResetPlanesLUT, MarkedDirty, LutInv, NoLut
      <4>2. \A e \in Displays : req'[e][p].lut = Absent
        BY <1>2, <2>1, <3>2 DEF NoLut
      <4> QED
        BY <4>1, <4>2 DEF LutAtRest, Fine
    <3> QED
      BY <3>1, <3>2
  <2>2. ASSUME NEW p \in Planes PROVE LutInRound(p)'
    BY <1>6, <2>2 DEF ResetPlanesLUT, MarkedDirty, Others, LutInv, Settled, NoLut, Silent,
         LutInRound, Fine
  <2> QED
    BY <1>1, <1>2, <1>3, <1>4, <2>1, <2>2 DEF LutInv, Settled
<1> QED
  BY <1>5, <1>6 DEF LutInv

\* What is queued is what the state says.
LEMMA LutSet ==
  ASSUME DpInv, LutInv, NEW d \in Displays, NEW q \in Planes, NEW u \in Use, SetPlane(d, q, u)
  PROVE  LutInv'
<1> USE NamesAreDistinct, AbsentIsNoLutState
<1>1. LutTypes'
  BY DEF SetPlane, Available, LutAfter, LutOps, Use, LutInv, LutTypes, DpInv, DpTypes
<1>2. ASSUME NEW p \in Planes PROVE NoLut(p)'
  BY <1>2 DEF SetPlane, LutAfter, LutInv, NoLut
<1>3. ASSUME NEW p \in Planes PROVE Silent(p)'
  BY <1>3 DEF SetPlane, Available, LutInv, Silent, DpInv, DpTypes
<1>4. ASSUME NEW p \in Planes PROVE Clean(p)'
  BY <1>4 DEF SetPlane, LutInv, Clean
<1>5. CASE Fresh
  BY <1>1, <1>2, <1>3, <1>4, <1>5 DEF SetPlane, Fresh
<1>6. CASE Settled
  <2>1. ASSUME NEW p \in Planes PROVE LutAtRest(p)'
    BY <1>6, <2>1 DEF SetPlane, Settled, LutAtRest, Fine, DpInv, DpTypes
  <2>2. ASSUME NEW p \in Planes PROVE LutInRound(p)'
    <3>1. CASE p = q
      <4>1. request[p] = None /\ request'[p] = d /\ asked'[d][p] = u /\ hw'[p] = hw[p]
            /\ lut'[p] = LutAfter(lut[p], u.op) /\ pc'[d] = "setup" /\ doubt' = doubt
        BY <2>2, <3>1 DEF SetPlane, Available, DpInv, DpTypes, LutInv, LutTypes
      <4>2. req[d][p].lut # "on"
        BY <2>2, <4>1 DEF LutInv, Silent
      <4>3. req'[d][p].lut =
              IF u.op = "keep" THEN req[d][p].lut ELSE IF u.op = "set" THEN "on" ELSE "off"
        BY <2>2, <3>1 DEF SetPlane, DpInv, DpTypes
      <4>4. p \notin doubt => Fine(p)
        BY <1>6, <2>2, <4>1 DEF Settled, LutAtRest
      <4> QED
        BY <4>1, <4>2, <4>3, <4>4 DEF LutInRound, LutAfter, Fine, Use, LutOps, Done
    <3>2. CASE p # q
      <4>1. UNCHANGED <<request[p], lut[p], hw[p], doubt, pc, kind, ok>>
        BY <2>2, <3>2 DEF SetPlane, DpInv, DpTypes, LutInv, LutTypes
      <4>2. \A e \in Displays : req'[e][p] = req[e][p] /\ asked'[e][p] = asked[e][p]
        BY <2>2, <3>2 DEF SetPlane, DpInv, DpTypes
      <4> QED
        <5>1. Fine(p)' <=> Fine(p)
          BY <4>1 DEF Fine
        <5>2. ASSUME NEW e \in Displays, request[p] = e
              PROVE  /\ pc'[e] # "post" =>
                          /\ req'[e][p].lut = "on" => lut'[p] # "inactive"
                          /\ p \notin doubt' /\ asked'[e][p] # None /\ asked'[e][p].op = "set" =>
                               req'[e][p].lut = "on" /\ lut'[p] = "active"
                     /\ p \notin doubt' =>
                          /\ req'[e][p].lut = Absent \/ Done(e)' => Fine(p)'
                          /\ pc'[e] = "ioctl" /\ kind'[e] \in Commits => lut'[p] # "dirty"
          BY <1>6, <2>2, <4>1, <4>2, <5>1, <5>2 DEF Settled, LutInRound, Done
        <5> QED
          BY <4>1, <5>2 DEF LutInRound
    <3> QED
      BY <3>1, <3>2
  <2> QED
    BY <1>1, <1>2, <1>3, <1>4, <2>1, <2>2 DEF LutInv, Settled
<1> QED
  BY <1>5, <1>6 DEF LutInv

\* In a commit a LUT that is in use is no longer dirty, and one that is given up no longer active.
LEMMA LutUnset ==
  ASSUME DpInv, LutInv, NEW d \in Displays, UnsetUnusedResources(d)
  PROVE  LutInv'
<1> USE NamesAreDistinct, AbsentIsNoLutState
<1>1. LutTypes'
  BY DEF UnsetUnusedResources, Unused, InUse, Requested, ClearsLut, LutInv, LutTypes, Use, LutOps,
       DpInv, DpTypes
<1>2. ASSUME NEW p \in Planes PROVE NoLut(p)'
  BY <1>2 DEF UnsetUnusedResources, ClearsLut, LutInv, NoLut
<1>3. ASSUME NEW p \in Planes PROVE Silent(p)'
  BY <1>3 DEF UnsetUnusedResources, Unused, Requested, ClearsLut, LutInv, Silent, DpInv, PlaneInv,
       Requests
<1>4. ASSUME NEW p \in Planes PROVE Clean(p)'
  BY <1>4 DEF UnsetUnusedResources, LutInv, Clean
<1>5. CASE Fresh
  BY <1>1, <1>2, <1>3, <1>4, <1>5 DEF UnsetUnusedResources, Requested, ClearsLut, LutInv, Fresh
<1>6. CASE Settled
  <2>1. ASSUME NEW p \in Planes PROVE LutAtRest(p)'
    BY <1>6, <2>1 DEF UnsetUnusedResources, Unused, InUse, Requested, ClearsLut, Settled,
         LutAtRest, Fine, DpInv, DpTypes
  <2>2. ASSUME NEW p \in Planes PROVE LutInRound(p)'
    <3>1. UNCHANGED <<hw, doubt, asked, kind, ok>>
      BY DEF UnsetUnusedResources
    <3>2. ASSUME NEW e \in Displays, request'[p] = e, e # d
          PROVE  /\ request[p] = e /\ lut'[p] = lut[p] /\ pc'[e] = pc[e]
                 /\ req'[e][p].lut = req[e][p].lut
      BY <2>2, <3>2 DEF UnsetUnusedResources, ClearsLut, Unused, InUse, Requested, DpInv, DpTypes,
           LutInv, LutTypes, PlaneInv, Requests
    <3>3. ASSUME request'[p] = d
          PROVE  /\ req'[d][p].lut = IF lut[p] = "dirty" THEN "off" ELSE req[d][p].lut
                 /\ lut'[p] =
                      IF lut[p] = "dirty" /\ kind[d] \in Commits THEN "inactive" ELSE lut[p]
                 /\ pc[d] = "setup" /\ pc'[d] = "ioctl"
      BY <2>2, <3>3 DEF UnsetUnusedResources, ClearsLut, Unused, InUse, Requested, DpInv, DpTypes,
           LutInv, LutTypes
    <3>4. ASSUME request'[p] = d
          PROVE  /\ req[d][p].lut = "on" => lut[p] # "inactive"
                 /\ p \notin doubt /\ asked[d][p] # None /\ asked[d][p].op = "set" =>
                      req[d][p].lut = "on" /\ lut[p] = "active"
                 /\ p \notin doubt /\ req[d][p].lut = Absent => Fine(p)
      <4>1. CASE request[p] = d
        BY <1>6, <2>2, <3>3, <3>4, <4>1 DEF Settled, LutInRound
      <4>2. CASE request[p] # d
        <5>1. request[p] = None
          BY <2>2, <3>4, <4>2 DEF UnsetUnusedResources, Requested, DpInv, DpTypes, PlaneInv,
                 Requests
        <5>2. asked[d][p] = None /\ req[d][p].lut # "on"
          BY <2>2, <4>2 DEF DpInv, PlaneInv, Framed, LutInv, Silent
        <5> QED
          BY <1>6, <2>2, <5>1, <5>2 DEF Settled, LutAtRest
      <4> QED
        BY <4>1, <4>2
    <3> QED
      BY <1>6, <2>2, <3>1, <3>2, <3>3, <3>4 DEF Settled, LutInRound, Fine, Done
  <2> QED
    BY <1>1, <1>2, <1>3, <1>4, <2>1, <2>2 DEF LutInv, Settled
<1> QED
  BY <1>5, <1>6 DEF LutInv

\* What a call of the kernel does to a plane and its LUT: nothing; it is set, turned off
\* or, as another display's or nobody's, left alone.
NotApplied(d, p) == hw'[p] = hw[p] /\ doubt' = doubt /\ ~Done(d)'

\* The plane is shown by d, with the LUT that is queued, if any.
SetOn(d, p) ==
  /\ kind[d] \in Commits /\ request[p] = d /\ hw'[p].crtc = d
  /\ hw'[p].lut = IF req[d][p].lut = Absent THEN hw[p].lut ELSE req[d][p].lut
  /\ p \in doubt' <=> p \in doubt /\ req[d][p].lut = Absent

\* d gave the plane up: a LUT that is not off is stale.
TurnedOff(d, p) ==
  /\ kind[d] \in Commits /\ request[p] = None /\ assigned[p] = d /\ hw'[p].crtc = None
  /\ hw'[p].lut = IF hw[p].lut = "off" THEN "off" ELSE "stale"
  /\ p \in doubt' <=> p \in doubt /\ req[d][p].lut = Absent

\* The plane is another display's or nobody's.
LeftAlone(d, p) ==
  /\ Owner(p) # d /\ hw'[p].crtc = hw[p].crtc
  /\ p \notin doubt' => p \notin doubt /\ hw'[p].lut = hw[p].lut
  /\ hw[p].crtc = None => hw'[p].lut = hw[p].lut

\* These are all the outcomes for a plane.
LEMMA IoctlOnLut ==
  ASSUME DpInv, LutInv, NEW d \in Displays, AtomicIoctl(d), NEW p \in Planes
  PROVE  NotApplied(d, p) \/ SetOn(d, p) \/ TurnedOff(d, p) \/ LeftAlone(d, p)
<1> USE NamesAreDistinct, AbsentIsNoLutState
<1>1. CASE hw' = hw /\ doubt' = doubt /\ ~Done(d)'
  BY <1>1 DEF NotApplied
<1>2. CASE ~(hw' = hw /\ doubt' = doubt /\ ~Done(d)')
  <2>1. /\ kind[d] \in Commits /\ pc[d] = "ioctl" /\ hw'[p] = Applied(hw[p], req[d][p])
        /\ p \in doubt' <=> \/ p \in doubt /\ ~(req[d][p].lut # Absent /\ p \in Mine(d))
                            \/ req[d][p].lut # Absent /\ p \in Others(d)
    BY <1>2 DEF AtomicIoctl, Done, DpInv, DpTypes
  <2>2. CASE request[p] = d
    <3>1. hw'[p].crtc = d /\ p \in Mine(d) /\ p \notin Others(d)
      BY <2>1, <2>2 DEF Mine, Others, DpInv, PlaneInv, Requests, Tried, Will
    <3>2. hw'[p].lut = IF req[d][p].lut = Absent THEN hw[p].lut ELSE req[d][p].lut
      BY <2>1, <2>2, <3>1 DEF Applied
    <3> QED
      BY <2>1, <2>2, <3>1, <3>2 DEF SetOn
  <2>3. CASE request[p] = None /\ assigned[p] = d
    <3>1. req[d][p].crtc = None /\ p \in Mine(d) /\ p \notin Others(d)
      BY <2>1, <2>3 DEF Mine, Others, DpInv, PlaneInv, GivenUp
    <3>2. hw'[p].crtc = None /\ hw'[p].lut = IF hw[p].lut = "off" THEN "off" ELSE "stale"
      BY <2>1, <3>1 DEF Applied
    <3> QED
      BY <2>1, <2>3, <3>1, <3>2 DEF TurnedOff
  <2>4. CASE Owner(p) # d
    <3>1. ~Sends(d, p) /\ p \notin Mine(d)
      BY <2>4 DEF Owner, Mine, DpInv, DpTypes, PlaneInv, Sent, Requests
    <3>2. hw'[p].crtc = hw[p].crtc
      BY <2>1, <3>1 DEF Applied, Sends
    <3>3. hw[p].crtc = None => hw'[p].lut = hw[p].lut
      BY <2>1, <3>1 DEF Applied, Sends, LutInv, Clean, DpInv, DpTypes, Plane
    <3>4. hw[p].crtc # None => p \in Others(d)
      BY <2>4 DEF Owner, Others, DpInv, DpTypes, PlaneInv, Known, Booked
    <3>5. hw[p].crtc # None /\ req[d][p].lut = Absent => hw'[p].lut = hw[p].lut
      BY <2>1, <3>1 DEF Applied, Sends
    <3> QED
      BY <2>1, <2>4, <3>1, <3>2, <3>3, <3>4, <3>5 DEF LeftAlone
  <2> QED
    BY <2>2, <2>3, <2>4 DEF Owner
<1> QED
  BY <1>1, <1>2

\* The LUT of a plane of the display is what was queued or, where nothing was, still fine.
LEMMA LutIoctl ==
  ASSUME DpInv, LutInv, NEW d \in Displays, AtomicIoctl(d)
  PROVE  LutInv'
<1> USE NamesAreDistinct, AbsentIsNoLutState
<1>1. LutTypes'
  BY DEF AtomicIoctl, Mine, Others, Applied, LutInv, LutTypes, Use, LutOps, DpInv, DpTypes
<1>2. ASSUME NEW p \in Planes PROVE NoLut(p)'
  BY <1>2 DEF AtomicIoctl, Applied, LutInv, NoLut
<1>3. ASSUME NEW p \in Planes PROVE Silent(p)'
  BY <1>3 DEF AtomicIoctl, LutInv, Silent
<1>4. ASSUME NEW p \in Planes PROVE Clean(p)'
  <2>1. /\ pc[d] = "ioctl" /\ lut[p] \in {"inactive", "active", "dirty"}
        /\ hw[p].lut \in {"off", "on", "stale"}
    BY <1>4 DEF AtomicIoctl, LutInv, LutTypes, DpInv, DpTypes, Plane
  <2>2. CASE NotApplied(d, p)
    BY <1>4, <2>2 DEF NotApplied, LutInv, Clean
  <2>3. CASE SetOn(d, p)
    <3>1. Settled
      BY <1>4, <2>3 DEF SetOn, LutInv, Fresh
    <3>2. req[d][p].lut = Absent /\ p \notin doubt => hw[p].lut # "stale"
      BY <1>4, <2>1, <2>3, <3>1 DEF SetOn, Settled, LutInRound, Fine
    <3>3. req[d][p].lut \in {"on", "off", Absent}
      BY <1>4 DEF DpInv, DpTypes, Request
    <3> QED
      BY <2>3, <3>2, <3>3 DEF SetOn, Clean
  <2>4. CASE TurnedOff(d, p)
    BY <2>4 DEF TurnedOff, Clean
  <2>5. CASE LeftAlone(d, p)
    BY <1>4, <2>5 DEF LeftAlone, LutInv, Clean
  <2> QED
    BY <1>4, <2>2, <2>3, <2>4, <2>5, IoctlOnLut
<1>5. CASE Fresh
  BY <1>1, <1>2, <1>3, <1>4, <1>5 DEF AtomicIoctl, LutInv, Fresh
<1>6. CASE Settled
  <2>1. ASSUME NEW p \in Planes PROVE LutAtRest(p)'
    <3>1. UNCHANGED <<request, assigned, lut, req, kind>> /\ pc[d] = "ioctl" /\ pc'[d] = "post"
          /\ \A e \in Displays : e # d => pc'[e] = pc[e]
      BY DEF AtomicIoctl, DpInv, DpTypes
    <3>2. CASE NotApplied(d, p)
      BY <1>6, <2>1, <3>1, <3>2 DEF NotApplied, Settled, LutAtRest, Fine
    <3>3. CASE SetOn(d, p)
      BY <3>1, <3>3 DEF SetOn, LutAtRest
    <3>4. CASE TurnedOff(d, p)
      <4>1. /\ lut[p] # "active" /\ req[d][p].lut # "on"
            /\ (req[d][p].lut = "off" => lut[p] = "dirty")
        BY <1>6, <2>1, <3>1, <3>4 DEF TurnedOff, Settled, LutAtRest, LutInv, Silent
      <4>2. p \notin doubt => Fine(p)
        BY <1>6, <2>1, <3>4 DEF TurnedOff, Settled, LutAtRest
      <4>3. p \notin doubt' => Fine(p)'
        <5>1. req[d][p].lut \in {"on", "off", Absent}
          BY <2>1 DEF DpInv, DpTypes, Request
        <5> QED
          BY <3>1, <3>4, <4>1, <4>2, <5>1 DEF TurnedOff, Fine
      <4> QED
        BY <3>1, <3>4, <4>3 DEF TurnedOff, LutAtRest
    <3>5. CASE LeftAlone(d, p)
      <4>1. p \notin doubt' /\ request[p] = None => Fine(p)'
        BY <1>6, <2>1, <3>1, <3>5 DEF LeftAlone, Settled, LutAtRest, Fine
      <4> QED
        BY <1>6, <2>1, <3>1, <3>5, <4>1 DEF LeftAlone, Owner, Settled, LutAtRest
    <3> QED
      BY <2>1, <3>2, <3>3, <3>4, <3>5, IoctlOnLut
  <2>2. ASSUME NEW p \in Planes PROVE LutInRound(p)'
    <3>1. /\ UNCHANGED <<request, assigned, lut, req, kind, asked>>
          /\ pc[d] = "ioctl" /\ pc'[d] = "post"
          /\ \A e \in Displays : e # d => pc'[e] = pc[e] /\ ok'[e] = ok[e]
      BY DEF AtomicIoctl, DpInv, DpTypes
    <3>2. CASE NotApplied(d, p)
      BY <1>6, <2>2, <3>1, <3>2 DEF NotApplied, Settled, LutInRound, Fine, Done
    <3>3. CASE SetOn(d, p)
      <4>1. req[d][p].lut \in {"on", "off", Absent} /\ lut[p] \in {"inactive", "active", "dirty"}
        BY <2>2 DEF LutInv, LutTypes, DpInv, DpTypes, Request
      <4>2. req[d][p].lut = "on" => lut[p] # "inactive"
        BY <1>6, <2>2, <3>1, <3>3 DEF SetOn, Settled, LutInRound
      <4>3. p \notin doubt /\ req[d][p].lut = Absent => Fine(p)
        BY <1>6, <2>2, <3>3 DEF SetOn, Settled, LutInRound
      <4>4. p \notin doubt' => Fine(p)'
        BY <3>1, <3>3, <4>1, <4>2, <4>3 DEF SetOn, Fine
      <4> QED
        BY <3>1, <3>3, <4>4 DEF SetOn, LutInRound
    <3>4. CASE TurnedOff(d, p)
      BY <3>1, <3>4 DEF TurnedOff, LutInRound
    <3>5. CASE LeftAlone(d, p)
      <4>1. p \notin doubt' => p \notin doubt /\ (Fine(p) => Fine(p)')
        BY <3>1, <3>5 DEF LeftAlone, Fine
      <4>2. request[p] # d
        BY <3>5 DEF LeftAlone, Owner
      <4> QED
        BY <1>6, <2>2, <3>1, <4>1, <4>2 DEF Settled, LutInRound, Done
    <3> QED
      BY <2>2, <3>2, <3>3, <3>4, <3>5, IoctlOnLut
  <2> QED
    BY <1>1, <1>2, <1>3, <1>4, <2>1, <2>2 DEF LutInv, Settled
<1> QED
  BY <1>5, <1>6 DEF LutInv

\* What did not reach the hardware is dirty or in doubt.
LEMMA LutPostValidate ==
  ASSUME DpInv, LutInv, NEW d \in Displays, PostValidate(d)
  PROVE  LutInv'
<1> USE NamesAreDistinct, AbsentIsNoLutState
<1>1. LutTypes'
  BY DEF PostValidate, Finished, Nothing, AfterRefused, LutInv, LutTypes, Use, LutOps, DpInv,
         DpTypes
<1>2. ASSUME NEW p \in Planes PROVE NoLut(p)'
  BY <1>2 DEF PostValidate, Finished, Nothing, AfterRefused, LutInv, NoLut
<1>3. ASSUME NEW p \in Planes PROVE Silent(p)'
  <2>1. \A e \in Displays : e # d => pc'[e] = pc[e] /\ req'[e] = req[e]
    BY DEF PostValidate, Finished, DpInv, DpTypes
  <2>2. \A e \in Displays : e # d /\ request[p] = e => request'[p] = e
    BY <1>3 DEF PostValidate, Mine, DpInv, DpTypes, PlaneInv, Requests
  <2>3. req'[d][p].lut = Absent
    BY <1>3 DEF PostValidate, Finished, Nothing, DpInv, DpTypes
  <2> QED
    BY <1>3, <2>1, <2>2, <2>3 DEF LutInv, Silent
<1>4. ASSUME NEW p \in Planes PROVE Clean(p)'
  BY <1>4 DEF PostValidate, Finished, LutInv, Clean
<1>5. CASE Fresh
  BY <1>1, <1>2, <1>3, <1>4, <1>5 DEF PostValidate, Finished, Nothing, LutInv, Fresh, Frames
<1>6. CASE Settled
  <2>1. ASSUME NEW p \in Planes PROVE LutAtRest(p)'
    BY <1>6, <2>1 DEF PostValidate, Finished, AfterRefused, Settled, LutAtRest, LutInRound, Fine,
         DpInv, PlaneInv, Requests
  <2>2. ASSUME NEW p \in Planes PROVE LutInRound(p)'
    BY <1>6, <2>2 DEF PostValidate, Finished, Settled, LutInRound, Fine, Done
  <2> QED
    BY <1>1, <1>2, <1>3, <1>4, <2>1, <2>2 DEF LutInv, Settled
<1> QED
  BY <1>5, <1>6 DEF LutInv

\* What was fine in the round is fine outside of it.
LEMMA LutPostCommit ==
  ASSUME DpInv, LutInv, NEW d \in Displays, PostCommit(d)
  PROVE  LutInv'
<1> USE NamesAreDistinct, AbsentIsNoLutState
<1>1. LutTypes'
  BY DEF PostCommit, Finished, Nothing, NowAssigned, Mine, LutInv, LutTypes, Use, LutOps, DpInv,
       DpTypes
<1>2. ASSUME NEW p \in Planes PROVE NoLut(p)'
  BY <1>2 DEF PostCommit, Finished, Nothing, LutInv, NoLut
<1>3. ASSUME NEW p \in Planes PROVE Silent(p)'
  <2>1. \A e \in Displays : e # d => pc'[e] = pc[e] /\ req'[e] = req[e]
    BY DEF PostCommit, Finished, DpInv, DpTypes
  <2>2. \A e \in Displays : e # d /\ request[p] = e => request'[p] = e
    BY <1>3 DEF PostCommit, Mine, DpInv, DpTypes, PlaneInv, Requests
  <2>3. req'[d][p].lut = Absent
    BY <1>3 DEF PostCommit, Finished, Nothing, DpInv, DpTypes
  <2> QED
    BY <1>3, <2>1, <2>2, <2>3 DEF LutInv, Silent
<1>4. ASSUME NEW p \in Planes PROVE Clean(p)'
  BY <1>4 DEF PostCommit, Finished, LutInv, Clean
<1>5. CASE Fresh
  <2> QED
    <3>1. kind[d] # "commit"
      BY <1>5 DEF Fresh, PostCommit, Frames
    <3>2. resetLuts' /\ UNCHANGED <<lut, hw, doubt>>
      BY <1>5, <3>1 DEF PostCommit, Finished, Fresh
    <3>3. \A p \in Planes : request'[p] = None /\ assigned'[p] = None
      BY <1>5 DEF PostCommit, NowAssigned, Fresh, DpInv, DpTypes
    <3>4. \A e \in Displays, p \in Planes : req'[e][p].lut = Absent
      BY <1>5 DEF PostCommit, Finished, Nothing, Fresh, DpInv, DpTypes
    <3>5. \A e \in Displays : kind'[e] \in Frames => pc'[e] \in {"idle", "reset"}
      BY <1>5 DEF PostCommit, Finished, Fresh, DpInv, DpTypes
    <3>6. Fresh'
      BY <1>5, <3>2, <3>3, <3>4, <3>5 DEF Fresh
    <3> QED
      BY <1>1, <1>2, <1>3, <1>4, <3>6 DEF LutInv
<1>6. CASE Settled
  <2>1. ASSUME NEW p \in Planes PROVE LutAtRest(p)'
    BY <1>6, <2>1 DEF PostCommit, Finished, NowAssigned, Mine, Settled, LutAtRest, LutInRound,
         Fine, DpInv, PlaneInv, Requests, Done
  <2>2. ASSUME NEW p \in Planes PROVE LutInRound(p)'
    BY <1>6, <2>2 DEF PostCommit, Finished, Mine, Settled, LutInRound, Fine, Done
  <2> QED
    BY <1>1, <1>2, <1>3, <1>4, <2>1, <2>2 DEF LutInv, Settled
<1> QED
  BY <1>5, <1>6 DEF LutInv

\* The LUTs are not touched.
LEMMA LutTUIEnd ==
  ASSUME DpInv, LutInv, NEW d \in Displays, NEW v \in Values, NEW f \in Fp16s,
         HandleTUIEnd(d, v, f)
  PROVE  LutInv'
<1>1. /\ UNCHANGED <<request, assigned, lut, resetLuts, req, pc, kind, ok, asked, doubt>>
      /\ \A p \in Planes : hw'[p].crtc = hw[p].crtc /\ hw'[p].lut = hw[p].lut
  BY TUIEndDoes DEF DpInv
<1>2. ASSUME NEW p \in Planes
      PROVE  /\ (Fine(p)' <=> Fine(p)) /\ (NoLut(p)' <=> NoLut(p))
             /\ (Silent(p)' <=> Silent(p)) /\ (Clean(p)' <=> Clean(p))
  BY <1>1 DEF Fine, NoLut, Silent, Clean
<1>3. ASSUME NEW p \in Planes
      PROVE  (LutAtRest(p)' <=> LutAtRest(p)) /\ (LutInRound(p)' <=> LutInRound(p))
  BY <1>1, <1>2 DEF LutAtRest, LutInRound, Done
<1>4. LutTypes' /\ (Fresh' <=> Fresh) /\ (Settled' <=> Settled)
  BY <1>1, <1>3 DEF LutInv, LutTypes, Fresh, Settled
<1> QED
  BY <1>2, <1>4 DEF LutInv

\* Each step of the planes keeps the invariant of the LUTs.
LEMMA LutStep == DpInv /\ LutInv /\ [DpNext]_dpVars => LutInv'
<1> SUFFICES ASSUME DpInv, LutInv, [DpNext]_dpVars PROVE LutInv'
  OBVIOUS
<1>1. CASE UNCHANGED dpVars
  BY <1>1 DEF dpVars, LutInv, LutTypes, Settled, Fresh, Clean, NoLut, Silent, LutAtRest,
       LutInRound, Fine, Done
<1>2. ASSUME NEW d \in Displays,
             \/ \E k \in Frames \cup Commits : Begin(d, k)
             \/ ResetPlanesLUT(d)
             \/ \E p \in Planes, u \in Use : SetPlane(d, p, u)
             \/ UnsetUnusedResources(d) \/ AtomicIoctl(d) \/ PostValidate(d) \/ PostCommit(d)
             \/ \E v \in Values, f \in Fp16s : HandleTUIEnd(d, v, f)
      PROVE  LutInv'
  BY <1>2, LutBegin, LutReset, LutSet, LutUnset, LutIoctl, LutPostValidate, LutPostCommit,
     LutTUIEnd
<1> QED
  BY <1>1, <1>2 DEF DpNext

\* Both invariants, in every behavior.
LEMMA LutInvariance == DpSpec => [](DpInv /\ LutInv)
<1> QED
  BY DpInitEstablishes, LutInit, DpStepPreserves, LutStep, PTL DEF DpSpec

-----------------------------------------------------------------------------
\* A value that is wrongly cached is never sent again: the caches of a plane hold only
\* what the kernel has or is about to have (drm_plane.cpp, AddProperty's callers); so does
\* the note of its FP16 conversion, but where a test or a refused commit changed it.
THEOREM CacheTheorem == DpSpec => []CacheIsTrue
<1>1. DpInv => PropertyMapsAreTrue
  <2> SUFFICES ASSUME DpInv, NEW p \in Planes
      PROVE  \A x \in {"crtc", "conf"} :
               /\ \/ committed[p][x] \in {Absent, hw[p][x]}
                  \/ (request[p] # None /\ pc[request[p]] = "post")
               /\ \/ tmp[p][x] \in {Absent, Coming(p)[x]}
                  \/ (request[p] # None /\ pc[request[p]] = "post")
    BY DEF PropertyMapsAreTrue
  <2>1. ASSUME ~(request[p] # None /\ pc[request[p]] = "post")
        PROVE  Agrees(committed[p], hw[p])
    BY <2>1 DEF DpInv, PlaneInv, Known, GivenUp, Booked, Owner, Done, Agrees, Empty
  <2>2. ASSUME ~(request[p] # None /\ pc[request[p]] = "post")
        PROVE  Agrees(tmp[p], Coming(p))
    BY <2>2 DEF DpInv, PlaneInv, Tried, Coming, Will
  <2> QED
    BY <2>1, <2>2 DEF Agrees
<1>2. NoteInv => Fp16NoteIsTrue
  BY DEF NoteInv, NotedSent, NotedKept, Pending, Fp16NoteIsTrue
<1> QED
  BY <1>1, <1>2, NoteInvariance, PTL DEF CacheIsTrue

\* What the kernel shows after a commit is the frame: its planes with their settings and
\* no other plane.
LEMMA FrameShown == DpInv /\ NoteInv => FrameIsShown
<1> SUFFICES ASSUME DpInv, NoteInv, NEW d \in Displays,
                    pc[d] = "post" /\ ok[d] /\ kind[d] = "commit", NEW p \in Planes
    PROVE  IF asked[d][p] = None THEN hw[p].crtc # d
           ELSE /\ hw[p].crtc = d
                /\ asked[d][p].conf # None => /\ hw[p].conf = asked[d][p].conf
                                              /\ hw[p].fp16 = asked[d][p].fp16 \/ p \in unsent
  BY DEF FrameIsShown
<1>1. Done(d) /\ kind[d] \in Frames /\ (asked[d][p] # None <=> request[p] = d)
  BY DEF Done, Frames, Commits, DpInv, PlaneInv, Framed
<1>2. ASSUME request[p] = d
      PROVE  hw[p].crtc = d /\ (asked[d][p].conf # None => hw[p].conf = asked[d][p].conf)
  BY <1>1, <1>2, NamesAreDistinct DEF DpInv, PlaneInv, Known, Booked, Owner, Framed
<1>3. ASSUME request[p] = d, asked[d][p].conf # None, p \notin unsent
      PROVE  hw[p].fp16 = asked[d][p].fp16
  <2>1. \A e \in Displays : e # d => req[e][p].fp16 = Absent
    BY <1>3, NothingForOthers, NamesAreDistinct DEF Sends
  <2>2. fp16[p] = hw[p].fp16
    BY <1>3, <2>1 DEF NoteInv, NotedKept, Pending
  <2> QED
    BY <1>1, <1>3, <2>2 DEF NoteInv, NotedFrame
<1>4. request[p] # d => hw[p].crtc # d
  BY <1>1, NamesAreDistinct DEF DpInv, PlaneInv, Requests, Known, Booked, Owner
<1> QED
  BY <1>1, <1>2, <1>3, <1>4

\* The display shows its frame and nothing stale, and knows every plane it shows
\* (HWDeviceDRM::AtomicCommit, DRMPlane::Unset and ResetColorLUTState).
THEOREM PictureTheorem == DpSpec => []ShowsItsFrame
<1>1. DpInv => ShownIsAssigned
  BY DEF DpInv, PlaneInv, Known, Booked, Owner, Done, ShownIsAssigned, DpTypes
<1>2. LutInv => NoStaleLut
  BY DEF LutInv, Clean, NoStaleLut
<1> QED
  BY <1>1, <1>2, FrameShown, LutInvariance, NoteInvariance, PTL DEF ShowsItsFrame

\* Only the call of the kernel ends that step of a display.
LEMMA CallOfTheKernel ==
  ASSUME DpInv, DpNext, NEW d \in Displays, pc[d] = "ioctl" /\ pc'[d] = "post"
  PROVE  AtomicIoctl(d)
<1>1. PICK e \in Displays :
        \/ \E k \in Frames \cup Commits : Begin(e, k)
        \/ ResetPlanesLUT(e)
        \/ \E p \in Planes, u \in Use : SetPlane(e, p, u)
        \/ UnsetUnusedResources(e) \/ AtomicIoctl(e) \/ PostValidate(e) \/ PostCommit(e)
        \/ \E v \in Values, f \in Fp16s : HandleTUIEnd(e, v, f)
  BY DEF DpNext
<1>2. pc \in [Displays -> {"idle", "reset", "setup", "ioctl", "post"}]
  BY DEF DpInv, DpTypes
<1>3. AtomicIoctl(e) => e = d
  BY <1>2 DEF AtomicIoctl
<1>4. ASSUME NEW k \in Frames \cup Commits PROVE ~Begin(e, k)
  BY <1>2 DEF Begin
<1>5. ~ResetPlanesLUT(e) /\ ~UnsetUnusedResources(e) /\ ~PostValidate(e) /\ ~PostCommit(e)
  BY <1>2 DEF ResetPlanesLUT, UnsetUnusedResources, PostValidate, PostCommit, Finished
<1>6. ASSUME NEW p \in Planes, NEW u \in Use PROVE ~SetPlane(e, p, u)
  BY DEF SetPlane
<1>7. ASSUME NEW v \in Values, NEW f \in Fp16s PROVE ~HandleTUIEnd(e, v, f)
  BY DEF HandleTUIEnd
<1> QED
  BY <1>1, <1>3, <1>4, <1>5, <1>6, <1>7

\* A null commit that retains the planes leaves the picture (HWDeviceDRM::NullCommit).
THEOREM RetainTheorem == DpSpec => RetainKeepsThePicture
<1>1. DpInv /\ [DpNext]_dpVars => [\A d \in Displays :
        pc[d] = "ioctl" /\ pc'[d] = "post" /\ kind[d] = "retain" =>
          \A p \in Planes : /\ hw'[p].crtc = hw[p].crtc /\ hw'[p].conf = hw[p].conf
                             /\ hw'[p].fp16 = hw[p].fp16]_dpVars
  <2> SUFFICES ASSUME DpInv, DpNext, NEW d \in Displays,
                      pc[d] = "ioctl" /\ pc'[d] = "post" /\ kind[d] = "retain", NEW p \in Planes
      PROVE  /\ hw'[p].crtc = hw[p].crtc /\ hw'[p].conf = hw[p].conf
             /\ hw'[p].fp16 = hw[p].fp16
    OBVIOUS
  <2>1. AtomicIoctl(d)
    BY CallOfTheKernel
  <2>2. ~Sends(d, p)
    BY DEF DpInv, PlaneInv, Retained
  <2> QED
    BY <2>1, <2>2 DEF AtomicIoctl, Sends, Applied
<1> QED
  BY <1>1, DpInvariance, PTL DEF DpSpec, RetainKeepsThePicture

\* A commit sets the LUTs its frame asks for and changes no plane of another display
\* (HWDeviceDRM::AtomicCommit, DRMPlaneManager::UnsetUnusedResources).
THEOREM CommitTheorem == DpSpec => CommitDoesItsPart
<1>1. DpInv /\ LutInv /\ [DpNext]_dpVars => [\A d \in Displays :
        pc[d] = "ioctl" /\ pc'[d] = "post" /\ ok'[d] /\ kind[d] = "commit" =>
          \A p \in Planes \ doubt :
            asked[d][p] # None /\ asked[d][p].op = "set" => hw'[p].lut = "on"]_dpVars
  <2> SUFFICES ASSUME DpInv, LutInv, DpNext, NEW d \in Displays,
                      pc[d] = "ioctl" /\ pc'[d] = "post" /\ ok'[d] /\ kind[d] = "commit",
                      NEW p \in Planes \ doubt,
                      asked[d][p] # None /\ asked[d][p].op = "set"
      PROVE  hw'[p].lut = "on"
    OBVIOUS
  <2>1. AtomicIoctl(d)
    BY CallOfTheKernel
  <2>2. request[p] = d
    BY DEF DpInv, PlaneInv, Framed
  <2>3. req[d][p].lut = "on"
    BY <2>2, NamesAreDistinct DEF LutInv, Fresh, Settled, LutInRound
  <2>4. Done(d)'
    BY <2>1 DEF AtomicIoctl, Done, Commits, DpInv, DpTypes
  <2> QED
    BY <2>1, <2>2, <2>3, <2>4, IoctlOnLut, NamesAreDistinct, AbsentIsNoLutState
       DEF NotApplied, SetOn, TurnedOff, LeftAlone, Owner
<1>2. DpInv /\ LutInv /\ [DpNext]_dpVars => [\A d \in Displays, p \in Planes :
        pc[d] = "ioctl" /\ pc'[d] = "post" /\ hw[p].crtc \notin {None, d} =>
          hw'[p] = hw[p] \/ p \in doubt']_dpVars
  <2> SUFFICES ASSUME DpInv, LutInv, DpNext, NEW d \in Displays, NEW p \in Planes,
                      pc[d] = "ioctl" /\ pc'[d] = "post" /\ hw[p].crtc \notin {None, d}
      PROVE  hw'[p] = hw[p] \/ p \in doubt'
    OBVIOUS
  <2>1. AtomicIoctl(d)
    BY CallOfTheKernel
  <2>2. pc[d] # "post" /\ request[p] # d /\ (request[p] = None => assigned[p] # d)
    BY NamesAreDistinct DEF DpInv, PlaneInv, Requests, Known, Booked, Owner, Done
  <2>3. CASE NotApplied(d, p)
    BY <2>3 DEF NotApplied
  <2>4. CASE LeftAlone(d, p)
    <3>1. ~Sends(d, p)
      BY <2>2 DEF DpInv, PlaneInv, Sent
    <3>2. hw'[p] \in Plane /\ hw[p] \in Plane
      BY <2>1, IoctlPreserves DEF DpInv, DpTypes
    <3>3. hw'[p].conf = hw[p].conf /\ hw'[p].fp16 = hw[p].fp16
      BY <2>1, <3>1 DEF AtomicIoctl, Applied, Sends, DpInv, DpTypes
    <3> QED
      BY <2>4, <3>2, <3>3 DEF LeftAlone, Plane
  <2> QED
    BY <2>1, <2>2, <2>3, <2>4, IoctlOnLut DEF SetOn, TurnedOff
<1> QED
  BY <1>1, <1>2, LutInvariance, PTL DEF DpSpec, CommitDoesItsPart, LutIsSet, OthersLeftAlone

-----------------------------------------------------------------------------
(* The tone mapper. *)

\* A session, with no bound on its fences, and a layer of any place of the stack.
Pooled == [config : Configs, current : OwnBuffers, acquired : BOOLEAN, layer : Nat,
           owner : [OwnBuffers -> {"none", "SDE", "GPUTarget"}],
           release : [OwnBuffers -> Nat], shown : [OwnBuffers -> Nat]]

\* A layer of a stack.
Staked == [comp : {"SDE", "GPU", "GPUTarget"}, config : Configs \cup {NoConfig}]

\* A blit of a frame.
Blitted == [layer : Nat, session : Nat, buffer : OwnBuffers, waits : Nat, shown : Nat,
            owner : {"none", "SDE", "GPUTarget"}, cached : BOOLEAN]

\* The types of the tone mapper.
TmTypes ==
  /\ sessions \in Seq(Pooled)
  /\ fbSession \in Int
  /\ stack \in Seq(Staked)
  /\ \A i \in DOMAIN stack : stack[i].comp = "GPU" => stack[i].config = NoConfig
  /\ tmFrame \in Nat
  /\ tmNext \in Nat
  /\ tmAt = "mapping" => tmNext \in 1..Len(stack)
  /\ tmAt = "closing" => tmNext \in Nat \ {0}
  /\ blits \subseteq Blitted

\* The framebuffer's session is in the pool; when the pool is empty the index may be the 0
\* that a failure left.
FbInPool == fbSession < Len(sessions) \/ (sessions = <<>> /\ fbSession <= 0)

\* The buffers of a session, but for the one it is writing, have the fence of the last frame
\* that showed them.
Fenced(s) == \A b \in OwnBuffers :
  s.shown[b] <= tmFrame /\ (s.shown[b] <= s.release[b] \/ (s.acquired /\ s.current = b))

\* So are those of every session.
AllFenced == \A i \in DOMAIN sessions : Fenced(sessions[i])

\* What the frame has blitted is held until its commit.
Held(b) == sessions[b.session].acquired /\ sessions[b.session].current = b.buffer

\* Of the sessions that a frame blitted with, those in the pool are held.
BlitsHeld ==
  /\ tmAt = "mapping" => \A b \in blits : b.layer < tmNext /\ b.session \in DOMAIN sessions
  /\ tmAt \in {"mapping", "mapped", "skipped"} =>
       \A b \in blits : b.session \in DOMAIN sessions => Held(b)

\* The inductive invariant of the tone mapper.
TmInv ==
  TmTypes /\ FbInPool /\ AllFenced /\ BlitsHeld /\ OneLayerPerBlit /\ BlitWaitsForDisplay

-----------------------------------------------------------------------------
\* A step of a loop changes one session, adds one or removes one.
LEMMA PutAtDoes ==
  ASSUME sessions \in Seq(Pooled), NEW s \in Pooled, NEW i \in 1..Len(sessions) + 1
  PROVE  LET q == PutAt(i, s) IN
         /\ q \in Seq(Pooled) /\ Len(q) >= Len(sessions) /\ i \in 1..Len(q)
         /\ \A j \in 1..Len(q) : q[j] = IF j = i THEN s ELSE sessions[j]
         /\ \A j \in 1..Len(q) : j # i => j \in 1..Len(sessions)
         /\ 1..Len(sessions) \subseteq 1..Len(q)
<1>1. Len(sessions) \in Nat
  BY LenProperties
<1>2. CASE i = Len(sessions) + 1
  <2>1. PutAt(i, s) = Append(sessions, s)
    BY <1>2 DEF PutAt
  <2>2. /\ Append(sessions, s) \in Seq(Pooled)
        /\ Len(Append(sessions, s)) = Len(sessions) + 1
        /\ \A j \in 1..Len(sessions) : Append(sessions, s)[j] = sessions[j]
        /\ Append(sessions, s)[Len(sessions) + 1] = s
    BY AppendProperties
  <2> QED
    BY <1>1, <1>2, <2>1, <2>2
<1>3. CASE i # Len(sessions) + 1
  <2>1. PutAt(i, s) = [sessions EXCEPT ![i] = s] /\ i \in 1..Len(sessions)
    BY <1>1, <1>3 DEF PutAt
  <2>2. /\ [sessions EXCEPT ![i] = s] \in Seq(Pooled)
        /\ Len([sessions EXCEPT ![i] = s]) = Len(sessions)
        /\ \A j \in 1 .. Len(sessions) :
             [sessions EXCEPT ![i] = s][j] = IF j = i THEN s ELSE sessions[j]
    BY <2>1, ExceptSeq
  <2> QED
    BY <1>1, <1>3, <2>1, <2>2
<1> QED
  BY <1>2, <1>3

\* A session is erased and those behind it move up.
LEMMA RemoveAtDoes ==
  ASSUME sessions \in Seq(Pooled), NEW i \in 1..Len(sessions)
  PROVE  LET q == RemoveAt(sessions, i) IN
         /\ q \in Seq(Pooled) /\ Len(q) = Len(sessions) - 1
         /\ \A j \in 1..Len(q) : q[j] = IF j < i THEN sessions[j] ELSE sessions[j + 1]
<1> DEFINE a == SubSeq(sessions, 1, i - 1)
           b == SubSeq(sessions, i + 1, Len(sessions))
<1>1. Len(sessions) \in Nat /\ \A j \in 1..Len(sessions) : sessions[j] \in Pooled
  BY LenProperties, ElementOfSeq
<1>2. /\ a \in Seq(Pooled) /\ Len(a) = i - 1
      /\ \A j \in 1..i - 1 : a[j] = sessions[j]
  <2>1. \A j \in 1..i - 1 : sessions[j] \in Pooled
    BY <1>1
  <2>2. /\ SubSeq(sessions, 1, i - 1) \in Seq(Pooled)
        /\ Len(SubSeq(sessions, 1, i - 1)) = IF 1 <= i - 1 THEN (i - 1) - 1 + 1 ELSE 0
        /\ \A j \in 1 .. (i - 1) - 1 + 1 : SubSeq(sessions, 1, i - 1)[j] = sessions[1 + j - 1]
    BY <1>1, <2>1, SubSeqProperties
  <2> QED
    BY <1>1, <2>2
<1>3. /\ b \in Seq(Pooled) /\ Len(b) = Len(sessions) - i
      /\ \A j \in 1..Len(sessions) - i : b[j] = sessions[i + j]
  <2>1. \A j \in i + 1..Len(sessions) : sessions[j] \in Pooled
    BY <1>1
  <2>2. /\ SubSeq(sessions, i + 1, Len(sessions)) \in Seq(Pooled)
        /\ Len(SubSeq(sessions, i + 1, Len(sessions))) =
             IF i + 1 <= Len(sessions) THEN Len(sessions) - (i + 1) + 1 ELSE 0
        /\ \A j \in 1 .. Len(sessions) - (i + 1) + 1 :
             SubSeq(sessions, i + 1, Len(sessions))[j] = sessions[(i + 1) + j - 1]
    BY <1>1, <2>1, SubSeqProperties
  <2> QED
    BY <1>1, <2>2
<1>4. RemoveAt(sessions, i) = a \o b
  BY DEF RemoveAt
<1> HIDE DEF a, b
<1>5. /\ a \o b \in Seq(Pooled) /\ Len(a \o b) = Len(a) + Len(b)
      /\ \A j \in 1 .. Len(a) + Len(b) : (a \o b)[j] = IF j <= Len(a) THEN a[j] ELSE b[j - Len(a)]
  BY <1>2, <1>3, ConcatProperties
<1>6. ASSUME NEW j \in 1..Len(sessions) - 1
      PROVE  (a \o b)[j] = IF j < i THEN sessions[j] ELSE sessions[j + 1]
  <2>1. CASE j < i
    BY <1>1, <1>2, <1>3, <1>5, <2>1
  <2>2. CASE j >= i
    <3>1. (a \o b)[j] = b[j - (i - 1)] /\ j - (i - 1) \in 1..Len(sessions) - i
      BY <1>1, <1>2, <1>3, <1>5, <2>2
    <3>2. b[j - (i - 1)] = sessions[i + (j - (i - 1))]
      BY <1>3, <3>1
    <3>3. i + (j - (i - 1)) = j + 1
      BY <1>1
    <3> QED
      BY <2>2, <3>1, <3>2, <3>3
  <2>3. j \in Int /\ i \in Int
    BY <1>1
  <2>4. j < i \/ j >= i
    BY <2>3
  <2> QED
    BY <2>1, <2>2, <2>4
<1>7. Len(a \o b) = Len(sessions) - 1
  BY <1>1, <1>2, <1>3, <1>5
<1>8. 1..Len(a \o b) = 1..Len(sessions) - 1
  BY <1>7
<1> QED
  BY <1>4, <1>5, <1>6, <1>7, <1>8

\* A stack of the client is one that the loop can walk.
LEMMA StacksTyped ==
  ASSUME NEW layers \in Stacks
  PROVE  /\ layers \in Seq(Staked)
         /\ \A i \in DOMAIN layers : layers[i].comp = "GPU" => layers[i].config = NoConfig
         /\ Len(layers) \in Nat /\ Len(layers) >= 1
<1>1. PICK s \in UNION {[1..n -> Layer] : n \in 0..MaxLayers}, t \in Target :
        layers = Append(s, t) /\ \A i \in DOMAIN s : s[i].comp = "GPU" => s[i].config = NoConfig
  BY DEF Stacks
<1>2. PICK n \in 0..MaxLayers : s \in [1..n -> Layer]
  BY <1>1
<1>3. Layer \subseteq Staked /\ Target \subseteq Staked
  BY DEF Layer, Target, Staked
<1>4. n \in Nat /\ s \in Seq(Staked) /\ Len(s) = n /\ DOMAIN s = 1..n
  <2>1. n \in Nat
    OBVIOUS
  <2>2. s \in [1..n -> Staked]
    BY <1>2, <1>3
  <2>3. s \in Seq(Staked)
    BY <2>1, <2>2, SeqDef
  <2>4. DOMAIN s = 1..n /\ DOMAIN s = 1..Len(s) /\ Len(s) \in Nat
    BY <2>2, <2>3, LenProperties
  <2> QED
    BY <2>1, <2>3, <2>4
<1>5. /\ layers \in Seq(Staked) /\ Len(layers) = n + 1
      /\ \A i \in 1..n : layers[i] = s[i]
      /\ layers[n + 1] = t
  <2>1. t \in Staked /\ layers = Append(s, t)
    BY <1>1, <1>3
  <2> QED
    BY <1>4, <2>1, AppendProperties
<1>6. DOMAIN layers = 1..n + 1
  BY <1>5, LenProperties
<1>7. t.comp = "GPUTarget"
  BY DEF Target
<1> QED
  BY <1>1, <1>4, <1>5, <1>6, <1>7

\* The pool is empty.
LEMMA TmInitEstablishes ==
  TmInit => TmInv
<1> SUFFICES ASSUME TmInit PROVE TmInv
  OBVIOUS
<1>1. <<>> \in Seq(Pooled) /\ <<>> \in Seq(Staked) /\ DOMAIN <<>> = {}
  OBVIOUS
<1> QED
  BY <1>1 DEF TmInit, TmInv, TmTypes, FbInPool, AllFenced, BlitsHeld, OneLayerPerBlit,
         BlitWaitsForDisplay

\* The pool is emptied.
LEMMA TerminateDoes ==
  ASSUME TmInv, NEW fb \in Int, fb = 0 \/ fb = fbSession, Terminate(fb)
  PROVE  /\ sessions' \in Seq(Pooled) /\ DOMAIN sessions' = {} /\ fbSession' \in Int
         /\ FbInPool' /\ AllFenced'
<1>1. sessions' = <<>> /\ fbSession' = IF sessions = <<>> THEN fb ELSE -1
  BY DEF Terminate
<1>2. <<>> \in Seq(Pooled) /\ DOMAIN <<>> = {}
  OBVIOUS
<1>3. Len(<<>>) = 0
  OBVIOUS
<1>4. FbInPool'
  BY <1>1, <1>3 DEF TmInv, TmTypes, FbInPool
<1>5. AllFenced'
  BY <1>1, <1>2 DEF AllFenced
<1> QED
  BY <1>1, <1>2, <1>4, <1>5

\* A later frame has later numbers only.
LEMMA FencedLater ==
  ASSUME TmInv, sessions' = sessions, tmFrame' \in Nat, tmFrame' >= tmFrame
  PROVE  AllFenced'
<1>1. ASSUME NEW i \in DOMAIN sessions, NEW b \in OwnBuffers
      PROVE  /\ sessions[i].shown[b] <= tmFrame'
             /\ \/ sessions[i].shown[b] <= sessions[i].release[b]
                \/ sessions[i].acquired /\ sessions[i].current = b
  <2>1. sessions[i] \in Pooled
    BY ElementOfSeq, LenProperties DEF TmInv, TmTypes
  <2>2. sessions[i].shown[b] \in Nat /\ tmFrame \in Nat
    BY <2>1 DEF Pooled, TmInv, TmTypes
  <2> QED
    BY <2>2 DEF TmInv, AllFenced, Fenced
<1> QED
  BY <1>1 DEF AllFenced, Fenced

\* A frame begins, with its layers in the stack.
LEMMA HandleToneMapKeeps ==
  ASSUME TmInv, NEW layers \in Stacks, HandleToneMap(layers) \/ SkipCommit(layers)
  PROVE  TmInv'
<1>1. /\ stack' = layers /\ blits' = {} /\ tmFrame' = tmFrame + 1
      /\ tmAt' \in {"mapping", "mapped", "skipped"}
      /\ tmAt' = "mapping" => tmNext' = 1
      /\ tmNext' \in Nat
  BY DEF HandleToneMap, SkipCommit, TmInv, TmTypes
<1>2. /\ layers \in Seq(Staked)
      /\ \A i \in DOMAIN layers : layers[i].comp = "GPU" => layers[i].config = NoConfig
      /\ Len(layers) \in Nat /\ Len(layers) >= 1
  BY StacksTyped
<1>3. tmFrame' \in Nat /\ tmFrame' >= tmFrame
  BY <1>1 DEF TmInv, TmTypes
<1>4. /\ sessions' \in Seq(Pooled) /\ fbSession' \in Int
      /\ FbInPool' /\ AllFenced'
  <2>1. CASE UNCHANGED <<sessions, fbSession>>
    BY <1>3, <2>1, FencedLater DEF TmInv, TmTypes, FbInPool
  <2>2. CASE Terminate(fbSession)
    BY <2>2, TerminateDoes DEF TmInv, TmTypes
  <2> QED
    BY <2>1, <2>2 DEF HandleToneMap, SkipCommit
<1>5. TmTypes'
  BY <1>1, <1>2, <1>3, <1>4 DEF TmTypes
<1>6. BlitsHeld' /\ OneLayerPerBlit' /\ BlitWaitsForDisplay'
  BY <1>1 DEF BlitsHeld, OneLayerPerBlit, BlitWaitsForDisplay
<1> QED
  BY <1>4, <1>5, <1>6 DEF TmInv

\* The steps that leave the pool and the blits alone.
LEMMA QuietKeeps ==
  ASSUME TmInv, PassLayer \/ CommitFails \/ ReleaseThrows \/ PostCommitEnds
  PROVE  TmInv'
<1>1. UNCHANGED <<sessions, fbSession, stack, tmFrame, blits>>
  BY DEF PassLayer, CommitFails, ReleaseThrows, PostCommitEnds, Mapping, Closing
<1>2. /\ tmNext' \in Nat /\ (tmNext' >= tmNext \/ tmAt' # "mapping")
      /\ tmAt' = "mapping" => tmAt = "mapping" /\ tmNext' \in 1..Len(stack)
      /\ tmAt' # "closing"
      /\ \/ tmAt' \notin {"mapping", "mapped", "skipped"}
         \/ tmAt \in {"mapping", "mapped", "skipped"}
  <2>1. CASE PassLayer
    BY <2>1 DEF PassLayer, Mapping, NextLayer, MappingEnds, TmInv, TmTypes
  <2>2. CASE CommitFails \/ ReleaseThrows \/ PostCommitEnds
    BY <2>2 DEF CommitFails, ReleaseThrows, PostCommitEnds, Closing, TmInv, TmTypes
  <2> QED
    BY <2>1, <2>2
<1>3. tmNext' \in Nat
  BY DEF PassLayer, CommitFails, ReleaseThrows, PostCommitEnds, Mapping, NextLayer, MappingEnds,
         Closing,
         TmInv, TmTypes
<1>4. TmTypes'
  BY <1>1, <1>2, <1>3 DEF TmInv, TmTypes
<1>5. FbInPool' /\ AllFenced' /\ OneLayerPerBlit' /\ BlitWaitsForDisplay'
  BY <1>1 DEF TmInv, FbInPool, AllFenced, Fenced, OneLayerPerBlit, BlitWaitsForDisplay
<1>6. ASSUME tmAt' = "mapping", NEW b \in blits
      PROVE  b.layer < tmNext' /\ b.session \in DOMAIN sessions
  <2>1. b.layer \in Nat /\ tmNext \in Nat
    BY DEF TmInv, TmTypes, Blitted
  <2> QED
    BY <1>2, <1>3, <1>6, <2>1 DEF TmInv, BlitsHeld
<1>7. BlitsHeld'
  BY <1>1, <1>2, <1>6 DEF TmInv, BlitsHeld, Held
<1> QED
  BY <1>4, <1>5, <1>7 DEF TmInv

\* A frame that fails and a display that is turned off empty the pool.
LEMMA EmptiedKeeps ==
  ASSUME TmInv, ToneMapFails \/ PowerOff
  PROVE  TmInv'
<1>1. /\ UNCHANGED <<stack, tmFrame>>
      /\ blits' = blits \/ blits' = {}
      /\ tmAt' \in {"mapped", "rest"} /\ tmNext' \in Nat
      /\ Terminate(0) \/ Terminate(fbSession)
  BY DEF ToneMapFails, PowerOff, Mapping, MappingEnds, TmInv, TmTypes
<1>2. /\ sessions' \in Seq(Pooled) /\ DOMAIN sessions' = {} /\ fbSession' \in Int
      /\ FbInPool' /\ AllFenced'
  BY <1>1, TerminateDoes DEF TmInv, TmTypes
<1>3. TmTypes'
  BY <1>1, <1>2 DEF TmInv, TmTypes
<1>4. BlitsHeld' /\ OneLayerPerBlit' /\ BlitWaitsForDisplay'
  BY <1>1, <1>2 DEF TmInv, BlitsHeld, OneLayerPerBlit, BlitWaitsForDisplay
<1> QED
  BY <1>2, <1>3, <1>4 DEF TmInv

\* A blit into a session that no earlier blit holds, or into the buffer that it holds.
LEMMA BlitKeeps ==
  ASSUME TmInv, Mapping, NextLayer \/ MappingEnds,
         NEW i \in 1..Len(sessions) + 1, NEW s \in Pooled, NEW c \in BOOLEAN,
         Fenced(s), s.acquired,
         sessions' = PutAt(i, s), blits' = blits \cup {Blit(i, s, c)},
         fbSession' = fbSession \/ fbSession' = i - 1,
         \A b \in blits : b.session = i => c /\ s.current = b.buffer,
         c \/ s.release[s.current] >= s.shown[s.current]
  PROVE  TmInv'
<1> DEFINE new == Blit(i, s, c)
<1>1. UNCHANGED <<stack, tmFrame>> /\ tmAt = "mapping" /\ tmNext \in 1..Len(stack)
  BY DEF Mapping, TmInv, TmTypes
<1>2. /\ sessions' \in Seq(Pooled) /\ Len(sessions') >= Len(sessions) /\ i \in 1..Len(sessions')
      /\ \A j \in 1..Len(sessions') : sessions'[j] = IF j = i THEN s ELSE sessions[j]
      /\ \A j \in 1..Len(sessions') : j # i => j \in 1..Len(sessions)
      /\ 1..Len(sessions) \subseteq 1..Len(sessions')
  <2> DEFINE q == PutAt(i, s)
  <2>1. sessions \in Seq(Pooled)
    BY DEF TmInv, TmTypes
  <2>2. /\ q \in Seq(Pooled) /\ Len(q) >= Len(sessions) /\ i \in 1..Len(q)
        /\ \A j \in 1..Len(q) : q[j] = IF j = i THEN s ELSE sessions[j]
        /\ \A j \in 1..Len(q) : j # i => j \in 1..Len(sessions)
        /\ 1..Len(sessions) \subseteq 1..Len(q)
    BY <2>1, PutAtDoes
  <2>3. sessions' = q
    OBVIOUS
  <2> HIDE DEF q
  <2> QED
    BY <2>2, <2>3
<1>3. /\ DOMAIN sessions' = 1..Len(sessions') /\ DOMAIN sessions = 1..Len(sessions)
      /\ Len(sessions) \in Nat /\ Len(sessions') \in Nat
  BY <1>2, LenProperties DEF TmInv, TmTypes
<1>4. /\ new \in Blitted /\ new.session = i /\ new.buffer = s.current /\ new.layer = tmNext
      /\ new.waits = s.release[s.current] /\ new.shown = s.shown[s.current] /\ new.cached = c
  <2>1. s.current \in OwnBuffers /\ tmNext \in Nat /\ i \in Nat
    BY <1>1 DEF Pooled, TmInv, TmTypes
  <2>2. /\ s.release[s.current] \in Nat /\ s.shown[s.current] \in Nat
        /\ s.owner[s.current] \in {"none", "SDE", "GPUTarget"}
    BY <2>1 DEF Pooled
  <2> QED
    BY <2>1, <2>2 DEF Blit, Blitted
<1>5. blits' = blits \cup {new}
  OBVIOUS
<1> HIDE DEF new
<1>6. /\ tmNext' \in Nat
      /\ \/ tmAt' = "mapping" /\ tmNext' = tmNext + 1 /\ tmNext' \in 1..Len(stack)
         \/ tmAt' = "mapped"
  BY <1>1 DEF NextLayer, MappingEnds, TmInv, TmTypes
<1>7. TmTypes'
  BY <1>1, <1>2, <1>4, <1>5, <1>6 DEF TmInv, TmTypes
<1>8. FbInPool'
  BY <1>2, <1>3 DEF TmInv, TmTypes, FbInPool
<1>9. AllFenced'
  <2>1. ASSUME NEW j \in DOMAIN sessions' PROVE Fenced(sessions'[j])
    BY <1>2, <1>3 DEF TmInv, AllFenced
  <2> QED
    BY <1>1, <2>1 DEF AllFenced, Fenced
<1>10. BlitsHeld'
  <2>1. ASSUME NEW b \in blits
        PROVE  /\ b.layer < tmNext /\ b.layer \in Nat
               /\ b.session \in DOMAIN sessions'
               /\ sessions'[b.session].acquired /\ sessions'[b.session].current = b.buffer
    <3>1. b.layer < tmNext /\ b.session \in DOMAIN sessions /\ Held(b)
      BY <1>1 DEF TmInv, BlitsHeld
    <3>2. CASE b.session = i
      BY <1>2, <1>3, <3>1, <3>2 DEF TmInv, TmTypes, Blitted
    <3>3. CASE b.session # i
      BY <1>2, <1>3, <3>1, <3>3 DEF TmInv, TmTypes, Blitted, Held
    <3> QED
      BY <3>2, <3>3
  <2>2. /\ new.session \in DOMAIN sessions' /\ new.layer = tmNext
        /\ sessions'[new.session].acquired /\ sessions'[new.session].current = new.buffer
    BY <1>2, <1>3, <1>4
  <2>3. ASSUME NEW b \in blits'
        PROVE  /\ b.layer < tmNext + 1 /\ b.session \in DOMAIN sessions'
               /\ sessions'[b.session].acquired /\ sessions'[b.session].current = b.buffer
    <3>1. CASE b \in blits
      BY <1>1, <2>1, <3>1
    <3>2. CASE b = new
      BY <1>1, <2>2, <3>2
    <3> QED
      BY <1>5, <3>1, <3>2
  <2> QED
    BY <1>6, <2>3 DEF BlitsHeld, Held
<1>11. OneLayerPerBlit'
  <2> SUFFICES ASSUME NEW b \in blits', NEW d \in blits', b.layer < d.layer, ~d.cached
               PROVE  b.session # d.session
    BY DEF OneLayerPerBlit
  <2>1. \A e \in blits : e.layer < tmNext /\ e.layer \in Nat
    BY <1>1 DEF TmInv, TmTypes, Blitted, BlitsHeld
  <2>2. CASE b \in blits /\ d \in blits
    BY <2>2 DEF TmInv, OneLayerPerBlit
  <2>3. CASE b = new
    BY <1>1, <1>4, <1>5, <2>1, <2>3
  <2>4. CASE b \in blits /\ d = new
    BY <1>4, <2>4
  <2> QED
    BY <1>5, <2>2, <2>3, <2>4
<1>12. BlitWaitsForDisplay'
  BY <1>4, <1>5 DEF TmInv, BlitWaitsForDisplay
<1> QED
  BY <1>7, <1>8, <1>9, <1>10, <1>11, <1>12 DEF TmInv

\* The first of the sessions that can be used is one of them.
LEMMA FirstIn ==
  ASSUME NEW set, set \subseteq Nat, set # {}
  PROVE  First(set) \in set
<1> DEFINE Less == {p \in Nat \X Nat : p[1] < p[2]}
<1>1. IsWellFoundedOn(Less, Nat)
  BY NatLessThanWellFounded DEF OpToRel
<1>2. PICK i \in set : \A j \in set : ~(<<j, i>> \in Less)
  BY <1>1, WFMin
<1>3. ASSUME NEW j \in set PROVE i <= j
  <2>1. i \in Nat /\ j \in Nat /\ ~(<<j, i>> \in Less)
    BY <1>2
  <2> QED
    BY <2>1
<1> QED
  BY <1>3 DEF First

\* What the loop over the layers meets.
LEMMA ThisLayerTyped ==
  ASSUME TmInv, Mapping
  PROVE  /\ tmAt = "mapping" /\ tmNext \in 1..Len(stack) /\ tmNext \in Nat
         /\ ThisLayer \in Staked
         /\ ThisLayer.comp = "GPU" => ThisLayer.config = NoConfig
         /\ Len(sessions) \in Nat /\ DOMAIN sessions = 1..Len(sessions)
         /\ \A i \in DOMAIN sessions : sessions[i] \in Pooled /\ Fenced(sessions[i])
  BY ElementOfSeq, LenProperties DEF Mapping, ThisLayer, TmInv, TmTypes, AllFenced

\* A session that is acquired has the fences of all that was shown.
LEMMA AcquiredDoes ==
  ASSUME TmInv, Mapping, ThisLayer.config # NoConfig
  PROVE  LET i == Place(ThisLayer.config)
             s == Given(Acquired(ThisLayer.config)) IN
         /\ i \in 1..Len(sessions) + 1 /\ s \in Pooled /\ s.acquired
         /\ i \in DOMAIN sessions => ~sessions[i].acquired
         /\ \A b \in OwnBuffers : s.shown[b] <= s.release[b] /\ s.shown[b] <= tmFrame
<1> DEFINE config == ThisLayer.config
           i == Place(config)
           a == Acquired(config)
<1>1. /\ tmAt = "mapping" /\ tmNext \in Nat
      /\ config \in Configs /\ ThisLayer.comp \in {"SDE", "GPUTarget"}
      /\ Len(sessions) \in Nat /\ DOMAIN sessions = 1..Len(sessions)
      /\ \A j \in DOMAIN sessions : sessions[j] \in Pooled /\ Fenced(sessions[j])
  BY ThisLayerTyped DEF Staked
<1>2. /\ i \in 1..Len(sessions) + 1 /\ a \in Pooled /\ a.acquired
      /\ i \in DOMAIN sessions => ~sessions[i].acquired
      /\ \A b \in OwnBuffers : a.shown[b] <= a.release[b] /\ a.shown[b] <= tmFrame
  <2>1. CASE Usable(config) # {}
    <3>1. i \in Usable(config)
      <4>1. Usable(config) \subseteq Nat
        BY <1>1 DEF Usable
      <4> QED
        BY <2>1, <4>1, FirstIn DEF Place
    <3>2. /\ i \in DOMAIN sessions /\ ~sessions[i].acquired
          /\ sessions[i] \in Pooled /\ Fenced(sessions[i])
      BY <1>1, <3>1 DEF Usable
    <3> HIDE DEF i
    <3>3. a = [sessions[i] EXCEPT !.acquired = TRUE,
                                  !.current = (sessions[i].current + 1) % kNumIntermediateBuffers]
      BY <2>1 DEF Acquired, Reused, i
    <3>4. (sessions[i].current + 1) % kNumIntermediateBuffers \in OwnBuffers
      BY <3>2 DEF Pooled, OwnBuffers, kNumIntermediateBuffers
    <3>5. /\ a \in Pooled /\ a.acquired
          /\ a.shown = sessions[i].shown /\ a.release = sessions[i].release
      BY <3>2, <3>3, <3>4 DEF Pooled
    <3> QED
      BY <1>1, <3>2, <3>5 DEF Fenced
  <2>2. CASE Usable(config) = {}
    <3>1. i = Len(sessions) + 1 /\ a = NewSession(config)
      BY <2>2 DEF Place, Acquired
    <3>2. tmFrame \in Nat
      BY DEF TmInv, TmTypes
    <3>3. 0 \in OwnBuffers
      BY DEF OwnBuffers, kNumIntermediateBuffers
    <3> HIDE DEF i, a
    <3> QED
      BY <1>1, <3>1, <3>2, <3>3 DEF NewSession, Pooled
  <2> QED
    BY <2>1, <2>2
<1> HIDE DEF a, i, config
<1>3. /\ Given(a) \in Pooled /\ Given(a).acquired
      /\ Given(a).shown = a.shown /\ Given(a).release = a.release
  <2> DEFINE owner == [a.owner EXCEPT ![a.current] = ThisLayer.comp]
  <2>1. owner \in [OwnBuffers -> {"none", "SDE", "GPUTarget"}]
    BY <1>1, <1>2 DEF Pooled
  <2>2. Given(a) = [a EXCEPT !.layer = tmNext, !.owner = owner]
    BY DEF Given
  <2> HIDE DEF owner
  <2> QED
    BY <1>1, <1>2, <2>1, <2>2 DEF Pooled
<1> QED
  BY <1>2, <1>3 DEF config, i, a

\* A layer is blitted with a session of its own.
LEMMA ToneMapLayerKeeps ==
  ASSUME TmInv, ToneMapLayer
  PROVE  TmInv'
<1> DEFINE i == Place(ThisLayer.config)
           s == Given(Acquired(ThisLayer.config))
<1>1. /\ Mapping /\ ThisLayer.config # NoConfig
      /\ sessions' = PutAt(i, s) /\ blits' = blits \cup {Blit(i, s, FALSE)}
      /\ fbSession' = fbSession \/ fbSession' = i - 1
      /\ NextLayer
  BY DEF ToneMapLayer
<1>2. /\ i \in 1..Len(sessions) + 1 /\ s \in Pooled /\ s.acquired
      /\ i \in DOMAIN sessions => ~sessions[i].acquired
      /\ \A b \in OwnBuffers : s.shown[b] <= s.release[b] /\ s.shown[b] <= tmFrame
  BY <1>1, AcquiredDoes
<1> HIDE DEF i, s
<1>3. tmAt = "mapping"
  BY <1>1 DEF Mapping
<1>4. \A b \in blits : b.session # i
  BY <1>2, <1>3 DEF TmInv, BlitsHeld, Held
<1>5. Fenced(s)
  BY <1>2 DEF Fenced
<1>6. s.release[s.current] >= s.shown[s.current]
  <2>1. s.current \in OwnBuffers
    BY <1>2 DEF Pooled
  <2>2. s.release[s.current] \in Nat /\ s.shown[s.current] \in Nat
    BY <1>2, <2>1 DEF Pooled
  <2> QED
    BY <1>2, <2>1, <2>2
<1> QED
  BY <1>1, <1>2, <1>4, <1>5, <1>6, BlitKeeps

\* The target keeps its session's buffer: the client drew nothing.
LEMMA KeepTargetKeeps ==
  ASSUME TmInv, KeepTarget
  PROVE  TmInv'
<1> DEFINE i == fbSession + 1
           s == [sessions[i] EXCEPT !.layer = tmNext, !.acquired = TRUE]
<1>1. /\ Mapping /\ MappingEnds
      /\ sessions # <<>> /\ fbSession >= 0
      /\ sessions' = [sessions EXCEPT ![i] = s] /\ blits' = blits \cup {Blit(i, s, TRUE)}
      /\ fbSession' = fbSession
  BY DEF KeepTarget, CachedTarget
<1>2. /\ tmAt = "mapping" /\ tmNext \in Nat
      /\ Len(sessions) \in Nat /\ DOMAIN sessions = 1..Len(sessions)
      /\ \A j \in DOMAIN sessions : sessions[j] \in Pooled /\ Fenced(sessions[j])
  BY <1>1, ThisLayerTyped
<1>3. i \in 1..Len(sessions)
  BY <1>1, <1>2 DEF TmInv, TmTypes, FbInPool
<1>4. /\ s \in Pooled /\ s.acquired /\ s.current = sessions[i].current
      /\ s.shown = sessions[i].shown /\ s.release = sessions[i].release
  <2> DEFINE old == sessions[i]
  <2>1. old \in Pooled
    BY <1>2, <1>3
  <2> HIDE DEF old
  <2>2. [old EXCEPT !.layer = tmNext, !.acquired = TRUE] \in Pooled
    BY <1>2, <2>1 DEF Pooled
  <2>3. LET t == [old EXCEPT !.layer = tmNext, !.acquired = TRUE] IN
        /\ t.acquired /\ t.current = old.current /\ t.shown = old.shown /\ t.release = old.release
    BY <2>1 DEF Pooled
  <2> QED
    BY <2>2, <2>3 DEF old
<1> HIDE DEF i, s
<1>5. sessions' = PutAt(i, s)
  <2>1. i # Len(sessions) + 1
    BY <1>2, <1>3
  <2>2. PutAt(i, s) = [sessions EXCEPT ![i] = s]
    BY <2>1 DEF PutAt
  <2> QED
    BY <1>1, <2>2
<1>6. Fenced(s)
  BY <1>2, <1>3, <1>4 DEF Fenced
<1>7. \A b \in blits : b.session = i => s.current = b.buffer
  BY <1>2, <1>3, <1>4 DEF TmInv, BlitsHeld, Held
<1>8. i \in 1..Len(sessions) + 1
  BY <1>2, <1>3
<1> QED
  BY <1>1, <1>4, <1>5, <1>6, <1>7, <1>8, BlitKeeps

-----------------------------------------------------------------------------
\* The commit: what the frame shows is held by its sessions.
LEMMA CommitKeeps ==
  ASSUME TmInv, Commit
  PROVE  TmInv'
<1> DEFINE held(i, b) == \E k \in blits : k.session = i /\ k.buffer = b
<1>1. /\ tmAt \in {"mapped", "skipped"} /\ tmAt' = "closing" /\ tmNext' = 1
      /\ sessions' = [i \in DOMAIN sessions |-> Shown(sessions[i], i)]
      /\ UNCHANGED <<fbSession, stack, tmFrame, blits>>
  BY DEF Commit
<1>2. /\ Len(sessions) \in Nat /\ DOMAIN sessions = 1..Len(sessions) /\ tmFrame \in Nat
      /\ \A j \in DOMAIN sessions : sessions[j] \in Pooled /\ Fenced(sessions[j])
  BY ElementOfSeq, LenProperties DEF TmInv, TmTypes, AllFenced
<1>3. ASSUME NEW i \in DOMAIN sessions
      PROVE  Shown(sessions[i], i) \in Pooled /\ Fenced(Shown(sessions[i], i))
  <2> DEFINE s == sessions[i]
             shown == [b \in OwnBuffers |-> IF held(i, b) THEN tmFrame ELSE s.shown[b]]
  <2>1. s \in Pooled /\ Fenced(s)
    BY <1>2
  <2>2. Shown(s, i) = [s EXCEPT !.shown = shown]
    BY <2>1 DEF Shown, Pooled
  <2>3. \A b \in OwnBuffers : held(i, b) => s.acquired /\ s.current = b
    BY <1>1 DEF TmInv, BlitsHeld, Held
  <2>4. \A b \in OwnBuffers : shown[b] = IF held(i, b) THEN tmFrame ELSE s.shown[b]
    OBVIOUS
  <2>5. \A b \in OwnBuffers : s.shown[b] \in Nat
    BY <2>1 DEF Pooled
  <2>6. shown \in [OwnBuffers -> Nat]
    BY <1>2, <2>5
  <2> HIDE DEF shown, s
  <2>7. /\ [s EXCEPT !.shown = shown] \in Pooled
        /\ [s EXCEPT !.shown = shown].shown = shown
        /\ [s EXCEPT !.shown = shown].release = s.release
        /\ [s EXCEPT !.shown = shown].acquired = s.acquired
        /\ [s EXCEPT !.shown = shown].current = s.current
    BY <2>1, <2>6 DEF Pooled
  <2>8. Fenced([s EXCEPT !.shown = shown])
    <3>1. ASSUME NEW b \in OwnBuffers
          PROVE  /\ shown[b] <= tmFrame
                 /\ (shown[b] <= s.release[b] \/ (s.acquired /\ s.current = b))
      BY <1>2, <2>1, <2>3, <2>4 DEF Fenced
    <3> QED
      BY <2>7, <3>1 DEF Fenced
  <2> QED
    BY <2>2, <2>7, <2>8 DEF s
<1>4. /\ sessions' \in Seq(Pooled) /\ Len(sessions') = Len(sessions)
      /\ DOMAIN sessions' = DOMAIN sessions
  <2>1. sessions' \in [1..Len(sessions) -> Pooled]
    BY <1>1, <1>2, <1>3
  <2>2. sessions' \in Seq(Pooled)
    BY <1>2, <2>1, SeqDef
  <2> QED
    BY <1>2, <2>1, <2>2, LenProperties
<1>5. AllFenced'
  <2>1. \A i \in DOMAIN sessions' : Fenced(sessions'[i])
    BY <1>1, <1>3, <1>4
  <2> QED
    BY <1>1, <2>1 DEF AllFenced, Fenced
<1>6. TmTypes'
  BY <1>1, <1>4 DEF TmInv, TmTypes
<1>7. FbInPool'
  <2>1. CASE sessions = <<>>
    <3>1. Len(sessions') = 0
      BY <1>4, <2>1
    <3>2. sessions' = <<>>
      BY <1>4, <3>1, EmptySeq
    <3> QED
      BY <1>1, <1>4, <2>1, <3>2 DEF TmInv, FbInPool
  <2>2. CASE sessions # <<>>
    BY <1>1, <1>4, <2>2 DEF TmInv, FbInPool
  <2> QED
    BY <2>1, <2>2
<1>8. BlitsHeld' /\ OneLayerPerBlit' /\ BlitWaitsForDisplay'
  BY <1>1 DEF TmInv, BlitsHeld, OneLayerPerBlit, BlitWaitsForDisplay
<1> QED
  BY <1>5, <1>6, <1>7, <1>8 DEF TmInv

\* One session of the pool is released.
LEMMA ReleaseSessionKeeps ==
  ASSUME TmInv, ReleaseSession
  PROVE  TmInv'
<1> DEFINE s == sessions[tmNext]
           t == Released(s)
<1>1. /\ tmAt = "closing" /\ tmNext \in DOMAIN sessions
      /\ sessions' = [sessions EXCEPT ![tmNext] = t] /\ tmNext' = tmNext + 1
      /\ UNCHANGED <<fbSession, tmAt, stack, tmFrame, blits>>
  BY DEF ReleaseSession, Closing, MoreSessions
<1>2. /\ Len(sessions) \in Nat /\ DOMAIN sessions = 1..Len(sessions) /\ tmFrame \in Nat
      /\ \A j \in DOMAIN sessions : sessions[j] \in Pooled /\ Fenced(sessions[j])
  BY ElementOfSeq, LenProperties DEF TmInv, TmTypes, AllFenced
<1>3. s \in Pooled /\ Fenced(s)
  BY <1>1, <1>2
<1> HIDE DEF s
<1>4. t \in Pooled /\ Fenced(t)
  <2> DEFINE release == [s.release EXCEPT ![s.current] = tmFrame]
  <2>1. /\ release \in [OwnBuffers -> Nat]
        /\ \A b \in OwnBuffers : release[b] = IF b = s.current THEN tmFrame ELSE s.release[b]
    BY <1>2, <1>3 DEF Pooled
  <2>2. t = [s EXCEPT !.acquired = FALSE, !.release = release]
    BY DEF Released
  <2> HIDE DEF release, t
  <2>3. t \in Pooled /\ t.release = release /\ t.shown = s.shown
    BY <1>3, <2>1, <2>2 DEF Pooled
  <2>4. \A b \in OwnBuffers : s.shown[b] <= tmFrame /\ s.shown[b] <= release[b]
    BY <1>2, <1>3, <2>1 DEF Fenced
  <2> QED
    BY <2>3, <2>4 DEF Fenced
<1> HIDE DEF t
<1>5. /\ sessions' \in Seq(Pooled) /\ Len(sessions') = Len(sessions)
      /\ \A j \in 1..Len(sessions) : sessions'[j] = IF j = tmNext THEN t ELSE sessions[j]
  BY <1>1, <1>2, <1>4, ExceptSeq DEF TmInv, TmTypes
<1>6. DOMAIN sessions' = 1..Len(sessions)
  BY <1>5, LenProperties
<1>7. AllFenced'
  <2>1. ASSUME NEW j \in DOMAIN sessions' PROVE Fenced(sessions'[j])
    BY <1>2, <1>4, <1>5, <1>6
  <2> QED
    BY <1>1, <2>1 DEF AllFenced, Fenced
<1>8. TmTypes'
  BY <1>1, <1>5 DEF TmInv, TmTypes
<1>9. FbInPool'
  <2>1. sessions # <<>>
    BY <1>1
  <2> QED
    BY <1>1, <1>5, <2>1 DEF TmInv, FbInPool
<1>10. BlitsHeld' /\ OneLayerPerBlit' /\ BlitWaitsForDisplay'
  BY <1>1 DEF TmInv, BlitsHeld, OneLayerPerBlit, BlitWaitsForDisplay
<1> QED
  BY <1>7, <1>8, <1>9, <1>10 DEF TmInv

\* One session of the pool is deleted, and the ones behind it move up.
LEMMA CloseSessionKeeps ==
  ASSUME TmInv, CloseSession
  PROVE  TmInv'
<1>1. /\ tmAt = "closing" /\ tmNext \in DOMAIN sessions
      /\ sessions' = RemoveAt(sessions, tmNext) /\ fbSession' = FbAfter(tmNext - 1)
      /\ UNCHANGED <<tmNext, tmAt, stack, tmFrame, blits>>
  BY DEF CloseSession, Closing, MoreSessions
<1>2. /\ Len(sessions) \in Nat /\ DOMAIN sessions = 1..Len(sessions)
      /\ \A j \in DOMAIN sessions : sessions[j] \in Pooled /\ Fenced(sessions[j])
  BY ElementOfSeq, LenProperties DEF TmInv, TmTypes, AllFenced
<1>3. /\ sessions' \in Seq(Pooled) /\ Len(sessions') = Len(sessions) - 1
      /\ \A j \in 1..Len(sessions') :
           sessions'[j] = IF j < tmNext THEN sessions[j] ELSE sessions[j + 1]
  BY <1>1, <1>2, RemoveAtDoes DEF TmInv, TmTypes
<1>4. DOMAIN sessions' = 1..Len(sessions) - 1
  BY <1>3, LenProperties
<1>5. AllFenced'
  <2>1. ASSUME NEW j \in DOMAIN sessions' PROVE Fenced(sessions'[j])
    <3>1. j \in 1..Len(sessions) /\ j + 1 \in 1..Len(sessions)
      BY <1>2, <1>4
    <3> QED
      BY <1>2, <1>3, <1>4, <3>1
  <2> QED
    BY <1>1, <2>1 DEF AllFenced, Fenced
<1>6. fbSession' \in Int /\ fbSession' < Len(sessions')
  <2>1. fbSession \in Int /\ tmNext \in 1..Len(sessions) /\ fbSession < Len(sessions)
    BY <1>1, <1>2 DEF TmInv, TmTypes, FbInPool
  <2> QED
    BY <1>1, <1>2, <1>3, <2>1 DEF FbAfter
<1>7. TmTypes'
  BY <1>1, <1>3, <1>6 DEF TmInv, TmTypes
<1>8. FbInPool'
  BY <1>6 DEF FbInPool
<1>9. BlitsHeld' /\ OneLayerPerBlit' /\ BlitWaitsForDisplay'
  BY <1>1 DEF TmInv, BlitsHeld, OneLayerPerBlit, BlitWaitsForDisplay
<1> QED
  BY <1>5, <1>7, <1>8, <1>9 DEF TmInv

\* Each step of the tone mapper keeps the invariant.
LEMMA TmStepKeeps ==
  ASSUME TmInv, [TmNext]_tmVars
  PROVE  TmInv'
<1>1. CASE \E layers \in Stacks : HandleToneMap(layers) \/ SkipCommit(layers)
  BY <1>1, HandleToneMapKeeps
<1>2. CASE PassLayer \/ CommitFails \/ ReleaseThrows \/ PostCommitEnds
  BY <1>2, QuietKeeps
<1>3. CASE ToneMapFails \/ PowerOff
  BY <1>3, EmptiedKeeps
<1>4. CASE ToneMapLayer
  BY <1>4, ToneMapLayerKeeps
<1>5. CASE KeepTarget
  BY <1>5, KeepTargetKeeps
<1>6. CASE Commit
  BY <1>6, CommitKeeps
<1>7. CASE ReleaseSession
  BY <1>7, ReleaseSessionKeeps
<1>8. CASE CloseSession
  BY <1>8, CloseSessionKeeps
<1>9. CASE UNCHANGED tmVars
  BY <1>9 DEF tmVars, TmInv, TmTypes, FbInPool, AllFenced, Fenced, BlitsHeld, Held,
     OneLayerPerBlit, BlitWaitsForDisplay
<1> QED
  BY <1>1, <1>2, <1>3, <1>4, <1>5, <1>6, <1>7, <1>8, <1>9 DEF TmNext

\* The invariant of the tone mapper, in every behavior.
LEMMA TmInvariance ==
  TmSpec => []TmInv
<1>1. TmInit => TmInv
  BY TmInitEstablishes
<1>2. TmInv /\ [TmNext]_tmVars => TmInv'
  BY TmStepKeeps
<1> QED
  BY <1>1, <1>2, PTL DEF TmSpec

\* While there are sessions the index of the framebuffer's is below their number, also after
\* a session was erased or the pool emptied (hwc_tonemapper.cpp, PostCommit and Terminate).
THEOREM FbIndexTheorem ==
  TmSpec => []FbIndexInRange
<1>1. TmInv => FbIndexInRange
  BY DEF TmInv, FbInPool, FbIndexInRange
<1> QED
  BY <1>1, TmInvariance, PTL

-----------------------------------------------------------------------------
(* The frames of the client. *)

\* The content of a layer.
Drawable == [buffer : Buffers \cup {"none"}, frame : 0..1, color : 0..1]

\* What is noted of a layer for the next frame.
Notes == [flipped : BOOLEAN, geometry : BOOLEAN, mask : BOOLEAN]

\* The types of the frames.
LfTypes ==
  /\ content \in [DOMAIN content -> Drawable]
  /\ noted \in [DOMAIN content -> Notes]
  /\ hwc \in [invalid : BOOLEAN, flush : BOOLEAN,
              flush_on_error : BOOLEAN, pending_refresh : BOOLEAN]
  /\ refresh \in [queued : Int, telling : BOOLEAN, needed : BOOLEAN]
  /\ client \in [phase : {"idle", "validated"}, asked : BOOLEAN,
                 answering : BOOLEAN, set : SUBSET Layers]
  /\ unsure \in BOOLEAN

\* The panel shows the buffer of layer l where the client wants it.
IsShown(l) ==
  content[l].buffer # "none" =>
    l \in DOMAIN panel /\ panel[l].buffer = content[l].buffer /\ panel[l].frame = content[l].frame

\* A change that the panel does not show is noted, where no setter takes the note back before
\* the next frame.
Remembered(l) ==
  \/ IsShown(l)
  \/ noted[l].geometry
  \/ noted[l].flipped /\ (client.phase = "idle" => l \in client.set)

\* The inductive invariant of the frames: unless the panel may show anything, what it does not
\* show yet is remembered.
LfInv ==
  /\ LfTypes
  /\ hwc.flush => unsure
  /\ ~unsure => \A l \in DOMAIN content : Remembered(l)

\* The display has no layers.
LEMMA LfInitEstablishes ==
  F!LfInit => LfInv
<1> SUFFICES ASSUME F!LfInit PROVE LfInv
  OBVIOUS
<1>1. DOMAIN content = {} /\ DOMAIN noted = {} /\ ~hwc.flush
  BY DEF F!LfInit
<1>2. content \in [DOMAIN content -> Drawable] /\ noted \in [DOMAIN content -> Notes]
  <2>1. <<>> \in [{} -> Drawable] /\ <<>> \in [{} -> Notes]
    OBVIOUS
  <2> QED
    BY <1>1, <2>1 DEF F!LfInit
<1>3. hwc \in [invalid : BOOLEAN, flush : BOOLEAN,
               flush_on_error : BOOLEAN, pending_refresh : BOOLEAN]
  BY DEF F!LfInit
<1>4. refresh \in [queued : Int, telling : BOOLEAN, needed : BOOLEAN]
  BY DEF F!LfInit
<1>5. unsure \in BOOLEAN
  BY DEF F!LfInit
<1>6. client \in [phase : {"idle", "validated"}, asked : BOOLEAN,
                  answering : BOOLEAN, set : SUBSET Layers]
  BY DEF F!LfInit
<1> QED
  BY <1>1, <1>2, <1>3, <1>4, <1>6, <1>5 DEF LfInv, LfTypes

\* The setters of a layer.
LEMMA EditKeeps ==
  ASSUME LfInv, NEW l \in Layers, F!CreateLayer(l) \/ F!DestroyLayer(l)
  PROVE  LfInv'
<1>1. /\ hwc' = [hwc EXCEPT !.invalid = TRUE] /\ UNCHANGED <<refresh, client, panel, unsure>>
  BY DEF F!CreateLayer, F!DestroyLayer, F!Edit
<1>2. /\ hwc' \in [invalid : BOOLEAN, flush : BOOLEAN,
                   flush_on_error : BOOLEAN, pending_refresh : BOOLEAN]
      /\ hwc'.flush = hwc.flush
  BY <1>1 DEF LfInv, LfTypes
<1>3. F!NoLayer \in Drawable /\ F!NoLayer.buffer = "none" /\ F!Nowhere \in Notes
  BY DEF F!NoLayer, F!Nowhere, Drawable, Notes
<1>4. /\ content' \in [DOMAIN content' -> Drawable] /\ noted' \in [DOMAIN content' -> Notes]
      /\ \A k \in DOMAIN content' :
           \/ k \in DOMAIN content /\ content'[k] = content[k] /\ noted'[k] = noted[k]
           \/ content'[k].buffer = "none"
  <2>1. CASE F!CreateLayer(l)
    BY <1>3, <2>1 DEF F!CreateLayer, F!Created, LfInv, LfTypes
  <2>2. CASE F!DestroyLayer(l)
    BY <2>2 DEF F!DestroyLayer, F!Created, LfInv, LfTypes
  <2> QED
    BY <2>1, <2>2
<1>5. LfTypes'
  BY <1>1, <1>2, <1>4 DEF LfInv, LfTypes
<1>6. ASSUME ~unsure', NEW k \in DOMAIN content' PROVE Remembered(k)'
  BY <1>1, <1>4, <1>6 DEF LfInv, Remembered, IsShown
<1> QED
  BY <1>1, <1>2, <1>5, <1>6 DEF LfInv

\* The setters note what they change.
LEMMA SetterKeeps ==
  ASSUME LfInv, NEW l \in Layers,
         \/ \E b \in Buffers : F!SetLayerBuffer(l, b)
         \/ \E v \in 0..1 : F!SetLayerDisplayFrame(l, v) \/ F!SetLayerColor(l, v)
  PROVE  LfInv'
<1> DEFINE c == content[l]
           n == noted[l]
<1>1. /\ UNCHANGED <<hwc, refresh, panel, unsure>> /\ l \in DOMAIN content
      /\ client.phase = "idle"
  BY DEF F!SetLayerBuffer, F!SetLayerDisplayFrame, F!SetLayerColor, F!Edit, F!Created
<1>2. c \in Drawable /\ n \in Notes
  BY <1>1 DEF LfInv, LfTypes
<1>3. /\ content' = [content EXCEPT ![l] = content'[l]] /\ content'[l] \in Drawable
      /\ noted' = [noted EXCEPT ![l] = noted'[l]] /\ noted'[l] \in Notes
      /\ \/ /\ client' = [client EXCEPT !.set = @ \cup {l}] /\ l \notin client.set
            /\ content'[l].frame = c.frame /\ noted'[l].geometry = n.geometry
            /\ content'[l].buffer = c.buffer \/ noted'[l].flipped
         \/ UNCHANGED client /\ noted'[l].geometry
         \/ /\ UNCHANGED client
            /\ content'[l].buffer = c.buffer /\ content'[l].frame = c.frame
            /\ noted'[l].geometry = n.geometry /\ noted'[l].flipped = n.flipped
  <2>1. ASSUME NEW b \in Buffers, F!SetLayerBuffer(l, b)
        PROVE  /\ content' = [content EXCEPT ![l] = [c EXCEPT !.buffer = b]]
               /\ noted' = [noted EXCEPT ![l] = [n EXCEPT !.flipped = (c.buffer # b)]]
               /\ client' = [client EXCEPT !.set = @ \cup {l}] /\ l \notin client.set
    BY <2>1 DEF F!SetLayerBuffer
  <2>2. ASSUME NEW v \in 0..1, F!SetLayerDisplayFrame(l, v)
        PROVE  /\ content' = [content EXCEPT ![l] = [c EXCEPT !.frame = v]]
               /\ noted' = [noted EXCEPT ![l] = [n EXCEPT !.geometry = TRUE]]
               /\ UNCHANGED client
    BY <2>2 DEF F!SetLayerDisplayFrame
  <2>3. ASSUME NEW v \in 0..1, F!SetLayerColor(l, v)
        PROVE  /\ content' = [content EXCEPT ![l] = [c EXCEPT !.color = v]]
               /\ noted' = [noted EXCEPT ![l] = [n EXCEPT !.mask = TRUE]]
               /\ UNCHANGED client
    BY <2>3 DEF F!SetLayerColor
  <2>4. DOMAIN content = DOMAIN noted
    BY DEF LfInv, LfTypes
  <2> HIDE DEF c, n
  <2>5. ASSUME NEW x \in Drawable, content' = [content EXCEPT ![l] = x]
        PROVE  content' = [content EXCEPT ![l] = content'[l]] /\ content'[l] = x
    BY <1>1, <2>5
  <2>6. ASSUME NEW x \in Notes, noted' = [noted EXCEPT ![l] = x]
        PROVE  noted' = [noted EXCEPT ![l] = noted'[l]] /\ noted'[l] = x
    BY <1>1, <2>4, <2>6
  <2>7. ASSUME NEW b \in Buffers
        PROVE  /\ [c EXCEPT !.buffer = b] \in Drawable
               /\ [n EXCEPT !.flipped = (c.buffer # b)] \in Notes
               /\ [c EXCEPT !.buffer = b].buffer = b /\ [c EXCEPT !.buffer = b].frame = c.frame
               /\ [n EXCEPT !.flipped = (c.buffer # b)].flipped = (c.buffer # b)
               /\ [n EXCEPT !.flipped = (c.buffer # b)].geometry = n.geometry
    <3> DEFINE f == c.buffer # b
    <3>1. f \in BOOLEAN /\ b \in Buffers
      BY <2>7
    <3> HIDE DEF c, n, f
    <3>2. /\ [c EXCEPT !.buffer = b] \in Drawable
          /\ [c EXCEPT !.buffer = b].buffer = b /\ [c EXCEPT !.buffer = b].frame = c.frame
      BY <1>2, <3>1 DEF Drawable
    <3>3. /\ [n EXCEPT !.flipped = f] \in Notes
          /\ [n EXCEPT !.flipped = f].flipped = f /\ [n EXCEPT !.flipped = f].geometry = n.geometry
      BY <1>2, <3>1 DEF Notes
    <3> QED
      BY <3>2, <3>3 DEF f
  <2>8. ASSUME NEW v \in 0..1
        PROVE  /\ [c EXCEPT !.frame = v] \in Drawable /\ [n EXCEPT !.geometry = TRUE] \in Notes
               /\ [n EXCEPT !.geometry = TRUE].geometry
               /\ [c EXCEPT !.color = v] \in Drawable /\ [n EXCEPT !.mask = TRUE] \in Notes
               /\ [c EXCEPT !.color = v].buffer = c.buffer
               /\ [c EXCEPT !.color = v].frame = c.frame
               /\ [n EXCEPT !.mask = TRUE].geometry = n.geometry
               /\ [n EXCEPT !.mask = TRUE].flipped = n.flipped
    <3>1. v \in 0..1
      BY <2>8
    <3> HIDE DEF c, n
    <3>2. [c EXCEPT !.frame = v] \in Drawable
      BY <1>2, <3>1 DEF Drawable
    <3>3. /\ [c EXCEPT !.color = v] \in Drawable
          /\ [c EXCEPT !.color = v].buffer = c.buffer
          /\ [c EXCEPT !.color = v].frame = c.frame
      BY <1>2, <3>1 DEF Drawable
    <3>4. [n EXCEPT !.geometry = TRUE] \in Notes /\ [n EXCEPT !.geometry = TRUE].geometry
      BY <1>2 DEF Notes
    <3>5. /\ [n EXCEPT !.mask = TRUE] \in Notes
          /\ [n EXCEPT !.mask = TRUE].geometry = n.geometry
          /\ [n EXCEPT !.mask = TRUE].flipped = n.flipped
      BY <1>2 DEF Notes
    <3> QED
      BY <3>2, <3>3, <3>4, <3>5
  <2>9. CASE \E b \in Buffers : F!SetLayerBuffer(l, b)
    <3>1. PICK b \in Buffers : F!SetLayerBuffer(l, b)
      BY <2>9
    <3> DEFINE x == [c EXCEPT !.buffer = b]
               y == [n EXCEPT !.flipped = (c.buffer # b)]
    <3>2. /\ x \in Drawable /\ y \in Notes
          /\ x.buffer = b /\ x.frame = c.frame /\ y.flipped = (c.buffer # b) /\ y.geometry = n.geometry
      BY <3>1, <2>7
    <3>3. content' = [content EXCEPT ![l] = x] /\ noted' = [noted EXCEPT ![l] = y]
      BY <3>1, <2>1
    <3>4. client' = [client EXCEPT !.set = @ \cup {l}] /\ l \notin client.set
      BY <3>1, <2>1
    <3> HIDE DEF c, n, x, y
    <3>5. /\ content' = [content EXCEPT ![l] = content'[l]] /\ content'[l] = x
          /\ noted' = [noted EXCEPT ![l] = noted'[l]] /\ noted'[l] = y
      BY <3>2, <3>3, <2>5, <2>6
    <3> QED
      BY <3>2, <3>4, <3>5
  <2>10. CASE \E v \in 0..1 : F!SetLayerDisplayFrame(l, v)
    <3>1. PICK v \in 0..1 : F!SetLayerDisplayFrame(l, v)
      BY <2>10
    <3> DEFINE x == [c EXCEPT !.frame = v]
               y == [n EXCEPT !.geometry = TRUE]
    <3>2. /\ x \in Drawable /\ y \in Notes
          /\ y.geometry
      BY <3>1, <2>8
    <3>3. content' = [content EXCEPT ![l] = x] /\ noted' = [noted EXCEPT ![l] = y]
      BY <3>1, <2>2
    <3>4. UNCHANGED client
      BY <3>1, <2>2
    <3> HIDE DEF c, n, x, y
    <3>5. /\ content' = [content EXCEPT ![l] = content'[l]] /\ content'[l] = x
          /\ noted' = [noted EXCEPT ![l] = noted'[l]] /\ noted'[l] = y
      BY <3>2, <3>3, <2>5, <2>6
    <3> QED
      BY <3>2, <3>4, <3>5
  <2>11. CASE \E v \in 0..1 : F!SetLayerColor(l, v)
    <3>1. PICK v \in 0..1 : F!SetLayerColor(l, v)
      BY <2>11
    <3> DEFINE x == [c EXCEPT !.color = v]
               y == [n EXCEPT !.mask = TRUE]
    <3>2. /\ x \in Drawable /\ y \in Notes
          /\ x.buffer = c.buffer /\ x.frame = c.frame /\ y.geometry = n.geometry
          /\ y.flipped = n.flipped
      BY <3>1, <2>8
    <3>3. content' = [content EXCEPT ![l] = x] /\ noted' = [noted EXCEPT ![l] = y]
      BY <3>1, <2>3
    <3>4. UNCHANGED client
      BY <3>1, <2>3
    <3> HIDE DEF c, n, x, y
    <3>5. /\ content' = [content EXCEPT ![l] = content'[l]] /\ content'[l] = x
          /\ noted' = [noted EXCEPT ![l] = noted'[l]] /\ noted'[l] = y
      BY <3>2, <3>3, <2>5, <2>6
    <3> QED
      BY <3>2, <3>4, <3>5
  <2> QED
    BY <2>9, <2>10, <2>11
<1>4. /\ DOMAIN content' = DOMAIN content
      /\ \A k \in DOMAIN content : k # l =>
           content'[k] = content[k] /\ noted'[k] = noted[k]
  BY <1>3 DEF LfInv, LfTypes
<1>5. /\ client' \in [phase : {"idle", "validated"}, asked : BOOLEAN,
                      answering : BOOLEAN, set : SUBSET Layers]
      /\ client'.phase = client.phase /\ client.set \subseteq client'.set
      /\ client' = [client EXCEPT !.set = @ \cup {l}] => l \in client'.set
  BY <1>3 DEF LfInv, LfTypes
<1>6. LfTypes'
  BY <1>1, <1>3, <1>4, <1>5 DEF LfInv, LfTypes
<1>7. ASSUME ~unsure', NEW k \in DOMAIN content' PROVE Remembered(k)'
  <2>1. Remembered(k)
    BY <1>1, <1>4, <1>7 DEF LfInv
  <2>2. CASE k # l
    BY <1>1, <1>4, <1>5, <2>1, <2>2 DEF Remembered, IsShown
  <2>3. CASE k = l
    BY <1>1, <1>3, <1>5, <2>1, <2>3 DEF Remembered, IsShown
  <2> QED
    BY <2>2, <2>3
<1> QED
  BY <1>1, <1>6, <1>7 DEF LfInv

\* The refresh requests of the other threads.
LEMMA RefreshKeeps ==
  ASSUME LfInv, F!Refresh \/ F!CallbackTells \/ F!CallbackSetsBit
  PROVE  LfInv'
<1>1. UNCHANGED <<content, noted, hwc, panel, unsure>>
  BY DEF F!Refresh, F!CallbackTells, F!CallbackSetsBit
<1>2. refresh' \in [queued : Int, telling : BOOLEAN, needed : BOOLEAN]
  <2>1. refresh \in [queued : Int, telling : BOOLEAN, needed : BOOLEAN]
    BY DEF LfInv, LfTypes
  <2>2. CASE F!Refresh
    BY <2>1, <2>2 DEF F!Refresh
  <2>3. CASE F!CallbackTells
    <3> DEFINE q == refresh.queued - 1
    <3>1. q \in Int /\ refresh' = [refresh EXCEPT !.queued = q, !.telling = TRUE]
      <4>1. refresh.queued \in Int
        BY <2>1
      <4> QED
        BY <2>3, <4>1 DEF F!CallbackTells
    <3> HIDE DEF q
    <3> QED
      BY <2>1, <3>1
  <2>4. CASE F!CallbackSetsBit
    BY <2>1, <2>4 DEF F!CallbackSetsBit
  <2> QED
    BY <2>2, <2>3, <2>4
<1>3. /\ client' \in [phase : {"idle", "validated"}, asked : BOOLEAN,
                      answering : BOOLEAN, set : SUBSET Layers]
      /\ client'.phase = client.phase /\ client'.set = client.set
  BY DEF F!Refresh, F!CallbackTells, F!CallbackSetsBit, LfInv, LfTypes
<1>4. LfTypes'
  BY <1>1, <1>2, <1>3 DEF LfInv, LfTypes
<1> QED
  BY <1>1, <1>3, <1>4 DEF LfInv, Remembered, IsShown

\* The states of the display.
Hwcs == [invalid : BOOLEAN, flush : BOOLEAN, flush_on_error : BOOLEAN, pending_refresh : BOOLEAN]

\* The states of the refresh requests.
Refreshes == [queued : Int, telling : BOOLEAN, needed : BOOLEAN]

\* The session's part of a frame hands the refresh on.
LEMMA PostCommitDoes ==
  ASSUME NEW h \in Hwcs, NEW r \in Refreshes, F!PostCommitLocked(h, r)
  PROVE  /\ hwc' \in Hwcs /\ hwc'.flush = h.flush
         /\ refresh' \in Refreshes
         /\ h.pending_refresh \/ r.needed => hwc'.pending_refresh
<1>1. hwc' = [h EXCEPT !.pending_refresh = h.pending_refresh \/ r.needed]
  BY DEF F!PostCommitLocked, F!RefreshToFrame
<1>2. refresh' = [r EXCEPT !.needed = FALSE]
  BY DEF F!PostCommitLocked, F!RefreshToFrame
<1>3. (h.pending_refresh \/ r.needed) \in BOOLEAN
  OBVIOUS
<1>4. /\ hwc' \in Hwcs /\ hwc'.flush = h.flush
      /\ hwc'.pending_refresh = (h.pending_refresh \/ r.needed)
  BY <1>1, <1>3 DEF Hwcs
<1>5. refresh' \in Refreshes
  BY <1>2 DEF Refreshes
<1> QED
  BY <1>4, <1>5

\* What the resets do to the notes.
LEMMA ResetsDo ==
  ASSUME NEW n \in [DOMAIN content -> Notes]
  PROVE  /\ F!ResetValidation(n) \in [DOMAIN content -> Notes]
         /\ F!ResetGeometryChanges(n) \in [DOMAIN content -> Notes]
         /\ \A l \in DOMAIN content :
              /\ F!ResetValidation(n)[l].flipped = n[l].flipped
              /\ F!ResetValidation(n)[l].geometry = n[l].geometry
              /\ F!ResetGeometryChanges(n)[l].flipped = n[l].flipped
<1>1. ASSUME NEW l \in DOMAIN content
      PROVE  /\ [n[l] EXCEPT !.mask = FALSE] \in Notes
             /\ [n[l] EXCEPT !.geometry = FALSE] \in Notes
             /\ [n[l] EXCEPT !.mask = FALSE].flipped = n[l].flipped
             /\ [n[l] EXCEPT !.mask = FALSE].geometry = n[l].geometry
             /\ [n[l] EXCEPT !.geometry = FALSE].flipped = n[l].flipped
  <2>1. n[l] \in Notes
    OBVIOUS
  <2> QED
    BY <2>1 DEF Notes
<1> QED
  BY <1>1 DEF F!ResetValidation, F!ResetGeometryChanges, F!Created

\* What Present makes of the notes and the flags before it commits.
LEMMA LatchedDoes ==
  ASSUME LfInv
  PROVE  /\ F!Latched \in [DOMAIN content -> Notes]
         /\ F!Honoured \in Hwcs /\ F!Honoured.flush = hwc.flush
<1>1. ASSUME NEW l \in DOMAIN content PROVE [noted[l] EXCEPT !.flipped = FALSE] \in Notes
  <2>1. noted[l] \in Notes
    BY DEF LfInv, LfTypes
  <2> QED
    BY <2>1 DEF Notes
<1>2. F!Latched \in [DOMAIN content -> Notes]
  BY <1>1 DEF F!Latched, F!Created, LfInv, LfTypes
<1>3. F!Honoured \in Hwcs /\ F!Honoured.flush = hwc.flush
  BY DEF F!Honoured, Hwcs, LfInv, LfTypes
<1> QED
  BY <1>2, <1>3

\* What the validation does.
LEMMA ValidateKeeps ==
  ASSUME LfInv, F!ValidateEmpty \/ F!Validate \/ F!ValidateFails
  PROVE  LfInv'
<1>1. /\ UNCHANGED <<content, panel>>
      /\ client'.set = {} /\ client.phase = "idle"
      /\ client' \in [phase : {"idle", "validated"}, asked : BOOLEAN,
                      answering : BOOLEAN, set : SUBSET Layers]
  <2>1. client.phase = "idle" /\ UNCHANGED <<content, panel>>
    BY DEF F!ValidateEmpty, F!Validate, F!ValidateFails, F!Draws
  <2>2. F!Drawn("validated") \/ F!Drawn("idle")
    BY DEF F!ValidateEmpty, F!Validate, F!ValidateFails
  <2>3. (client.asked \/ client.answering) \in BOOLEAN
    OBVIOUS
  <2>4. PICK a \in BOOLEAN, p \in {"idle", "validated"} :
          client' = [phase |-> p, asked |-> FALSE, answering |-> a, set |-> {}]
    BY <2>2, <2>3 DEF F!Drawn
  <2> QED
    BY <2>1, <2>4
<1>2. hwc \in Hwcs /\ refresh \in Refreshes
  BY DEF LfInv, LfTypes, Hwcs, Refreshes
<1>3. CASE F!ValidateEmpty
  <2>1. [hwc EXCEPT !.flush = FALSE] \in Hwcs /\ ~[hwc EXCEPT !.flush = FALSE].flush
    BY <1>2 DEF Hwcs
  <2>2. hwc' \in Hwcs /\ ~hwc'.flush /\ refresh' \in Refreshes
    BY <1>2, <1>3, <2>1, PostCommitDoes DEF F!ValidateEmpty
  <2>3. DOMAIN content = {} /\ UNCHANGED <<noted, unsure>>
    BY <1>3 DEF F!ValidateEmpty, F!Created
  <2>4. LfTypes'
    BY <1>1, <2>2, <2>3 DEF LfInv, LfTypes, Hwcs, Refreshes
  <2> QED
    BY <1>1, <2>2, <2>3, <2>4 DEF LfInv
<1>4. CASE F!Validate
  <2>1. hwc' \in Hwcs /\ hwc'.flush = hwc.flush /\ UNCHANGED <<refresh, unsure>>
    BY <1>2, <1>4 DEF F!Validate, Hwcs
  <2>2. /\ noted' \in [DOMAIN content -> Notes] /\ client'.phase = "validated"
        /\ \A l \in DOMAIN content :
             noted'[l].flipped = noted[l].flipped /\ noted'[l].geometry = noted[l].geometry
    BY <1>4, ResetsDo DEF F!Validate, F!Drawn, LfInv, LfTypes
  <2>3. LfTypes'
    BY <1>1, <2>1, <2>2 DEF LfInv, LfTypes, Hwcs
  <2> QED
    BY <1>1, <2>1, <2>2, <2>3 DEF LfInv, Remembered, IsShown
<1>5. CASE F!ValidateFails
  <2>1. [refresh EXCEPT !.queued = @ + 1] \in Refreshes
    BY <1>2 DEF Refreshes
  <2>2. hwc' \in Hwcs /\ refresh' \in Refreshes
    BY <1>2, <1>5, <2>1, PostCommitDoes DEF F!ValidateFails
  <2>3. unsure' = TRUE /\ UNCHANGED noted
    BY <1>5 DEF F!ValidateFails
  <2>4. LfTypes'
    BY <1>1, <2>2, <2>3 DEF LfInv, LfTypes, Hwcs, Refreshes
  <2> QED
    BY <2>3, <2>4 DEF LfInv
<1> QED
  BY <1>3, <1>4, <1>5

\* A frame that is validated and committed in one call.
LEMMA ValidateAndCommitKeeps ==
  ASSUME LfInv, F!ValidateAndCommit
  PROVE  LfInv'
<1>1. /\ UNCHANGED content /\ unsure' = (unsure /\ hwc.flush)
      /\ noted' = F!ResetValidation(F!ResetGeometryChanges(noted))
      /\ client' \in [phase : {"idle", "validated"}, asked : BOOLEAN,
                      answering : BOOLEAN, set : SUBSET Layers]
      /\ ~hwc.flush => panel' = content
  BY DEF F!ValidateAndCommit, LfInv, LfTypes
<1>2. noted' \in [DOMAIN content -> Notes]
  <2>1. F!ResetGeometryChanges(noted) \in [DOMAIN content -> Notes]
    BY ResetsDo DEF LfInv, LfTypes
  <2> QED
    BY <1>1, <2>1, ResetsDo
<1>3. /\ [hwc EXCEPT !.invalid = FALSE, !.flush = FALSE] \in Hwcs
      /\ ~[hwc EXCEPT !.invalid = FALSE, !.flush = FALSE].flush
      /\ refresh \in Refreshes
  BY DEF LfInv, LfTypes, Hwcs, Refreshes
<1>4. hwc' \in Hwcs /\ ~hwc'.flush /\ refresh' \in Refreshes
  BY <1>3, PostCommitDoes DEF F!ValidateAndCommit
<1>5. LfTypes'
  BY <1>1, <1>2, <1>4 DEF LfInv, LfTypes, Hwcs, Refreshes
<1>6. ASSUME ~unsure', NEW l \in DOMAIN content' PROVE Remembered(l)'
  <2>1. panel' = content
    BY <1>1, <1>6 DEF LfInv
  <2> QED
    BY <1>1, <1>6, <2>1 DEF Remembered, IsShown
<1> QED
  BY <1>4, <1>5, <1>6 DEF LfInv

\* A layer that nothing is noted of is shown.
LEMMA SkippedIsShown ==
  ASSUME LfInv, ~unsure, F!CanSkipCommit
  PROVE  \A l \in DOMAIN content : IsShown(l)
BY DEF LfInv, Remembered, F!CanSkipCommit, F!Created, F!Nowhere

\* The present.
LEMMA PresentKeeps ==
  ASSUME LfInv, F!Present \/ F!PresentFails
  PROVE  LfInv'
<1>1. /\ UNCHANGED content
      /\ client' \in [phase : {"idle", "validated"}, asked : BOOLEAN,
                      answering : BOOLEAN, set : SUBSET Layers]
  BY DEF F!Present, F!PresentFails, F!Told, LfInv, LfTypes
<1>2. refresh \in Refreshes
  BY DEF LfInv, LfTypes, Refreshes
<1>3. CASE F!Present
  <2>1. noted' \in [DOMAIN content -> Notes]
    BY <1>3, LatchedDoes, ResetsDo DEF F!Present
  <2>2. ASSUME NEW on \in BOOLEAN
        PROVE  /\ [F!Honoured EXCEPT !.flush = FALSE, !.flush_on_error = on] \in Hwcs
               /\ ~[F!Honoured EXCEPT !.flush = FALSE, !.flush_on_error = on].flush
    BY LatchedDoes DEF Hwcs
  <2>3. (F!Honoured.flush_on_error \/ outcome' = "committed") \in BOOLEAN
    OBVIOUS
  <2>4. hwc' \in Hwcs /\ ~hwc'.flush /\ refresh' \in Refreshes
    BY <1>2, <1>3, <2>2, <2>3, PostCommitDoes DEF F!Present
  <2>5. /\ unsure' = (unsure /\ outcome' # "committed")
        /\ (outcome' = "committed" => panel' = content)
    BY <1>3 DEF F!Present
  <2>6. LfTypes'
    BY <1>1, <2>1, <2>4, <2>5 DEF LfInv, LfTypes, Hwcs, Refreshes
  <2>7. ASSUME ~unsure', NEW l \in DOMAIN content' PROVE Remembered(l)'
    <3>1. CASE outcome' = "committed"
      BY <1>1, <2>5, <2>7, <3>1 DEF Remembered, IsShown
    <3>2. CASE outcome' # "committed"
      <4>1. ~unsure /\ ~hwc.flush
        BY <2>5, <2>7, <3>2 DEF LfInv
      <4>2. F!CanSkipCommit /\ outcome' = "skipped"
        BY <1>1, <1>3, <2>7, <3>2, <4>1 DEF F!Present, F!Outcome, F!Created
      <4>3. panel' = panel
        BY <1>3, <4>2 DEF F!Present
      <4>4. IsShown(l)
        BY <1>1, <2>7, <4>1, <4>2, SkippedIsShown
      <4> QED
        BY <1>1, <4>3, <4>4 DEF Remembered, IsShown
    <3> QED
      BY <3>1, <3>2
  <2> QED
    BY <2>4, <2>6, <2>7 DEF LfInv
<1>4. CASE F!PresentFails
  <2>1. noted' \in [DOMAIN content -> Notes] /\ unsure' = TRUE /\ UNCHANGED refresh
    BY <1>4, LatchedDoes DEF F!PresentFails
  <2>2. hwc' \in Hwcs
    BY <1>4, LatchedDoes DEF F!PresentFails, Hwcs
  <2>3. LfTypes'
    BY <1>1, <2>1, <2>2 DEF LfInv, LfTypes, Hwcs
  <2> QED
    BY <2>1, <2>3 DEF LfInv
<1> QED
  BY <1>3, <1>4

\* Each call of the client and each callback keeps the invariant.
LEMMA LfStepKeeps ==
  ASSUME LfInv, [F!LfNext]_F!lfVars
  PROVE  LfInv'
<1>1. CASE \E l \in Layers : F!CreateLayer(l) \/ F!DestroyLayer(l)
  BY <1>1, EditKeeps
<1>2. CASE \/ \E l \in Layers, b \in Buffers : F!SetLayerBuffer(l, b)
           \/ \E l \in Layers, v \in 0..1 : F!SetLayerDisplayFrame(l, v) \/ F!SetLayerColor(l, v)
  BY <1>2, SetterKeeps
<1>3. CASE F!Refresh \/ F!CallbackTells \/ F!CallbackSetsBit
  BY <1>3, RefreshKeeps
<1>4. CASE F!ValidateEmpty \/ F!Validate \/ F!ValidateFails
  BY <1>4, ValidateKeeps
<1>5. CASE F!ValidateAndCommit
  BY <1>5, ValidateAndCommitKeeps
<1>6. CASE F!Present \/ F!PresentFails
  BY <1>6, PresentKeeps
<1>7. CASE UNCHANGED F!lfVars
  BY <1>7 DEF F!lfVars, LfInv, LfTypes, Remembered, IsShown
<1> QED
  BY <1>1, <1>2, <1>3, <1>4, <1>5, <1>6, <1>7 DEF F!LfNext

\* The invariant of the frames, in every behavior.
LEMMA LfInvariance ==
  F!LfSpec => []LfInv
<1>1. LfInv /\ [F!LfNext]_F!lfVars => LfInv'
  BY LfStepKeeps
<1> QED
  BY <1>1, LfInitEstablishes, PTL DEF F!LfSpec

\* The skipped frame.
LEMMA SkipStep ==
  ASSUME LfInv, [F!LfNext]_F!lfVars, F!Presents, outcome' = "skipped", ~unsure
  PROVE  \A l \in F!Created : content[l].buffer # "none" =>
           /\ l \in DOMAIN panel
           /\ panel[l].buffer = content[l].buffer /\ panel[l].frame = content[l].frame
<1>1. client.phase = "validated" /\ client'.phase = "idle"
  BY DEF F!Presents
<1>2. F!Present
  <2>1. ASSUME NEW l \in Layers,
               \/ F!CreateLayer(l) \/ F!DestroyLayer(l)
               \/ \E b \in Buffers : F!SetLayerBuffer(l, b)
               \/ \E v \in 0..1 : F!SetLayerDisplayFrame(l, v) \/ F!SetLayerColor(l, v)
        PROVE  FALSE
    <3>1. F!Edit
      BY <2>1 DEF F!CreateLayer, F!DestroyLayer, F!SetLayerBuffer, F!SetLayerDisplayFrame,
             F!SetLayerColor
    <3> QED
      BY <1>1, <3>1 DEF F!Edit
  <2>2. ASSUME F!Refresh \/ F!CallbackTells \/ F!CallbackSetsBit PROVE FALSE
    <3>1. client'.phase = client.phase
      BY <2>2 DEF F!Refresh, F!CallbackTells, F!CallbackSetsBit, LfInv, LfTypes
    <3> QED
      BY <1>1, <3>1
  <2>3. ASSUME F!ValidateEmpty \/ F!Validate \/ F!ValidateAndCommit \/ F!ValidateFails PROVE FALSE
    <3>1. F!Draws
      BY <2>3 DEF F!ValidateEmpty, F!Validate, F!ValidateAndCommit, F!ValidateFails
    <3> QED
      BY <1>1, <3>1 DEF F!Draws
  <2>4. ~F!PresentFails
    BY DEF F!PresentFails
  <2>5. ~UNCHANGED F!lfVars
    BY <1>1 DEF F!lfVars
  <2> QED
    BY <2>1, <2>2, <2>3, <2>4, <2>5 DEF F!LfNext
<1>3. F!CanSkipCommit
  BY <1>2 DEF F!Present, F!Outcome
<1> QED
  BY <1>3, SkippedIsShown DEF IsShown, F!Created

\* The refresh that is used up.
LEMMA RefreshStep ==
  ASSUME LfInv, [F!LfNext]_F!lfVars,
         refresh.needed \/ hwc.pending_refresh, ~(refresh'.needed \/ hwc'.pending_refresh)
  PROVE  F!Presents /\ outcome' # "skipped"
<1>1. hwc \in Hwcs /\ refresh \in Refreshes
  BY DEF LfInv, LfTypes, Hwcs, Refreshes
<1>2. ASSUME NEW l \in Layers,
             \/ F!CreateLayer(l) \/ F!DestroyLayer(l) \/ \E b \in Buffers : F!SetLayerBuffer(l, b)
             \/ \E v \in 0..1 : F!SetLayerDisplayFrame(l, v) \/ F!SetLayerColor(l, v)
      PROVE  FALSE
  <2>1. F!Edit /\ (hwc' = hwc \/ hwc' = [hwc EXCEPT !.invalid = TRUE])
    BY <1>2 DEF F!CreateLayer, F!DestroyLayer, F!SetLayerBuffer, F!SetLayerDisplayFrame,
           F!SetLayerColor
  <2>2. refresh' = refresh /\ hwc'.pending_refresh = hwc.pending_refresh
    BY <1>1, <2>1 DEF F!Edit, Hwcs
  <2> QED
    BY <2>2
<1>3. ASSUME F!Refresh \/ F!CallbackTells \/ F!CallbackSetsBit PROVE FALSE
  <2>1. CASE F!Refresh \/ F!CallbackTells
    <3>1. hwc' = hwc /\ refresh'.needed = refresh.needed
      BY <1>1, <2>1 DEF F!Refresh, F!CallbackTells, Refreshes
    <3> QED
      BY <3>1
  <2>2. CASE F!CallbackSetsBit
    <3>1. refresh'.needed
      BY <1>1, <2>2 DEF F!CallbackSetsBit, Refreshes
    <3> QED
      BY <3>1
  <2> QED
    BY <1>3, <2>1, <2>2
<1>4. ASSUME NEW h \in Hwcs, NEW r \in Refreshes, F!PostCommitLocked(h, r),
             h.pending_refresh = hwc.pending_refresh, r.needed = refresh.needed
      PROVE  FALSE
  <2>1. hwc'.pending_refresh
    BY <1>4, PostCommitDoes
  <2> QED
    BY <2>1
<1>5. ASSUME F!ValidateEmpty \/ F!Validate \/ F!ValidateAndCommit \/ F!ValidateFails PROVE FALSE
  <2>1. CASE F!ValidateEmpty
    <3>1. /\ [hwc EXCEPT !.flush = FALSE] \in Hwcs
          /\ [hwc EXCEPT !.flush = FALSE].pending_refresh = hwc.pending_refresh
      BY <1>1 DEF Hwcs
    <3> QED
      BY <1>1, <1>4, <2>1, <3>1 DEF F!ValidateEmpty
  <2>2. CASE F!Validate
    <3>1. refresh' = refresh /\ hwc'.pending_refresh = hwc.pending_refresh
      BY <1>1, <2>2 DEF F!Validate, Hwcs
    <3> QED
      BY <3>1
  <2>3. CASE F!ValidateAndCommit
    <3>1. /\ [hwc EXCEPT !.invalid = FALSE, !.flush = FALSE] \in Hwcs
          /\ [hwc EXCEPT !.invalid = FALSE, !.flush = FALSE].pending_refresh = hwc.pending_refresh
      BY <1>1 DEF Hwcs
    <3> QED
      BY <1>1, <1>4, <2>3, <3>1 DEF F!ValidateAndCommit
  <2>4. CASE F!ValidateFails
    <3>1. /\ [refresh EXCEPT !.queued = @ + 1] \in Refreshes
          /\ [refresh EXCEPT !.queued = @ + 1].needed = refresh.needed
      BY <1>1 DEF Refreshes
    <3> QED
      BY <1>1, <1>4, <2>4, <3>1 DEF F!ValidateFails
  <2> QED
    BY <1>5, <2>1, <2>2, <2>3, <2>4
<1>6. F!Present \/ F!PresentFails
  <2>1. ~UNCHANGED F!lfVars
    BY DEF F!lfVars
  <2> QED
    BY <1>2, <1>3, <1>5, <2>1 DEF F!LfNext
<1>7. F!Presents
  <2>1. client.phase = "validated" /\ F!Told
    BY <1>6 DEF F!Present, F!PresentFails
  <2>2. client'.phase = "idle"
    BY <2>1 DEF F!Told, LfInv, LfTypes
  <2> QED
    BY <2>1, <2>2 DEF F!Presents
<1>8. outcome' # "skipped"
  <2> SUFFICES ASSUME outcome' = "skipped" PROVE FALSE
    OBVIOUS
  <2>1. F!Present
    BY <1>6 DEF F!PresentFails
  <2>2. ~hwc.pending_refresh
    BY <2>1 DEF F!Present, F!Outcome, F!CanSkipCommit
  <2>3. ASSUME NEW on \in BOOLEAN
        PROVE  [F!Honoured EXCEPT !.flush = FALSE, !.flush_on_error = on] \in Hwcs
    BY LatchedDoes DEF Hwcs
  <2>4. (F!Honoured.flush_on_error \/ outcome' = "committed") \in BOOLEAN
    OBVIOUS
  <2>5. hwc'.pending_refresh
    BY <1>1, <2>1, <2>2, <2>3, <2>4, PostCommitDoes DEF F!Present
  <2> QED
    BY <2>5
<1> QED
  BY <1>7, <1>8

\* The two steps, in every behavior.
LEMMA SkipInvariance ==
  F!LfSpec => F!SkipLosesNoBuffer /\ F!RefreshIsNotSpent
<1>1. LfInv /\ [F!LfNext]_F!lfVars =>
        [F!Presents /\ outcome' = "skipped" /\ ~unsure =>
           \A l \in F!Created : content[l].buffer # "none" =>
             /\ l \in DOMAIN panel
             /\ panel[l].buffer = content[l].buffer /\ panel[l].frame = content[l].frame]_F!lfVars
  BY SkipStep
<1>2. LfInv /\ [F!LfNext]_F!lfVars =>
        [(refresh.needed \/ hwc.pending_refresh) /\ ~(refresh'.needed \/ hwc'.pending_refresh)
           => F!Presents /\ outcome' # "skipped"]_F!lfVars
  BY RefreshStep
<1> QED
  BY <1>1, <1>2, LfInvariance, PTL DEF F!LfSpec, F!SkipLosesNoBuffer, F!RefreshIsNotSpent

-----------------------------------------------------------------------------
(* The layout of buffers: what is allocated, computed from one size, covers  *)
(* the planes, computed from another.                                       *)

\* A product grows with its factors.
LEMMA TimesGrows ==
  ASSUME NEW a \in Nat, NEW b \in Nat, NEW c \in Nat, NEW d \in Nat, a <= c, b <= d
  PROVE  a * b \in Nat /\ a * b <= c * d
<1>1. a * b <= c * b
  <2>1. (c - a) \in Nat
    OBVIOUS
  <2>2. (c - a) * b \in Nat
    BY <2>1
  <2> QED
    BY <2>2
<1>2. c * b <= c * d
  <2>1. (d - b) \in Nat
    OBVIOUS
  <2>2. c * (d - b) \in Nat
    BY <2>1
  <2> QED
    BY <2>2
<1>3. a * b \in Nat /\ c * b \in Nat /\ c * d \in Nat
  OBVIOUS
<1> QED
  BY <1>1, <1>2, <1>3

\* An aligned size is the least multiple that is no smaller.
LEMMA AlignDoes ==
  ASSUME NEW x \in Nat, NEW a \in Nat \ {0}
  PROVE  /\ L!Align(x, a) \in Nat /\ x <= L!Align(x, a)
         /\ \E k \in Nat : L!Align(x, a) = k * a
         /\ \A k \in Nat : x <= k * a => L!Align(x, a) <= k * a
<1> DEFINE k == (x + a - 1) \div a
<1>1. k \in Nat /\ k * a <= x + a - 1 /\ x + a - 1 < k * a + a
  OBVIOUS
<1>2. ASSUME NEW j \in Nat, x <= j * a PROVE k * a <= j * a
  <2>1. CASE k <= j
    BY <2>1, <1>1, TimesGrows
  <2>2. CASE j + 1 <= k
    <3>1. (j + 1) * a <= k * a
      BY <2>2, <1>1, TimesGrows
    <3>2. (j + 1) * a = j * a + a /\ j * a \in Nat /\ k * a \in Nat
      BY <1>1
    <3> QED
      BY <3>1, <3>2, <1>1, <1>2
  <2> QED
    BY <2>1, <2>2, <1>1
<1>3. L!Align(x, a) = k * a /\ k * a \in Nat
  BY <1>1 DEF L!Align
<1> HIDE DEF k
<1> QED
  BY <1>1, <1>2, <1>3

\* What is larger is no smaller when both are aligned.
LEMMA AlignGrows ==
  ASSUME NEW x \in Nat, NEW y \in Nat, NEW a \in Nat \ {0}, x <= y
  PROVE  L!Align(x, a) <= L!Align(y, a)
<1>1. PICK k \in Nat : L!Align(y, a) = k * a
  BY AlignDoes
<1>2. x <= k * a
  BY <1>1, AlignDoes
<1>3. \A j \in Nat : x <= j * a => L!Align(x, a) <= j * a
  BY AlignDoes
<1>4. L!Align(x, a) <= k * a
  BY <1>2, <1>3
<1> QED
  BY <1>1, <1>4

\* A question about the layout: the rectangle is inside the buffer.
Question == [format : L!Formats, usage : SUBSET L!Usages, width : Nat, height : Nat,
             crop : Nat \X Nat]
Askable(q) == q \in Question /\ q.crop[1] <= q.width /\ q.crop[2] <= q.height

\* The planes are inside a buffer of so many bytes, and apart.
Inside(q, planes, bytes) ==
  /\ \A i \in DOMAIN planes :
       /\ planes[i].offset + planes[i].stride * planes[i].rows <= bytes
       /\ q.format \notin L!Rgb => planes[i].offset + planes[i].size <= bytes
  /\ \A i, j \in DOMAIN planes : i # j =>
       \/ planes[i].offset + planes[i].size <= planes[j].offset
       \/ planes[j].offset + planes[j].size <= planes[i].offset
       \/ planes[i].size = 0 \/ planes[j].size = 0

\* The alignment of the memory.
LEMMA DataAligned ==
  ASSUME NEW u
  PROVE  L!DataAlignment(u) \in Nat \ {0}
<1>1. PageSize \in Nat \ {0}
  BY SMT, PageAssumption
<1>2. 4096 \in Nat \ {0} /\ 2097152 \in Nat \ {0}
  BY SMT
<1> QED
  BY SMT, <1>1, <1>2 DEF L!DataAlignment

\* The size of a buffer is no less than what its layer takes.
LEMMA SizeCovers ==
  ASSUME NEW q, NEW aw, NEW ah,
         L!Aligned(q.format, q.usage, q.width, q.height) = <<aw, ah>>,
         L!Bytes(q.format, q.usage, q.width, q.height, aw, ah) \in Nat
  PROVE  L!Size(q) \in Nat /\ L!Bytes(q.format, q.usage, q.width, q.height, aw, ah) <= L!Size(q)
<1> DEFINE bytes == L!Bytes(q.format, q.usage, q.width, q.height, aw, ah)
<1>1. L!Size(q) = L!Align(bytes, L!DataAlignment(q.usage))
  BY DEF L!Size
<1> HIDE DEF bytes
<1>2. bytes \in Nat
  BY DEF bytes
<1> QED
  BY <1>1, <1>2, DataAligned, AlignDoes DEF bytes

\* One plane.
LEMMA OneInside ==
  ASSUME NEW q, NEW stride \in Nat, NEW rows \in Nat, NEW size \in Nat, NEW bytes \in Nat,
         stride * rows <= bytes, size <= bytes
  PROVE  Inside(q, <<L!Plane(0, stride, rows, size)>>, bytes)
<1> DEFINE p == L!Plane(0, stride, rows, size)
<1>1. p.offset = 0 /\ p.stride = stride /\ p.rows = rows /\ p.size = size
  BY DEF L!Plane
<1> HIDE DEF p
<1>2. stride * rows \in Nat
  OBVIOUS
<1> QED
  BY <1>1, <1>2 DEF Inside, p

\* Two planes, the second behind the first.
LEMMA TwoInside ==
  ASSUME NEW q, NEW bytes \in Nat,
         NEW st1 \in Nat, NEW r1 \in Nat, NEW s1 \in Nat,
         NEW st2 \in Nat, NEW r2 \in Nat, NEW s2 \in Nat,
         st1 * r1 <= s1, st2 * r2 <= s2, s1 + s2 <= bytes
  PROVE  Inside(q, <<L!Plane(0, st1, r1, s1), L!Plane(s1, st2, r2, s2)>>, bytes)
<1> DEFINE p == L!Plane(0, st1, r1, s1)
           r == L!Plane(s1, st2, r2, s2)
<1>1. /\ p.offset = 0 /\ p.stride = st1 /\ p.rows = r1 /\ p.size = s1
      /\ r.offset = s1 /\ r.stride = st2 /\ r.rows = r2 /\ r.size = s2
  BY DEF L!Plane
<1> HIDE DEF p, r
<1>2. st1 * r1 \in Nat /\ st2 * r2 \in Nat
  OBVIOUS
<1>3. \A i \in DOMAIN <<p, r>> :
        /\ <<p, r>>[i].offset + <<p, r>>[i].stride * <<p, r>>[i].rows <= bytes
        /\ <<p, r>>[i].offset + <<p, r>>[i].size <= bytes
  BY <1>1, <1>2
<1>4. p.offset + p.size <= r.offset
  BY <1>1
<1> QED
  BY <1>3, <1>4 DEF Inside, p, r

\* Half of a plane's rows take no more than half of its bytes.
LEMMA HalfRows ==
  ASSUME NEW w \in Nat, NEW h \in Nat
  PROVE  w * (h \div 2) \in Nat /\ w * (h \div 2) <= (w * h) \div 2
<1>1. h \div 2 \in Nat /\ 2 * (h \div 2) <= h
  OBVIOUS
<1>2. w * (2 * (h \div 2)) <= w * h
  BY <1>1, TimesGrows
<1>3. w * (2 * (h \div 2)) = 2 * (w * (h \div 2))
  BY <1>1
<1> DEFINE x == w * (h \div 2)
           y == w * h
<1>4. x \in Nat /\ y \in Nat /\ 2 * x <= y
  BY <1>1, <1>2, <1>3
<1> HIDE DEF x, y
<1>5. x <= y \div 2
  BY <1>4
<1> QED
  BY <1>4, <1>5 DEF x, y

\* The strides and rows of mmm_color_fmt.h.
LEMMA MmmDoes ==
  ASSUME NEW f, NEW u, NEW x \in Nat, NEW y \in Nat, x <= y
  PROVE  /\ L!MmmStride(f, u, x) \in Nat /\ L!MmmStride(f, u, x) <= L!MmmStride(f, u, y)
         /\ L!MmmRows(f, u, x) \in Nat /\ L!MmmRows(f, u, x) <= L!MmmRows(f, u, y)
         /\ L!MmmChromaRows(f, u, x) \in Nat
         /\ L!MmmChromaRows(f, u, x) <= L!MmmChromaRows(f, u, y)
<1>1. (x + 1) \div 2 \in Nat /\ (y + 1) \div 2 \in Nat /\ (x + 1) \div 2 <= (y + 1) \div 2
  OBVIOUS
<1>2. 2 * x \in Nat /\ 2 * y \in Nat /\ 2 * x <= 2 * y
  OBVIOUS
<1>3. \A a \in {16, 32, 128, 256, 512} : a \in Nat \ {0}
  OBVIOUS
<1>4. ASSUME NEW a \in {16, 32, 128, 256, 512}
      PROVE  /\ L!Align(x, a) \in Nat /\ L!Align(x, a) <= L!Align(y, a)
             /\ L!Align(2 * x, a) \in Nat /\ L!Align(2 * x, a) <= L!Align(2 * y, a)
             /\ L!Align((x + 1) \div 2, a) \in Nat
             /\ L!Align((x + 1) \div 2, a) <= L!Align((y + 1) \div 2, a)
  <2>1. /\ L!Align(x, a) \in Nat /\ L!Align(x, a) <= L!Align(y, a)
    BY <1>3, AlignDoes, AlignGrows
  <2>2. L!Align(2 * x, a) \in Nat /\ L!Align(2 * x, a) <= L!Align(2 * y, a)
    BY <1>2, <1>3, AlignDoes, AlignGrows
  <2>3. /\ L!Align((x + 1) \div 2, a) \in Nat
        /\ L!Align((x + 1) \div 2, a) <= L!Align((y + 1) \div 2, a)
    BY <1>1, <1>3, AlignDoes, AlignGrows
  <2> QED
    BY <2>1, <2>2, <2>3
<1> DEFINE s == IF L!MmmWide(f, u) THEN 512 ELSE IF f = "YCbCr_420_P010" THEN 256 ELSE 128
           r == IF L!MmmWide(f, u) THEN 512 ELSE 32
           c == IF L!MmmWide(f, u) THEN 256 ELSE 16
<1>5. {s, r, c} \subseteq {16, 32, 128, 256, 512}
  OBVIOUS
<1>6. \A z : /\ L!MmmStride(f, u, z) = L!Align(IF f = "YCbCr_420_P010" THEN 2 * z ELSE z, s)
              /\ L!MmmRows(f, u, z) = L!Align(z, r)
              /\ L!MmmChromaRows(f, u, z) = L!Align((z + 1) \div 2, c)
  BY DEF L!MmmStride, L!MmmRows, L!MmmChromaRows
<1> HIDE DEF s, r, c
<1> QED
  BY <1>4, <1>5, <1>6

\* Aligning twice is aligning once, in strides, and in the rows of luma and chroma.
LEMMA MmmAgain ==
  ASSUME NEW f, NEW u, NEW x \in Nat
  PROVE  /\ f # "YCbCr_420_P010" =>
              L!MmmStride(f, u, L!MmmStride(f, u, x)) = L!MmmStride(f, u, x)
         /\ f = "YCbCr_420_P010" =>
              /\ L!MmmStride(f, u, x) \div 2 \in Nat
              /\ 2 * (L!MmmStride(f, u, x) \div 2) = L!MmmStride(f, u, x)
              /\ L!MmmStride(f, u, L!MmmStride(f, u, x) \div 2) = L!MmmStride(f, u, x)
         /\ L!MmmRows(f, u, L!MmmRows(f, u, x)) = L!MmmRows(f, u, x)
         /\ L!MmmChromaRows(f, u, L!MmmRows(f, u, x)) = L!MmmChromaRows(f, u, x)
<1>1. /\ L!Align(L!Align(x, 128), 128) = L!Align(x, 128)
      /\ L!Align(L!Align(x, 512), 512) = L!Align(x, 512)
      /\ L!Align(L!Align(x, 32), 32) = L!Align(x, 32)
  BY DEF L!Align
<1>2. \A a \in {256, 512} :
        /\ L!Align(2 * x, a) \div 2 \in Nat
        /\ 2 * (L!Align(2 * x, a) \div 2) = L!Align(2 * x, a)
        /\ L!Align(2 * (L!Align(2 * x, a) \div 2), a) = L!Align(2 * x, a)
  BY DEF L!Align
<1>3. /\ L!Align((L!Align(x, 32) + 1) \div 2, 16) = L!Align((x + 1) \div 2, 16)
      /\ L!Align((L!Align(x, 512) + 1) \div 2, 256) = L!Align((x + 1) \div 2, 256)
  BY DEF L!Align
<1>4. f = "YCbCr_420_P010" => f # "NV12_HEIF"
  OBVIOUS
<1> QED
  BY <1>1, <1>2, <1>3, <1>4 DEF L!MmmStride, L!MmmRows, L!MmmChromaRows, L!MmmWide

\* The formats are different, and only the RGB ones have a number of bytes.
LEMMA FormatsDiffer ==
  /\ L!Rgb = {"RGBA_FP16", "RGBA_8888", "RGB_888", "BGR_565", "R_8"}
  /\ L!Sp \cap L!Rgb = {} /\ L!LumaOnly \cap L!Rgb = {} /\ L!Raw \cap L!Rgb = {}
  /\ L!Bpp["RGBA_FP16"] = 8 /\ L!Bpp["RGBA_8888"] = 4 /\ L!Bpp["RGB_888"] = 3
  /\ L!Bpp["BGR_565"] = 2 /\ L!Bpp["R_8"] = 1
<1>1. L!Rgb = {"RGBA_FP16", "RGBA_8888", "RGB_888", "BGR_565", "R_8"}
  BY DEF L!Rgb, L!Bpp
<1>2. /\ L!Bpp["RGBA_FP16"] = 8 /\ L!Bpp["RGBA_8888"] = 4 /\ L!Bpp["RGB_888"] = 3
      /\ L!Bpp["BGR_565"] = 2 /\ L!Bpp["R_8"] = 1
  BY DEF L!Bpp
<1> QED
  BY <1>1, <1>2 DEF L!Sp, L!LumaOnly, L!Raw

\* A larger size is no smaller when aligned.
LEMMA AlignedGrows ==
  ASSUME NEW f \in L!Formats \ L!Rgb, NEW u,
         NEW x \in Nat, NEW y \in Nat, NEW X \in Nat, NEW Y \in Nat, x <= X, y <= Y
  PROVE  \E w, h, W, H \in Nat :
           /\ L!Aligned(f, u, x, y) = <<w, h>> /\ L!Aligned(f, u, X, Y) = <<W, H>>
           /\ w <= W /\ h <= H
<1>1. \A a \in {16, 32, 64} :
        /\ L!Align(x, a) \in Nat /\ L!Align(x, a) <= L!Align(X, a)
        /\ L!Align(X, a) \in Nat
        /\ L!Align(y, a) \in Nat /\ L!Align(y, a) <= L!Align(Y, a)
        /\ L!Align(Y, a) \in Nat
  BY DEF L!Align
<1>2. /\ L!Align(x, GpuAlignment) \in Nat /\ L!Align(X, GpuAlignment) \in Nat
      /\ L!Align(x, GpuAlignment) <= L!Align(X, GpuAlignment)
  BY AlignDoes, AlignGrows, SizesAssumption
<1>3. f \in L!Sp \cup L!LumaOnly \cup L!Raw \cup {"YCbCr_420_P010", "YV12", "CbYCrY_422_I"}
  BY DEF L!Formats
<1>4. CASE f \in {"YCRCB_420_SP", "YCbCr_420_SP_VENUS", "YCrCb_420_SP_VENUS", "NV12_HEIF"}
  <2>1. /\ L!Aligned(f, u, x, y) = <<L!MmmStride(f, u, x), L!MmmRows(f, u, y)>>
        /\ L!Aligned(f, u, X, Y) = <<L!MmmStride(f, u, X), L!MmmRows(f, u, Y)>>
    BY <1>4, FormatsDiffer DEF L!Aligned
  <2>2. L!MmmStride(f, u, X) \in Nat /\ L!MmmRows(f, u, Y) \in Nat
    BY MmmDoes
  <2>3. /\ L!MmmStride(f, u, x) \in Nat /\ L!MmmRows(f, u, y) \in Nat
        /\ L!MmmStride(f, u, x) <= L!MmmStride(f, u, X)
        /\ L!MmmRows(f, u, y) <= L!MmmRows(f, u, Y)
    BY MmmDoes
  <2> QED
    BY <2>1, <2>2, <2>3
<1>5. CASE f = "YCbCr_420_P010"
  <2>1. /\ L!Aligned(f, u, x, y) = <<L!MmmStride(f, u, x) \div 2, L!MmmRows(f, u, y)>>
        /\ L!Aligned(f, u, X, Y) = <<L!MmmStride(f, u, X) \div 2, L!MmmRows(f, u, Y)>>
    BY <1>5, FormatsDiffer DEF L!Aligned
  <2>2. L!MmmStride(f, u, X) \in Nat /\ L!MmmRows(f, u, Y) \in Nat
    BY MmmDoes
  <2>3. /\ L!MmmStride(f, u, x) \in Nat /\ L!MmmRows(f, u, y) \in Nat
        /\ L!MmmStride(f, u, x) <= L!MmmStride(f, u, X)
        /\ L!MmmRows(f, u, y) <= L!MmmRows(f, u, Y)
    BY MmmDoes
  <2>4. /\ L!MmmStride(f, u, x) \div 2 \in Nat /\ L!MmmStride(f, u, X) \div 2 \in Nat
        /\ L!MmmStride(f, u, x) \div 2 <= L!MmmStride(f, u, X) \div 2
    BY <2>2, <2>3
  <2> QED
    BY <2>1, <2>2, <2>3, <2>4
<1>6. CASE f \in {"YCbCr_420_SP", "YV12"}
  <2>1. PICK a \in {16, 64, GpuAlignment} :
          /\ L!Aligned(f, u, x, y) = <<L!Align(x, a), y>>
          /\ L!Aligned(f, u, X, Y) = <<L!Align(X, a), Y>>
    <3>1. CASE f = "YV12"
      BY <3>1, FormatsDiffer DEF L!Aligned, L!Alignment
    <3>2. CASE f = "YCbCr_420_SP"
      BY <3>2, FormatsDiffer DEF L!Aligned
    <3> QED
      BY <1>6, <3>1, <3>2
  <2> QED
    BY <1>1, <1>2, <2>1
<1>7. CASE f = "NV21_ZSL"
  <2>1. /\ L!Aligned(f, u, x, y) = <<L!Align(x, 64), L!Align(y, 64)>>
        /\ L!Aligned(f, u, X, Y) = <<L!Align(X, 64), L!Align(Y, 64)>>
    BY <1>7, FormatsDiffer DEF L!Aligned
  <2> QED
    BY <1>1, <2>1
<1>8. CASE f \in {"YCrCb_420_SP_ADRENO", "RAW8", "RAW16", "Y8", "Y16", "YCBCR_422_SP"}
  <2>1. PICK a \in {16, 32} :
          /\ L!Aligned(f, u, x, y) = <<L!Align(x, a), y>>
          /\ L!Aligned(f, u, X, Y) = <<L!Align(X, a), Y>>
    <3>1. CASE f = "YCrCb_420_SP_ADRENO"
      BY <3>1, FormatsDiffer DEF L!Aligned
    <3>2. CASE f \in {"RAW8", "RAW16", "Y8", "Y16", "YCBCR_422_SP"}
      BY <3>2, FormatsDiffer DEF L!Aligned
    <3> QED
      BY <1>8, <3>1, <3>2
  <2> QED
    BY <1>1, <2>1
<1>9. CASE f \in {"RAW10", "RAW12"}
  <2>1. PICK n \in {10, 12} :
          /\ L!Aligned(f, u, x, y) = <<L!Align((x * n) \div 8, 16), y>>
          /\ L!Aligned(f, u, X, Y) = <<L!Align((X * n) \div 8, 16), Y>>
    <3>1. CASE f = "RAW10"
      BY <3>1, FormatsDiffer DEF L!Aligned
    <3>2. CASE f = "RAW12"
      BY <3>2, FormatsDiffer DEF L!Aligned
    <3> QED
      BY <1>9, <3>1, <3>2
  <2>2. /\ (x * n) \div 8 \in Nat /\ (X * n) \div 8 \in Nat
        /\ (x * n) \div 8 <= (X * n) \div 8
    BY <2>1
  <2>3. \A a, b \in Nat : a <= b =>
          L!Align(a, 16) \in Nat /\ L!Align(b, 16) \in Nat /\ L!Align(a, 16) <= L!Align(b, 16)
    BY DEF L!Align
  <2> DEFINE w == L!Align((x * n) \div 8, 16)
             W == L!Align((X * n) \div 8, 16)
  <2>4. /\ L!Aligned(f, u, x, y) = <<w, y>> /\ L!Aligned(f, u, X, Y) = <<W, Y>>
        /\ w \in Nat /\ W \in Nat /\ w <= W
    BY <2>1, <2>2, <2>3
  <2> HIDE DEF w, W
  <2> QED
    BY <2>4
<1>10. CASE f = "CbYCrY_422_I"
  BY <1>10, FormatsDiffer DEF L!Aligned
<1> QED
  BY <1>3, <1>4, <1>5, <1>6, <1>7, <1>8, <1>9, <1>10 DEF L!Sp, L!LumaOnly, L!Raw

\* The aligned size of the rectangle is inside that of the buffer.
LEMMA CropAligned ==
  ASSUME NEW q, Askable(q), q.format \notin L!Rgb
  PROVE  \E w, h, W, H \in Nat :
           /\ L!Aligned(q.format, q.usage, q.crop[1], q.crop[2]) = <<w, h>>
           /\ L!Aligned(q.format, q.usage, q.width, q.height) = <<W, H>>
           /\ w <= W /\ h <= H
<1> DEFINE f == q.format
           u == q.usage
           x == q.crop[1]
           y == q.crop[2]
           X == q.width
           Y == q.height
<1>1. /\ f \in L!Formats \ L!Rgb
      /\ x \in Nat /\ y \in Nat /\ X \in Nat /\ Y \in Nat /\ x <= X /\ y <= Y
  BY DEF Askable, Question
<1> HIDE DEF f, u, x, y, X, Y
<1>2. \E w, h, W, H \in Nat :
           /\ L!Aligned(f, u, x, y) = <<w, h>> /\ L!Aligned(f, u, X, Y) = <<W, H>>
           /\ w <= W /\ h <= H
  BY <1>1, AlignedGrows
<1> QED
  BY <1>2 DEF f, u, x, y, X, Y

\* The planes of a semi-planar format.
LEMMA SpPlanesAt ==
  ASSUME NEW q, NEW w, NEW h, q.format \in L!Sp,
         L!Aligned(q.format, q.usage, q.crop[1], q.crop[2]) = <<w, h>>
  PROVE  L!PlanesAt(q) = L!SpPlanes(q, w, h)
<1>1. /\ q.format \notin L!LumaOnly /\ q.format \notin L!Raw /\ q.format \notin L!Rgb
      /\ q.format \notin {"YCbCr_420_P010", "YV12", "CbYCrY_422_I"}
  BY FormatsDiffer DEF L!Sp, L!LumaOnly, L!Raw
<1> QED
  BY <1>1 DEF L!PlanesAt

\* The planes of the semi-planar formats whose chroma has half the rows of the luma.
LEMMA HalfInside ==
  ASSUME NEW q, Askable(q),
         q.format \in {"YCbCr_420_SP", "YCRCB_420_SP", "NV21_ZSL"}
  PROVE  Inside(q, L!PlanesAt(q), L!Size(q))
<1>1. PICK w, h, W, H \in Nat :
        /\ L!Aligned(q.format, q.usage, q.crop[1], q.crop[2]) = <<w, h>>
        /\ L!Aligned(q.format, q.usage, q.width, q.height) = <<W, H>>
        /\ w <= W /\ h <= H
  BY CropAligned, FormatsDiffer DEF L!Sp
<1>2. L!PlanesAt(q) = <<L!Plane(0, w, h, w * h), L!Plane(w * h, w, h \div 2, w * (h \div 2))>>
  <2>1. q.format \in L!Sp
    BY DEF L!Sp
  <2>2. L!PlanesAt(q) = L!SpPlanes(q, w, h)
    BY <1>1, <2>1, SpPlanesAt
  <2>3. q.format \notin {"YCbCr_420_SP_VENUS", "YCrCb_420_SP_ADRENO"}
    OBVIOUS
  <2> QED
    BY <2>2, <2>3 DEF L!SpPlanes
<1>3. w * h \in Nat /\ W * H \in Nat /\ w * h <= W * H /\ h \div 2 \in Nat
  <2>1. w * h <= W * H
    BY <1>1, TimesGrows
  <2> QED
    BY <2>1
<1>4. w * (h \div 2) \in Nat /\ w * (h \div 2) <= (w * h) \div 2
  BY HalfRows
<1>5. PICK n \in {0, 1} :
        L!Bytes(q.format, q.usage, q.width, q.height, W, H)
          = L!Align(W * H + (W * H) \div 2 + n, 4096)
  <2>1. CASE q.format = "NV21_ZSL"
    <3>1. W * H + (W * H) \div 2 = W * H + (W * H) \div 2 + 0
      BY <1>3
    <3> QED
      BY <2>1, <3>1, FormatsDiffer DEF L!Bytes, L!IsUbwc, L!Ubwc
  <2>2. CASE q.format \in {"YCbCr_420_SP", "YCRCB_420_SP"}
    BY <2>2, FormatsDiffer DEF L!Bytes, L!IsUbwc, L!Ubwc
  <2> QED
    BY <2>1, <2>2
<1>6. /\ L!Align(W * H + (W * H) \div 2 + n, 4096) \in Nat
      /\ W * H + (W * H) \div 2 <= L!Align(W * H + (W * H) \div 2 + n, 4096)
  <2>1. (W * H) \div 2 \in Nat
    BY <1>3
  <2>2. W * H + (W * H) \div 2 + n \in Nat
    BY <1>3, <2>1
  <2>3. /\ L!Align(W * H + (W * H) \div 2 + n, 4096) \in Nat
        /\ W * H + (W * H) \div 2 + n <= L!Align(W * H + (W * H) \div 2 + n, 4096)
    BY <2>2, AlignDoes
  <2> QED
    BY <1>3, <2>1, <2>3
<1>7. L!Size(q) \in Nat /\ W * H + (W * H) \div 2 <= L!Size(q)
  <2>1. /\ L!Size(q) \in Nat
        /\ L!Bytes(q.format, q.usage, q.width, q.height, W, H) <= L!Size(q)
    BY <1>1, <1>5, <1>6, SizeCovers
  <2> QED
    BY <1>3, <1>5, <1>6, <2>1
<1>8. w * h + w * (h \div 2) <= L!Size(q)
  <2> DEFINE a == w * h
             b == W * H
             c == w * (h \div 2)
  <2>1. /\ a \in Nat /\ b \in Nat /\ c \in Nat
        /\ a <= b /\ c <= a \div 2 /\ b + b \div 2 <= L!Size(q)
    BY <1>3, <1>4, <1>7
  <2> HIDE DEF a, b, c
  <2>2. a + c <= L!Size(q)
    BY <2>1, <1>7
  <2> QED
    BY <2>2 DEF a, c
<1> QED
  BY <1>2, <1>3, <1>4, <1>7, <1>8, TwoInside

\* The size of a format whose layout mmm_color_fmt.h gives covers the rows of a rectangle inside.
LEMMA MmmCovers ==
  ASSUME NEW q, Askable(q),
         q.format \in {"YCbCr_420_P010", "YCbCr_420_SP_VENUS", "YCrCb_420_SP_VENUS", "NV12_HEIF"},
         NEW w, NEW h, NEW c,
         w = L!MmmStride(q.format, q.usage, q.crop[1]),
         h = L!MmmRows(q.format, q.usage, q.crop[2]),
         c = L!MmmChromaRows(q.format, q.usage, q.crop[2])
  PROVE  /\ w \in Nat /\ h \in Nat /\ c \in Nat
         /\ w * h \in Nat /\ w * c \in Nat
         /\ L!Size(q) \in Nat /\ w * h + w * c <= L!Size(q)
<1> DEFINE W == L!MmmStride(q.format, q.usage, q.width)
           H == L!MmmRows(q.format, q.usage, q.height)
           C == L!MmmChromaRows(q.format, q.usage, q.height)
           bytes == L!MmmSize(q.format, q.usage, q.width, q.height)
<1>1. /\ q.crop[1] \in Nat /\ q.crop[2] \in Nat /\ q.width \in Nat /\ q.height \in Nat
      /\ q.crop[1] <= q.width /\ q.crop[2] <= q.height
  BY DEF Askable, Question
<1>2. /\ w \in Nat /\ h \in Nat /\ c \in Nat /\ w <= W /\ h <= H /\ c <= C
  BY <1>1, MmmDoes
<1>3. W \in Nat /\ H \in Nat /\ C \in Nat
  BY <1>1, MmmDoes
<1>4. bytes = L!Align(W * (H + C), 4096)
  BY DEF L!MmmSize
<1>5. bytes = L!Bytes(q.format, q.usage, q.width, q.height,
                      L!Aligned(q.format, q.usage, q.width, q.height)[1],
                      L!Aligned(q.format, q.usage, q.width, q.height)[2])
  <2>1. /\ ~L!IsUbwc(q.format, q.usage)
        /\ q.format \notin L!Rgb
    BY FormatsDiffer DEF L!IsUbwc, L!Ubwc
  <2> QED
    BY <2>1 DEF L!Bytes
<1>6. L!Size(q) = L!Align(bytes, L!DataAlignment(q.usage))
  BY <1>5 DEF L!Size
<1> HIDE DEF W, H, C, bytes
<1>7. w * (h + c) \in Nat /\ W * (H + C) \in Nat /\ w * (h + c) <= W * (H + C)
  <2>1. h + c \in Nat /\ H + C \in Nat /\ h + c <= H + C
    BY <1>2, <1>3
  <2>2. w * (h + c) <= W * (H + C)
    BY <1>2, <1>3, <2>1, TimesGrows
  <2> QED
    BY <1>2, <1>3, <2>1, <2>2
<1>8. bytes \in Nat /\ W * (H + C) <= bytes
  BY <1>4, <1>7, AlignDoes
<1>9. L!Size(q) \in Nat /\ bytes <= L!Size(q)
  BY <1>6, <1>8, DataAligned, AlignDoes
<1>10. w * (h + c) = w * h + w * c /\ w * h \in Nat /\ w * c \in Nat
  BY <1>2
<1> QED
  BY <1>2, <1>7, <1>8, <1>9, <1>10

\* The planes of the formats whose layout mmm_color_fmt.h gives.
LEMMA MmmInside ==
  ASSUME NEW q, Askable(q),
         q.format \in {"YCbCr_420_P010", "YCbCr_420_SP_VENUS", "YCrCb_420_SP_VENUS", "NV12_HEIF"}
  PROVE  Inside(q, L!PlanesAt(q), L!Size(q))
<1> DEFINE w == L!MmmStride(q.format, q.usage, q.crop[1])
           h == L!MmmRows(q.format, q.usage, q.crop[2])
           c == L!MmmChromaRows(q.format, q.usage, q.crop[2])
<1>1. /\ w \in Nat /\ h \in Nat /\ c \in Nat
      /\ w * h \in Nat /\ w * c \in Nat
      /\ L!Size(q) \in Nat /\ w * h + w * c <= L!Size(q)
  BY MmmCovers
<1>2. L!PlanesAt(q) = <<L!Plane(0, w, h, w * h), L!Plane(w * h, w, c, w * c)>>
  <2>1. q.crop[1] \in Nat /\ q.crop[2] \in Nat
    BY DEF Askable, Question
  <2>2. CASE q.format = "YCbCr_420_P010"
    <3>1. L!Aligned(q.format, q.usage, q.crop[1], q.crop[2]) = <<w \div 2, h>>
      BY <2>2, FormatsDiffer DEF L!Aligned
    <3>2. /\ L!MmmStride(q.format, q.usage, w \div 2) = w
          /\ L!MmmRows(q.format, q.usage, h) = h
          /\ L!MmmChromaRows(q.format, q.usage, h) = c
      BY <2>1, <2>2, MmmAgain
    <3>3. L!PlanesAt(q) = L!P010Planes(q, w \div 2, h)
      <4>1. q.format \notin L!Sp /\ q.format \notin L!LumaOnly /\ q.format \notin L!Raw
        BY <2>2 DEF L!Sp, L!LumaOnly, L!Raw
      <4> HIDE DEF w, h
      <4> QED
        BY <2>2, <3>1, <4>1, FormatsDiffer DEF L!PlanesAt
    <3> HIDE DEF w, h, c
    <3> QED
      BY <3>2, <3>3 DEF L!P010Planes
  <2>3. CASE q.format # "YCbCr_420_P010"
    <3>1. L!Aligned(q.format, q.usage, q.crop[1], q.crop[2]) = <<w, h>>
      BY <2>3, FormatsDiffer DEF L!Aligned
    <3>2. /\ L!MmmRows(q.format, q.usage, h) = h
          /\ L!MmmChromaRows(q.format, q.usage, h) = c
      BY <2>1, MmmAgain
    <3>3. L!PlanesAt(q) = L!SpPlanes(q, w, h)
      BY <2>3, <3>1, SpPlanesAt DEF L!Sp
    <3> HIDE DEF w, h, c
    <3> QED
      BY <2>3, <3>2, <3>3 DEF L!SpPlanes
  <2> QED
    BY <2>2, <2>3
<1> HIDE DEF w, h, c
<1>3. w * h <= w * h /\ w * c <= w * c
  BY <1>1
<1> QED
  BY <1>1, <1>2, <1>3, TwoInside

\* Pages, as many as are needed.
LEMMA PagesDo ==
  ASSUME NEW x \in Nat, NEW y \in Nat, x <= y
  PROVE  /\ L!Align(x, 4096) \in Nat /\ x <= L!Align(x, 4096)
         /\ L!Align(x, 4096) <= L!Align(y, 4096)
BY DEF L!Align

\* The bytes of a format that is not RGB are its size at least.
LEMMA PlainSize ==
  ASSUME NEW q, NEW W, NEW H, NEW bytes \in Nat,
         L!Aligned(q.format, q.usage, q.width, q.height) = <<W, H>>,
         \/ L!Bytes(q.format, q.usage, q.width, q.height, W, H) = bytes
         \/ L!Bytes(q.format, q.usage, q.width, q.height, W, H) = L!Align(bytes, 4096)
  PROVE  L!Size(q) \in Nat /\ bytes <= L!Size(q)
<1>1. L!Align(bytes, 4096) \in Nat /\ bytes <= L!Align(bytes, 4096)
  BY PagesDo
<1> DEFINE b == L!Bytes(q.format, q.usage, q.width, q.height, W, H)
<1>2. b \in Nat /\ bytes <= b
  BY <1>1
<1>3. L!Size(q) \in Nat /\ b <= L!Size(q)
  BY <1>2, SizeCovers
<1> HIDE DEF b
<1> QED
  BY <1>2, <1>3

\* The planes of the format with a whole plane of chroma.
LEMMA WholeInside ==
  ASSUME NEW q, Askable(q), q.format = "YCBCR_422_SP"
  PROVE  Inside(q, L!PlanesAt(q), L!Size(q))
<1>1. PICK w, h, W, H \in Nat :
        /\ L!Aligned(q.format, q.usage, q.crop[1], q.crop[2]) = <<w, h>>
        /\ L!Aligned(q.format, q.usage, q.width, q.height) = <<W, H>>
        /\ w <= W /\ h <= H
  BY CropAligned, FormatsDiffer
<1>2. L!PlanesAt(q) = <<L!Plane(0, w, h, w * h), L!Plane(w * h, w, h, w * h)>>
  <2>1. L!PlanesAt(q) = L!SpPlanes(q, w, h)
    BY <1>1, SpPlanesAt DEF L!Sp
  <2> QED
    BY <2>1 DEF L!SpPlanes
<1>3. L!Bytes(q.format, q.usage, q.width, q.height, W, H) = L!Align(W * H * 2, 4096)
  BY FormatsDiffer DEF L!Bytes, L!IsUbwc, L!Ubwc
<1>4. w * h \in Nat /\ W * H \in Nat /\ W * H * 2 \in Nat /\ w * h <= W * H
  BY <1>1, TimesGrows
<1>5. L!Size(q) \in Nat /\ W * H * 2 <= L!Size(q)
  BY <1>1, <1>3, <1>4, PlainSize
<1>6. w * h + w * h <= L!Size(q)
  <2> DEFINE a == w * h
             b == W * H
  <2>1. a \in Nat /\ b \in Nat /\ a <= b /\ b * 2 <= L!Size(q)
    BY <1>4, <1>5
  <2> HIDE DEF a, b
  <2>2. a + a <= L!Size(q)
    BY <2>1, <1>5
  <2> QED
    BY <2>2 DEF a
<1>7. w * h <= w * h
  BY <1>4
<1> QED
  BY <1>2, <1>4, <1>5, <1>6, <1>7, TwoInside

\* The planes of the format of the Adreno GPU.
LEMMA AdrenoInside ==
  ASSUME NEW q, Askable(q), q.format = "YCrCb_420_SP_ADRENO"
  PROVE  Inside(q, L!PlanesAt(q), L!Size(q))
<1>1. PICK w, h, W, H \in Nat :
        /\ L!Aligned(q.format, q.usage, q.crop[1], q.crop[2]) = <<w, h>>
        /\ L!Aligned(q.format, q.usage, q.width, q.height) = <<W, H>>
        /\ w <= W /\ h <= H
  BY CropAligned, FormatsDiffer
<1> DEFINE chroma == L!Align(2 * L!Align(q.width \div 2, 32) * L!Align(q.height \div 2, 32), 4096)
           luma == L!Align(w * h, 4096)
           Luma == L!Align(W * H, 4096)
<1>2. L!PlanesAt(q) = <<L!Plane(0, w, h, luma), L!Plane(luma, w, 0, chroma)>>
  <2>1. L!PlanesAt(q) = L!SpPlanes(q, w, h)
    BY <1>1, SpPlanesAt DEF L!Sp
  <2> QED
    BY <2>1 DEF L!SpPlanes
<1>3. L!Bytes(q.format, q.usage, q.width, q.height, W, H) = Luma + chroma
  BY FormatsDiffer DEF L!Bytes, L!IsUbwc, L!Ubwc
<1>4. w * h \in Nat /\ W * H \in Nat /\ w * h <= W * H
  BY <1>1, TimesGrows
<1>5. luma \in Nat /\ Luma \in Nat /\ w * h <= luma /\ luma <= Luma
  BY <1>4, PagesDo
<1>6. chroma \in Nat
  <2>1. q.width \div 2 \in Nat /\ q.height \div 2 \in Nat
    BY DEF Askable, Question
  <2>2. \A x \in Nat : L!Align(x, 32) \in Nat
    BY DEF L!Align
  <2>3. L!Align(q.width \div 2, 32) \in Nat /\ L!Align(q.height \div 2, 32) \in Nat
    BY <2>1, <2>2
  <2>4. 2 * L!Align(q.width \div 2, 32) * L!Align(q.height \div 2, 32) \in Nat
    BY <2>3
  <2> QED
    BY <2>4, PagesDo
<1> HIDE DEF chroma, luma, Luma
<1>7. Luma + chroma \in Nat
  BY <1>5, <1>6
<1>8. L!Size(q) \in Nat /\ Luma + chroma <= L!Size(q)
  BY <1>1, <1>3, <1>7, PlainSize
<1>9. luma + chroma <= L!Size(q) /\ w * 0 <= chroma
  BY <1>5, <1>6, <1>8
<1> QED
  BY <1>2, <1>5, <1>6, <1>8, <1>9, TwoInside

\* The plane of the formats that have one.
LEMMA LumaInside ==
  ASSUME NEW q, Askable(q), q.format \in {"Y8", "Y16", "CbYCrY_422_I"}
  PROVE  Inside(q, L!PlanesAt(q), L!Size(q))
<1>1. PICK w, h, W, H \in Nat :
        /\ L!Aligned(q.format, q.usage, q.crop[1], q.crop[2]) = <<w, h>>
        /\ L!Aligned(q.format, q.usage, q.width, q.height) = <<W, H>>
        /\ w <= W /\ h <= H
  BY CropAligned, FormatsDiffer
<1> DEFINE n == IF q.format = "Y8" THEN 1 ELSE 2
<1>2. L!PlanesAt(q) = <<L!Plane(0, w * n, h, (w * n) * h)>>
  <2>1. /\ q.format \notin L!Sp /\ q.format \notin L!Raw /\ q.format \notin L!Rgb
        /\ q.format \in L!LumaOnly <=> q.format # "CbYCrY_422_I"
    BY FormatsDiffer DEF L!Sp, L!Raw, L!LumaOnly
  <2>2. CASE q.format = "Y8"
    BY <1>1, <2>1, <2>2 DEF L!PlanesAt
  <2>3. CASE q.format = "Y16"
    BY <1>1, <2>1, <2>3 DEF L!PlanesAt
  <2>4. CASE q.format = "CbYCrY_422_I"
    BY <1>1, <2>1, <2>4 DEF L!PlanesAt
  <2> QED
    BY <2>2, <2>3, <2>4
<1>3. \/ L!Bytes(q.format, q.usage, q.width, q.height, W, H) = W * H * n
      \/ L!Bytes(q.format, q.usage, q.width, q.height, W, H) = L!Align(W * H * n, 4096)
  BY <1>1, FormatsDiffer DEF L!Bytes, L!IsUbwc, L!Ubwc
<1>4. n \in Nat
  OBVIOUS
<1> HIDE DEF n
<1>5. W * H \in Nat /\ W * H * n \in Nat /\ w * h \in Nat /\ w * h <= W * H
  BY <1>1, <1>4, TimesGrows
<1>6. (w * n) * h = (w * h) * n
  BY <1>4
<1>7. w * n \in Nat /\ (w * n) * h \in Nat /\ (w * n) * h <= (W * H) * n
  <2>1. (w * h) * n <= (W * H) * n
    BY <1>4, <1>5, TimesGrows
  <2> QED
    BY <1>4, <1>6, <2>1
<1>8. L!Size(q) \in Nat /\ W * H * n <= L!Size(q)
  BY <1>1, <1>3, <1>5, PlainSize
<1>9. (w * n) * h <= L!Size(q)
  BY <1>5, <1>7, <1>8
<1> QED
  BY <1>2, <1>7, <1>8, <1>9, OneInside

\* The planes of YV12: both chroma planes behind the luma.
LEMMA Yv12Inside ==
  ASSUME NEW q, Askable(q), q.format = "YV12"
  PROVE  Inside(q, L!PlanesAt(q), L!Size(q))
<1>1. PICK w, h, W, H \in Nat :
        /\ L!Aligned(q.format, q.usage, q.crop[1], q.crop[2]) = <<w, h>>
        /\ L!Aligned(q.format, q.usage, q.width, q.height) = <<W, H>>
        /\ w <= W /\ h <= H
  BY CropAligned, FormatsDiffer
<1> DEFINE s == L!Align(w \div 2, L!Alignment(q.usage))
           S == L!Align(W \div 2, L!Alignment(q.usage))
           t == h \div 2
           T == H \div 2
<1>2. s \in Nat /\ S \in Nat /\ s <= S
  <2>1. L!Alignment(q.usage) \in Nat \ {0}
    BY SizesAssumption DEF L!Alignment
  <2>2. w \div 2 \in Nat /\ W \div 2 \in Nat /\ w \div 2 <= W \div 2
    BY <1>1
  <2> QED
    BY <2>1, <2>2, AlignDoes, AlignGrows
<1>3. t \in Nat /\ T \in Nat /\ t <= T
  BY <1>1
<1>4. L!PlanesAt(q) = <<L!Plane(0, w, h, w * h), L!Plane(w * h + s * t, s, t, s * t),
                        L!Plane(w * h, s, t, s * t)>>
  <2>1. q.format \notin L!Sp /\ q.format \notin L!Raw /\ q.format \notin L!LumaOnly
    BY DEF L!Sp, L!Raw, L!LumaOnly
  <2>2. L!PlanesAt(q) = L!Yv12Planes(q, w, h)
    BY <1>1, <2>1, FormatsDiffer DEF L!PlanesAt
  <2> QED
    BY <2>2 DEF L!Yv12Planes, L!CbOffset
<1>5. L!Bytes(q.format, q.usage, q.width, q.height, W, H) = L!Align(W * H + (S * T) * 2, 4096)
  BY FormatsDiffer DEF L!Bytes, L!IsUbwc, L!Ubwc
<1> HIDE DEF s, S, t, T
<1> DEFINE a == w * h
           A == W * H
           c == s * t
           C == S * T
<1>6. a \in Nat /\ A \in Nat /\ a <= A /\ c \in Nat /\ C \in Nat /\ c <= C
  <2>1. w * h <= W * H /\ s * t <= S * T
    BY <1>1, <1>2, <1>3, TimesGrows
  <2>2. w * h \in Nat /\ W * H \in Nat /\ s * t \in Nat /\ S * T \in Nat
    BY <1>2, <1>3
  <2> QED
    BY <2>1, <2>2
<1>7. W * H + (S * T) * 2 \in Nat
  <2>1. A + C * 2 \in Nat
    BY <1>6
  <2> QED
    BY <2>1
<1>8. L!Size(q) \in Nat /\ A + C * 2 <= L!Size(q)
  BY <1>1, <1>5, <1>7, PlainSize
<1> DEFINE y == L!Plane(0, w, h, a)
           cb == L!Plane(a + c, s, t, c)
           cr == L!Plane(a, s, t, c)
<1>9. L!PlanesAt(q) = <<y, cb, cr>>
  BY <1>4
<1>10. /\ y.offset = 0 /\ y.stride * y.rows = a /\ y.size = a
       /\ cb.offset = a + c /\ cb.stride * cb.rows = c /\ cb.size = c
       /\ cr.offset = a /\ cr.stride * cr.rows = c /\ cr.size = c
  BY DEF L!Plane
<1> HIDE DEF a, A, c, C, y, cb, cr
<1>11. /\ y.offset + a <= L!Size(q) /\ cb.offset + c <= L!Size(q) /\ cr.offset + c <= L!Size(q)
       /\ y.offset + y.size <= cb.offset /\ y.offset + y.size <= cr.offset
       /\ cr.offset + cr.size <= cb.offset
  BY <1>6, <1>8, <1>10
<1>12. ASSUME NEW i \in {1, 2, 3}
       PROVE  /\ <<y, cb, cr>>[i].offset + <<y, cb, cr>>[i].stride * <<y, cb, cr>>[i].rows
                   <= L!Size(q)
              /\ <<y, cb, cr>>[i].offset + <<y, cb, cr>>[i].size <= L!Size(q)
  <2>1. CASE i = 1
    BY <2>1, <1>10, <1>11
  <2>2. CASE i = 2
    BY <2>2, <1>10, <1>11
  <2>3. CASE i = 3
    BY <2>3, <1>10, <1>11
  <2> QED
    BY <2>1, <2>2, <2>3
<1>13. ASSUME NEW i \in {1, 2, 3}, NEW j \in {1, 2, 3}, i # j
       PROVE  \/ <<y, cb, cr>>[i].offset + <<y, cb, cr>>[i].size <= <<y, cb, cr>>[j].offset
              \/ <<y, cb, cr>>[j].offset + <<y, cb, cr>>[j].size <= <<y, cb, cr>>[i].offset
  <2>1. CASE i = 1
    BY <2>1, <1>11, <1>13
  <2>2. CASE i = 2
    BY <2>2, <1>11, <1>13
  <2>3. CASE i = 3
    BY <2>3, <1>11, <1>13
  <2> QED
    BY <2>1, <2>2, <2>3
<1>14. DOMAIN <<y, cb, cr>> = {1, 2, 3}
  OBVIOUS
<1> QED
  BY <1>9, <1>12, <1>13, <1>14 DEF Inside

\* A buffer without usage is no larger than the same buffer with one.
LEMMA UnprotectedIsLeast ==
  ASSUME NEW u, NEW b \in Nat
  PROVE  L!Align(b, L!DataAlignment({})) <= L!Align(b, L!DataAlignment(u))
<1>1. L!DataAlignment({}) = PageSize /\ PageSize \in Nat \ {0}
  BY SMT, PageAssumption DEF L!DataAlignment
<1>2. PICK n \in Nat : L!DataAlignment(u) = n * PageSize
  <2> DEFINE k == 4096 \div PageSize
  <2>5. k \in Nat
    BY <1>1
  <2>1. 4096 = k * PageSize
    BY PageAssumption
  <2> HIDE DEF k
  <2>2. CASE "protected" \notin u
    <3>1. L!DataAlignment(u) = 1 * PageSize
      BY SMT, <1>1, <2>2 DEF L!DataAlignment
    <3> QED
      BY <3>1
  <2>3. CASE "protected" \in u /\ "secure" \in u
    <3>1. 512 * k \in Nat /\ (512 * k) * PageSize = 512 * (k * PageSize)
      BY <1>1, <2>5
    <3>2. 512 * 4096 = 2097152
      BY SMT
    <3>3. L!DataAlignment(u) = (512 * k) * PageSize
      BY SMT, <2>1, <2>3, <3>1, <3>2 DEF L!DataAlignment
    <3> QED
      BY <3>1, <3>3
  <2>4. CASE "protected" \in u /\ "secure" \notin u
    BY SMT, <2>1, <2>4, <2>5 DEF L!DataAlignment
  <2> QED
    BY <2>2, <2>3, <2>4
<1>3. PICK j \in Nat : L!Align(b, L!DataAlignment(u)) = j * L!DataAlignment(u)
  BY DataAligned, AlignDoes
<1>4. b <= j * L!DataAlignment(u)
  BY <1>3, DataAligned, AlignDoes
<1>5. j * L!DataAlignment(u) = (j * n) * PageSize /\ j * n \in Nat
  BY <1>1, <1>2
<1>6. L!Align(b, PageSize) <= (j * n) * PageSize
  BY <1>1, <1>4, <1>5, AlignDoes
<1> QED
  BY <1>1, <1>3, <1>5, <1>6

\* The plane of a raw format, whose size is computed as if the buffer had no usage.
LEMMA RawInside ==
  ASSUME NEW q, Askable(q), q.format \in L!Raw
  PROVE  Inside(q, L!PlanesAt(q), L!Size(q))
<1> DEFINE none == [q EXCEPT !.usage = {}]
<1>1. /\ none.format = q.format /\ none.usage = {}
      /\ none.width = q.width /\ none.height = q.height
  BY DEF Askable, Question
<1>2. PICK W \in Nat : \A u : L!Aligned(q.format, u, q.width, q.height) = <<W, q.height>>
  <2>1. PICK w, h, W, H \in Nat : L!Aligned(q.format, q.usage, q.width, q.height) = <<W, H>>
    BY CropAligned, FormatsDiffer
  <2>3. \A u : /\ L!Aligned(q.format, u, q.width, q.height) = <<W, H>>
               /\ H = q.height
    BY <2>1, FormatsDiffer DEF L!Aligned, L!Raw
  <2> QED
    BY <2>3
<1> DEFINE n == IF q.format = "RAW16" THEN 2 ELSE 1
<1>3. n \in Nat
  OBVIOUS
<1>4. L!PlanesAt(q) = <<L!Plane(0, W * n, q.height, L!Size(none))>>
  <2>1. q.format \notin L!Sp /\ q.format \notin L!LumaOnly
    BY DEF L!Sp, L!Raw, L!LumaOnly
  <2>2. L!PlanesAt(q) = L!RawPlanes(q)
    <3>1. /\ q.format \in L!Raw /\ q.format \notin L!Rgb
          /\ q.format \notin {"YCbCr_420_P010", "YV12", "CbYCrY_422_I"}
      BY FormatsDiffer DEF L!Raw
    <3> QED
      BY <2>1, <3>1 DEF L!PlanesAt
  <2>3. L!RawPlanes(q)
          = <<L!Plane(0, IF q.format = "RAW16" THEN W * 2 ELSE W, q.height, L!Size(none))>>
    BY <1>2 DEF L!RawPlanes
  <2> QED
    BY <1>2, <2>2, <2>3
<1> DEFINE b == IF q.format \in {"RAW10", "RAW12"} THEN L!Align(W * q.height, 4096)
                ELSE W * q.height * n
<1>5. \A u : L!Bytes(q.format, u, q.width, q.height, W, q.height) = b
  <2>1. q.format \notin L!Ubwc /\ q.format \notin L!Rgb
    BY FormatsDiffer DEF L!Ubwc, L!Raw
  <2>2. CASE q.format = "RAW16"
    BY <2>1, <2>2 DEF L!Bytes, L!IsUbwc
  <2>3. CASE q.format = "RAW8"
    <3>1. W * q.height * 1 = W * q.height
      BY DEF Askable, Question
    <3> QED
      BY <2>1, <2>3, <3>1 DEF L!Bytes, L!IsUbwc
  <2>4. CASE q.format \in {"RAW10", "RAW12"}
    BY <2>1, <2>4 DEF L!Bytes, L!IsUbwc
  <2> QED
    BY <2>2, <2>3, <2>4 DEF L!Raw
<1>6. /\ L!Size(none) = L!Align(b, L!DataAlignment({}))
      /\ L!Size(q) = L!Align(b, L!DataAlignment(q.usage))
  <2>1. L!Size(none) = L!Align(L!Bytes(q.format, {}, q.width, q.height, W, q.height),
                               L!DataAlignment({}))
    BY <1>1, <1>2 DEF L!Size
  <2>2. L!Size(q) = L!Align(L!Bytes(q.format, q.usage, q.width, q.height, W, q.height),
                            L!DataAlignment(q.usage))
    BY <1>2 DEF L!Size
  <2> HIDE DEF b, none
  <2> QED
    BY <1>5, <2>1, <2>2
<1>7. b \in Nat /\ W * n * q.height <= b /\ W * n \in Nat /\ q.height \in Nat
  <2>1. W * n \in Nat /\ q.height \in Nat /\ W * q.height \in Nat
    BY <1>2, <1>3 DEF Askable, Question
  <2>2. W * q.height * n = W * n * q.height /\ W * q.height * n \in Nat
    BY <2>1, <1>2, <1>3
  <2>3. W * q.height <= L!Align(W * q.height, 4096) /\ L!Align(W * q.height, 4096) \in Nat
    BY <2>1, PagesDo
  <2>4. CASE q.format \in {"RAW10", "RAW12"}
    <3>1. n = 1 /\ W * n = W
      BY <2>4, <1>2
    <3> QED
      BY <2>1, <2>3, <2>4, <3>1
  <2>5. CASE q.format \notin {"RAW10", "RAW12"}
    BY <2>1, <2>2, <2>5
  <2> QED
    BY <2>4, <2>5
<1> HIDE DEF b, n, none
<1>8. L!Size(none) <= L!Size(q)
  BY <1>6, <1>7, UnprotectedIsLeast
<1>9. /\ L!Size(none) \in Nat /\ L!Size(q) \in Nat /\ b <= L!Size(none)
  BY <1>6, <1>7, DataAligned, AlignDoes
<1>10. W * n * q.height <= L!Size(q)
  <2>1. W * n * q.height \in Nat
    BY <1>7
  <2> QED
    BY <2>1, <1>7, <1>8, <1>9
<1> QED
  BY <1>4, <1>7, <1>8, <1>9, <1>10, OneInside

\* The aligned size of an RGB buffer is a size.
LEMMA RgbAligned ==
  ASSUME NEW f \in L!Rgb, NEW u, NEW w \in Nat, NEW h \in Nat
  PROVE  \E W, H \in Nat : L!Aligned(f, u, w, h) = <<W, H>>
<1>1. L!Bpp[f] \in {1, 2, 3, 4, 8}
  BY FormatsDiffer
<1> DEFINE n == L!Bpp[f]
           aw == IF n = 3 THEN L!Align(w, 256) ELSE L!Align(w * n, 256) \div n
           ah == IF L!IsUbwc(f, u) THEN L!Align(h, 16) ELSE h
<1>2. aw \in Nat
  <2>1. w * n \in Nat
    BY <1>1
  <2>2. \A x \in Nat : L!Align(x, 256) \in Nat
    BY DEF L!Align
  <2>3. \A x \in Nat, m \in {1, 2, 3, 4, 8} : x \div m \in Nat
    OBVIOUS
  <2> HIDE DEF n
  <2> QED
    BY <1>1, <2>1, <2>2, <2>3 DEF n
<1>3. ah \in Nat
  BY DEF L!Align
<1>4. L!AlignedRgb(f, u, w, h)
        = IF f = "RGBA_8888" /\ "overlay" \in u /\ "secure" \notin u THEN L!MmmRgb(aw, ah)
          ELSE <<aw, ah>>
  BY DEF L!AlignedRgb
<1>5. L!Aligned(f, u, w, h) = L!AlignedRgb(f, u, w, h)
  BY FormatsDiffer DEF L!Aligned
<1> HIDE DEF aw, ah
<1>6. \E W, H \in Nat : L!MmmRgb(aw, ah) = <<W, H>>
  <2>1. L!Align(aw, 64) \in Nat /\ L!Align(ah, 16) \in Nat
    BY <1>2, <1>3 DEF L!Align
  <2> QED
    BY <2>1 DEF L!MmmRgb
<1> QED
  BY <1>2, <1>3, <1>4, <1>5, <1>6

\* The bytes of metadata for a row of blocks that are n pixels wide.
Blocks(x, n) == L!Align((x + n - 1) \div n, 64)

\* The blocks of an aligned buffer are those of the buffer.
LEMMA SameBlocks ==
  ASSUME NEW w \in Nat, NEW h \in Nat
  PROVE  /\ Blocks(L!Align(w * 8, 256) \div 8, 8) = Blocks(w, 8)
         /\ Blocks(L!Align(w * 4, 256) \div 4, 16) = Blocks(w, 16)
         /\ Blocks(L!Align(w * 2, 256) \div 2, 16) = Blocks(w, 16)
         /\ L!Align(L!Align(w * 4, 256) \div 4, 64) = L!Align(w * 4, 256) \div 4
         /\ L!MetaRows(L!Align(h, 16)) = L!MetaRows(h)
         /\ L!Align(L!Align(h, 16), 16) = L!Align(h, 16)
<1>1. Blocks(L!Align(w * 8, 256) \div 8, 8) = Blocks(w, 8)
  BY DEF Blocks, L!Align
<1>2. Blocks(L!Align(w * 4, 256) \div 4, 16) = Blocks(w, 16)
  BY DEF Blocks, L!Align
<1>3. Blocks(L!Align(w * 2, 256) \div 2, 16) = Blocks(w, 16)
  BY DEF Blocks, L!Align
<1>4. L!Align(L!Align(w * 4, 256) \div 4, 64) = L!Align(w * 4, 256) \div 4
  BY DEF L!Align
<1>5. L!MetaRows(L!Align(h, 16)) = L!MetaRows(h) /\ L!Align(L!Align(h, 16), 16) = L!Align(h, 16)
  BY DEF L!Align, L!MetaRows
<1> QED
  BY <1>1, <1>2, <1>3, <1>4, <1>5

\* The metadata of the aligned buffer, where the pixels begin, take what was allocated.
LEMMA SameMeta ==
  ASSUME NEW f, NEW u, L!IsUbwc(f, u), NEW w \in Nat, NEW h \in Nat, NEW W, NEW H,
         L!Aligned(f, u, w, h) = <<W, H>>
  PROVE  L!MetaSize(f, W, H) = L!MetaSize(f, w, h)
<1>1. f \in {"RGBA_FP16", "RGBA_8888", "BGR_565"} /\ f \in L!Rgb
  BY FormatsDiffer DEF L!IsUbwc, L!Ubwc
<1>2. L!Aligned(f, u, w, h) = L!AlignedRgb(f, u, w, h)
  BY <1>1 DEF L!Aligned
<1>3. H = L!Align(h, 16)
  BY <1>1, <1>2, SameBlocks DEF L!AlignedRgb, L!MmmRgb
<1>4. Blocks(W, L!BlockWidth(f)) = Blocks(w, L!BlockWidth(f))
  <2>1. CASE f = "RGBA_FP16"
    <3>1. W = L!Align(w * 8, 256) \div 8 /\ L!BlockWidth(f) = 8
      BY <1>2, <2>1, FormatsDiffer DEF L!AlignedRgb, L!BlockWidth
    <3> QED
      BY <3>1, SameBlocks
  <2>2. CASE f = "RGBA_8888"
    <3>1. W = L!Align(w * 4, 256) \div 4 /\ L!BlockWidth(f) = 16
      BY <1>2, <2>2, FormatsDiffer, SameBlocks DEF L!AlignedRgb, L!BlockWidth, L!MmmRgb
    <3> QED
      BY <3>1, SameBlocks
  <2>3. CASE f = "BGR_565"
    <3>1. W = L!Align(w * 2, 256) \div 2 /\ L!BlockWidth(f) = 16
      BY <1>2, <2>3, FormatsDiffer DEF L!AlignedRgb, L!BlockWidth
    <3> QED
      BY <3>1, SameBlocks
  <2> QED
    BY <1>1, <2>1, <2>2, <2>3
<1> QED
  BY <1>3, <1>4, SameBlocks DEF Blocks, L!MetaSize

\* The plane of an RGB format, behind its metadata.
LEMMA RgbInside ==
  ASSUME NEW q, Askable(q), q.format \in L!Rgb
  PROVE  Inside(q, L!PlanesAt(q), L!Size(q))
<1>1. PICK W, H \in Nat : L!Aligned(q.format, q.usage, q.width, q.height) = <<W, H>>
  BY RgbAligned DEF Askable, Question
<1> DEFINE n == L!Bpp[q.format]
           meta == IF L!IsUbwc(q.format, q.usage) THEN L!MetaSize(q.format, W, H) ELSE 0
<1>2. L!PlanesAt(q) = <<L!Plane(meta, W * n, H, L!Size(q))>>
  <2>1. /\ q.format \notin L!Sp /\ q.format \notin L!LumaOnly /\ q.format \notin L!Raw
        /\ q.format \notin {"YCbCr_420_P010", "YV12", "CbYCrY_422_I"}
    BY FormatsDiffer
  <2>2. L!PlanesAt(q) = L!RgbPlanes(q)
    BY <2>1 DEF L!PlanesAt
  <2> QED
    BY <1>1, <2>2 DEF L!RgbPlanes
<1>3. n \in Nat
  BY FormatsDiffer
<1>4. meta \in Nat
  <2>1. \A x \in Nat, m \in {8, 16} : (x + m - 1) \div m \in Nat
    OBVIOUS
  <2>2. L!BlockWidth(q.format) \in {8, 16}
    BY DEF L!BlockWidth
  <2>3. \A x \in Nat : L!Align(x, 64) \in Nat /\ L!MetaRows(x) \in Nat
    BY DEF L!Align, L!MetaRows
  <2>4. Blocks(W, L!BlockWidth(q.format)) \in Nat
    BY <2>1, <2>2, <2>3 DEF Blocks
  <2>5. L!MetaRows(H) \in Nat
    BY <2>3
  <2>6. Blocks(W, L!BlockWidth(q.format)) * L!MetaRows(H) \in Nat
    BY <2>4, <2>5
  <2>7. L!MetaSize(q.format, W, H) \in Nat
    BY <2>6, PagesDo DEF Blocks, L!MetaSize
  <2> QED
    BY <2>7
<1>5. L!Bytes(q.format, q.usage, q.width, q.height, W, H) = W * H * n + meta
  <2>1. CASE L!IsUbwc(q.format, q.usage)
    <3>1. q.width \in Nat /\ q.height \in Nat
      BY DEF Askable, Question
    <3>2. L!MetaSize(q.format, W, H) = L!MetaSize(q.format, q.width, q.height)
      BY <1>1, <2>1, <3>1, SameMeta
    <3>3. q.format \notin L!Rgb \ (IF "ubwc" \in q.usage THEN L!Ubwc ELSE {})
      BY <2>1 DEF L!IsUbwc
    <3>4. q.format \in {"RGBA_FP16", "RGBA_8888", "BGR_565"}
      BY <2>1 DEF L!IsUbwc, L!Ubwc
    <3> QED
      BY <2>1, <3>2, <3>3, <3>4 DEF L!Bytes
  <2>2. CASE ~L!IsUbwc(q.format, q.usage)
    <3>1. q.format \in L!Rgb \ (IF "ubwc" \in q.usage THEN L!Ubwc ELSE {})
      BY <2>2 DEF L!IsUbwc
    <3>2. W * H * n + 0 = W * H * n
      BY <1>1, <1>3
    <3>3. L!Bytes(q.format, q.usage, q.width, q.height, W, H) = W * H * n
      BY <2>2, <3>1, FormatsDiffer DEF L!Bytes
    <3> QED
      BY <2>2, <3>2, <3>3
  <2> QED
    BY <2>1, <2>2
<1> HIDE DEF n, meta
<1>6. W * H * n \in Nat /\ (W * n) * H = W * H * n /\ W * n \in Nat
  BY <1>3
<1>7. W * H * n + meta \in Nat
  BY <1>4, <1>6
<1>8. L!Size(q) \in Nat /\ W * H * n + meta <= L!Size(q)
  BY <1>1, <1>5, <1>7, PlainSize
<1> DEFINE p == L!Plane(meta, W * n, H, L!Size(q))
<1>9. /\ p.offset = meta /\ p.stride * p.rows = W * H * n
  BY <1>6 DEF L!Plane
<1> HIDE DEF p
<1>10. p.offset + p.stride * p.rows <= L!Size(q)
  BY <1>4, <1>6, <1>8, <1>9
<1>11. L!PlanesAt(q) = <<p>>
  BY <1>2 DEF p
<1> QED
  BY <1>10, <1>11 DEF Inside

\* The planes of every buffer are inside it.
LEMMA AllInside ==
  ASSUME NEW q, Askable(q)
  PROVE  Inside(q, L!PlanesAt(q), L!Size(q))
<1>1. q.format \in L!Formats
  BY DEF Askable, Question
<1> QED
  BY <1>1, HalfInside, WholeInside, MmmInside, AdrenoInside, LumaInside, Yv12Inside, RawInside,
     RgbInside DEF L!Formats, L!Sp, L!LumaOnly

\* What is asked.
BlInv == query \in Seq(Question) /\ \A i \in DOMAIN query : Askable(query[i])

\* The questions that the specification asks may be asked.
LEMMA BlInvariance == L!BlSpec => []BlInv
<1>1. L!BlInit => BlInv
  BY DEF L!BlInit, BlInv
<1>2. BlInv /\ [L!BlNext]_L!blVars => BlInv'
  <2> SUFFICES ASSUME BlInv, L!Ask PROVE BlInv'
    BY DEF L!BlNext, L!blVars, BlInv
  <2>1. PICK f \in L!Formats : \E u \in L!UsagesOf(f), w \in Widths, h \in Heights :
          /\ query = <<>> /\ ~L!Refused(f, w, h)
          /\ \E cw \in {x \in Widths : x <= w}, ch \in {x \in Heights : x <= h} :
               query' = <<[format |-> f, usage |-> u, width |-> w, height |-> h,
                           crop |-> <<cw, ch>>]>>
    BY DEF L!Ask
  <2>2. PICK u \in L!UsagesOf(f), w \in Widths, h \in Heights :
          \E cw \in {x \in Widths : x <= w}, ch \in {x \in Heights : x <= h} :
            query' = <<[format |-> f, usage |-> u, width |-> w, height |-> h,
                        crop |-> <<cw, ch>>]>>
    BY <2>1
  <2>6. PICK cw \in {x \in Widths : x <= w}, ch \in {x \in Heights : x <= h} :
          query' = <<[format |-> f, usage |-> u, width |-> w, height |-> h,
                      crop |-> <<cw, ch>>]>>
    BY <2>2
  <2>3. L!UsagesOf(f) \subseteq SUBSET L!Usages
    BY DEF L!UsagesOf, L!Usages
  <2> DEFINE q == [format |-> f, usage |-> u, width |-> w, height |-> h, crop |-> <<cw, ch>>]
  <2>4. Askable(q)
    BY <2>3, SizesAssumption DEF Askable, Question
  <2>5. query' = <<q>>
    BY <2>6
  <2> HIDE DEF q
  <2> QED
    BY <2>4, <2>5 DEF BlInv, Askable
<1> QED
  BY <1>1, <1>2, PTL DEF L!BlSpec

\* Every plane, of any format, size and rectangle, lies in the buffer and beside the others
\* (gr_utils.cpp, GetSize against GetYUVPlaneInfo, GetRawPlaneInfo and GetRGBPlaneInfo).
THEOREM PlanesTheorem ==
  L!BlSpec => [](L!PlanesFit /\ L!PlanesDisjoint)
<1>1. BlInv => L!PlanesFit /\ L!PlanesDisjoint
  <2> SUFFICES ASSUME BlInv, NEW q \in L!Asked
      PROVE  /\ \A i \in DOMAIN L!PlanesAt(q) :
                  /\ L!PlanesAt(q)[i].offset + L!PlanesAt(q)[i].stride * L!PlanesAt(q)[i].rows
                       <= L!Size(q)
                  /\ q.format \notin L!Rgb =>
                       L!PlanesAt(q)[i].offset + L!PlanesAt(q)[i].size <= L!Size(q)
             /\ \A i, j \in DOMAIN L!PlanesAt(q) : i # j =>
                  \/ L!PlanesAt(q)[i].offset + L!PlanesAt(q)[i].size <= L!PlanesAt(q)[j].offset
                  \/ L!PlanesAt(q)[j].offset + L!PlanesAt(q)[j].size <= L!PlanesAt(q)[i].offset
                  \/ L!PlanesAt(q)[i].size = 0 \/ L!PlanesAt(q)[j].size = 0
    BY DEF L!PlanesFit, L!PlanesDisjoint
  <2>1. Askable(q)
    BY DEF L!Asked, BlInv
  <2> QED
    BY <2>1, AllInside DEF Inside
<1> QED
  BY <1>1, BlInvariance, PTL

-----------------------------------------------------------------------------
(* The types of the components, with the bounds that the invariants above   *)
(* leave out.                                                              *)

\* Every variable of the buffer manager keeps its type, and a handle never has more references
\* than users (gr_buf_mgr.cpp, RetainBuffer and ReleaseBuffer).
THEOREM BuffersTypes == ASSUME IsFiniteSet(Users) PROVE BmSpec => []BmTypeOK
<1>1. BmInv => BmTypeOK
  <2> SUFFICES ASSUME BmInv PROVE BmTypeOK
    OBVIOUS
  <2>1. Cardinality(Users) \in Nat
    BY FS_CardinalityType
  <2>2. ASSUME NEW h \in Handles PROVE refs[h] \in 0..Cardinality(Users)
    <3>1. Holders(h) \subseteq Users
      BY DEF Holders
    <3>2. Cardinality(Holders(h)) <= Cardinality(Users)
      BY <3>1, FS_Subset
    <3>3. refs[h] = Cardinality(Holders(h)) /\ refs[h] \in Nat
      BY DEF BmInv, Counted, BmTypes
    <3> QED
      BY <2>1, <3>2, <3>3
  <2>3. refs \in [Handles -> 0..Cardinality(Users)]
    <3>1. refs \in [Handles -> Nat]
      BY DEF BmInv, BmTypes
    <3> QED
      BY <2>2, <3>1
  <2> QED
    BY <2>3 DEF BmInv, BmTypes, BmTypeOK
<1> QED
  BY <1>1, BmInvariance, PTL

\* What a display doubts is the state of LUTs, and only a plane with a LUT has one to send.
DoubtsLuts == resetLuts \in BOOLEAN /\ doubt \subseteq LutPlanes

\* Each step of a display keeps it.
LEMMA DoubtsLutsKept ==
  ASSUME LutInv, DoubtsLuts, [DpNext]_dpVars
  PROVE  DoubtsLuts'
<1>1. ASSUME NEW d \in Displays, NEW p \in Planes, req[d][p].lut # Absent PROVE p \in LutPlanes
  BY <1>1 DEF LutInv, NoLut
<1>2. CASE UNCHANGED <<resetLuts, doubt>>
  BY <1>2 DEF DoubtsLuts
<1>3. ASSUME NEW d \in Displays,
             ResetPlanesLUT(d) \/ AtomicIoctl(d) \/ PostValidate(d) \/ PostCommit(d)
      PROVE  DoubtsLuts'
  <2>1. CASE ResetPlanesLUT(d)
    BY <2>1 DEF ResetPlanesLUT, DoubtsLuts
  <2>2. CASE AtomicIoctl(d)
    <3>1. {p \in Planes : req[d][p].lut # Absent} \subseteq LutPlanes
      BY <1>1
    <3> QED
      BY <2>2, <3>1 DEF AtomicIoctl, DoubtsLuts
  <2>3. CASE PostValidate(d)
    <3>1. doubt' = doubt \cup {p \in {q \in Planes : request[q] = d} :
                                 req[d][p].lut # Absent /\ AfterRefused(d, p) # "dirty"}
      BY <2>3 DEF PostValidate
    <3> QED
      BY <1>1, <2>3, <3>1 DEF PostValidate, DoubtsLuts
  <2>4. CASE PostCommit(d)
    BY <2>4 DEF PostCommit, DoubtsLuts
  <2> QED
    BY <1>3, <2>1, <2>2, <2>3, <2>4
<1>4. ASSUME NEW d \in Displays,
             \/ \E k \in Frames \cup Commits : Begin(d, k)
             \/ \E p \in Planes, u \in Use : SetPlane(d, p, u)
             \/ UnsetUnusedResources(d)
             \/ \E v \in Values, f \in Fp16s : HandleTUIEnd(d, v, f)
      PROVE  UNCHANGED <<resetLuts, doubt>>
  BY <1>4 DEF Begin, SetPlane, UnsetUnusedResources, HandleTUIEnd, LeftByVm
<1> QED
  BY <1>2, <1>3, <1>4 DEF DpNext, dpVars

\* Whatever two displays ask of the planes and the kernel refuses, every variable of the planes
\* keeps its type; a plane without a colour table never gets a state of one (drm_plane.cpp).
THEOREM PlanesTypes == DpSpec => []DpTypeOK
<1>1. DpInit => DoubtsLuts
  BY DEF DpInit, DoubtsLuts
<1>2. LutInv /\ DoubtsLuts /\ [DpNext]_dpVars => DoubtsLuts'
  BY DoubtsLutsKept
<1>3. DpInv /\ LutInv /\ DoubtsLuts => DpTypeOK
  BY DEF DpInv, DpTypes, LutInv, LutTypes, NoLut, DoubtsLuts, DpTypeOK, Request, Plane
<1> QED
  BY <1>1, <1>2, <1>3, LutInvariance, PTL DEF DpSpec

\* The bounds on what the outside world does are numbers.
FramesBounds == MaxEdits \in Nat /\ MaxRefreshes \in Nat /\ MaxFaults \in Nat

\* What the client drew and what was drawn, and the requests the callback thread has yet to
\* work off: each was asked for by a thread or by a validation that failed.
LfSizes ==
  /\ DOMAIN content \subseteq Layers /\ DOMAIN panel \subseteq Layers
  /\ panel \in [DOMAIN panel -> Drawable]
  /\ outcome \in F!Outcomes
  /\ edits \in 0..MaxEdits /\ refreshes \in 0..MaxRefreshes /\ faults \in 0..MaxFaults
  /\ refresh.queued \in 0..(refreshes + faults)

\* The setters of a layer keep it.
LEMMA SetterSizes ==
  ASSUME FramesBounds, LfInv, LfSizes, NEW l \in Layers,
         \/ F!CreateLayer(l) \/ F!DestroyLayer(l)
         \/ \E b \in Buffers : F!SetLayerBuffer(l, b)
         \/ \E v \in 0..1 : F!SetLayerDisplayFrame(l, v) \/ F!SetLayerColor(l, v)
  PROVE  LfSizes'
<1>1. F!Edit
  BY DEF F!CreateLayer, F!DestroyLayer, F!SetLayerBuffer, F!SetLayerDisplayFrame, F!SetLayerColor
<1>2. UNCHANGED <<refresh, panel, outcome, refreshes, faults>> /\ edits' \in 0..MaxEdits
  BY <1>1 DEF F!Edit, FramesBounds, LfSizes
<1>3. DOMAIN content' \subseteq Layers
  BY DEF F!CreateLayer, F!DestroyLayer, F!SetLayerBuffer, F!SetLayerDisplayFrame, F!SetLayerColor,
         F!Created, LfSizes
<1> QED
  BY <1>2, <1>3 DEF LfSizes, F!Outcomes

\* So do the requests for a refresh.
LEMMA RefreshSizes ==
  ASSUME FramesBounds, LfInv, LfSizes, F!Refresh \/ F!CallbackTells \/ F!CallbackSetsBit
  PROVE  LfSizes'
<1>1. UNCHANGED <<content, panel, outcome, edits, faults>>
  BY DEF F!Refresh, F!CallbackTells, F!CallbackSetsBit
<1>2. refresh \in Refreshes
  BY DEF LfInv, LfTypes, Refreshes
<1>3. /\ refreshes \in 0..MaxRefreshes /\ faults \in Nat
      /\ refresh.queued \in 0..(refreshes + faults)
  BY DEF LfSizes, FramesBounds
<1>4. refreshes' \in 0..MaxRefreshes /\ refresh'.queued \in 0..(refreshes' + faults)
  <2>1. CASE F!Refresh
    BY <1>2, <1>3, <2>1 DEF F!Refresh, FramesBounds, Refreshes
  <2>2. CASE F!CallbackTells
    BY <1>2, <1>3, <2>2 DEF F!CallbackTells, FramesBounds, Refreshes
  <2>3. CASE F!CallbackSetsBit
    BY <1>2, <1>3, <2>3 DEF F!CallbackSetsBit, FramesBounds, Refreshes
  <2> QED
    BY <2>1, <2>2, <2>3
<1> QED
  BY <1>1, <1>4 DEF LfSizes, F!Outcomes

\* So do the frames.
LEMMA FrameSizes ==
  ASSUME FramesBounds, LfInv, LfSizes,
         \/ F!ValidateEmpty \/ F!Validate \/ F!ValidateAndCommit \/ F!ValidateFails
         \/ F!Present \/ F!PresentFails
  PROVE  LfSizes'
<1>1. UNCHANGED <<content, edits, refreshes>>
  BY DEF F!ValidateEmpty, F!Validate, F!ValidateAndCommit, F!ValidateFails, F!Present,
         F!PresentFails
<1>2. panel' \in {panel, content, <<>>}
  BY DEF F!ValidateEmpty, F!Validate, F!ValidateAndCommit, F!ValidateFails, F!Present,
         F!PresentFails
<1>3. outcome' \in F!Outcomes
  BY DEF F!ValidateEmpty, F!Validate, F!ValidateAndCommit, F!ValidateFails, F!Present,
         F!PresentFails, F!Outcome, F!Outcomes, LfSizes
<1>4. /\ refresh \in Refreshes /\ refreshes \in Nat /\ faults \in 0..MaxFaults
      /\ refresh.queued \in 0..(refreshes + faults)
  BY DEF LfInv, LfTypes, LfSizes, Refreshes, FramesBounds
<1>5. faults' \in 0..MaxFaults /\ refresh'.queued \in 0..(refreshes + faults')
  <2>1. ASSUME NEW h, NEW r \in Refreshes, F!PostCommitLocked(h, r)
        PROVE  refresh'.queued = r.queued
    BY <2>1 DEF F!PostCommitLocked, F!RefreshToFrame, Refreshes
  <2>2. CASE F!ValidateEmpty \/ F!ValidateAndCommit \/ F!Present
    <3>1. faults' = faults /\ \E h : F!PostCommitLocked(h, refresh)
      BY <2>2 DEF F!ValidateEmpty, F!ValidateAndCommit, F!Present
    <3> QED
      BY <1>4, <2>1, <3>1
  <2>3. CASE F!Validate
    BY <1>4, <2>3 DEF F!Validate
  <2>4. CASE F!PresentFails
    BY <1>4, <2>4 DEF F!PresentFails, FramesBounds
  <2>5. CASE F!ValidateFails
    <3> DEFINE q == refresh.queued + 1
               r == [refresh EXCEPT !.queued = q]
    <3>1. faults < MaxFaults /\ faults' = faults + 1 /\ F!PostCommitLocked(hwc, r)
      BY <2>5 DEF F!ValidateFails
    <3>2. q \in Int /\ q \in 0..(refreshes + (faults + 1))
      BY <1>4
    <3> HIDE DEF q
    <3>3. r \in Refreshes /\ r.queued = q
      BY <1>4, <3>2 DEF Refreshes
    <3> HIDE DEF r
    <3> QED
      BY <1>4, <2>1, <3>1, <3>2, <3>3 DEF FramesBounds
  <2> QED
    BY <2>2, <2>3, <2>4, <2>5
<1>6. DOMAIN panel' \subseteq Layers /\ panel' \in [DOMAIN panel' -> Drawable]
  <2>1. DOMAIN <<>> = {} /\ <<>> \in [{} -> Drawable]
    OBVIOUS
  <2>2. CASE panel' = panel \/ panel' = content
    BY <2>2 DEF LfSizes, LfInv, LfTypes
  <2>3. CASE panel' = <<>>
    BY <2>1, <2>3
  <2> QED
    BY <1>2, <2>2, <2>3
<1> QED
  BY <1>1, <1>3, <1>5, <1>6 DEF LfSizes

\* A display whose frames are skipped, flushed or fail keeps the types of its layers, and no more
\* refreshes wait than were asked for (hwc_callbacks.cpp, PerformHWCCallback).
THEOREM FramesTypes == ASSUME FramesBounds PROVE F!LfSpec => []F!LfTypeOK
<1>1. F!LfInit => LfSizes
  <2> SUFFICES ASSUME F!LfInit PROVE LfSizes
    OBVIOUS
  <2>1. DOMAIN content = {} /\ DOMAIN panel = {} /\ panel \in [{} -> Drawable]
    BY DEF F!LfInit
  <2> QED
    BY <2>1 DEF F!LfInit, LfSizes, F!Outcomes, FramesBounds
<1>2. LfInv /\ LfSizes /\ [F!LfNext]_F!lfVars => LfSizes'
  <2> SUFFICES ASSUME LfInv, LfSizes, [F!LfNext]_F!lfVars PROVE LfSizes'
    OBVIOUS
  <2>1. CASE UNCHANGED F!lfVars
    BY <2>1 DEF F!lfVars, LfSizes, F!Outcomes
  <2>2. CASE F!Refresh \/ F!CallbackTells \/ F!CallbackSetsBit
    BY <2>2, RefreshSizes
  <2>3. CASE \/ F!ValidateEmpty \/ F!Validate \/ F!ValidateAndCommit \/ F!ValidateFails
             \/ F!Present \/ F!PresentFails
    BY <2>3, FrameSizes
  <2>4. CASE \/ \E l \in Layers : F!CreateLayer(l) \/ F!DestroyLayer(l)
             \/ \E l \in Layers, b \in Buffers : F!SetLayerBuffer(l, b)
             \/ \E l \in Layers, v \in 0..1 :
                  F!SetLayerDisplayFrame(l, v) \/ F!SetLayerColor(l, v)
    BY <2>4, SetterSizes
  <2> QED
    BY <2>1, <2>2, <2>3, <2>4 DEF F!LfNext
<1>3. LfInv /\ LfSizes => F!LfTypeOK
  <2> SUFFICES ASSUME LfInv, LfSizes PROVE F!LfTypeOK
    OBVIOUS
  <2>1. /\ \A l \in DOMAIN content : content[l] \in Drawable
        /\ \A l \in DOMAIN panel : panel[l] \in Drawable
    BY DEF LfInv, LfTypes, LfSizes
  <2>2. refresh \in [queued : 0..(MaxRefreshes + MaxFaults), telling : BOOLEAN, needed : BOOLEAN]
    <3>1. refresh.queued \in 0..(MaxRefreshes + MaxFaults)
      BY DEF LfSizes, FramesBounds
    <3>2. refresh \in [queued : Int, telling : BOOLEAN, needed : BOOLEAN]
      BY DEF LfInv, LfTypes
    <3> QED
      BY <3>1, <3>2
  <2> QED
    BY <2>1, <2>2 DEF LfInv, LfTypes, LfSizes, F!LfTypeOK, F!Created, Drawable, Notes
<1> QED
  BY <1>1, <1>2, <1>3, LfInvariance, PTL DEF F!LfSpec

\* The bounds on the frames of the tone mapper are numbers.
PoolBounds == MaxLayers \in Nat /\ MaxFrames \in Nat /\ MaxSessions \in Nat

\* The numbers of a session are those of a layer and of frames.
Numbered(s) == /\ s.layer <= MaxLayers + 1
               /\ \A b \in OwnBuffers : s.release[b] <= MaxFrames /\ s.shown[b] <= MaxFrames

\* The pool: a frame adds a session for each layer at most, and the loop of PostCommit stops
\* behind the last session.
PoolSizes ==
  /\ \A i \in DOMAIN sessions : Numbered(sessions[i])
  /\ Len(sessions) <= MaxSessions + MaxLayers
  /\ tmAt = "mapping" => Len(sessions) + 2 <= MaxSessions + tmNext
  /\ tmAt = "closing" => tmNext <= Len(sessions) + 1
  /\ fbSession >= -1

\* The frame: what is blitted is a layer of it.
StackSizes ==
  /\ stack = <<>> \/ stack \in Stacks
  /\ Len(stack) <= MaxLayers + 1
  /\ tmFrame <= MaxFrames
  /\ tmAt \in {"rest", "mapping", "mapped", "skipped", "closing", "thrown"}
  /\ tmNext <= MaxSessions + MaxLayers + 1
  /\ \A b \in blits : b.layer \in DOMAIN stack

TmSizes == PoolSizes /\ StackSizes

\* A stack has one layer beside those of the client.
LEMMA StacksSized ==
  ASSUME PoolBounds, NEW layers \in Stacks
  PROVE  Len(layers) \in 1..MaxLayers + 1
<1>1. PICK s \in UNION {[1..n -> Layer] : n \in 0..MaxLayers}, t \in Target :
        layers = Append(s, t)
  BY DEF Stacks
<1>2. PICK n \in 0..MaxLayers : s \in [1..n -> Layer]
  BY <1>1
<1>3. n \in Nat /\ s \in Seq(Layer \cup Target) /\ Len(s) = n
  <2>1. n \in Nat
    BY DEF PoolBounds
  <2>2. s \in [1..n -> Layer \cup Target]
    BY <1>2
  <2>3. s \in Seq(Layer \cup Target)
    BY <2>1, <2>2, SeqDef
  <2>4. DOMAIN s = 1..n /\ DOMAIN s = 1..Len(s) /\ Len(s) \in Nat
    BY <2>2, <2>3, LenProperties
  <2> QED
    BY <2>1, <2>3, <2>4
<1>4. Len(layers) = n + 1
  BY <1>1, <1>3, AppendProperties
<1> QED
  BY <1>2, <1>3, <1>4 DEF PoolBounds

\* What the steps below start from.
LEMMA SizesNow ==
  ASSUME PoolBounds, TmInv, TmSizes
  PROVE  /\ Len(sessions) \in Nat /\ DOMAIN sessions = 1..Len(sessions)
         /\ Len(stack) \in Nat /\ DOMAIN stack = 1..Len(stack)
         /\ \A i \in DOMAIN sessions : sessions[i] \in Pooled /\ Numbered(sessions[i])
         /\ tmNext \in Nat /\ tmFrame \in Nat /\ fbSession \in Int
         /\ MaxLayers \in Nat /\ MaxFrames \in Nat /\ MaxSessions \in Nat
  BY ElementOfSeq, LenProperties DEF TmInv, TmTypes, TmSizes, PoolSizes, PoolBounds

\* A frame begins.
LEMMA HandleSizes ==
  ASSUME PoolBounds, TmInv, TmSizes, NEW layers \in Stacks,
         HandleToneMap(layers) \/ SkipCommit(layers)
  PROVE  TmSizes'
<1>1. /\ stack' = layers /\ blits' = {} /\ tmFrame' = tmFrame + 1 /\ tmFrame < MaxFrames
      /\ tmAt' \in {"mapping", "mapped", "skipped"}
      /\ tmAt' = "mapping" => tmNext' = 1 /\ UNCHANGED sessions /\ Len(sessions) < MaxSessions
      /\ tmNext' \in {tmNext, 0, 1}
      /\ \/ UNCHANGED <<sessions, fbSession>>
         \/ sessions' = <<>> /\ fbSession' \in {fbSession, -1}
  BY DEF HandleToneMap, SkipCommit, Terminate
<1>2. Len(layers) \in 1..MaxLayers + 1
  BY StacksSized
<1>3. StackSizes'
  BY <1>1, <1>2, SizesNow DEF TmSizes, StackSizes
<1>4. Len(<<>>) = 0 /\ DOMAIN <<>> = {}
  OBVIOUS
<1>5. PoolSizes'
  <2>1. CASE UNCHANGED <<sessions, fbSession>>
    BY <1>1, <2>1, SizesNow DEF TmSizes, PoolSizes, Numbered
  <2>2. CASE sessions' = <<>> /\ fbSession' \in {fbSession, -1}
    BY <1>1, <1>4, <2>2, SizesNow DEF TmSizes, PoolSizes, Numbered
  <2> QED
    BY <1>1, <2>1, <2>2
<1> QED
  BY <1>3, <1>5 DEF TmSizes

\* The steps that change no session.
LEMMA QuietSizes ==
  ASSUME PoolBounds, TmInv, TmSizes, TmInv',
         PassLayer \/ CommitFails \/ ReleaseThrows \/ PostCommitEnds
  PROVE  TmSizes'
<1>1. /\ UNCHANGED <<sessions, fbSession, stack, tmFrame, blits>>
      /\ tmAt' \in {"rest", "mapping", "mapped", "thrown"}
      /\ tmAt' = "mapping" => tmAt = "mapping" /\ tmNext' = tmNext + 1
      /\ tmAt' # "mapping" => tmNext' \in {0, tmNext}
  BY DEF PassLayer, CommitFails, ReleaseThrows, PostCommitEnds, Mapping, NextLayer, MappingEnds,
         Closing
<1>2. tmAt' = "mapping" => tmNext' \in 1..Len(stack)
  BY <1>1 DEF TmInv, TmTypes
<1>3. PoolSizes'
  <2>1. \A i \in DOMAIN sessions' : Numbered(sessions'[i])
    BY <1>1, SizesNow
  <2>2. tmAt' = "mapping" => Len(sessions') + 2 <= MaxSessions + tmNext'
    BY <1>1, SizesNow DEF TmSizes, PoolSizes
  <2>3. tmAt' # "closing" /\ Len(sessions') <= MaxSessions + MaxLayers /\ fbSession' >= -1
    BY <1>1 DEF TmSizes, PoolSizes
  <2> QED
    BY <2>1, <2>2, <2>3 DEF PoolSizes, Numbered
<1>4. tmNext' <= MaxSessions + MaxLayers + 1
  <2>1. Len(stack) <= MaxLayers + 1 /\ tmNext <= MaxSessions + MaxLayers + 1
    BY DEF TmSizes, StackSizes
  <2>2. CASE tmAt' = "mapping"
    BY <1>2, <2>1, <2>2, SizesNow
  <2>3. CASE tmAt' # "mapping"
    BY <1>1, <2>1, <2>3, SizesNow
  <2> QED
    BY <2>2, <2>3
<1>5. StackSizes'
  BY <1>1, <1>4 DEF TmSizes, StackSizes
<1> QED
  BY <1>3, <1>5 DEF TmSizes

\* The steps that empty the pool.
LEMMA EmptiedSizes ==
  ASSUME PoolBounds, TmInv, TmSizes, ToneMapFails \/ PowerOff
  PROVE  TmSizes'
<1>1. /\ UNCHANGED <<stack, tmFrame>> /\ blits' \subseteq blits
      /\ tmAt' \in {"mapped", "rest"} /\ tmNext' \in {0, tmNext}
      /\ sessions' = <<>> /\ fbSession' \in {fbSession, 0, -1}
  BY DEF ToneMapFails, PowerOff, Mapping, MappingEnds, Terminate
<1>2. Len(<<>>) = 0 /\ DOMAIN <<>> = {}
  OBVIOUS
<1>3. PoolSizes'
  BY <1>1, <1>2, SizesNow DEF TmSizes, PoolSizes, Numbered
<1>4. StackSizes'
  BY <1>1, SizesNow DEF TmSizes, StackSizes
<1> QED
  BY <1>3, <1>4 DEF TmSizes

\* A layer is blitted with a session of the pool or a new one behind it.
LEMMA BlitSizes ==
  ASSUME PoolBounds, TmInv, TmSizes, TmInv', Mapping, NextLayer \/ MappingEnds,
         NEW i \in 1..Len(sessions) + 1, NEW s \in Pooled, NEW c, Numbered(s),
         sessions' = PutAt(i, s), blits' = blits \cup {Blit(i, s, c)},
         fbSession' = fbSession \/ fbSession' = i - 1
  PROVE  TmSizes'
<1>1. /\ UNCHANGED <<stack, tmFrame>> /\ tmAt = "mapping" /\ tmNext \in 1..Len(stack)
  BY DEF Mapping, TmInv, TmTypes
<1>2. /\ Len(sessions') \in Nat /\ Len(sessions') <= Len(sessions) + 1
      /\ DOMAIN sessions' = 1..Len(sessions')
      /\ \A j \in 1..Len(sessions') : sessions'[j] = IF j = i THEN s ELSE sessions[j]
      /\ \A j \in 1..Len(sessions') : j # i => j \in 1..Len(sessions)
  <2>1. sessions \in Seq(Pooled)
    BY DEF TmInv, TmTypes
  <2>2. /\ sessions' \in Seq(Pooled)
        /\ \A j \in 1..Len(sessions') : sessions'[j] = IF j = i THEN s ELSE sessions[j]
        /\ \A j \in 1..Len(sessions') : j # i => j \in 1..Len(sessions)
    BY <2>1, PutAtDoes
  <2>3. Len(sessions') \in Nat /\ DOMAIN sessions' = 1..Len(sessions')
    BY <2>2, LenProperties
  <2>4. Len(sessions') <= Len(sessions) + 1
    <3>1. ASSUME Len(sessions') > Len(sessions) + 1 PROVE FALSE
      <4>1. Len(sessions) \in Nat /\ Len(sessions') \in Nat
        BY <2>3, SizesNow
      <4>2. Len(sessions') \in 1..Len(sessions') /\ Len(sessions') # i
        BY <3>1, <4>1
      <4>3. Len(sessions') \in 1..Len(sessions)
        BY <2>2, <4>2
      <4> QED
        BY <3>1, <4>1, <4>3
    <3>2. Len(sessions) \in Nat
      BY SizesNow
    <3> QED
      BY <2>3, <3>1, <3>2
  <2> QED
    BY <2>2, <2>3, <2>4
<1>3. /\ tmAt' \in {"mapping", "mapped"}
      /\ tmAt' = "mapping" => tmNext' = tmNext + 1
      /\ tmAt' # "mapping" => tmNext' = 0
  BY DEF NextLayer, MappingEnds
<1>4. tmAt' = "mapping" => tmNext' \in 1..Len(stack)
  BY <1>1 DEF TmInv, TmTypes
<1>5. \A j \in DOMAIN sessions' : Numbered(sessions'[j])
  BY <1>2, SizesNow
<1>6. Len(sessions') <= MaxSessions + MaxLayers
  <2>1. Len(sessions) + 2 <= MaxSessions + tmNext /\ Len(stack) <= MaxLayers + 1
    BY <1>1 DEF TmSizes, PoolSizes, StackSizes
  <2>2. /\ tmNext \in 1..Len(stack) /\ Len(stack) \in Nat /\ Len(sessions) \in Nat
        /\ Len(sessions') \in Nat /\ Len(sessions') <= Len(sessions) + 1
        /\ MaxSessions \in Nat /\ MaxLayers \in Nat
    BY <1>1, <1>2, SizesNow
  <2> QED
    BY <2>1, <2>2
<1>7. tmAt' = "mapping" => Len(sessions') + 2 <= MaxSessions + tmNext'
  <2>1. Len(sessions) + 2 <= MaxSessions + tmNext
    BY <1>1 DEF TmSizes, PoolSizes
  <2>2. /\ Len(sessions) \in Nat /\ Len(sessions') \in Nat /\ tmNext \in Nat /\ MaxSessions \in Nat
        /\ Len(sessions') <= Len(sessions) + 1
    BY <1>2, SizesNow
  <2>3. Len(sessions') + 2 <= MaxSessions + (tmNext + 1)
    BY <2>1, <2>2
  <2> QED
    BY <1>3, <2>3
<1>8. PoolSizes'
  <2>1. tmAt' # "closing"
    BY <1>3
  <2>2. fbSession' >= -1
    <3>1. fbSession >= -1 /\ i - 1 >= -1
      BY SizesNow DEF TmSizes, PoolSizes
    <3> QED
      BY <3>1
  <2> QED
    BY <1>5, <1>6, <1>7, <2>1, <2>2 DEF PoolSizes
<1>9. tmNext' <= MaxSessions + MaxLayers + 1
  BY <1>1, <1>3, <1>4, SizesNow DEF TmSizes, StackSizes
<1>10. \A b \in blits' : b.layer \in DOMAIN stack
  <2>1. Blit(i, s, c).layer = tmNext
    BY DEF Blit
  <2> QED
    BY <1>1, <2>1, SizesNow DEF TmSizes, StackSizes
<1>11. StackSizes'
  BY <1>1, <1>3, <1>9, <1>10 DEF TmSizes, StackSizes
<1> QED
  BY <1>8, <1>11 DEF TmSizes

\* A session that is acquired has the numbers of old frames.
LEMMA ToneMapSizes ==
  ASSUME PoolBounds, TmInv, TmSizes, TmInv', ToneMapLayer
  PROVE  TmSizes'
<1> DEFINE i == Place(ThisLayer.config)
           a == Acquired(ThisLayer.config)
           s == Given(a)
<1>1. /\ Mapping /\ ThisLayer.config # NoConfig
      /\ sessions' = PutAt(i, s) /\ blits' = blits \cup {Blit(i, s, FALSE)}
      /\ fbSession' = fbSession \/ fbSession' = i - 1
      /\ NextLayer
  BY DEF ToneMapLayer
<1>2. i \in 1..Len(sessions) + 1 /\ s \in Pooled
  BY <1>1, AcquiredDoes
<1>3. tmNext <= MaxLayers + 1
  BY <1>1, SizesNow DEF Mapping, TmInv, TmTypes, TmSizes, StackSizes
<1>4. \A b \in OwnBuffers : a.release[b] <= MaxFrames /\ a.shown[b] <= MaxFrames
  <2>1. CASE Usable(ThisLayer.config) # {}
    <3>1. i \in Usable(ThisLayer.config)
      <4>1. Usable(ThisLayer.config) \subseteq Nat
        BY SizesNow DEF Usable
      <4> QED
        BY <2>1, <4>1, FirstIn DEF Place
    <3>2. sessions[i] \in Pooled /\ Numbered(sessions[i])
      BY <3>1, SizesNow DEF Usable
    <3>3. a = Reused(sessions[i])
      BY <2>1 DEF Acquired
    <3> HIDE DEF i, a
    <3>4. a.release = sessions[i].release /\ a.shown = sessions[i].shown
      BY <3>2, <3>3 DEF Reused, Pooled
    <3> QED
      BY <3>2, <3>4 DEF Numbered
  <2>2. CASE Usable(ThisLayer.config) = {}
    <3>1. a = NewSession(ThisLayer.config)
      BY <2>2 DEF Acquired
    <3> HIDE DEF a
    <3> QED
      BY <3>1, SizesNow DEF NewSession
  <2> QED
    BY <2>1, <2>2
<1>5. s.layer = tmNext /\ s.release = a.release /\ s.shown = a.shown
  <2>1. DOMAIN a = {"config", "current", "acquired", "layer", "owner", "release", "shown"}
    <3>1. CASE Usable(ThisLayer.config) # {}
      <4>1. i \in Usable(ThisLayer.config)
        <5>1. Usable(ThisLayer.config) \subseteq Nat
          BY SizesNow DEF Usable
        <5> QED
          BY <3>1, <5>1, FirstIn DEF Place
      <4>2. sessions[i] \in Pooled
        BY <4>1, SizesNow DEF Usable
      <4>3. a = Reused(sessions[i])
        BY <3>1 DEF Acquired
      <4> HIDE DEF i, a
      <4> QED
        BY <4>2, <4>3 DEF Reused, Pooled
    <3>2. CASE Usable(ThisLayer.config) = {}
      <4>1. a = NewSession(ThisLayer.config)
        BY <3>2 DEF Acquired
      <4> HIDE DEF a
      <4> QED
        BY <4>1 DEF NewSession
    <3> QED
      BY <3>1, <3>2
  <2> HIDE DEF a
  <2> QED
    BY <2>1 DEF Given
<1> HIDE DEF i, s
<1>6. Numbered(s)
  BY <1>3, <1>4, <1>5 DEF Numbered
<1> QED
  BY <1>1, <1>2, <1>6, BlitSizes

\* The target keeps a session of the pool.
LEMMA KeepSizes ==
  ASSUME PoolBounds, TmInv, TmSizes, TmInv', KeepTarget
  PROVE  TmSizes'
<1> DEFINE i == fbSession + 1
           s == [sessions[i] EXCEPT !.layer = tmNext, !.acquired = TRUE]
<1>1. /\ Mapping /\ MappingEnds
      /\ sessions # <<>> /\ fbSession >= 0
      /\ sessions' = [sessions EXCEPT ![i] = s] /\ blits' = blits \cup {Blit(i, s, TRUE)}
      /\ fbSession' = fbSession
  BY DEF KeepTarget, CachedTarget
<1>2. i \in 1..Len(sessions)
  BY <1>1, SizesNow DEF TmInv, FbInPool
<1>3. tmNext <= MaxLayers + 1
  BY <1>1, SizesNow DEF Mapping, TmInv, TmTypes, TmSizes, StackSizes
<1>4. s \in Pooled /\ Numbered(s)
  <2> DEFINE old == sessions[i]
  <2>1. old \in Pooled /\ Numbered(old) /\ tmNext \in Nat
    BY <1>2, SizesNow
  <2> HIDE DEF old
  <2>2. [old EXCEPT !.layer = tmNext, !.acquired = TRUE] \in Pooled
    BY <2>1 DEF Pooled
  <2>3. LET t == [old EXCEPT !.layer = tmNext, !.acquired = TRUE] IN
        t.layer = tmNext /\ t.shown = old.shown /\ t.release = old.release
    BY <2>1 DEF Pooled
  <2>4. Numbered([old EXCEPT !.layer = tmNext, !.acquired = TRUE])
    BY <1>3, <2>1, <2>3 DEF Numbered
  <2> QED
    BY <2>2, <2>4 DEF old
<1> HIDE DEF i, s
<1>5. sessions' = PutAt(i, s)
  <2>1. i # Len(sessions) + 1
    BY <1>2, SizesNow
  <2> QED
    BY <1>1, <2>1 DEF PutAt
<1>6. i \in 1..Len(sessions) + 1
  BY <1>2, SizesNow
<1> QED
  BY <1>1, <1>4, <1>5, <1>6, BlitSizes

\* The commit shows buffers in the frame of its number.
LEMMA CommitSizes ==
  ASSUME PoolBounds, TmInv, TmSizes, Commit
  PROVE  TmSizes'
<1>1. /\ tmAt' = "closing" /\ tmNext' = 1
      /\ sessions' = [i \in DOMAIN sessions |-> Shown(sessions[i], i)]
      /\ UNCHANGED <<fbSession, stack, tmFrame, blits>>
  BY DEF Commit
<1>2. ASSUME NEW i \in DOMAIN sessions
      PROVE  Shown(sessions[i], i) \in Pooled /\ Numbered(Shown(sessions[i], i))
  <2> DEFINE s == sessions[i]
             shown == [b \in OwnBuffers |->
                         IF \E k \in blits : k.session = i /\ k.buffer = b
                         THEN tmFrame ELSE s.shown[b]]
  <2>1. s \in Pooled /\ Numbered(s) /\ tmFrame \in Nat /\ tmFrame <= MaxFrames
    BY SizesNow DEF TmSizes, StackSizes
  <2>2. Shown(s, i) = [s EXCEPT !.shown = shown]
    BY <2>1 DEF Shown, Pooled
  <2>3. \A b \in OwnBuffers : shown[b] \in Nat /\ shown[b] <= MaxFrames
    BY <2>1 DEF Numbered, Pooled
  <2>4. shown \in [OwnBuffers -> Nat]
    BY <2>3
  <2> HIDE DEF shown, s
  <2>5. /\ [s EXCEPT !.shown = shown] \in Pooled
        /\ [s EXCEPT !.shown = shown].shown = shown
        /\ [s EXCEPT !.shown = shown].release = s.release
        /\ [s EXCEPT !.shown = shown].layer = s.layer
    BY <2>1, <2>4 DEF Pooled
  <2>6. Numbered([s EXCEPT !.shown = shown])
    BY <2>1, <2>3, <2>5 DEF Numbered
  <2> QED
    BY <2>2, <2>5, <2>6 DEF s
<1>3. DOMAIN sessions' = DOMAIN sessions /\ Len(sessions') = Len(sessions)
  <2>1. sessions' \in [1..Len(sessions) -> Pooled] /\ Len(sessions) \in Nat
    BY <1>1, <1>2, SizesNow
  <2>2. sessions' \in Seq(Pooled)
    BY <2>1, SeqDef
  <2> QED
    BY <2>1, <2>2, LenProperties, SizesNow
<1>4. \A i \in DOMAIN sessions' : Numbered(sessions'[i])
  BY <1>1, <1>2, <1>3
<1>5. PoolSizes'
  BY <1>1, <1>3, <1>4, SizesNow DEF TmSizes, PoolSizes, Numbered
<1>6. StackSizes'
  BY <1>1, SizesNow DEF TmSizes, StackSizes
<1> QED
  BY <1>5, <1>6 DEF TmSizes

\* One session is released in the frame of its number.
LEMMA ReleaseSizes ==
  ASSUME PoolBounds, TmInv, TmSizes, ReleaseSession
  PROVE  TmSizes'
<1> DEFINE s == sessions[tmNext]
           t == Released(s)
<1>1. /\ tmAt = "closing" /\ tmNext \in DOMAIN sessions
      /\ sessions' = [sessions EXCEPT ![tmNext] = t] /\ tmNext' = tmNext + 1
      /\ UNCHANGED <<fbSession, tmAt, stack, tmFrame, blits>>
  BY DEF ReleaseSession, Closing, MoreSessions
<1>2. s \in Pooled /\ Numbered(s) /\ tmFrame \in Nat /\ tmFrame <= MaxFrames
  BY <1>1, SizesNow DEF TmSizes, StackSizes
<1> HIDE DEF s
<1>3. t \in Pooled /\ Numbered(t)
  <2> DEFINE release == [s.release EXCEPT ![s.current] = tmFrame]
  <2>1. /\ release \in [OwnBuffers -> Nat]
        /\ \A b \in OwnBuffers : release[b] = IF b = s.current THEN tmFrame ELSE s.release[b]
    BY <1>2 DEF Pooled
  <2>2. t = [s EXCEPT !.acquired = FALSE, !.release = release]
    BY DEF Released
  <2> HIDE DEF release, t
  <2>3. t \in Pooled /\ t.release = release /\ t.shown = s.shown /\ t.layer = s.layer
    BY <1>2, <2>1, <2>2 DEF Pooled
  <2> QED
    BY <1>2, <2>1, <2>3 DEF Numbered
<1> HIDE DEF t
<1>4. /\ Len(sessions') = Len(sessions)
      /\ \A j \in 1..Len(sessions) : sessions'[j] = IF j = tmNext THEN t ELSE sessions[j]
      /\ DOMAIN sessions' = 1..Len(sessions)
  <2>1. sessions \in Seq(Pooled) /\ tmNext \in 1..Len(sessions)
    BY <1>1, SizesNow DEF TmInv, TmTypes
  <2>2. /\ sessions' \in Seq(Pooled) /\ Len(sessions') = Len(sessions)
        /\ \A j \in 1..Len(sessions) : sessions'[j] = IF j = tmNext THEN t ELSE sessions[j]
    BY <1>1, <1>3, <2>1, ExceptSeq
  <2> QED
    BY <2>2, LenProperties
<1>5. \A j \in DOMAIN sessions' : Numbered(sessions'[j])
  BY <1>3, <1>4, SizesNow
<1>6. tmNext' <= Len(sessions') + 1
  BY <1>1, <1>4, SizesNow
<1>7. PoolSizes'
  <2>1. tmAt' = "closing" /\ Len(sessions') <= MaxSessions + MaxLayers /\ fbSession' >= -1
    BY <1>1, <1>4 DEF TmSizes, PoolSizes
  <2> QED
    BY <1>5, <1>6, <2>1 DEF PoolSizes, Numbered
<1>8. tmNext' <= MaxSessions + MaxLayers + 1
  <2>1. /\ Len(sessions) \in Nat /\ MaxSessions \in Nat /\ MaxLayers \in Nat
        /\ tmNext \in 1..Len(sessions) /\ tmNext' = tmNext + 1
    BY <1>1, SizesNow
  <2>2. Len(sessions) <= MaxSessions + MaxLayers
    BY DEF TmSizes, PoolSizes
  <2> QED
    BY <2>1, <2>2
<1>9. StackSizes'
  BY <1>1, <1>8 DEF TmSizes, StackSizes
<1> QED
  BY <1>7, <1>9 DEF TmSizes

\* One session is closed.
LEMMA CloseSizes ==
  ASSUME PoolBounds, TmInv, TmSizes, CloseSession
  PROVE  TmSizes'
<1>1. /\ tmAt = "closing" /\ tmNext \in 1..Len(sessions)
      /\ sessions' = RemoveAt(sessions, tmNext) /\ fbSession' = FbAfter(tmNext - 1)
      /\ UNCHANGED <<tmNext, tmAt, stack, tmFrame, blits>>
  BY SizesNow DEF CloseSession, Closing, MoreSessions
<1>2. /\ Len(sessions') = Len(sessions) - 1
      /\ \A j \in 1..Len(sessions') :
           sessions'[j] = IF j < tmNext THEN sessions[j] ELSE sessions[j + 1]
      /\ DOMAIN sessions' = 1..Len(sessions) - 1
  <2>1. sessions \in Seq(Pooled)
    BY DEF TmInv, TmTypes
  <2>2. /\ sessions' \in Seq(Pooled) /\ Len(sessions') = Len(sessions) - 1
        /\ \A j \in 1..Len(sessions') :
             sessions'[j] = IF j < tmNext THEN sessions[j] ELSE sessions[j + 1]
    BY <1>1, <2>1, RemoveAtDoes
  <2> QED
    BY <2>2, LenProperties
<1>3. ASSUME NEW j \in DOMAIN sessions' PROVE Numbered(sessions'[j])
  <2>1. j \in 1..Len(sessions) /\ j + 1 \in 1..Len(sessions) /\ j \in 1..Len(sessions')
    BY <1>2, SizesNow
  <2> QED
    BY <1>2, <2>1, SizesNow
<1>4. fbSession' >= -1
  BY <1>1, SizesNow DEF FbAfter, TmSizes, PoolSizes
<1>5. PoolSizes'
  BY <1>1, <1>2, <1>3, <1>4, SizesNow DEF TmSizes, PoolSizes, Numbered
<1>6. StackSizes'
  BY <1>1 DEF TmSizes, StackSizes
<1> QED
  BY <1>5, <1>6 DEF TmSizes

\* The pool of tone mapping sessions never outgrows its bound by more than the layers of one
\* frame, whatever fails or is skipped, and its indices stay those of layers and sessions
\* (hwc_tonemapper.cpp, AcquireToneMapSession and PostCommit).
THEOREM ToneMapperTypes == ASSUME PoolBounds PROVE TmSpec => []TmTypeOK
<1>1. TmInit => TmSizes
  <2>1. Len(<<>>) = 0 /\ DOMAIN <<>> = {}
    OBVIOUS
  <2> QED
    BY <2>1 DEF TmInit, TmSizes, PoolSizes, StackSizes, Numbered, PoolBounds
<1>2. TmInv /\ TmSizes /\ TmInv' /\ [TmNext]_tmVars => TmSizes'
  <2> SUFFICES ASSUME TmInv, TmSizes, TmInv', [TmNext]_tmVars PROVE TmSizes'
    OBVIOUS
  <2>1. CASE \E layers \in Stacks : HandleToneMap(layers) \/ SkipCommit(layers)
    BY <2>1, HandleSizes
  <2>2. CASE PassLayer \/ CommitFails \/ ReleaseThrows \/ PostCommitEnds
    BY <2>2, QuietSizes
  <2>3. CASE ToneMapFails \/ PowerOff
    BY <2>3, EmptiedSizes
  <2>4. CASE ToneMapLayer
    BY <2>4, ToneMapSizes
  <2>5. CASE KeepTarget
    BY <2>5, KeepSizes
  <2>6. CASE Commit
    BY <2>6, CommitSizes
  <2>7. CASE ReleaseSession
    BY <2>7, ReleaseSizes
  <2>8. CASE CloseSession
    BY <2>8, CloseSizes
  <2>9. CASE UNCHANGED tmVars
    BY <2>9 DEF tmVars, TmSizes, PoolSizes, StackSizes, Numbered
  <2> QED
    BY <2>1, <2>2, <2>3, <2>4, <2>5, <2>6, <2>7, <2>8, <2>9 DEF TmNext
<1>3. TmInv /\ TmSizes => TmTypeOK
  <2> SUFFICES ASSUME TmInv, TmSizes PROVE TmTypeOK
    OBVIOUS
  <2>1. ASSUME NEW s \in Pooled, Numbered(s) PROVE s \in Session
    <3>1. s.layer \in 0..MaxLayers + 1
      BY <2>1, SizesNow DEF Pooled, Numbered
    <3>2. s.release \in [OwnBuffers -> 0..MaxFrames] /\ s.shown \in [OwnBuffers -> 0..MaxFrames]
      <4>1. s.release \in [OwnBuffers -> Nat] /\ s.shown \in [OwnBuffers -> Nat]
        BY DEF Pooled
      <4>2. \A b \in OwnBuffers : s.release[b] \in 0..MaxFrames /\ s.shown[b] \in 0..MaxFrames
        BY <2>1, <4>1, SizesNow DEF Numbered
      <4> QED
        BY <4>1, <4>2
    <3> QED
      BY <3>1, <3>2 DEF Pooled, Session
  <2>2. sessions \in Seq(Session)
    <3>1. sessions \in [1..Len(sessions) -> Session]
      <4>1. sessions \in [1..Len(sessions) -> Pooled]
        BY LenProperties, SizesNow DEF TmInv, TmTypes
      <4> QED
        BY <2>1, <4>1, SizesNow
    <3> QED
      BY <3>1, SeqDef, SizesNow
  <2>3. /\ Len(sessions) <= MaxSessions + MaxLayers
        /\ fbSession \in -1..MaxSessions + MaxLayers
        /\ tmNext \in 0..MaxSessions + MaxLayers + 1 /\ tmFrame \in 0..MaxFrames
    BY SizesNow DEF TmInv, FbInPool, TmSizes, PoolSizes, StackSizes
  <2>4. \A b \in blits : b.layer \in DOMAIN stack /\ b.buffer \in OwnBuffers
    BY DEF TmInv, TmTypes, Blitted, TmSizes, StackSizes
  <2> QED
    BY <2>2, <2>3, <2>4 DEF TmSizes, StackSizes, TmTypeOK
<1> QED
  BY <1>1, <1>2, <1>3, TmInvariance, PTL DEF TmSpec

-----------------------------------------------------------------------------
(* The components side by side. *)

\* The theorems of DrmResources, for the wiring of R.
RP == INSTANCE DrmResourcesProofs WITH
  Users <- {"dp", "virtual", "cwb"},
  Connectors <- {"c1", "c2", "c3"}, Encoders <- {"e1", "e2", "e3"}, Crtcs <- {"k1", "k2"},
  Target <- [dp |-> "c2", virtual |-> "wb", cwb |-> "c1"],
  Locker <- [dp |-> "core", virtual |-> "core", cwb |-> "cwb"],
  TypeOf <- [c1 |-> "wb", c2 |-> "tv", c3 |-> "wb"],
  EncodersOf <- [c1 |-> {"e1"}, c2 |-> {"e2"}, c3 |-> {"e1", "e3"}],
  CrtcsOf <- [e \in {"e1", "e2", "e3"} |-> {"k1", "k2"}],
  Removable <- {"c2"}, Nil <- "nil"

\* The wiring meets the assumption of the proofs about DrmResources.
LEMMA ConnectorsWired ==
  RP!Wired
BY DEF RP!Wired

\* A step of the composition is a step of one component and leaves the others alone.
LEMMA Parts ==
  Spec => TmSpec /\ BmSpec /\ DpSpec /\ F!LfSpec /\ R!RgSpec /\ L!BlSpec
<1>1. Init => TmInit /\ BmInit /\ DpInit /\ F!LfInit /\ R!RgInit /\ L!BlInit
  BY DEF Init
<1>2. [Next]_vars => [TmNext]_tmVars
  BY DEF Next, vars, ToneMapperOnly, ResourcesOnly, BuffersOnly, LayoutOnly, FramesOnly,
         PlanesOnly
<1>3. [Next]_vars => [BmNext]_bmVars
  BY DEF Next, vars, ToneMapperOnly, ResourcesOnly, BuffersOnly, LayoutOnly, FramesOnly,
         PlanesOnly
<1>4. [Next]_vars => [DpNext]_dpVars
  BY DEF Next, vars, ToneMapperOnly, ResourcesOnly, BuffersOnly, LayoutOnly, FramesOnly,
         PlanesOnly
<1>5. [Next]_vars => [R!RgNext]_R!rgVars
  BY DEF Next, vars, drmVars, R!rgVars,
         ToneMapperOnly, ResourcesOnly, BuffersOnly, LayoutOnly, FramesOnly, PlanesOnly
<1>6. [Next]_vars => [F!LfNext]_F!lfVars
  BY DEF Next, vars, frameVars, F!lfVars,
         ToneMapperOnly, ResourcesOnly, BuffersOnly, LayoutOnly, FramesOnly, PlanesOnly
<1>7. [Next]_vars => [L!BlNext]_L!blVars
  BY DEF Next, vars, L!blVars,
         ToneMapperOnly, ResourcesOnly, BuffersOnly, LayoutOnly, FramesOnly, PlanesOnly
<1> QED
  BY <1>1, <1>2, <1>3, <1>4, <1>5, <1>6, <1>7, PTL
     DEF Spec, TmSpec, BmSpec, DpSpec, F!LfSpec, R!RgSpec, L!BlSpec

\* R and RP are the same instance of DrmResources.
LEMMA SameResources ==
  R!RgSpec => RP!RgSpec
<1>1. R!RgInit => RP!RgInit
  BY DEF R!RgInit, RP!RgInit, R!NoToken, RP!NoToken
<1>2. R!RgNext => RP!RgNext
  <2>1. \A c : R!Plug(c) => RP!Plug(c)
    BY DEF R!Plug, RP!Plug
  <2>2. \A c : R!Unplug(c) => RP!Unplug(c)
    BY DEF R!Unplug, RP!Unplug
  <2>3. R!Update => RP!Update
    BY DEF R!Update, RP!Update, R!Stays, RP!Stays
  <2>4. \A u : R!ReserveConnector(u) => RP!ReserveConnector(u)
    BY DEF R!ReserveConnector, RP!ReserveConnector, R!Alone, RP!Alone, R!Moving, RP!Moving,
           R!Choices, RP!Choices, R!Matching, RP!Matching
  <2>5. \A u : R!FindEncoder(u) => RP!FindEncoder(u)
    BY DEF R!FindEncoder, RP!FindEncoder, R!FreeEncoders, RP!FreeEncoders
  <2>6. \A u : R!LockEncoder(u) => RP!LockEncoder(u)
    BY DEF R!LockEncoder, RP!LockEncoder
  <2>7. \A u : R!NoEncoder(u) => RP!NoEncoder(u)
    BY DEF R!NoEncoder, RP!NoEncoder, R!FreeEncoders, RP!FreeEncoders, R!NoToken, RP!NoToken
  <2>8. \A u : R!ReserveCrtc(u) => RP!ReserveCrtc(u)
    BY DEF R!ReserveCrtc, RP!ReserveCrtc, R!FreeCrtcs, RP!FreeCrtcs
  <2>9. \A u : R!NoCrtc(u) => RP!NoCrtc(u)
    BY DEF R!NoCrtc, RP!NoCrtc, R!FreeCrtcs, RP!FreeCrtcs, R!UndoFrom, RP!UndoFrom
  <2>10. \A u : R!FreeEncoder(u) => RP!FreeEncoder(u)
    BY DEF R!FreeEncoder, RP!FreeEncoder
  <2>11. \A u : R!FreeConnector(u) => RP!FreeConnector(u)
    BY DEF R!FreeConnector, RP!FreeConnector, R!Alone, RP!Alone, R!Moving, RP!Moving, R!NoToken,
           RP!NoToken
  <2>12. \A u : R!FreeCrtc(u) => RP!FreeCrtc(u)
    BY DEF R!FreeCrtc, RP!FreeCrtc, R!NoToken, RP!NoToken
  <2> QED
    BY <2>1, <2>2, <2>3, <2>4, <2>5, <2>6, <2>7, <2>8, <2>9, <2>10, <2>11, <2>12 DEF R!RgNext,
           RP!RgNext
<1>3. UNCHANGED R!rgVars => UNCHANGED RP!rgVars
  BY DEF R!rgVars, RP!rgVars
<1> QED
  BY <1>1, <1>2, <1>3, PTL DEF R!RgSpec, RP!RgSpec

\* The three displays of R never have the same connector or CRTC, and nothing of theirs
\* leaks.
LEMMA ResourcesInvariance ==
  Spec => [](R!OneDisplayPerPipe /\ R!NothingLeaks /\ R!ReservedIsInPool)
<1>1. RP!RgSpec => []RP!OneDisplayPerPipe
  BY ConnectorsWired, RP!PipeTheorem
<1>2. RP!RgSpec => []RP!NothingLeaks
  BY ConnectorsWired, RP!LeakTheorem
<1>3. RP!RgSpec => []RP!ReservedIsInPool
  BY ConnectorsWired, RP!PoolTheorem
<1>4. /\ RP!OneDisplayPerPipe => R!OneDisplayPerPipe
      /\ RP!NothingLeaks => R!NothingLeaks
      /\ RP!ReservedIsInPool => R!ReservedIsInPool
  BY DEF R!OneDisplayPerPipe, RP!OneDisplayPerPipe, R!NothingLeaks, RP!NothingLeaks,
         R!ReservedIsInPool, RP!ReservedIsInPool
<1> QED
  BY <1>1, <1>2, <1>3, <1>4, Parts, SameResources, PTL

\* No index of the tone mapper leaves its pool, no plane its buffer or the space of another.
THEOREM BoundsTheorem ==
  Spec => []WithinBounds
<1>1. FbIndexInRange /\ L!PlanesFit /\ L!PlanesDisjoint => WithinBounds
  BY DEF WithinBounds
<1> QED
  BY <1>1, Parts, FbIndexTheorem, PlanesTheorem, PTL

\* Registrations of displays that failed or were undone leave nothing reserved.
THEOREM NothingLeaksTheorem ==
  Spec => []NothingLeaks
<1>1. R!NothingLeaks /\ R!ReservedIsInPool => NothingLeaks
  BY DEF NothingLeaks
<1> QED
  BY <1>1, ResourcesInvariance, PTL

\* One frame blits no two layers with one session, and no two displays have one connector or
\* CRTC (hwc_tonemapper.cpp, AcquireToneMapSession; drm_connector.cpp, Reserve).
THEOREM OneUserTheorem ==
  Spec => []OneUserEach
<1>1. TmInv /\ R!OneDisplayPerPipe => OneUserEach
  BY DEF TmInv, OneUserEach
<1> QED
  BY <1>1, Parts, TmInvariance, ResourcesInvariance, PTL

\* A blit waits for the last frame that showed its buffer, and no one's cache hides what another
\* user of a buffer wrote (hwc_tonemapper.cpp, SetReleaseFence; gr_buf_mgr.cpp, LockBuffer).
THEOREM ApartTheorem ==
  ASSUME IsFiniteSet(Users)
  PROVE  Spec => []UsersKeepApart
<1>1. TmInv /\ CacheIsCoherent => UsersKeepApart
  BY DEF TmInv, UsersKeepApart
<1> QED
  BY <1>1, Parts, TmInvariance, CoherenceTheorem, PTL

\* A frame of the client that is skipped takes no buffer and no refresh request with it.
THEOREM SkipTheorem ==
  Spec => SkipLosesNothing
BY Parts, SkipInvariance, PTL DEF SkipLosesNothing

\* Every variable of the six components keeps its type.
THEOREM ResourcesTypes ==
  ASSUME IsFiniteSet(Users), PoolBounds, FramesBounds
  PROVE  Spec => []TypeOK
<1>1. RP!RgSpec => []RP!RgTypeOK
  BY ConnectorsWired, RP!RgTypeTheorem
<1>2. RP!RgTypeOK => R!RgTypeOK
  BY DEF RP!RgTypeOK, R!RgTypeOK, RP!Moving, R!Moving
<1>3. TmTypeOK /\ R!RgTypeOK /\ BmTypeOK /\ F!LfTypeOK /\ DpTypeOK => TypeOK
  BY DEF TypeOK
<1>4. TmSpec => []TmTypeOK
  BY ToneMapperTypes
<1>5. BmSpec => []BmTypeOK
  BY BuffersTypes
<1>6. F!LfSpec => []F!LfTypeOK
  BY FramesTypes
<1> QED
  BY <1>1, <1>2, <1>3, <1>4, <1>5, <1>6, PlanesTypes, Parts, SameResources, PTL
=============================================================================
