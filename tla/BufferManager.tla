--------------------------- MODULE BufferManager ---------------------------
(***************************************************************************)
(* gralloc's BufferManager: the buffers a process has allocated or          *)
(* imported, their reference counts, and the cache maintenance around the   *)
(* CPU's access.  Every operation runs under buffer_lock_.                  *)
(*                                                                         *)
(* The users keep the mapper's contract: they release what they retained,   *)
(* access a buffer between lock and unlock, do not lock a buffer for        *)
(* writing that another has locked, and no device uses it meanwhile.        *)
(***************************************************************************)
EXTENDS Naturals, FiniteSets

CONSTANTS Users, Handles

VARIABLES
  refs,        \* handles_map_: the reference count, 0 when it is not there
  mapped,      \* base # 0
  needsFlush,  \* PRIV_FLAGS_NEEDS_FLUSH
  holds,       \* the handles each user holds a reference to
  access,      \* how each user has locked a handle: "no", "read" or "write"
  cpuCache     \* the CPU's cached lines of a buffer: "same" as memory, "dirty" or "stale"

bmVars == <<refs, mapped, needsFlush, holds, access, cpuCache>>

Locked(h) == {u \in Users : access[u][h] # "no"}

BmTypeOK ==
  /\ refs \in [Handles -> 0..Cardinality(Users)]
  /\ mapped \in [Handles -> BOOLEAN] /\ needsFlush \in [Handles -> BOOLEAN]
  /\ holds \in [Users -> SUBSET Handles]
  /\ access \in [Users -> [Handles -> {"no", "read", "write"}]]
  /\ cpuCache \in [Handles -> {"same", "dirty", "stale"}]

BmInit ==
  /\ refs = [h \in Handles |-> 0]
  /\ mapped = [h \in Handles |-> FALSE] /\ needsFlush = [h \in Handles |-> FALSE]
  /\ holds = [u \in Users |-> {}]
  /\ access = [u \in Users |-> [h \in Handles |-> "no"]]
  /\ cpuCache = [h \in Handles |-> "same"]

-----------------------------------------------------------------------------
\* RegisterHandleLocked: a new entry with one reference.
Register(u, h) ==
  /\ refs' = [refs EXCEPT ![h] = 1]
  /\ holds' = [holds EXCEPT ![u] = @ \cup {h}]
  /\ mapped' = [mapped EXCEPT ![h] = FALSE]
  /\ UNCHANGED <<needsFlush, access, cpuCache>>

\* AllocateBuffer, when all of it succeeds.
AllocateBuffer(u, h) == refs[h] = 0 /\ Register(u, h)

\* RetainBuffer of a buffer that is not in the map: ImportHandleLocked.
ImportBuffer(u, h) == refs[h] = 0 /\ Register(u, h)

\* Broken variant: a second reference is not counted.
IncRefNot(n) == n

IncRef(n) == n + 1

\* RetainBuffer of a buffer that is.
RetainBuffer(u, h) ==
  /\ refs[h] > 0 /\ h \notin holds[u]
  /\ refs' = [refs EXCEPT ![h] = IncRef(@)]
  /\ holds' = [holds EXCEPT ![u] = @ \cup {h}]
  /\ UNCHANGED <<mapped, needsFlush, access, cpuCache>>

\* ReleaseBuffer; the last one erases the entry, unmaps and frees the buffer.
ReleaseBuffer(u, h) ==
  /\ h \in holds[u] /\ refs[h] > 0 /\ access[u][h] = "no"
  /\ refs' = [refs EXCEPT ![h] = @ - 1]
  /\ holds' = [holds EXCEPT ![u] = @ \ {h}]
  /\ IF refs[h] = 1
     THEN /\ mapped' = [mapped EXCEPT ![h] = FALSE]
          /\ needsFlush' = [needsFlush EXCEPT ![h] = FALSE]
          /\ cpuCache' = [cpuCache EXCEPT ![h] = "same"]
     ELSE UNCHANGED <<mapped, needsFlush, cpuCache>>
  /\ UNCHANGED access

\* The contract of lock: one writer, or readers.
MayLock(u, h, how) ==
  /\ h \in holds[u] /\ access[u][h] = "no"
  /\ IF how = "write" THEN Locked(h) = {} ELSE \A v \in Locked(h) : access[v][h] = "read"

\* CleanBuffer with CACHE_INVALIDATE and with CACHE_CLEAN or CACHE_READ_DONE.
Invalidated(cache) == "same"
Cleaned(cache) == IF cache = "dirty" THEN "same" ELSE cache
ReadDone(cache) == cache

\* Broken variant: a mapping that is there already is not invalidated.
CacheAtLockOnce(h) == IF mapped[h] THEN cpuCache[h] ELSE Invalidated(cpuCache[h])

CacheAtLock(h) == Invalidated(cpuCache[h])

\* LockBuffer of an entry of the map: mapped on first use, invalidated, marked.
LockBuffer(u, h, how) ==
  /\ MayLock(u, h, how) /\ refs[h] > 0
  /\ mapped' = [mapped EXCEPT ![h] = TRUE]
  /\ cpuCache' = [cpuCache EXCEPT ![h] = CacheAtLock(h)]
  /\ needsFlush' = [needsFlush EXCEPT ![h] = @ \/ how = "write"]
  /\ access' = [access EXCEPT ![u][h] = how]
  /\ UNCHANGED <<refs, holds>>

Write(u, h) ==
  /\ access[u][h] = "write" /\ cpuCache[h] = "same"
  /\ cpuCache' = [cpuCache EXCEPT ![h] = "dirty"]
  /\ UNCHANGED <<refs, mapped, needsFlush, holds, access>>

\* FlushBuffer and UnlockBuffer.
FlushBuffer(u, h) ==
  /\ access[u][h] = "write"
  /\ cpuCache' = [cpuCache EXCEPT ![h] = Cleaned(@)]
  /\ UNCHANGED <<refs, mapped, needsFlush, holds, access>>

UnlockBuffer(u, h) ==
  /\ access[u][h] # "no" /\ refs[h] > 0
  /\ cpuCache' = [cpuCache EXCEPT ![h] = IF needsFlush[h] THEN Cleaned(@) ELSE ReadDone(@)]
  /\ needsFlush' = [needsFlush EXCEPT ![h] = FALSE]
  /\ access' = [access EXCEPT ![u][h] = "no"]
  /\ UNCHANGED <<refs, mapped, holds>>

\* A device writes into the buffer; the lines the CPU has cached are old then.
DeviceWrites(h) ==
  /\ Locked(h) = {} /\ mapped[h] /\ cpuCache[h] = "same"
  /\ cpuCache' = [cpuCache EXCEPT ![h] = "stale"]
  /\ UNCHANGED <<refs, mapped, needsFlush, holds, access>>

BmNext == \E h \in Handles :
  \/ DeviceWrites(h)
  \/ \E u \in Users :
       \/ AllocateBuffer(u, h) \/ ImportBuffer(u, h) \/ RetainBuffer(u, h) \/ ReleaseBuffer(u, h)
       \/ \E how \in {"read", "write"} : LockBuffer(u, h, how)
       \/ Write(u, h) \/ FlushBuffer(u, h) \/ UnlockBuffer(u, h)

BmSpec == BmInit /\ [][BmNext]_bmVars

-----------------------------------------------------------------------------
(* Properties                                                              *)

\* A buffer is in the map while anyone holds it, and is mapped while anyone
\* has it locked: the release of one user never unmaps it under another.
HeldIsThere == \A h \in Handles :
  /\ refs[h] = Cardinality({u \in Users : h \in holds[u]})
  /\ Locked(h) # {} => refs[h] > 0 /\ mapped[h]

\* What the CPU wrote is in memory when the last user has unlocked the buffer,
\* so that the display and the GPU read it, and a user that has locked it does
\* not read lines from before a device wrote.
CacheIsCoherent == \A h \in Handles :
  /\ Locked(h) = {} => cpuCache[h] # "dirty"
  /\ Locked(h) # {} => cpuCache[h] # "stale"
=============================================================================
