----------------------------- MODULE DrmPlanes -----------------------------
(***************************************************************************)
(* The planes of the DRM layer and the atomic requests of the displays.     *)
(*                                                                         *)
(* A display builds a request property by property, each call under the     *)
(* plane manager's lock, and hands it to the kernel to test it (Validate)   *)
(* or to apply it (Commit).  A plane keeps what it believes the kernel      *)
(* holds, so that only changes are sent: two caches of property values, one *)
(* of which a validation leaves alone; a note of its FP16 conversion, which *)
(* a validation changes too; and the state of its color LUTs, which the     *)
(* hardware keeps while the plane is off.  The color space conversion and    *)
(* the gamma correction of FP16 buffers are handled alike and are one        *)
(* setting, fp16; the properties besides these and the CRTC are one, conf,   *)
(* but FB_ID, which every frame sets, is left out.                          *)
(*                                                                         *)
(* Which planes a display asks for is the resource manager's choice: it is  *)
(* taken to give a plane to one display at a time.                          *)
(***************************************************************************)
EXTENDS Naturals

CONSTANTS Planes, Displays,
          LutPlanes,     \* the planes with color LUTs (tonemap_lut_version_map)
          Fp16Planes,    \* the planes with SDE_SSPP_FP16_CSC_V1 or SDE_SSPP_FP16_GC_V1
          Values,        \* the settings (source, rectangles, ...) a plane can have
          Fp16Values,    \* the conversions of FP16 buffers, or the gamma corrections
          None, Absent   \* no CRTC or setting; not in the cache or the request

VARIABLES
  request, assigned, \* requested_crtc_id_ and assigned_crtc_id_ of each plane
  tmp, committed,    \* tmp_prop_val_map_ and committed_prop_val_map_
  fp16,              \* fp16_csc_type_ or fp16_gc_config_ of each plane
  lut,               \* the LUT state of each plane
  resetLuts,         \* reset_planes_luts_, shared by the displays
  req,               \* the request each display is building
  pc, kind, ok,      \* the display's step, what the round is and the kernel's answer
  asked,             \* the frame of the round: what each plane is to show
  hw,                \* the kernel's plane state
  doubt,             \* the planes whose LUT state may be wrong, see NoStaleLut
  unsent             \* the planes whose FP16 note may be wrong, see CacheIsTrue

dpVars == <<request, assigned, tmp, committed, fp16, lut, resetLuts, req, pc, kind, ok, asked, hw,
            doubt, unsent>>

Cache == [crtc : Displays \cup {None, Absent}, conf : Values \cup {None, Absent}]
Empty == [crtc |-> Absent, conf |-> Absent]
Nothing == [crtc |-> Absent, conf |-> Absent, fp16 |-> Absent, lut |-> Absent]
LutOps == {"keep", "set", "reset"}
Fp16s == Fp16Values \cup {None}

\* What a frame asks of a plane; when its configuration is not updated (update_config) only
\* its LUTs may be.
Use == [conf : Values, fp16 : Fp16s, op : LutOps]
         \cup [conf : {None}, fp16 : {None}, op : LutOps]

ASSUME NamesAreDistinct ==
  /\ LutPlanes \cup Fp16Planes \subseteq Planes
  /\ None \notin Displays \cup Values \cup Fp16Values \cup Use
  /\ Absent \notin Displays \cup Values \cup Fp16Values \cup {None}
ASSUME AbsentIsNoLutState == Absent \notin {"on", "off"}

Frames == {"validate", "commit"}       \* the rounds of HWDeviceDRM::Validate and AtomicCommit
Commits == {"commit", "flush", "retain"} \* NullCommit without and with the planes

DpTypeOK ==
  /\ request \in [Planes -> Displays \cup {None}]
  /\ assigned \in [Planes -> Displays \cup {None}]
  /\ tmp \in [Planes -> Cache] /\ committed \in [Planes -> Cache]
  /\ fp16 \in [Planes -> Fp16s]
  /\ lut \in [Planes -> {"inactive", "active", "dirty"}]
  /\ \A p \in Planes \ LutPlanes : lut[p] = "inactive"
  /\ resetLuts \in BOOLEAN
  /\ req \in [Displays -> [Planes -> [crtc : Displays \cup {None, Absent},
                                      conf : Values \cup {None, Absent},
                                      fp16 : Fp16s \cup {Absent},
                                      lut : {"on", "off", Absent}]]]
  /\ pc \in [Displays -> {"idle", "reset", "setup", "ioctl", "post"}]
  /\ kind \in [Displays -> Frames \cup Commits]
  /\ ok \in [Displays -> BOOLEAN]
  /\ asked \in [Displays -> [Planes -> Use \cup {None}]]
  /\ hw \in [Planes -> [crtc : Displays \cup {None}, conf : Values \cup {None}, fp16 : Fp16s,
                        lut : {"off", "on", "stale"}]]
  /\ doubt \in SUBSET LutPlanes /\ unsent \in SUBSET Planes

\* The service may have been restarted: the driver did not clear the LUTs.
DpInit ==
  /\ request = [p \in Planes |-> None] /\ assigned = [p \in Planes |-> None]
  /\ tmp = [p \in Planes |-> Empty] /\ committed = [p \in Planes |-> Empty]
  /\ fp16 = [p \in Planes |-> None]
  /\ lut = [p \in Planes |-> "inactive"]
  /\ resetLuts = TRUE
  /\ req = [d \in Displays |-> [p \in Planes |-> Nothing]]
  /\ pc = [d \in Displays |-> "idle"] /\ kind = [d \in Displays |-> "flush"]
  /\ ok = [d \in Displays |-> FALSE]
  /\ asked = [d \in Displays |-> [p \in Planes |-> None]]
  /\ \E left \in SUBSET LutPlanes :
       hw = [p \in Planes |-> [crtc |-> None, conf |-> None, fp16 |-> None,
                              lut |-> IF p \in left THEN "stale" ELSE "off"]]
  /\ doubt = {} /\ unsent = {}

-----------------------------------------------------------------------------
\* The planes a display has or asks for, and those another display does.
Mine(d) == {p \in Planes : d \in {request[p], assigned[p]}}
Others(d) == {p \in Planes : {request[p], assigned[p]} \cap (Displays \ {d}) # {}}

\* AddProperty with the cache: a value the cache already has is not sent.
Queue(queued, cached, v) == IF cached = v THEN queued ELSE v

\* A round of display d begins; a null commit has no frame to set up.
Begin(d, k) ==
  /\ pc[d] = "idle"
  /\ kind' = [kind EXCEPT ![d] = k]
  /\ pc' = [pc EXCEPT ![d] = IF k \in Frames /\ resetLuts THEN "reset" ELSE "setup"]
  /\ UNCHANGED <<request, assigned, tmp, committed, fp16, lut, resetLuts, req, ok, asked, hw,
                 doubt, unsent>>

\* ResetPlanesLUT of each plane, for the LUTs in its tonemap_lut_version_map.
MarkedDirty == [p \in Planes |-> IF p \in LutPlanes THEN "dirty" ELSE lut[p]]

\* PLANES_RESET_LUT: the LUTs of all planes, whosever they are, and their caches.
ResetPlanesLUT(d) ==
  /\ pc[d] = "reset"
  /\ tmp' = [p \in Planes |-> Empty] /\ committed' = [p \in Planes |-> Empty]
  /\ lut' = MarkedDirty
  /\ req' = [req EXCEPT ![d] = [p \in Planes |-> IF p \in LutPlanes THEN [@[p] EXCEPT !.lut = "off"]
                                                 ELSE @[p]]]
  /\ doubt' = doubt \cup (LutPlanes \cap Others(d))
  /\ pc' = [pc EXCEPT ![d] = "setup"]
  /\ UNCHANGED <<request, assigned, fp16, resetLuts, kind, ok, asked, hw, unsent>>

\* The resource manager gives plane p to d.
Available(d, p) == request[p] = None /\ assigned[p] \in {None, d}

\* UpdatePPLutFeatureInuse: what the LUT state is once the operation is queued.
LutAfter(state, op) ==
  CASE op = "keep" -> state [] op = "set" -> "active" [] op = "reset" -> "inactive"

\* SetupAtomic for one plane: its settings, if they are updated, LUT operation and CRTC.
SetPlane(d, p, u) ==
  /\ pc[d] = "setup" /\ kind[d] \in Frames
  /\ Available(d, p)
  /\ (u.op = "keep" \/ p \in LutPlanes) /\ (u.fp16 = None \/ p \in Fp16Planes)
  /\ asked' = [asked EXCEPT ![d][p] = u]
  /\ request' = [request EXCEPT ![p] = d]
  /\ LET r == req[d][p]
         updated == u.conf # None
     IN  /\ tmp' = [tmp EXCEPT ![p] =
                      [crtc |-> d, conf |-> IF updated THEN u.conf ELSE tmp[p].conf]]
         /\ fp16' = [fp16 EXCEPT ![p] = IF updated THEN u.fp16 ELSE fp16[p]]
         /\ req' = [req EXCEPT ![d][p] =
              [crtc |-> Queue(r.crtc, tmp[p].crtc, d),
               conf |-> IF updated THEN Queue(r.conf, tmp[p].conf, u.conf) ELSE r.conf,
               fp16 |-> IF updated THEN Queue(r.fp16, fp16[p], u.fp16) ELSE r.fp16,
               lut |-> IF u.op = "keep" THEN r.lut ELSE IF u.op = "set" THEN "on" ELSE "off"]]
  /\ lut' = [lut EXCEPT ![p] = LutAfter(@, u.op)]
  /\ UNCHANGED <<assigned, committed, resetLuts, pc, kind, ok, hw, doubt, unsent>>

-----------------------------------------------------------------------------
\* Broken variant: the planes are not retained.
RequestedNever(d) == request

\* RetainPlanes: a null commit that keeps the planes pretends they were requested.
Requested(d) ==
  [p \in Planes |-> IF kind[d] = "retain" /\ assigned[p] = d THEN d ELSE request[p]]

\* Broken variant: whosever they are.
UnusedAnyone(d) == {p \in Planes : assigned[p] # None /\ Requested(d)[p] = None}

\* The planes UnsetUnusedResources unsets and those it finds in use.
Unused(d) == {p \in Planes : assigned[p] = d /\ Requested(d)[p] = None}
InUse(d) == {p \in Planes : Requested(d)[p] = d}

\* Broken variant: a LUT that the frame has just set is cleared too.
ClearsLutJustSet(d, p) == p \in Unused(d) \cup InUse(d) /\ lut[p] # "inactive"

\* Broken variant: a LUT that is on is forgotten when its plane is unset.
ClearsLutInUse(d, p) == p \in InUse(d) /\ lut[p] = "dirty"

\* ResetColorLUTState: whether it asks the kernel to clear the plane's LUT.
ClearsLut(d, p) == \/ p \in Unused(d) /\ lut[p] = "active"
                   \/ p \in InUse(d) /\ lut[p] = "dirty"

\* DRMPlane::Unset ends by clearing the caches, in a validation too.
CachesAfterUnset(d, cache) == [p \in Planes |-> IF p \in Unused(d) THEN Empty ELSE cache[p]]

\* Broken variant: the note survives.
Fp16AfterUnsetKept(d) == fp16

\* The note of the FP16 conversion, whose reset it sends if there was one.
Fp16AfterUnset(d) == [p \in Planes |-> IF p \in Unused(d) THEN None ELSE fp16[p]]

\* Validate and Commit up to the call of the kernel.
UnsetUnusedResources(d) ==
  /\ pc[d] = "setup"
  /\ request' = Requested(d)
  /\ req' = [req EXCEPT ![d] = [p \in Planes |->
       [crtc |-> IF p \in Unused(d) THEN Queue(@[p].crtc, tmp[p].crtc, None) ELSE @[p].crtc,
        conf |-> IF p \in Unused(d) THEN Queue(@[p].conf, tmp[p].conf, None) ELSE @[p].conf,
        fp16 |-> IF p \in Unused(d) THEN Queue(@[p].fp16, fp16[p], None) ELSE @[p].fp16,
        lut |-> IF ClearsLut(d, p) THEN "off" ELSE @[p].lut]]]
  /\ lut' = [p \in Planes |->
               IF kind[d] \notin Commits \/ ~ClearsLut(d, p) THEN lut[p]
               ELSE IF lut[p] = "active" THEN "dirty" ELSE "inactive"]
  /\ tmp' = CachesAfterUnset(d, tmp) /\ committed' = CachesAfterUnset(d, committed)
  /\ fp16' = Fp16AfterUnset(d)
  /\ pc' = [pc EXCEPT ![d] = "ioctl"]
  /\ UNCHANGED <<assigned, resetLuts, kind, ok, asked, hw, doubt, unsent>>

\* The plane after the request q: the LUT of a plane that is off is not touched.
Applied(h, q) ==
  LET crtc == IF q.crtc = Absent THEN h.crtc ELSE q.crtc IN
  [crtc |-> crtc,
   conf |-> IF q.conf = Absent THEN h.conf ELSE q.conf,
   fp16 |-> IF q.fp16 = Absent THEN h.fp16 ELSE q.fp16,
   lut |-> IF crtc = None THEN (IF h.lut = "off" THEN "off" ELSE "stale")
           ELSE IF q.lut = Absent THEN h.lut ELSE q.lut]

\* drmModeAtomicCommit: all or nothing, and nothing when it only tests.
AtomicIoctl(d) ==
  /\ pc[d] = "ioctl"
  /\ \E success \in BOOLEAN :
       /\ ok' = [ok EXCEPT ![d] = success]
       /\ LET sent == {p \in Planes : req[d][p].lut # Absent}
              noted == {p \in Planes : req[d][p].fp16 # Absent}
          IN  IF success /\ kind[d] \in Commits
              THEN /\ hw' = [p \in Planes |-> Applied(hw[p], req[d][p])]
                   /\ doubt' = (doubt \ (sent \cap Mine(d))) \cup (sent \cap Others(d))
                   /\ unsent' = unsent \ noted
              ELSE unsent' = unsent \cup noted /\ UNCHANGED <<hw, doubt>>
  /\ pc' = [pc EXCEPT ![d] = "post"]
  /\ UNCHANGED <<request, assigned, tmp, committed, fp16, lut, resetLuts, req, kind, asked>>

-----------------------------------------------------------------------------
\* The request is empty again and the round is over.
Finished(d) ==
  /\ pc' = [pc EXCEPT ![d] = "idle"]
  /\ req' = [req EXCEPT ![d] = [p \in Planes |-> Nothing]]
  /\ asked' = [asked EXCEPT ![d] = [p \in Planes |-> None]]
  /\ kind' = [kind EXCEPT ![d] = "flush"] /\ ok' = [ok EXCEPT ![d] = FALSE]
  /\ hw' = hw

\* Broken variant: what the round tried stays in the cache.
RestoredKept(p) == tmp[p]

Restored(p) == committed[p]

\* PostValidate with success = false: the LUT did not reach the hardware.
AfterRefused(d, p) == IF ~ok[d] /\ lut[p] = "active" THEN "dirty" ELSE lut[p]

\* PostValidate; PostCommit ends here too when the commit failed.
PostValidate(d) ==
  /\ pc[d] = "post" /\ ~(ok[d] /\ kind[d] \in Commits)
  /\ LET mine == {p \in Planes : request[p] = d} IN
     /\ request' = [p \in Planes |-> IF p \in mine THEN None ELSE request[p]]
     /\ lut' = [p \in Planes |-> IF p \in mine THEN AfterRefused(d, p) ELSE lut[p]]
     /\ tmp' = [p \in Planes |-> IF p \in mine THEN Restored(p) ELSE tmp[p]]
     /\ doubt' = doubt \cup {p \in mine : req[d][p].lut # Absent /\ AfterRefused(d, p) # "dirty"}
  /\ Finished(d)
  /\ UNCHANGED <<assigned, committed, fp16, resetLuts, unsent>>

\* Broken variant: a plane that was unset stays assigned.
NowAssignedKept(d) == [p \in Planes |-> IF request[p] = d THEN d ELSE assigned[p]]

NowAssigned(d) == [p \in Planes |-> IF p \in Mine(d) THEN request[p] ELSE assigned[p]]

\* PostCommit of a commit that succeeded, and the end of AtomicCommit.
PostCommit(d) ==
  /\ pc[d] = "post" /\ ok[d] /\ kind[d] \in Commits
  /\ committed' = [p \in Planes |-> IF p \in Mine(d) THEN tmp[p] ELSE committed[p]]
  /\ assigned' = NowAssigned(d)
  /\ request' = [p \in Planes |-> IF p \in Mine(d) THEN None ELSE request[p]]
  /\ resetLuts' = (resetLuts /\ kind[d] # "commit")
  /\ Finished(d)
  /\ UNCHANGED <<tmp, fp16, lut, doubt, unsent>>

\* What the trusted VM leaves behind: settings of its own, outside this repository.
LeftByVm(d, v, f) ==
  /\ hw' = [p \in Planes |->
              IF hw[p].crtc # d THEN hw[p]
              ELSE [hw[p] EXCEPT !.conf = v, !.fp16 = IF p \in Fp16Planes THEN f ELSE @]]
  /\ unsent' = unsent \cup {p \in Planes : hw'[p].fp16 # hw[p].fp16}

\* Broken variant: the caches survive the session.
HandleTUIEndCached(d, v, f) ==
  /\ pc[d] = "idle"
  /\ LeftByVm(d, v, f)
  /\ UNCHANGED <<request, assigned, tmp, committed, fp16, lut, resetLuts, req, pc, kind, ok, asked,
                 doubt>>

\* The trusted VM returns d's planes (kTUITransitionEnd, PLANES_RESET_CACHE): the caches
\* of property values are cleared, the note of the FP16 conversion is not.
HandleTUIEnd(d, v, f) ==
  /\ pc[d] = "idle"
  /\ LeftByVm(d, v, f)
  /\ tmp' = [p \in Planes |-> IF assigned[p] = d THEN Empty ELSE tmp[p]]
  /\ committed' = [p \in Planes |-> IF assigned[p] = d THEN Empty ELSE committed[p]]
  /\ UNCHANGED <<request, assigned, fp16, lut, resetLuts, req, pc, kind, ok, asked, doubt>>

DpNext == \E d \in Displays :
  \/ \E k \in Frames \cup Commits : Begin(d, k)
  \/ ResetPlanesLUT(d)
  \/ \E p \in Planes, u \in Use : SetPlane(d, p, u)
  \/ UnsetUnusedResources(d) \/ AtomicIoctl(d) \/ PostValidate(d) \/ PostCommit(d)
  \/ \E v \in Values, f \in Fp16s : HandleTUIEnd(d, v, f)

DpSpec == DpInit /\ [][DpNext]_dpVars

-----------------------------------------------------------------------------
(* Properties                                                              *)

\* What plane p will be when the request being built for it has been applied.
Coming(p) == IF request[p] = None \/ pc[request[p]] = "post" THEN hw[p]
             ELSE Applied(hw[p], req[request[p]][p])

\* A cache never holds what the kernel does not have: committed_prop_val_map_
\* agrees with the kernel, and tmp_prop_val_map_ with what the kernel will have
\* once the request is applied.  A value that is wrongly cached is never sent
\* again, and the plane shows the old setting for as long as it is in use.
PropertyMapsAreTrue == \A p \in Planes :
  LET posted == request[p] # None /\ pc[request[p]] = "post" IN
  \A x \in {"crtc", "conf"} :
    /\ committed[p][x] \in {Absent, hw[p][x]} \/ posted
    /\ tmp[p][x] \in {Absent, Coming(p)[x]} \/ posted

\* The note of the FP16 conversion is that of the kernel, or on its way there; but for the
\* planes where a round changed the note and was only a test or refused ("AddProperty being
\* called in Validate and ignored during Commit call", SetFp16CscConfig), or that were with
\* the trusted VM, until the conversion is sent again.
Fp16NoteIsTrue == \A p \in Planes \ unsent :
  \/ fp16[p] = hw[p].fp16
  \/ \E d \in Displays : pc[d] \in {"setup", "ioctl"} /\ fp16[p] = req[d][p].fp16

\* What a plane holds for sent is what the kernel has or is about to have (AddProperty,
\* PostValidate, PostCommit, Unset).
CacheIsTrue == PropertyMapsAreTrue /\ Fp16NoteIsTrue

\* After a commit the kernel accepted the display shows the frame it was asked
\* to show: the planes of the frame, with their settings where these were
\* updated, and no other plane; the FP16 conversion unless a test took its note.
FrameIsShown == \A d \in Displays :
  pc[d] = "post" /\ ok[d] /\ kind[d] = "commit" =>
    \A p \in Planes :
      IF asked[d][p] = None THEN hw[p].crtc # d
      ELSE /\ hw[p].crtc = d
           /\ asked[d][p].conf # None => /\ hw[p].conf = asked[d][p].conf
                                         /\ hw[p].fp16 = asked[d][p].fp16 \/ p \in unsent

\* The FP16 conversion too is that of the frame.  Does not hold: the frame is validated
\* before it is committed, the note is changed then, and the commit does not send it.
Fp16IsShown == \A d \in Displays :
  pc[d] = "post" /\ ok[d] /\ kind[d] = "commit" =>
    \A p \in Planes :
      asked[d][p] # None /\ asked[d][p].conf # None => hw[p].fp16 = asked[d][p].fp16

\* A plane never shows a layer with the LUT of an earlier use: it is marked
\* dirty when the plane is unset and cleared when the plane is used again.  In
\* doubt is a plane whose LUT state a round changed without the hardware: the
\* clearing was validated or refused, or another display's start reset it.
NoStaleLut == \A p \in Planes \ doubt : hw[p].crtc # None => hw[p].lut # "stale"

\* A plane that a display shows is assigned to it, so that the display's next
\* commit unsets it when it is no longer requested; no plane is lost.
ShownIsAssigned == \A p \in Planes :
  hw[p].crtc = assigned[p] \/ \E d \in {request[p], assigned[p]} \ {None} : pc[d] = "post"

\* A commit changes only planes that are its display's or nobody's, unless the
\* LUTs were being reset under another display.
OthersLeftAlone == [][\A d \in Displays, p \in Planes :
  pc[d] = "ioctl" /\ pc'[d] = "post" /\ hw[p].crtc \notin {None, d} =>
    hw'[p] = hw[p] \/ p \in doubt']_dpVars

\* A LUT that the frame sets is on once the kernel has accepted the commit.
LutIsSet == [][\A d \in Displays :
  pc[d] = "ioctl" /\ pc'[d] = "post" /\ ok'[d] /\ kind[d] = "commit" =>
    \A p \in Planes \ doubt :
      asked[d][p] # None /\ asked[d][p].op = "set" => hw'[p].lut = "on"]_dpVars

\* What a display shows is its frame: after a commit its planes are the frame's, none
\* has another layer's LUT, and the next commit knows them all (PostCommit, Unset).
ShowsItsFrame == FrameIsShown /\ NoStaleLut /\ ShownIsAssigned

\* A commit sets what its frame asks for and nothing of another display (ResetColorLUTs,
\* Unset).
CommitDoesItsPart == LutIsSet /\ OthersLeftAlone

\* A null commit that retains the planes (power on, doze) leaves the picture.
RetainKeepsThePicture == [][\A d \in Displays :
  pc[d] = "ioctl" /\ pc'[d] = "post" /\ kind[d] = "retain" =>
    \A p \in Planes : /\ hw'[p].crtc = hw[p].crtc /\ hw'[p].conf = hw[p].conf
                       /\ hw'[p].fp16 = hw[p].fp16]_dpVars
=============================================================================
