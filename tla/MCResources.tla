----------------------------- MODULE MCResources -----------------------------
(***************************************************************************)
(* Six components that share no state, checked side by side: "part" is the *)
(* one that moves in a behavior.  The planes are two parts.  In "planes"   *)
(* rounds of the displays interleave, LUTs come and go and every frame      *)
(* updates its settings, without FP16 buffers; in "fp16" rounds follow each *)
(* other, no LUT is set, and FP16 conversions come and go and settings are  *)
(* updated or not.  The planes' displays and settings are interchangeable;  *)
(* the other parts use neither.                                             *)
(***************************************************************************)
EXTENDS ToneMapper, BufferManager, DrmPlanes, TLC

CONSTANTS Widths, Heights, PageSize, GpuAlignment,
          Layers, Buffers, MaxEdits, MaxRefreshes, MaxFaults

\* Sizes are numbers.  A page is no larger than the alignment of protected memory: else the
\* plane of a raw buffer, whose size is computed without its usage, is reported too large.
ASSUME SizesAssumption ==
  Widths \subseteq Nat /\ Heights \subseteq Nat /\ GpuAlignment \in Nat \ {0}
ASSUME PageAssumption == PageSize \in 1..4096 /\ 4096 % PageSize = 0

VARIABLES pool, driver, connected, connBusy, encBusy, crtcBusy, step, token, seen, lost,
          content, noted, hwc, refresh, client, panel, outcome, unsure, edits, refreshes, faults,
          query, part

\* A pluggable display, a virtual display and the writeback of the built-in
\* display; two writeback connectors share an encoder, and two CRTCs do for three.
R == INSTANCE DrmResources WITH
  Users <- {"dp", "virtual", "cwb"},
  Connectors <- {"c1", "c2", "c3"}, Encoders <- {"e1", "e2", "e3"}, Crtcs <- {"k1", "k2"},
  Target <- [dp |-> "c2", virtual |-> "wb", cwb |-> "c1"],
  Locker <- [dp |-> "core", virtual |-> "core", cwb |-> "cwb"],
  TypeOf <- [c1 |-> "wb", c2 |-> "tv", c3 |-> "wb"],
  EncodersOf <- [c1 |-> {"e1"}, c2 |-> {"e2"}, c3 |-> {"e1", "e3"}],
  CrtcsOf <- [e \in {"e1", "e2", "e3"} |-> {"k1", "k2"}],
  Removable <- {"c2"}, Nil <- "nil"

L == INSTANCE BufferLayout
F == INSTANCE LayerFrames WITH doubt <- unsure

drmVars == <<pool, driver, connected, connBusy, encBusy, crtcBusy, step, token, seen, lost>>
frameVars == <<content, noted, hwc, refresh, client, panel, outcome, unsure, edits, refreshes, faults>>
vars == <<tmVars, drmVars, bmVars, frameVars, query, dpVars, part>>

Symmetric == Permutations(Displays) \cup Permutations(Values)

\* What the two parts of the planes leave to each other.
PartOfPlanes ==
  /\ part = "planes" => \A p \in Planes :
       /\ fp16[p] = None /\ hw[p].fp16 = None
       /\ \A d \in Displays : asked[d][p] # None => asked[d][p].conf # None
  /\ part = "fp16" => \A d \in Displays :
       /\ pc[d] # "idle" => \A e \in Displays \ {d} : pc[e] = "idle"
       /\ \A p \in Planes : asked[d][p] # None => asked[d][p].op = "keep"

ToneMapperOnly(Step) ==
  part = "tone" /\ Step /\ UNCHANGED <<drmVars, bmVars, frameVars, query, dpVars, part>>
ResourcesOnly(Step) ==
  part = "drm" /\ Step /\ UNCHANGED <<tmVars, bmVars, frameVars, query, dpVars, part>>
BuffersOnly(Step) ==
  part = "buffers" /\ Step /\ UNCHANGED <<tmVars, drmVars, frameVars, query, dpVars, part>>
LayoutOnly(Step) ==
  part = "layout" /\ Step /\ UNCHANGED <<tmVars, drmVars, bmVars, frameVars, dpVars, part>>
PlanesOnly(Step) ==
  /\ part \in {"planes", "fp16"} /\ Step
  /\ UNCHANGED <<tmVars, drmVars, bmVars, frameVars, query, part>>
  /\ PartOfPlanes'
FramesOnly(Step) ==
  part = "frames" /\ Step /\ UNCHANGED <<tmVars, drmVars, bmVars, query, dpVars, part>>

Init ==
  /\ TmInit /\ R!RgInit /\ BmInit /\ L!BlInit /\ F!LfInit /\ DpInit
  /\ part \in {"tone", "drm", "buffers", "layout", "frames", "planes", "fp16"}
  /\ part = "planes" \/ \A p \in Planes : hw[p].lut = "off"   \* one start for the others

Next ==
  \/ ToneMapperOnly(TmNext) \/ ResourcesOnly(R!RgNext)
  \/ BuffersOnly(BmNext) \/ LayoutOnly(L!BlNext) \/ FramesOnly(F!LfNext) \/ PlanesOnly(DpNext)

Spec == Init /\ [][Next]_vars

\* Every variable of the components has its type.
TypeOK == TmTypeOK /\ R!RgTypeOK /\ BmTypeOK /\ F!LfTypeOK /\ DpTypeOK

\* No index or plane leaves its buffer: the framebuffer session of the tone mapper is in
\* the pool, and the planes of a graphics buffer lie inside it, beside each other.
WithinBounds == FbIndexInRange /\ (part = "layout" => L!PlanesFit /\ L!PlanesDisjoint)

\* What serves one user at a time does: a tone mapper session one layer of a frame, a
\* connector or a CRTC one display.
OneUserEach == OneLayerPerBlit /\ R!OneDisplayPerPipe

\* Registrations of displays that failed or were undone leave nothing reserved, and what
\* is reserved is what the driver still has (see DrmResources).
NothingLeaks == R!NothingLeaks /\ R!ReservedIsInPool

\* Writers and readers of a buffer keep apart: the CPU's cache is in step with memory
\* between users, and a blit waits for the display to let its target go.
UsersKeepApart == CacheIsCoherent /\ BlitWaitsForDisplay

\* A frame that is skipped takes no buffer and no refresh request with it (see
\* LayerFrames).
SkipLosesNothing == F!SkipLosesNoBuffer /\ F!RefreshIsNotSpent
=============================================================================
