---------------------------- MODULE LayerFrames ----------------------------
(***************************************************************************)
(* The layers of a built-in display and the frames a client draws of them,   *)
(* with ENABLE_OPTIMIZE_REFRESH on: a frame that repeats the last one is not *)
(* committed.  The display is not the source of vsync and has no writeback. *)
(*                                                                         *)
(* A setter notes its change in one of three places: buffer_flipped_,       *)
(* geometry_changes_, or update_mask of the layer, each of which stands     *)
(* until another call clears it.  Calls of the client hold locker_ of the   *)
(* display, each is one step; the callback thread and other threads that    *)
(* ask for a refresh interleave.  The client draws a frame after it changed *)
(* something or was asked for one; it sets the buffer of a layer once a      *)
(* frame, and nothing between the validation of a frame and its present.    *)
(***************************************************************************)
EXTENDS Naturals

CONSTANTS Layers, Buffers,
          MaxEdits, MaxRefreshes, MaxFaults   \* bounds on what the environment does

VARIABLES
  content,   \* what the client set of each layer it created: buffer, frame and color
  noted,     \* where the changes of each layer are noted
  hwc,       \* the display: layer_stack_invalid_, flush_, flush_on_error_, pending_refresh_
  refresh,   \* HWCCallbacks: queued tasks, the thread's step and the bit of pending_refresh_
  client,    \* its phase, whether it was asked for a frame, whether this frame answers that,
             \* and the layers whose buffer it set for the next frame
  panel,     \* the content on the panel
  outcome,   \* what became of the last frame
  doubt,     \* whether a call failed since the last commit
  edits, refreshes, faults

lfVars == <<content, noted, hwc, refresh, client, panel, outcome, doubt, edits, refreshes, faults>>

NoLayer == [buffer |-> "none", frame |-> 0, color |-> 0]
Nowhere == [flipped |-> FALSE, geometry |-> FALSE, mask |-> FALSE]
Created == DOMAIN content
Outcomes == {"none", "committed", "skipped", "empty", "flushed", "failed"}

LfTypeOK ==
  /\ Created \subseteq Layers /\ DOMAIN panel \subseteq Layers
  /\ \A l \in Created : content[l] \in [buffer : Buffers \cup {"none"}, frame : 0..1, color : 0..1]
  /\ \A l \in DOMAIN panel :
       panel[l] \in [buffer : Buffers \cup {"none"}, frame : 0..1, color : 0..1]
  /\ noted \in [Created -> [flipped : BOOLEAN, geometry : BOOLEAN, mask : BOOLEAN]]
  /\ hwc \in [invalid : BOOLEAN, flush : BOOLEAN, flush_on_error : BOOLEAN, pending_refresh : BOOLEAN]
  /\ refresh \in [queued : 0..(MaxRefreshes + MaxFaults), telling : BOOLEAN, needed : BOOLEAN]
  /\ client \in [phase : {"idle", "validated"}, asked : BOOLEAN, answering : BOOLEAN,
                set : SUBSET Layers]
  /\ outcome \in Outcomes /\ doubt \in BOOLEAN
  /\ edits \in 0..MaxEdits /\ refreshes \in 0..MaxRefreshes /\ faults \in 0..MaxFaults

LfInit ==
  /\ content = <<>> /\ noted = <<>> /\ panel = <<>>
  /\ hwc = [invalid |-> TRUE, flush |-> FALSE, flush_on_error |-> FALSE, pending_refresh |-> TRUE]
  /\ refresh = [queued |-> 0, telling |-> FALSE, needed |-> FALSE]
  /\ client = [phase |-> "idle", asked |-> FALSE, answering |-> FALSE, set |-> {}]
  /\ outcome = "none" /\ doubt = FALSE /\ edits = 0 /\ refreshes = 0 /\ faults = 0

-----------------------------------------------------------------------------
(* The setters.                                                            *)

Edit ==
  /\ client.phase = "idle" /\ edits < MaxEdits /\ edits' = edits + 1
  /\ UNCHANGED <<refresh, panel, outcome, doubt, refreshes, faults>>

CreateLayer(l) ==
  /\ Edit /\ l \notin Created
  /\ content' = [k \in Created \cup {l} |-> IF k = l THEN NoLayer ELSE content[k]]
  /\ noted' = [k \in Created \cup {l} |-> IF k = l THEN Nowhere ELSE noted[k]]
  /\ hwc' = [hwc EXCEPT !.invalid = TRUE]
  /\ UNCHANGED client

DestroyLayer(l) ==
  /\ Edit /\ l \in Created
  /\ content' = [k \in Created \ {l} |-> content[k]]
  /\ noted' = [k \in Created \ {l} |-> noted[k]]
  /\ hwc' = [hwc EXCEPT !.invalid = TRUE]
  /\ UNCHANGED client

\* SetLayerBuffer: the same buffer again takes a flip back.
SetLayerBuffer(l, b) ==
  /\ Edit /\ l \in Created \ client.set
  /\ client' = [client EXCEPT !.set = @ \cup {l}]
  /\ content' = [content EXCEPT ![l].buffer = b]
  /\ noted' = [noted EXCEPT ![l].flipped = content[l].buffer # b]
  /\ UNCHANGED hwc

\* SetLayerDisplayFrame stands for the setters that note a geometry change.
SetLayerDisplayFrame(l, r) ==
  /\ Edit /\ l \in Created /\ content[l].frame # r
  /\ content' = [content EXCEPT ![l].frame = r]
  /\ noted' = [noted EXCEPT ![l].geometry = TRUE]
  /\ UNCHANGED <<hwc, client>>

\* SetLayerColor stands for those that set a bit of update_mask only.
SetLayerColor(l, c) ==
  /\ Edit /\ l \in Created /\ content[l].color # c
  /\ content' = [content EXCEPT ![l].color = c]
  /\ noted' = [noted EXCEPT ![l].mask = TRUE]
  /\ UNCHANGED <<hwc, client>>

-----------------------------------------------------------------------------
(* Refresh requests: another thread queues one, the callback thread tells   *)
(* the client and sets the display's bit after that (PerformHWCCallback).   *)

Refresh ==
  /\ refreshes < MaxRefreshes /\ refreshes' = refreshes + 1
  /\ refresh' = [refresh EXCEPT !.queued = @ + 1]
  /\ UNCHANGED <<content, noted, hwc, client, panel, outcome, doubt, edits, faults>>

CallbackTells ==
  /\ refresh.queued > 0 /\ ~refresh.telling
  /\ refresh' = [refresh EXCEPT !.queued = @ - 1, !.telling = TRUE]
  /\ client' = [client EXCEPT !.asked = TRUE]
  /\ UNCHANGED <<content, noted, hwc, panel, outcome, doubt, edits, refreshes, faults>>

CallbackSetsBit ==
  /\ refresh.telling
  /\ refresh' = [refresh EXCEPT !.telling = FALSE, !.needed = TRUE]
  /\ UNCHANGED <<content, noted, hwc, client, panel, outcome, doubt, edits, refreshes, faults>>

-----------------------------------------------------------------------------
(* The frames.                                                             *)

\* Broken variant: the bit of the callbacks is reset and the display is not told.
RefreshToFrameForgotten(h, r) == <<h, [r EXCEPT !.needed = FALSE]>>

\* HWCSession::PostCommitLocked hands the refresh bit to the display, for its next frame.
RefreshToFrame(h, r) ==
  <<[h EXCEPT !.pending_refresh = @ \/ r.needed], [r EXCEPT !.needed = FALSE]>>

PostCommitLocked(h, r) ==
  /\ hwc' = RefreshToFrame(h, r)[1]
  /\ refresh' = RefreshToFrame(h, r)[2]

\* Broken variant: the validation of a frame clears the geometry changes too.
ResetValidationOfAll(n) == [l \in Created |-> Nowhere]

\* ResetValidation in PostPrepareLayerStack, and ResetGeometryChanges in PostCommitLayerStack.
ResetValidation(n) == [l \in Created |-> [n[l] EXCEPT !.mask = FALSE]]
ResetGeometryChanges(n) == [l \in Created |-> [n[l] EXCEPT !.geometry = FALSE]]

\* The client begins a frame: the first one, one it changed something for, or one it was asked for.
Draws == client.phase = "idle" /\ (edits > 0 \/ client.asked)
Drawn(phase) ==
  client' = [phase |-> phase, asked |-> FALSE, answering |-> client.asked \/ client.answering, set |-> {}]
Told == client' = [client EXCEPT !.phase = "idle", !.answering = FALSE]

\* CommitOrPrepare when there is no layer: PreValidateDisplay exits the validation.
ValidateEmpty ==
  /\ Draws /\ Created = {}
  /\ PostCommitLocked([hwc EXCEPT !.flush = FALSE], refresh)
  /\ Drawn("validated")
  /\ UNCHANGED <<content, noted, panel, outcome, doubt, edits, refreshes, faults>>

\* CommitOrPrepare that leaves the commit to the present (kErrorNeedsCommit).
Validate ==
  /\ Draws /\ Created # {}
  /\ noted' = ResetValidation(noted)
  /\ hwc' = [hwc EXCEPT !.invalid = FALSE]
  /\ Drawn("validated")
  /\ UNCHANGED <<content, refresh, panel, outcome, doubt, edits, refreshes, faults>>

\* A unified CommitOrPrepare: SDM handed the frame to its commit thread.
ValidateAndCommit ==
  /\ Draws /\ Created # {}
  /\ noted' = ResetValidation(ResetGeometryChanges(noted))
  /\ panel' = IF hwc.flush /\ hwc.flush_on_error THEN <<>> ELSE content
  /\ outcome' = IF hwc.flush /\ hwc.flush_on_error THEN "flushed" ELSE "committed"
  /\ doubt' = (doubt /\ hwc.flush)
  /\ PostCommitLocked([hwc EXCEPT !.invalid = FALSE, !.flush = FALSE], refresh)
  /\ client' = [client EXCEPT !.asked = FALSE, !.answering = FALSE, !.set = {}]
  /\ UNCHANGED <<content, edits, refreshes, faults>>

\* HandlePrepareError asks for another frame; the session goes on as after a present.
ValidateFails ==
  /\ Draws /\ Created # {} /\ faults < MaxFaults /\ faults' = faults + 1
  /\ doubt' = TRUE
  /\ PostCommitLocked(hwc, [refresh EXCEPT !.queued = @ + 1])
  /\ Drawn("idle")
  /\ UNCHANGED <<content, noted, panel, outcome, edits, refreshes>>

CanSkipCommit ==
  ~hwc.invalid /\ ~hwc.pending_refresh /\ \A l \in Created : noted[l] = Nowhere

\* CanSkipCommit takes back the flips and the refresh, whatever it answers, unless it exits early.
Latched == IF hwc.invalid THEN noted ELSE [l \in Created |-> [noted[l] EXCEPT !.flipped = FALSE]]
Honoured == IF hwc.invalid THEN hwc ELSE [hwc EXCEPT !.pending_refresh = FALSE]

\* CommitLayerStack of the display: what becomes of the frame, in the order of its returns.
Outcome(o) ==
  o = IF hwc.flush THEN (IF hwc.flush_on_error THEN "flushed" ELSE "empty")
      ELSE IF Created = {} THEN "empty"
      ELSE IF CanSkipCommit THEN "skipped" ELSE "committed"

Present ==
  /\ client.phase = "validated"
  /\ Outcome(outcome')
  /\ panel' = CASE outcome' = "committed" -> content
                [] outcome' = "flushed" -> <<>>
                [] OTHER -> panel
  /\ doubt' = (doubt /\ outcome' # "committed")
  /\ noted' = ResetGeometryChanges(Latched)
  /\ PostCommitLocked([Honoured EXCEPT !.flush = FALSE,
                                       !.flush_on_error = @ \/ outcome' = "committed"], refresh)
  /\ Told
  /\ UNCHANGED <<content, edits, refreshes, faults>>

\* The commit fails: the next frame is to flush, and nothing else of the present is done.
PresentFails ==
  /\ client.phase = "validated" /\ Outcome("committed")
  /\ faults < MaxFaults /\ faults' = faults + 1
  /\ outcome' = "failed" /\ doubt' = TRUE
  /\ noted' = Latched
  /\ hwc' = [Honoured EXCEPT !.flush = TRUE]
  /\ Told
  /\ UNCHANGED <<content, refresh, panel, edits, refreshes>>

LfNext ==
  \/ \E l \in Layers : CreateLayer(l) \/ DestroyLayer(l)
  \/ \E l \in Layers, b \in Buffers : SetLayerBuffer(l, b)
  \/ \E l \in Layers, v \in 0..1 : SetLayerDisplayFrame(l, v) \/ SetLayerColor(l, v)
  \/ Refresh \/ CallbackTells \/ CallbackSetsBit
  \/ ValidateEmpty \/ Validate \/ ValidateAndCommit \/ ValidateFails \/ Present \/ PresentFails

LfSpec == LfInit /\ [][LfNext]_lfVars

-----------------------------------------------------------------------------
Visible(c) == [l \in {k \in DOMAIN c : c[k].buffer # "none"} |-> c[l]]
Presents == client.phase = "validated" /\ client'.phase = "idle"

(* Action property: a frame that is skipped leaves no buffer and no geometry *)
(* of a layer unshown, unless a validation or a commit failed since the last *)
(* commit.  Each note is made by one call and cleared by two or three.       *)
SkipLosesNoBuffer ==
  [][Presents /\ outcome' = "skipped" /\ ~doubt =>
       \A l \in Created : content[l].buffer # "none" =>
         /\ l \in DOMAIN panel
         /\ panel[l].buffer = content[l].buffer /\ panel[l].frame = content[l].frame]_lfVars

(* Action property: a refresh that the callbacks noted is used up by a frame *)
(* that is not skipped (PostCommitLocked: "Check if hwc's refresh trigger is *)
(* getting exercised.").                                                     *)
RefreshIsNotSpent ==
  [][(refresh.needed \/ hwc.pending_refresh) /\ ~(refresh'.needed \/ hwc'.pending_refresh)
       => Presents /\ outcome' # "skipped"]_lfVars

(* What the comment on CanSkipCommit says: a frame is rejected only when no  *)
(* attribute of the layer stack changed, no buffer was latched and no        *)
(* refresh was asked for; here, of the layers that have a buffer.            *)
SkipsOnlyRepeats ==
  [][Presents /\ outcome' = "skipped" /\ ~doubt
       => Visible(panel) = Visible(content) /\ ~client.answering]_lfVars
=============================================================================
