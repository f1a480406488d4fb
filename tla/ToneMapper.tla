----------------------------- MODULE ToneMapper -----------------------------
(***************************************************************************)
(* HWCToneMapper: the pool of GPU tone mapping sessions of a display.       *)
(*                                                                         *)
(* A frame is a stack of layers, the framebuffer target last.  Before the   *)
(* commit HandleToneMap gives every layer to be tone mapped a session and   *)
(* blits it into the session's next buffer; after a commit that succeeded   *)
(* PostCommit stores the release fences and closes the sessions no layer    *)
(* used.  A commit that failed has no PostCommit.  All of it runs under the *)
(* display's lock; each step is one turn of the loop over the layers or over *)
(* the sessions.  A fence is the number of the frame whose commit returned  *)
(* it; a buffer's owner is the kind of layer it was blitted for.            *)
(***************************************************************************)
EXTENDS Integers, Sequences, SequencesExt

CONSTANTS
  Configs,     \* the tone map configurations (type, color space, size, ...)
  MaxLayers,   \* bound on the layers of a frame beside the framebuffer target
  MaxFrames,   \* bound on the frames
  MaxSessions  \* bound on the sessions

kNumIntermediateBuffers == 2
OwnBuffers == 0..kNumIntermediateBuffers - 1
NoConfig == 0  \* of a layer that is not tone mapped

VARIABLES
  sessions,    \* tone_map_sessions_
  fbSession,   \* fb_session_index_, -1 when there is none
  stack,       \* the layers of the frame
  tmFrame,     \* the number of the frame
  tmAt,        \* how far the frame is: "rest", "mapping", "mapped", "skipped", "closing" or "thrown"
  tmNext,      \* the index of the loop that runs: a layer, then a session
  blits        \* what the frame blitted: layer, session, buffer and fences

tmVars == <<sessions, fbSession, stack, tmFrame, tmAt, tmNext, blits>>

Layer == [comp : {"SDE", "GPU"}, config : Configs \cup {NoConfig}]
Target == [comp : {"GPUTarget"}, config : Configs \cup {NoConfig}]
\* A layer that the GPU composes into the framebuffer is not tone mapped by itself.
Stacks == {Append(s, t) : s \in {q \in UNION {[1..n -> Layer] : n \in 0..MaxLayers} :
                                   \A i \in DOMAIN q : q[i].comp = "GPU" => q[i].config = NoConfig},
                          t \in Target}
Session == [config : Configs, current : OwnBuffers, acquired : BOOLEAN,
            layer : 0..MaxLayers + 1,               \* layer_index_, 0 for none
            owner : [OwnBuffers -> {"none", "SDE", "GPUTarget"}],
            release : [OwnBuffers -> 0..MaxFrames],    \* release_fence_
            shown : [OwnBuffers -> 0..MaxFrames]]      \* the last frame that showed it

TmTypeOK ==
  /\ sessions \in Seq(Session) /\ Len(sessions) <= MaxSessions + MaxLayers
  /\ fbSession \in -1..MaxSessions + MaxLayers
  /\ stack = <<>> \/ stack \in Stacks
  /\ tmFrame \in 0..MaxFrames
  /\ tmAt \in {"rest", "mapping", "mapped", "skipped", "closing", "thrown"}
  /\ tmNext \in 0..MaxSessions + MaxLayers + 1
  /\ \A b \in blits : b.layer \in DOMAIN stack /\ b.buffer \in OwnBuffers

TmInit ==
  /\ sessions = <<>> /\ fbSession = -1
  /\ stack = <<>> /\ tmFrame = 0 /\ tmAt = "rest" /\ tmNext = 0 /\ blits = {}

-----------------------------------------------------------------------------
\* Terminate resets the framebuffer's session only when it closes one.
Terminate(fb) ==
  /\ sessions' = <<>>
  /\ fbSession' = IF sessions = <<>> THEN fb ELSE -1

NeedsToneMap(layers) == \E i \in DOMAIN layers : layers[i].config # NoConfig

\* CommitLayerStack up to the loop over the layers.
HandleToneMap(layers) ==
  /\ tmAt = "rest" /\ tmFrame < MaxFrames /\ Len(sessions) < MaxSessions
  /\ stack' = layers /\ blits' = {}
  /\ tmFrame' = tmFrame + 1
  /\ IF NeedsToneMap(layers)
     THEN tmAt' = "mapping" /\ tmNext' = 1 /\ UNCHANGED <<sessions, fbSession>>
     ELSE tmAt' = "mapped" /\ tmNext' = 0 /\ Terminate(fbSession)

\* A frame that is flushed or whose commit is skipped comes to PostCommit at once.
SkipCommit(layers) ==
  /\ tmAt = "rest" /\ tmFrame < MaxFrames
  /\ stack' = layers /\ blits' = {}
  /\ tmFrame' = tmFrame + 1
  /\ tmAt' = "skipped"
  /\ UNCHANGED <<sessions, fbSession, tmNext>>

-----------------------------------------------------------------------------
(* The loop of HandleToneMap. *)

ThisLayer == stack[tmNext]
IsTarget == ThisLayer.comp = "GPUTarget"

Mapping == tmAt = "mapping" /\ UNCHANGED <<stack, tmFrame>>
MappingEnds == tmAt' = "mapped" /\ tmNext' = 0
NextLayer ==
  IF tmNext = Len(stack) THEN MappingEnds ELSE tmAt' = "mapping" /\ tmNext' = tmNext + 1

\* Broken variant: a session that is in use is taken as well.
UsableAll(config) == {i \in DOMAIN sessions : sessions[i].config = config}

Usable(config) == {i \in DOMAIN sessions : ~sessions[i].acquired /\ sessions[i].config = config}

\* A reused session turns to its next buffer.
Reused(session) ==
  [session EXCEPT !.acquired = TRUE, !.current = (@ + 1) % kNumIntermediateBuffers]

NewSession(config) ==
  [config |-> config, current |-> 0, acquired |-> TRUE, layer |-> 0,
   owner |-> [b \in OwnBuffers |-> "none"], release |-> [b \in OwnBuffers |-> 0],
   shown |-> [b \in OwnBuffers |-> 0]]

First(set) == CHOOSE i \in set : \A j \in set : i <= j

\* The place of the session the layer gets, and the session.
Place(config) == IF Usable(config) # {} THEN First(Usable(config)) ELSE Len(sessions) + 1
Acquired(config) ==
  IF Usable(config) # {} THEN Reused(sessions[Place(config)]) ELSE NewSession(config)

\* The session is given to the layer, and its buffer to a layer of that kind.
Given(session) == [session EXCEPT !.layer = tmNext, !.owner[session.current] = ThisLayer.comp]

\* Session s is put at place i of the pool, which may be its end.
PutAt(i, s) == IF i = Len(sessions) + 1 THEN Append(sessions, s) ELSE [sessions EXCEPT ![i] = s]

Blit(i, s, cached) ==
  [layer |-> tmNext, session |-> i, buffer |-> s.current, waits |-> s.release[s.current],
   shown |-> s.shown[s.current], owner |-> s.owner[s.current], cached |-> cached]

\* The framebuffer was not drawn in this frame and its session's buffer still holds it.
CachedTarget ==
  /\ IsTarget
  /\ \A j \in 1..tmNext : stack[j].comp # "GPU"
  /\ sessions # <<>> /\ fbSession >= 0

PassLayer ==
  /\ Mapping /\ ThisLayer.config = NoConfig
  /\ NextLayer
  /\ UNCHANGED <<sessions, fbSession, blits>>

\* ToneMap: the blit waits for the release fence of the buffer it writes.
ToneMapLayer ==
  /\ Mapping /\ ThisLayer.config # NoConfig /\ ~CachedTarget
  /\ LET i == Place(ThisLayer.config)
         s == Given(Acquired(ThisLayer.config))
     IN /\ sessions' = PutAt(i, s)
        /\ fbSession' = IF IsTarget THEN i - 1 ELSE fbSession
        /\ blits' = blits \cup {Blit(i, s, FALSE)}
  /\ NextLayer

\* AcquireToneMapSession fails: fb_session_index_ takes the index 0 all the same.
ToneMapFails ==
  /\ Mapping /\ ThisLayer.config # NoConfig /\ ~CachedTarget
  /\ Terminate(IF IsTarget THEN 0 ELSE fbSession)
  /\ MappingEnds
  /\ UNCHANGED blits

KeepTarget ==
  /\ Mapping /\ ThisLayer.config # NoConfig /\ CachedTarget
  /\ LET i == fbSession + 1
         s == [sessions[i] EXCEPT !.layer = tmNext, !.acquired = TRUE]
     IN sessions' = [sessions EXCEPT ![i] = s] /\ blits' = blits \cup {Blit(i, s, TRUE)}
  /\ MappingEnds
  /\ UNCHANGED fbSession

-----------------------------------------------------------------------------
(* The commit, PostCommit and power off.                                    *)

CommitFails ==
  /\ tmAt = "mapped"
  /\ tmAt' = "rest"
  /\ UNCHANGED <<sessions, fbSession, stack, tmFrame, tmNext, blits>>

\* The buffers the frame shows.
Shown(session, index) ==
  [session EXCEPT !.shown = [b \in OwnBuffers |->
     IF \E k \in blits : k.session = index /\ k.buffer = b THEN tmFrame ELSE @[b]]]

\* The commit succeeds.
Commit ==
  /\ tmAt \in {"mapped", "skipped"}
  /\ sessions' = [i \in DOMAIN sessions |-> Shown(sessions[i], i)]
  /\ tmAt' = "closing" /\ tmNext' = 1
  /\ UNCHANGED <<fbSession, stack, tmFrame, blits>>

(* The loop of PostCommit. *)

Closing == tmAt = "closing" /\ UNCHANGED <<stack, tmFrame, blits>>
ThisSession == sessions[tmNext]
MoreSessions == tmNext \in DOMAIN sessions

\* Broken variant: the fence of the frame is dropped.
ReleasedOnly(session) == [session EXCEPT !.acquired = FALSE]

\* The release fence of the layer the session served is stored.
Released(session) ==
  [session EXCEPT !.acquired = FALSE, !.release[session.current] = tmFrame]

ReleaseSession ==
  /\ Closing /\ MoreSessions /\ ThisSession.acquired
  /\ ThisSession.layer \in DOMAIN stack
  /\ sessions' = [sessions EXCEPT ![tmNext] = Released(@)]
  /\ tmNext' = tmNext + 1
  /\ UNCHANGED <<fbSession, tmAt>>

\* layers.at() throws for a layer the stack does not have.
ReleaseThrows ==
  /\ Closing /\ MoreSessions /\ ThisSession.acquired
  /\ ThisSession.layer \notin DOMAIN stack
  /\ tmAt' = "thrown" /\ tmNext' = 0
  /\ UNCHANGED <<sessions, fbSession>>

\* Broken variant: the index does not follow a session that moves.
FbAfterOwn(deleted) == IF deleted = fbSession THEN -1 ELSE fbSession

FbAfter(deleted) ==
  IF deleted = fbSession THEN -1 ELSE IF deleted < fbSession THEN fbSession - 1 ELSE fbSession

CloseSession ==
  /\ Closing /\ MoreSessions /\ ~ThisSession.acquired
  /\ sessions' = RemoveAt(sessions, tmNext)
  /\ fbSession' = FbAfter(tmNext - 1)
  /\ UNCHANGED <<tmAt, tmNext>>

PostCommitEnds ==
  /\ Closing /\ ~MoreSessions
  /\ tmAt' = "rest" /\ tmNext' = 0
  /\ UNCHANGED <<sessions, fbSession>>

\* SetPowerMode(OFF).
PowerOff ==
  /\ tmAt = "rest" /\ sessions # <<>>
  /\ Terminate(fbSession)
  /\ blits' = {}
  /\ UNCHANGED <<stack, tmFrame, tmAt, tmNext>>

TmNext ==
  \/ \E layers \in Stacks : HandleToneMap(layers) \/ SkipCommit(layers)
  \/ PassLayer \/ ToneMapLayer \/ ToneMapFails \/ KeepTarget
  \/ CommitFails \/ Commit
  \/ ReleaseSession \/ ReleaseThrows \/ CloseSession \/ PostCommitEnds
  \/ PowerOff

TmSpec == TmInit /\ [][TmNext]_tmVars

-----------------------------------------------------------------------------
(* Properties. *)

\* fb_session_index_ is kept in step with the vector it points into through closed
\* sessions, failures and power off: at() never throws for it
\* (hwc_tonemapper.cpp:192-194, 256-265, 270-277).
FbIndexInRange == sessions # <<>> => fbSession < Len(sessions)

\* No two layers of a frame are blitted into the same session, also after frames
\* whose commit failed left their sessions acquired (hwc_tonemapper.cpp:340-349).
OneLayerPerBlit ==
  \A b, c \in blits : b.layer < c.layer /\ ~c.cached => b.session # c.session

\* A buffer is written only behind the release fence of the last frame that showed it
\* (hwc_tonemapper.cpp:143-145, 228-236, 252).
BlitWaitsForDisplay ==
  \A b \in blits : ~b.cached => b.waits >= b.shown

\* "Close the fd returned by GPU ToneMapper and set release fence"
\* (hwc_tonemapper.cpp:250): the layer a session serves is a layer of the stack.
NeverThrows == tmAt # "thrown"

\* "Try to use the existing tone-mapped frame buffer" (hwc_tonemapper.cpp:190): the
\* framebuffer target is given a buffer that holds a framebuffer.
TargetGetsFramebuffer ==
  \A b \in blits : stack[b.layer].comp = "GPUTarget" => b.owner = "GPUTarget"
=============================================================================
