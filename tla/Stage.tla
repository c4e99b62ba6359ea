-------------------------------- MODULE Stage --------------------------------
(***************************************************************************)
(* StageState (lsserver/src/state.rs) with the animators it drives         *)
(* (lsserver/src/animator) and the Renderer it bakes fixtures with         *)
(* (lsserver/src/renderer.rs).                                             *)
(*                                                                         *)
(* StageState sits behind one RwLock and every method that changes it runs *)
(* under the write lock from entry to return, so each method is one        *)
(* action.  Two threads of control call it: the network thread calls       *)
(* advance_tick, and the API handlers call everything else.                *)
(*                                                                         *)
(* Intensities are members of Level.  A DMX universe is a function from    *)
(* the base address of a fixture to the level stored there.                *)
(***************************************************************************)
EXTENDS FrameTiming, Sequences

CONSTANTS
  NumArcs, LightsPerArc,   \* ServerConfig
  Level, Off, Full,        \* 3-channel intensities, (0,0,0) and (MAX,MAX,MAX)
  Keep,                    \* a colour the request leaves out (None)
  DemoPattern,             \* fixture states DemoAnimator may write
  Rate,                    \* capture rates clients ask for
  Library,                 \* playback sequences clients may have stored
  ColourRequest,           \* UpdateColourRequests clients send
  Batch                    \* batches of fixture updates clients send

VARIABLES
  runtime,         \* RuntimeMode: the mode, its animator and capture session
  renderer,        \* Renderer: the level of every fixture
  current_frame,   \* LightStageFrame: the baked DMX universes
  tick_result,     \* what the last advance_tick returned
  emitted          \* StageEvents the last operation sent on tx, in order

stageVars == <<runtime, renderer, current_frame, tick_result, emitted>>
-----------------------------------------------------------------------------
(* Fixtures, frames and requests *)

Kind == {"rgb", "white"}
Arc == 0 .. NumArcs - 1
Light == 0 .. LightsPerArc - 1
RendererType == [Kind -> [Arc -> [Light -> Level]]]

\* main: every fixture takes six channels of its arc's universe.
BaseAddress(l) == l * 6 + 1
Address == {BaseAddress(l) : l \in Light}
Frame == [Kind -> [Arc -> [Address -> Level]]]

\* A StageFrame of a stored sequence: nested lists of any length.
StageFrame == [rgb : Seq(Seq(Level)), white : Seq(Seq(Level))]
PlaybackSequence == [capture_hz : Rate, frames : Seq(StageFrame)]

Colour == Level \cup {Keep}
FixtureUpdate == [arc : Arc, light : Light, colour : ColourRequest]

ASSUME StageAssumption ==
  /\ NumArcs \in Nat \ {0}
  /\ LightsPerArc \in Nat \ {0}
  /\ Off \in Level /\ Full \in Level /\ Keep \notin Level
  /\ DemoPattern \subseteq RendererType
  /\ DemoPattern # {}
  /\ Rate \subseteq Int \cup {NonFinite}
  /\ Library \subseteq PlaybackSequence
  /\ ColourRequest \subseteq [Kind -> Colour]
  /\ Batch \subseteq Seq(FixtureUpdate)
-----------------------------------------------------------------------------
(* RuntimeMode and the events *)

Session(total, hz) ==
  [current_frame_idx |-> 0, total_frames |-> total, capture_hz |-> hz]

DemoRuntime == [mode |-> "Demo"]
ManualRuntime(requested) == [mode |-> "Manual", capture_requested |-> requested]
OlatRuntime(hz) ==
  [mode |-> "OLAT", current_arc |-> 0, current_light |-> 0, done |-> FALSE,
   session |-> Session(NumArcs * LightsPerArc, hz)]
PlaybackRuntime(seq) ==
  [mode |-> "Playback", sequence |-> seq.frames, seq_index |-> 0,
   session |-> Session(Len(seq.frames), seq.capture_hz)]

CaptureMode == {"Playback", "OLAT"}
InCapture == runtime.mode \in CaptureMode

\* RuntimeMode::capture_hz
CaptureHz(r) ==
  IF r.mode \in CaptureMode THEN r.session.capture_hz ELSE NoRate

ModeChanged(m) == [type |-> "ModeChanged", mode |-> m]
CaptureFinished == [type |-> "CaptureFinished"]

\* StageState::set_runtime, after the events in sent.
SetRuntime(new, sent) ==
  /\ runtime' = new
  /\ emitted' = IF new.mode # runtime.mode
                  THEN Append(sent, ModeChanged(new.mode)) ELSE sent

\* Renderer::update: each universe holds every fixture at its base address.
Bake(r) ==
  [k \in Kind |-> [a \in Arc |-> [d \in Address |-> r[k][a][(d - 1) \div 6]]]]

\* StageState::commit_and_render of fixture state r.
Render(r) ==
  /\ renderer' = r
  /\ current_frame' = Bake(r)

Uniform(v) == [k \in Kind |-> [a \in Arc |-> [l \in Light |-> v]]]
Dark == Uniform(Off)
-----------------------------------------------------------------------------
(* advance_tick, called by the network thread *)

\* Manual mode renders nothing; a queued trigger is taken.
TickManual ==
  /\ runtime.mode = "Manual"
  /\ tick_result' = IF runtime.capture_requested THEN "TriggerCapture" ELSE "Continue"
  /\ runtime' = ManualRuntime(FALSE)
  /\ emitted' = <<>>
  /\ UNCHANGED <<renderer, current_frame>>

\* DemoAnimator never ends; what it writes depends on the wall clock.
TickDemo ==
  /\ runtime.mode = "Demo"
  /\ \E p \in DemoPattern : Render(p)
  /\ tick_result' = "Continue"
  /\ emitted' = <<>>
  /\ UNCHANGED runtime

\* A tick that leaves the light of the previous frame on.
OneLightNotCleared(arc, light) ==
  [renderer EXCEPT !["white"][arc][light] = Full]

\* OlatAnimator: the one light it shows next.
OneLight(arc, light) ==
  [Dark EXCEPT !["white"][arc][light] = Full]

\* A step to the next light that leaves the arc past the end when it is done.
AdvanceOlatNoReset(r) ==
  LET lastLight == r.current_light + 1 >= LightsPerArc
      arc == IF lastLight THEN r.current_arc + 1 ELSE r.current_arc
  IN  [r EXCEPT !.current_light = IF lastLight THEN 0 ELSE r.current_light + 1,
                !.current_arc = arc,
                !.done = arc >= NumArcs,
                !.session.current_frame_idx = @ + 1]

\* A step that is done when it reaches the last arc.
AdvanceOlatEarly(r) ==
  LET lastLight == r.current_light + 1 >= LightsPerArc
      arc == IF lastLight THEN r.current_arc + 1 ELSE r.current_arc
  IN  [r EXCEPT !.current_light = IF lastLight THEN 0 ELSE r.current_light + 1,
                !.current_arc = IF arc >= NumArcs THEN 0 ELSE arc,
                !.done = arc + 1 >= NumArcs,
                !.session.current_frame_idx = @ + 1]

\* OlatAnimator::tick's step to the next light, and the session's frame count.
AdvanceOlat(r) ==
  LET lastLight == r.current_light + 1 >= LightsPerArc
      arc == IF lastLight THEN r.current_arc + 1 ELSE r.current_arc
      lastArc == arc >= NumArcs
  IN  [r EXCEPT !.current_light = IF lastLight THEN 0 ELSE r.current_light + 1,
                !.current_arc = IF lastArc THEN 0 ELSE arc,
                !.done = lastArc,
                !.session.current_frame_idx = @ + 1]

\* A tick that misses the last light of every arc.
OverlayShort(r, f) ==
  [k \in Kind |-> [a \in Arc |-> [l \in Light |->
     IF a < Len(f[k]) /\ l + 1 < Len(f[k][a + 1])
       THEN f[k][a + 1][l + 1]
       ELSE r[k][a][l]]]]

\* PlaybackAnimator::tick writes the fixtures the frame lists and keeps the rest.
Overlay(r, f) ==
  [k \in Kind |-> [a \in Arc |-> [l \in Light |->
     IF a < Len(f[k]) /\ l < Len(f[k][a + 1])
       THEN f[k][a + 1][l + 1]
       ELSE r[k][a][l]]]]

\* A tick that counts the frame for the animator only.
AdvancePlaybackNoSession(r) == [r EXCEPT !.seq_index = @ + 1]

AdvancePlayback(r) ==
  [r EXCEPT !.seq_index = @ + 1, !.session.current_frame_idx = @ + 1]

TickCapture(animated, shown) ==
  /\ Render(shown)
  /\ runtime' = animated
  /\ tick_result' = "TriggerCapture"
  /\ emitted' = <<>>

\* The mode change announced before the end of the capture.
FinishCaptureSwapped(shown) ==
  /\ Render(shown)
  /\ runtime' = DemoRuntime
  /\ emitted' = <<ModeChanged("Demo"), CaptureFinished>>
  /\ tick_result' = "Finished"

\* An ended capture that stays in its mode.
FinishCaptureStays(shown) ==
  /\ Render(shown)
  /\ emitted' = <<CaptureFinished>>
  /\ tick_result' = "Finished"
  /\ UNCHANGED runtime

\* The animator has ended: CaptureFinished, then the transition to Demo.
FinishCapture(shown) ==
  /\ Render(shown)
  /\ SetRuntime(DemoRuntime, <<CaptureFinished>>)
  /\ tick_result' = "Finished"

TickOlat ==
  /\ runtime.mode = "OLAT"
  /\ IF runtime.done
       THEN FinishCapture(Dark)
       ELSE TickCapture(AdvanceOlat(runtime),
                        OneLight(runtime.current_arc, runtime.current_light))

TickPlayback ==
  /\ runtime.mode = "Playback"
  /\ IF runtime.seq_index >= Len(runtime.sequence)
       THEN FinishCapture(renderer)
       ELSE TickCapture(AdvancePlayback(runtime),
                        Overlay(renderer, runtime.sequence[runtime.seq_index + 1]))

AdvanceTick == TickManual \/ TickDemo \/ TickOlat \/ TickPlayback
-----------------------------------------------------------------------------
(* The methods the API handlers call *)

\* try_transition_to: validated before the runtime is touched.
TransitionTo(new) ==
  /\ SetRuntime(new, <<>>)
  /\ UNCHANGED <<renderer, current_frame, tick_result>>

\* A call that returns an error has sent nothing and changed nothing.
Rejected ==
  /\ emitted' = <<>>
  /\ UNCHANGED <<runtime, renderer, current_frame, tick_result>>

TransitionToDemo == TransitionTo(DemoRuntime)

TransitionToManual == TransitionTo(ManualRuntime(FALSE))

TransitionToOlat(hz) ==
  IF ValidRate(hz) THEN TransitionTo(OlatRuntime(hz)) ELSE Rejected

TransitionToPlayback(seq) ==
  IF ValidRate(seq.capture_hz) THEN TransitionTo(PlaybackRuntime(seq)) ELSE Rejected

\* The level a fixture gets from one component of a request.
Paint(colour, old) == IF colour = Keep THEN old ELSE colour

\* with_manual_renderer: enter Manual with no trigger queued, write, bake.
WithManualRenderer(r) ==
  /\ SetRuntime(ManualRuntime(FALSE), <<>>)
  /\ Render(r)
  /\ UNCHANGED tick_result

\* The fixture states in which the fixtures of set F take a request's colours.
Painted(F, c) ==
  [k \in Kind |-> [a \in Arc |-> [l \in Light |->
     IF <<a, l>> \in F THEN Paint(c[k], renderer[k][a][l]) ELSE renderer[k][a][l]]]]

UpdateSingleFixture(arc, light, c) == WithManualRenderer(Painted({<<arc, light>>}, c))

UpdateArc(arc, c) == WithManualRenderer(Painted({arc} \X Light, c))

UpdateStage(c) == WithManualRenderer(Painted(Arc \X Light, c))

\* Entry i is the last of the batch to write kind k of the fixture.
LastWrite(b, k, a, l, i) ==
  /\ b[i].arc = a /\ b[i].light = l /\ b[i].colour[k] # Keep
  /\ \A j \in DOMAIN b :
       j > i => ~(b[j].arc = a /\ b[j].light = l /\ b[j].colour[k] # Keep)

\* The entries of a batch are written in order, so the last write wins.
UpdateBatch(b) ==
  WithManualRenderer(
    [k \in Kind |-> [a \in Arc |-> [l \in Light |->
       IF \E i \in DOMAIN b : LastWrite(b, k, a, l, i)
         THEN b[CHOOSE i \in DOMAIN b : LastWrite(b, k, a, l, i)].colour[k]
         ELSE renderer[k][a][l]]]])

\* request_manual_capture
RequestManualCapture ==
  IF runtime.mode = "Manual" /\ ~runtime.capture_requested
    THEN TransitionTo(ManualRuntime(TRUE))
    ELSE Rejected

\* What the API may call between two ticks.
ApiCall ==
  \/ TransitionToDemo
  \/ TransitionToManual
  \/ \E hz \in Rate : TransitionToOlat(hz)
  \/ \E seq \in Library : TransitionToPlayback(seq)
  \/ \E c \in ColourRequest, arc \in Arc, light \in Light :
       UpdateSingleFixture(arc, light, c)
  \/ \E c \in ColourRequest, arc \in Arc : UpdateArc(arc, c)
  \/ \E c \in ColourRequest : UpdateStage(c)
  \/ \E b \in Batch : UpdateBatch(b)
  \/ RequestManualCapture
-----------------------------------------------------------------------------
\* StageState::new with the fixtures main registers: all off, a black frame.
StageInit ==
  /\ runtime = DemoRuntime
  /\ renderer = Dark
  /\ current_frame = [k \in Kind |-> [a \in Arc |-> [d \in Address |-> Off]]]
  /\ tick_result = "None"
  /\ emitted = <<>>

StageNext == AdvanceTick \/ ApiCall

StageSpec == StageInit /\ [][StageNext]_stageVars
-----------------------------------------------------------------------------
(* Properties *)

SessionType ==
  [current_frame_idx : Nat, total_frames : Nat,
   capture_hz : {hz \in Rate : ValidRate(hz)}]

RuntimeType ==
  {DemoRuntime}
    \cup [mode : {"Manual"}, capture_requested : BOOLEAN]
    \cup [mode : {"OLAT"}, current_arc : Arc, current_light : Light,
          done : BOOLEAN, session : SessionType]
    \cup [mode : {"Playback"}, sequence : Seq(StageFrame), seq_index : Nat,
          session : SessionType]

Event ==
  {ModeChanged(m) : m \in {"Demo", "Manual"} \cup CaptureMode} \cup {CaptureFinished}

TickResult == {"None", "Continue", "TriggerCapture", "Finished"}

\* Every index the animators use to reach into the renderer is one of a
\* registered fixture, and no session runs at a rate validate refuses.
TypeOK ==
  /\ runtime \in RuntimeType
  /\ renderer \in RendererType
  /\ current_frame \in Frame
  /\ tick_result \in TickResult
  /\ emitted \in Seq(Event)

\* The session's frame count and the animator's own cursor are kept apart in
\* the code (CaptureSession, OlatAnimator, PlaybackAnimator) and stay in step:
\* the cursor is at frame number current_frame_idx until the last frame, and
\* the animator ends exactly when total_frames frames were shown.
SessionTracksCursor ==
  /\ runtime.mode = "OLAT" =>
       /\ runtime.session.total_frames = NumArcs * LightsPerArc
       /\ IF runtime.done
            THEN runtime.session.current_frame_idx = runtime.session.total_frames
            ELSE /\ runtime.session.current_frame_idx
                      = runtime.current_arc * LightsPerArc + runtime.current_light
                 /\ runtime.session.current_frame_idx < runtime.session.total_frames
  /\ runtime.mode = "Playback" =>
       /\ runtime.session.total_frames = Len(runtime.sequence)
       /\ runtime.session.current_frame_idx = runtime.seq_index
       /\ runtime.seq_index <= runtime.session.total_frames

\* One Light At a Time: after n ticks of an OLAT session the DMX frame has the
\* n-th white light, counted arc by arc, full on and every other channel off,
\* whatever Demo, Manual or Playback had left in the renderer.
OlatOneLight ==
  runtime.mode = "OLAT" /\ runtime.session.current_frame_idx > 0 =>
    \A k \in Kind, a \in Arc, l \in Light :
      current_frame[k][a][BaseAddress(l)] =
        IF k = "white"
           /\ a * LightsPerArc + l = runtime.session.current_frame_idx - 1
          THEN Full ELSE Off

\* After n ticks of a Playback session the DMX frame shows the n-th stored
\* frame on every fixture that frame lists.
PlaybackShowsFrame ==
  runtime.mode = "Playback" /\ runtime.session.current_frame_idx > 0 =>
    LET f == runtime.sequence[runtime.session.current_frame_idx]
    IN  \A k \in Kind, a \in Arc, l \in Light :
          a < Len(f[k]) /\ l < Len(f[k][a + 1]) =>
            current_frame[k][a][BaseAddress(l)] = f[k][a + 1][l + 1]

\* The frame handed to the network thread is the one baked from the renderer,
\* also in Manual mode, whose ticks and transitions render nothing.
FrameIsRendered == current_frame = Bake(renderer)

\* Frames of the capture in progress that are still to be fired.
FramesLeft ==
  IF InCapture THEN runtime.session.total_frames - runtime.session.current_frame_idx
               ELSE 0

TriggerQueued == runtime.mode = "Manual" /\ runtime.capture_requested

Contract == INSTANCE CaptureContract WITH
  FrameCount <- Nat, mode <- runtime.mode, left <- FramesLeft, queued <- TriggerQueued,
  answer <- tick_result, announced <- emitted

\* StageState keeps the promises of CaptureContract: a capture that no client
\* interrupts asks for exactly total_frames shots and then announces its end,
\* before the mode change that follows from it.
ContractSpec == Contract!Spec

\* request_manual_capture "Queues triggering a manual capture" and fails only
\* outside Manual or while one is pending (state.rs:456): once queued, a write to
\* the fixtures of a stage that stays in Manual leaves the trigger queued.
TriggerSurvivesUpdate ==
  [][TriggerQueued /\ runtime'.mode = "Manual" /\ renderer' # renderer
       => TriggerQueued']_stageVars
=============================================================================
