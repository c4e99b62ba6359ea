----------------------------- MODULE StageProofs -----------------------------
(***************************************************************************)
(* Proofs about the stage for every number of arcs and lights, every set   *)
(* of levels, rates, sequences and requests, and any demo pattern.         *)
(***************************************************************************)
EXTENDS Stage, SequenceTheorems, TLAPS

-----------------------------------------------------------------------------
(* The fixture states an operation can produce, and the frames baked of them *)

\* Renderer::update fills the universes of every arc.
LEMMA BakeType ==
  ASSUME NEW r \in RendererType
  PROVE  Bake(r) \in Frame
<1>1. ASSUME NEW d \in Address
      PROVE  (d - 1) \div 6 \in Light
  <2>1. PICK l \in Light : d = l * 6 + 1
    BY DEF Address, BaseAddress
  <2>2. (d - 1) \div 6 = l
    BY <2>1, StageAssumption DEF Light
  <2>3. QED
    BY <2>1, <2>2
<1>2. QED
  BY <1>1 DEF Bake, Frame, RendererType

\* What Renderer::update writes at a fixture's base address is its level.
LEMMA BakeShows ==
  ASSUME NEW r \in RendererType, NEW k \in Kind, NEW a \in Arc, NEW l \in Light
  PROVE  Bake(r)[k][a][BaseAddress(l)] = r[k][a][l]
<1>1. BaseAddress(l) \in Address
  BY DEF Address
<1>2. (BaseAddress(l) - 1) \div 6 = l
  BY StageAssumption DEF BaseAddress, Light
<1>3. QED
  BY <1>1, <1>2 DEF Bake

LEMMA UniformType ==
  ASSUME NEW v \in Level
  PROVE  Uniform(v) \in RendererType
BY DEF Uniform, RendererType

\* The fixtures during OLAT: one white light, all others off.
LEMMA OneLightIs ==
  ASSUME NEW arc \in Arc, NEW light \in Light
  PROVE  /\ OneLight(arc, light) \in RendererType
         /\ \A k \in Kind, a \in Arc, l \in Light :
              OneLight(arc, light)[k][a][l] =
                IF k = "white" /\ a = arc /\ l = light THEN Full ELSE Off
<1>1. Dark \in RendererType
  BY UniformType, StageAssumption DEF Dark
<1>2. \A k \in Kind, a \in Arc, l \in Light : Dark[k][a][l] = Off
  BY DEF Dark, Uniform
<1>3. QED
  BY <1>1, <1>2, StageAssumption DEF OneLight, RendererType, Kind

\* A playback frame of any shape leaves every fixture with a level.
LEMMA OverlayIs ==
  ASSUME NEW r \in RendererType, NEW f \in StageFrame
  PROVE  /\ Overlay(r, f) \in RendererType
         /\ \A k \in Kind, a \in Arc, l \in Light :
              a < Len(f[k]) /\ l < Len(f[k][a + 1])
                => Overlay(r, f)[k][a][l] = f[k][a + 1][l + 1]
<1>1. ASSUME NEW k \in Kind, NEW a \in Arc, NEW l \in Light,
             a < Len(f[k]), l < Len(f[k][a + 1])
      PROVE  f[k][a + 1][l + 1] \in Level
  <2>1. f[k] \in Seq(Seq(Level))
    BY DEF StageFrame, Kind
  <2>2. f[k][a + 1] \in Seq(Level)
    BY <2>1, <1>1, StageAssumption DEF Arc
  <2>3. QED
    BY <2>2, <1>1, StageAssumption DEF Light
<1>2. Overlay(r, f) \in RendererType
  BY <1>1 DEF Overlay, RendererType
<1>3. QED
  BY <1>2 DEF Overlay

\* A request for some fixtures leaves every fixture with a level.
LEMMA PaintedType ==
  ASSUME NEW F, NEW c \in ColourRequest, renderer \in RendererType
  PROVE  Painted(F, c) \in RendererType
<1>1. ASSUME NEW k \in Kind, NEW v \in Level
      PROVE  Paint(c[k], v) \in Level
  BY <1>1, StageAssumption DEF Paint, Colour
<1>2. QED
  BY <1>1 DEF Painted, RendererType

\* So does a batch.
LEMMA BatchType ==
  ASSUME NEW b \in Batch, renderer \in RendererType,
         NEW k \in Kind, NEW a \in Arc, NEW l \in Light,
         \E i \in DOMAIN b : LastWrite(b, k, a, l, i)
  PROVE  b[CHOOSE i \in DOMAIN b : LastWrite(b, k, a, l, i)].colour[k] \in Level
<1> DEFINE i == CHOOSE j \in DOMAIN b : LastWrite(b, k, a, l, j)
<1>1. i \in DOMAIN b /\ LastWrite(b, k, a, l, i)
  OBVIOUS
<1>2. b[i] \in FixtureUpdate /\ b[i].colour[k] # Keep
  BY <1>1, StageAssumption DEF LastWrite
<1>3. b[i].colour[k] \in Colour
  BY <1>2, StageAssumption DEF FixtureUpdate
<1>4. QED
  BY <1>2, <1>3 DEF Colour
-----------------------------------------------------------------------------
(* Type correctness *)

LEMMA RenderType ==
  ASSUME NEW r \in RendererType, Render(r)
  PROVE  renderer' \in RendererType /\ current_frame' \in Frame
BY BakeType DEF Render

\* The runtimes the transitions install.
LEMMA ManualRuntimeType ==
  ASSUME NEW b \in BOOLEAN
  PROVE  ManualRuntime(b) \in RuntimeType
BY DEF ManualRuntime, RuntimeType

LEMMA OlatRuntimeType ==
  ASSUME NEW hz \in Rate, ValidRate(hz)
  PROVE  OlatRuntime(hz) \in RuntimeType
<1>1. NumArcs * LightsPerArc \in Nat
  BY StageAssumption
<1>2. 0 \in Arc /\ 0 \in Light
  BY StageAssumption DEF Arc, Light
<1>3. QED
  BY <1>1, <1>2 DEF OlatRuntime, Session, RuntimeType, SessionType

LEMMA PlaybackRuntimeType ==
  ASSUME NEW seq \in Library, ValidRate(seq.capture_hz)
  PROVE  PlaybackRuntime(seq) \in RuntimeType
<1>1. seq.frames \in Seq(StageFrame) /\ seq.capture_hz \in Rate
  BY StageAssumption DEF PlaybackSequence
<1>2. QED
  BY <1>1 DEF PlaybackRuntime, Session, RuntimeType, SessionType

\* A frame of OLAT: the cursor stays on a registered fixture, the wrap
\* included, and the session counts the frame.
LEMMA AdvanceOlatIs ==
  ASSUME NEW r \in RuntimeType, r.mode = "OLAT"
  PROVE  LET lastLight == r.current_light + 1 >= LightsPerArc
             arc == IF lastLight THEN r.current_arc + 1 ELSE r.current_arc
             new == AdvanceOlat(r)
         IN  /\ new \in RuntimeType
             /\ new.mode = "OLAT"
             /\ new.current_light = (IF lastLight THEN 0 ELSE r.current_light + 1)
             /\ new.current_arc = (IF arc >= NumArcs THEN 0 ELSE arc)
             /\ (new.done <=> arc >= NumArcs)
             /\ new.session.total_frames = r.session.total_frames
             /\ new.session.current_frame_idx = r.session.current_frame_idx + 1
<1> DEFINE lastLight == r.current_light + 1 >= LightsPerArc
           arc == IF lastLight THEN r.current_arc + 1 ELSE r.current_arc
           newArc == IF arc >= NumArcs THEN 0 ELSE arc
           newLight == IF lastLight THEN 0 ELSE r.current_light + 1
           ended == arc >= NumArcs
           newSession == [r.session EXCEPT !.current_frame_idx = @ + 1]
<1>1. r \in [mode : {"OLAT"}, current_arc : Arc, current_light : Light,
             done : BOOLEAN, session : SessionType]
  BY DEF RuntimeType, DemoRuntime
<1>2. newArc \in Arc /\ newLight \in Light
  BY <1>1, StageAssumption DEF Arc, Light
<1>3. /\ newSession \in SessionType
      /\ newSession.total_frames = r.session.total_frames
      /\ newSession.current_frame_idx = r.session.current_frame_idx + 1
  BY <1>1 DEF SessionType
<1>4. AdvanceOlat(r) = [r EXCEPT !.current_light = newLight, !.current_arc = newArc,
                                 !.done = ended, !.session = newSession]
  BY <1>1 DEF AdvanceOlat
<1>5. ended \in BOOLEAN
  OBVIOUS
<1> HIDE DEF newArc, newLight, newSession, ended
<1>6. /\ AdvanceOlat(r) \in RuntimeType
      /\ AdvanceOlat(r).mode = "OLAT"
      /\ AdvanceOlat(r).current_light = newLight
      /\ AdvanceOlat(r).current_arc = newArc
      /\ AdvanceOlat(r).done = ended
      /\ AdvanceOlat(r).session = newSession
  BY <1>1, <1>2, <1>3, <1>4, <1>5 DEF RuntimeType
<1>7. QED
  BY <1>3, <1>6 DEF newArc, newLight, ended

\* A frame of Playback: the animator and the session count it.
LEMMA AdvancePlaybackIs ==
  ASSUME NEW r \in RuntimeType, r.mode = "Playback"
  PROVE  LET new == AdvancePlayback(r)
         IN  /\ new \in RuntimeType
             /\ new.mode = "Playback"
             /\ new.sequence = r.sequence
             /\ new.seq_index = r.seq_index + 1
             /\ new.session.total_frames = r.session.total_frames
             /\ new.session.current_frame_idx = r.session.current_frame_idx + 1
<1> DEFINE newSession == [r.session EXCEPT !.current_frame_idx = @ + 1]
           newIndex == r.seq_index + 1
<1>1. r \in [mode : {"Playback"}, sequence : Seq(StageFrame), seq_index : Nat,
             session : SessionType]
  BY DEF RuntimeType, DemoRuntime
<1>2. /\ newSession \in SessionType
      /\ newSession.total_frames = r.session.total_frames
      /\ newSession.current_frame_idx = r.session.current_frame_idx + 1
  BY <1>1 DEF SessionType
<1>3. AdvancePlayback(r)
        = [r EXCEPT !.seq_index = newIndex, !.session = newSession]
  BY <1>1 DEF AdvancePlayback
<1>4. newIndex \in Nat
  BY <1>1
<1> HIDE DEF newSession, newIndex
<1>5. /\ AdvancePlayback(r) \in [mode : {"Playback"}, sequence : Seq(StageFrame),
                                 seq_index : Nat, session : SessionType]
      /\ AdvancePlayback(r).sequence = r.sequence
      /\ AdvancePlayback(r).seq_index = newIndex
      /\ AdvancePlayback(r).session = newSession
  BY <1>1, <1>2, <1>3, <1>4
<1>6. QED
  BY <1>2, <1>5 DEF RuntimeType, newIndex

LEMMA EmptyType == <<>> \in Seq(Event)
OBVIOUS

\* What set_runtime sends is a mode change or nothing.
LEMMA SetRuntimeType ==
  ASSUME NEW new \in RuntimeType, NEW sent \in Seq(Event), SetRuntime(new, sent)
  PROVE  runtime' \in RuntimeType /\ emitted' \in Seq(Event)
<1>1. ModeChanged(new.mode) \in Event
  BY DEF RuntimeType, DemoRuntime, Event, CaptureMode
<1>2. QED
  BY <1>1 DEF SetRuntime

\* Every operation keeps the types.
LEMMA TypeStep ==
  ASSUME TypeOK, [StageNext]_stageVars
  PROVE  TypeOK'
<1>1. ASSUME NEW new \in RuntimeType, TransitionTo(new)
      PROVE  TypeOK'
  <2>1. runtime' \in RuntimeType /\ emitted' \in Seq(Event)
    BY <1>1, EmptyType, SetRuntimeType DEF TransitionTo
  <2>2. QED
    BY <1>1, <2>1 DEF TransitionTo, TypeOK
<1>2. ASSUME NEW r \in RendererType, WithManualRenderer(r)
      PROVE  TypeOK'
  <2>1. runtime' \in RuntimeType /\ emitted' \in Seq(Event)
    BY <1>2, EmptyType, SetRuntimeType, ManualRuntimeType DEF WithManualRenderer
  <2>2. renderer' \in RendererType /\ current_frame' \in Frame
    BY <1>2, RenderType DEF WithManualRenderer
  <2>3. QED
    BY <1>2, <2>1, <2>2 DEF WithManualRenderer, TypeOK
<1>3. ASSUME NEW r \in RendererType, FinishCapture(r)
      PROVE  TypeOK'
  <2>1. runtime' \in RuntimeType /\ emitted' \in Seq(Event)
    <3>1. DemoRuntime \in RuntimeType /\ <<CaptureFinished>> \in Seq(Event)
      BY DEF RuntimeType, Event
    <3>2. QED
      BY <1>3, <3>1, SetRuntimeType DEF FinishCapture
  <2>2. renderer' \in RendererType /\ current_frame' \in Frame
    BY <1>3, RenderType DEF FinishCapture
  <2>3. QED
    BY <1>3, <2>1, <2>2 DEF FinishCapture, TypeOK, TickResult
<1>4. ASSUME NEW new \in RuntimeType, NEW r \in RendererType, TickCapture(new, r)
      PROVE  TypeOK'
  <2>1. renderer' \in RendererType /\ current_frame' \in Frame
    BY <1>4, RenderType DEF TickCapture
  <2>2. QED
    BY <1>4, <2>1, EmptyType DEF TickCapture, TypeOK, TickResult
<1>5. ASSUME Rejected PROVE TypeOK'
  BY <1>5, EmptyType DEF Rejected, TypeOK
<1>6. CASE TickManual
  <2>1. runtime' \in RuntimeType
    BY <1>6, ManualRuntimeType DEF TickManual
  <2>2. tick_result' \in TickResult
    BY <1>6 DEF TickManual, TickResult
  <2>3. QED
    BY <1>6, <2>1, <2>2, EmptyType DEF TickManual, TypeOK
<1>7. CASE TickDemo
  <2>1. PICK p \in DemoPattern : Render(p)
    BY <1>7 DEF TickDemo
  <2>2. renderer' \in RendererType /\ current_frame' \in Frame
    BY <2>1, RenderType, StageAssumption
  <2>3. QED
    BY <1>7, <2>2, EmptyType DEF TickDemo, TypeOK, TickResult
<1>8. CASE TickOlat
  <2>1. CASE runtime.done
    <3>1. Dark \in RendererType
      BY UniformType, StageAssumption DEF Dark
    <3>2. QED
      BY <1>3, <1>8, <2>1, <3>1 DEF TickOlat
  <2>2. CASE ~runtime.done
    <3>1. runtime.current_arc \in Arc /\ runtime.current_light \in Light
      BY <1>8 DEF TickOlat, TypeOK, RuntimeType, DemoRuntime
    <3>2. OneLight(runtime.current_arc, runtime.current_light) \in RendererType
      BY <3>1, OneLightIs
    <3>3. AdvanceOlat(runtime) \in RuntimeType
      BY <1>8, AdvanceOlatIs DEF TickOlat, TypeOK
    <3>4. QED
      BY <1>4, <1>8, <2>2, <3>2, <3>3 DEF TickOlat
  <2>3. QED
    BY <2>1, <2>2
<1>9. CASE TickPlayback
  <2>1. /\ runtime.sequence \in Seq(StageFrame)
        /\ runtime.seq_index \in Nat
    BY <1>9 DEF TickPlayback, TypeOK, RuntimeType, DemoRuntime
  <2>2. CASE runtime.seq_index >= Len(runtime.sequence)
    BY <1>3, <1>9, <2>2 DEF TickPlayback, TypeOK
  <2>3. CASE ~(runtime.seq_index >= Len(runtime.sequence))
    <3>1. runtime.sequence[runtime.seq_index + 1] \in StageFrame
      BY <2>1, <2>3
    <3>2. Overlay(renderer, runtime.sequence[runtime.seq_index + 1]) \in RendererType
      BY <3>1, OverlayIs DEF TypeOK
    <3>3. AdvancePlayback(runtime) \in RuntimeType
      BY <1>9, AdvancePlaybackIs DEF TickPlayback, TypeOK
    <3>4. QED
      BY <1>4, <1>9, <2>3, <3>2, <3>3 DEF TickPlayback
  <2>4. QED
    BY <2>2, <2>3
<1>10. CASE TransitionToDemo
  <2>1. DemoRuntime \in RuntimeType
    BY DEF RuntimeType
  <2>2. QED
    BY <1>1, <1>10, <2>1 DEF TransitionToDemo
<1>11. CASE TransitionToManual
  BY <1>1, <1>11, ManualRuntimeType DEF TransitionToManual
<1>12. CASE \E hz \in Rate : TransitionToOlat(hz)
  BY <1>1, <1>5, <1>12, OlatRuntimeType DEF TransitionToOlat
<1>13. CASE \E seq \in Library : TransitionToPlayback(seq)
  BY <1>1, <1>5, <1>13, PlaybackRuntimeType DEF TransitionToPlayback
<1>14. CASE \/ \E c \in ColourRequest, arc \in Arc, light \in Light :
                 UpdateSingleFixture(arc, light, c)
            \/ \E c \in ColourRequest, arc \in Arc : UpdateArc(arc, c)
            \/ \E c \in ColourRequest : UpdateStage(c)
  <2>1. \A F : \A c \in ColourRequest : Painted(F, c) \in RendererType
    BY PaintedType DEF TypeOK
  <2>2. QED
    BY <1>2, <1>14, <2>1 DEF UpdateSingleFixture, UpdateArc, UpdateStage
<1>15. CASE \E b \in Batch : UpdateBatch(b)
  <2>1. PICK b \in Batch : UpdateBatch(b)
    BY <1>15
  <2> DEFINE r == [k \in Kind |-> [a \in Arc |-> [l \in Light |->
                     IF \E i \in DOMAIN b : LastWrite(b, k, a, l, i)
                       THEN b[CHOOSE i \in DOMAIN b : LastWrite(b, k, a, l, i)].colour[k]
                       ELSE renderer[k][a][l]]]]
  <2>2. r \in RendererType
    <3>1. ASSUME NEW k \in Kind, NEW a \in Arc, NEW l \in Light
          PROVE  r[k][a][l] \in Level
      <4>1. CASE \E i \in DOMAIN b : LastWrite(b, k, a, l, i)
        BY <4>1, BatchType DEF TypeOK
      <4>2. CASE ~\E i \in DOMAIN b : LastWrite(b, k, a, l, i)
        BY <4>2 DEF RendererType, TypeOK
      <4>3. QED
        BY <4>1, <4>2
    <3>2. QED
      BY <3>1 DEF RendererType
  <2>3. WithManualRenderer(r)
    BY <2>1 DEF UpdateBatch
  <2>4. QED
    BY <1>2, <2>2, <2>3
<1>16. CASE RequestManualCapture
  BY <1>1, <1>5, <1>16, ManualRuntimeType DEF RequestManualCapture
<1>17. CASE UNCHANGED stageVars
  BY <1>17 DEF stageVars, TypeOK
<1>18. QED
  BY <1>6, <1>7, <1>8, <1>9, <1>10, <1>11, <1>12, <1>13, <1>14, <1>15, <1>16, <1>17
     DEF StageNext, AdvanceTick, ApiCall

LEMMA InitType == StageInit => TypeOK
<1>1. StageInit => runtime \in RuntimeType /\ tick_result \in TickResult
  BY DEF StageInit, RuntimeType, TickResult
<1>2. StageInit => renderer \in RendererType
  BY UniformType, StageAssumption DEF StageInit, Dark
<1>3. StageInit => current_frame \in Frame
  BY StageAssumption DEF StageInit, Frame
<1>4. StageInit => emitted \in Seq(Event)
  BY EmptyType DEF StageInit
<1>5. QED
  BY <1>1, <1>2, <1>3, <1>4 DEF TypeOK

\* The stage never reaches for a fixture that is not registered, never runs a
\* session at a refused rate, and sends only the events of StageEvent.
THEOREM TypeCorrect == StageSpec => []TypeOK
BY InitType, TypeStep, PTL DEF StageSpec
-----------------------------------------------------------------------------
(* The capture in progress *)

\* A frame of the capture in progress, in OLAT or in Playback.
ShowsLight == TickOlat /\ ~runtime.done
ShowsFrame == TickPlayback /\ runtime.seq_index < Len(runtime.sequence)

\* What a step may do to a capture: leave or not enter one, leave it as it is,
\* start one, or show its next frame.
LEMMA CaptureStep ==
  ASSUME TypeOK, [StageNext]_stageVars
  PROVE  \/ runtime'.mode \in {"Demo", "Manual"}
         \/ UNCHANGED <<runtime, renderer, current_frame>>
         \/ \E hz \in Rate : runtime' = OlatRuntime(hz)
         \/ \E seq \in Library : runtime' = PlaybackRuntime(seq)
         \/ ShowsLight
         \/ ShowsFrame
<1>1. ASSUME NEW r, FinishCapture(r)
      PROVE  runtime'.mode = "Demo"
  BY <1>1 DEF FinishCapture, SetRuntime, DemoRuntime
<1>2. ASSUME NEW r, WithManualRenderer(r)
      PROVE  runtime'.mode = "Manual"
  BY <1>2 DEF WithManualRenderer, SetRuntime, ManualRuntime
<1>3. CASE TickManual
  BY <1>3 DEF TickManual, ManualRuntime
<1>4. CASE TickDemo
  BY <1>4 DEF TickDemo, TypeOK, RuntimeType, DemoRuntime
<1>5. CASE TickOlat
  BY <1>1, <1>5 DEF TickOlat, ShowsLight
<1>6. CASE TickPlayback
  <2>1. runtime.seq_index \in Nat /\ Len(runtime.sequence) \in Nat
    BY <1>6 DEF TickPlayback, TypeOK, RuntimeType, DemoRuntime
  <2>2. CASE runtime.seq_index >= Len(runtime.sequence)
    BY <1>1, <1>6, <2>2 DEF TickPlayback
  <2>3. CASE runtime.seq_index < Len(runtime.sequence)
    BY <1>6, <2>3 DEF ShowsFrame
  <2>4. QED
    BY <2>1, <2>2, <2>3
<1>7. CASE TransitionToDemo \/ TransitionToManual
  BY <1>7 DEF TransitionToDemo, TransitionToManual, TransitionTo, SetRuntime,
              DemoRuntime, ManualRuntime
<1>8. CASE \E hz \in Rate : TransitionToOlat(hz)
  BY <1>8 DEF TransitionToOlat, TransitionTo, SetRuntime, Rejected
<1>9. CASE \E seq \in Library : TransitionToPlayback(seq)
  BY <1>9 DEF TransitionToPlayback, TransitionTo, SetRuntime, Rejected
<1>10. CASE \/ \E c \in ColourRequest, arc \in Arc, light \in Light :
                 UpdateSingleFixture(arc, light, c)
            \/ \E c \in ColourRequest, arc \in Arc : UpdateArc(arc, c)
            \/ \E c \in ColourRequest : UpdateStage(c)
            \/ \E b \in Batch : UpdateBatch(b)
  BY <1>2, <1>10 DEF UpdateSingleFixture, UpdateArc, UpdateStage, UpdateBatch
<1>11. CASE RequestManualCapture
  BY <1>11 DEF RequestManualCapture, TransitionTo, SetRuntime, Rejected, ManualRuntime
<1>12. CASE UNCHANGED stageVars
  BY <1>12 DEF stageVars
<1>13. QED
  BY <1>3, <1>4, <1>5, <1>6, <1>7, <1>8, <1>9, <1>10, <1>11, <1>12
     DEF StageNext, AdvanceTick, ApiCall

\* The lights of the stage are numbered arc by arc, without gaps or repetition.
LEMMA LightNumber ==
  ASSUME NEW a \in Arc, NEW l \in Light
  PROVE  /\ a * LightsPerArc + l \in Nat
         /\ a * LightsPerArc + l < NumArcs * LightsPerArc
         /\ l + 1 < LightsPerArc =>
              a * LightsPerArc + (l + 1) = (a * LightsPerArc + l) + 1
         /\ l + 1 >= LightsPerArc =>
              (a + 1) * LightsPerArc + 0 = (a * LightsPerArc + l) + 1
         /\ \A b \in Arc, m \in Light :
              a * LightsPerArc + l = b * LightsPerArc + m => a = b /\ l = m
<1> USE StageAssumption DEF Arc, Light
<1>1. a * LightsPerArc \in Nat
  OBVIOUS
<1>2. (a + 1) * LightsPerArc = a * LightsPerArc + LightsPerArc
  OBVIOUS
<1>3. ASSUME NEW i \in Nat, NEW j \in Nat, i < j
      PROVE  i * LightsPerArc + LightsPerArc <= j * LightsPerArc
  <2>1. PICK d \in Nat : j = i + 1 + d
    <3>1. j - i - 1 \in Nat
      BY <1>3
    <3>2. QED
      BY <3>1
  <2>2. j * LightsPerArc = i * LightsPerArc + LightsPerArc + d * LightsPerArc
    BY <2>1
  <2>3. d * LightsPerArc >= 0 /\ i * LightsPerArc \in Nat /\ d * LightsPerArc \in Nat
    OBVIOUS
  <2>4. QED
    BY <2>2, <2>3
<1>4. a * LightsPerArc + LightsPerArc <= NumArcs * LightsPerArc
  BY <1>3
<1>5. ASSUME NEW b \in Arc, NEW m \in Light,
             a * LightsPerArc + l = b * LightsPerArc + m
      PROVE  a = b /\ l = m
  <2>1. b * LightsPerArc \in Nat
    OBVIOUS
  <2>2. ~(a < b)
    BY <1>1, <1>3, <1>5, <2>1
  <2>3. ~(b < a)
    BY <1>1, <1>3, <1>5, <2>1
  <2>4. a = b
    BY <2>2, <2>3
  <2>5. QED
    BY <1>1, <1>5, <2>4
<1>6. NumArcs * LightsPerArc \in Nat
  OBVIOUS
<1>7. QED
  BY <1>1, <1>2, <1>4, <1>5, <1>6

\* A session that has just started.
LEMMA NewSession ==
  /\ \A hz : /\ OlatRuntime(hz).mode = "OLAT"
             /\ OlatRuntime(hz).current_arc = 0 /\ OlatRuntime(hz).current_light = 0
             /\ OlatRuntime(hz).done = FALSE
             /\ OlatRuntime(hz).session.total_frames = NumArcs * LightsPerArc
             /\ OlatRuntime(hz).session.current_frame_idx = 0
  /\ \A seq : /\ PlaybackRuntime(seq).mode = "Playback"
              /\ PlaybackRuntime(seq).sequence = seq.frames
              /\ PlaybackRuntime(seq).seq_index = 0
              /\ PlaybackRuntime(seq).session.total_frames = Len(seq.frames)
              /\ PlaybackRuntime(seq).session.current_frame_idx = 0
BY DEF OlatRuntime, PlaybackRuntime, Session

\* The cursors of a running session, by mode.
LEMMA CursorTypes ==
  ASSUME TypeOK
  PROVE  /\ runtime.mode = "OLAT" =>
              /\ runtime.current_arc \in Arc /\ runtime.current_light \in Light
              /\ runtime.session.current_frame_idx \in Nat
         /\ runtime.mode = "Playback" =>
              /\ runtime.sequence \in Seq(StageFrame)
              /\ runtime.seq_index \in Nat
              /\ runtime.session.current_frame_idx \in Nat
BY DEF TypeOK, RuntimeType, SessionType, DemoRuntime

\* One frame of OLAT, in terms of the number of the light it shows.
LEMMA LightShown ==
  ASSUME TypeOK, SessionTracksCursor, ShowsLight
  PROVE  /\ runtime' = AdvanceOlat(runtime)
         /\ renderer' = OneLight(runtime.current_arc, runtime.current_light)
         /\ current_frame' = Bake(renderer')
         /\ runtime'.session.current_frame_idx - 1
              = runtime.current_arc * LightsPerArc + runtime.current_light
         /\ SessionTracksCursor'
<1> DEFINE arc == runtime.current_arc
           light == runtime.current_light
           number == arc * LightsPerArc + light
<1>1. /\ runtime.mode = "OLAT" /\ ~runtime.done
      /\ runtime' = AdvanceOlat(runtime)
      /\ renderer' = OneLight(arc, light)
      /\ current_frame' = Bake(renderer')
  BY DEF ShowsLight, TickOlat, TickCapture, Render
<1>2. arc \in Arc /\ light \in Light
  BY <1>1, CursorTypes
<1>3. /\ number \in Nat
      /\ number < NumArcs * LightsPerArc
      /\ light + 1 < LightsPerArc => arc * LightsPerArc + (light + 1) = number + 1
      /\ light + 1 >= LightsPerArc => (arc + 1) * LightsPerArc + 0 = number + 1
  BY <1>2, LightNumber
<1>4. /\ runtime.session.current_frame_idx = number
      /\ runtime.session.total_frames = NumArcs * LightsPerArc
  BY <1>1 DEF SessionTracksCursor
<1>5. /\ runtime'.mode = "OLAT"
      /\ runtime'.session.total_frames = NumArcs * LightsPerArc
      /\ runtime'.session.current_frame_idx = number + 1
  BY <1>1, <1>4, AdvanceOlatIs DEF TypeOK
<1>6. CASE light + 1 < LightsPerArc
  <2>1. /\ runtime'.current_light = light + 1
        /\ runtime'.current_arc = arc
        /\ ~runtime'.done
    BY <1>1, <1>2, <1>6, AdvanceOlatIs, StageAssumption DEF TypeOK, Arc, Light
  <2>2. runtime'.current_arc * LightsPerArc + runtime'.current_light = number + 1
    BY <1>3, <1>6, <2>1
  <2>3. number + 1 < NumArcs * LightsPerArc
    <3>1. light + 1 \in Light
      BY <1>2, <1>6, StageAssumption DEF Light
    <3>2. arc * LightsPerArc + (light + 1) < NumArcs * LightsPerArc
      BY <1>2, <3>1, LightNumber
    <3>3. QED
      BY <1>3, <1>6, <3>2
  <2>4. QED
    BY <1>1, <1>3, <1>5, <2>1, <2>2, <2>3 DEF SessionTracksCursor
<1>7. CASE light + 1 >= LightsPerArc /\ arc + 1 < NumArcs
  <2>1. /\ runtime'.current_light = 0
        /\ runtime'.current_arc = arc + 1
        /\ ~runtime'.done
    BY <1>1, <1>2, <1>7, AdvanceOlatIs, StageAssumption DEF TypeOK, Arc, Light
  <2>2. runtime'.current_arc * LightsPerArc + runtime'.current_light = number + 1
    BY <1>3, <1>7, <2>1
  <2>3. number + 1 < NumArcs * LightsPerArc
    <3>1. arc + 1 \in Arc /\ 0 \in Light
      BY <1>2, <1>7, StageAssumption DEF Arc, Light
    <3>2. (arc + 1) * LightsPerArc + 0 < NumArcs * LightsPerArc
      BY <3>1, LightNumber
    <3>3. QED
      BY <1>3, <1>7, <3>2
  <2>4. QED
    BY <1>1, <1>3, <1>5, <2>1, <2>2, <2>3 DEF SessionTracksCursor
<1>8. CASE light + 1 >= LightsPerArc /\ arc + 1 >= NumArcs
  <2>1. runtime'.done
    BY <1>1, <1>2, <1>8, AdvanceOlatIs, StageAssumption DEF TypeOK, Arc, Light
  <2>2. arc + 1 = NumArcs
    BY <1>2, <1>8, StageAssumption DEF Arc
  <2>3. number + 1 = NumArcs * LightsPerArc
    <3>1. NumArcs * LightsPerArc + 0 = number + 1
      BY <1>3, <1>8, <2>2
    <3>2. NumArcs * LightsPerArc \in Nat
      BY StageAssumption
    <3>3. QED
      BY <3>1, <3>2
  <2>4. QED
    BY <1>1, <1>3, <1>5, <2>1, <2>3 DEF SessionTracksCursor
<1>9. arc \in Int /\ light \in Int
  BY <1>2 DEF Arc, Light
<1>10. QED
  BY <1>6, <1>7, <1>8, <1>9, StageAssumption

\* One frame of Playback.
LEMMA FrameShown ==
  ASSUME TypeOK, SessionTracksCursor, ShowsFrame
  PROVE  LET n == runtime'.session.current_frame_idx
         IN  /\ runtime'.mode = "Playback"
             /\ runtime' = AdvancePlayback(runtime)
             /\ runtime'.sequence = runtime.sequence
             /\ runtime.sequence[n] \in StageFrame
             /\ renderer' = Overlay(renderer, runtime.sequence[n])
             /\ current_frame' = Bake(renderer')
             /\ SessionTracksCursor'
<1>1. runtime.mode = "Playback"
  BY DEF ShowsFrame, TickPlayback
<1>2. /\ runtime.seq_index \in Nat
      /\ runtime.seq_index < Len(runtime.sequence)
      /\ Len(runtime.sequence) \in Nat
      /\ runtime.sequence[runtime.seq_index + 1] \in StageFrame
  <2>1. runtime.sequence \in Seq(StageFrame) /\ runtime.seq_index \in Nat
    BY <1>1, CursorTypes
  <2>2. QED
    BY <2>1 DEF ShowsFrame
<1>3. /\ runtime' = AdvancePlayback(runtime)
      /\ renderer' = Overlay(renderer, runtime.sequence[runtime.seq_index + 1])
      /\ current_frame' = Bake(renderer')
  BY <1>2 DEF ShowsFrame, TickPlayback, TickCapture, Render
<1>4. /\ runtime'.mode = "Playback"
      /\ runtime'.sequence = runtime.sequence
      /\ runtime'.seq_index = runtime.seq_index + 1
      /\ runtime'.session.total_frames = runtime.session.total_frames
      /\ runtime'.session.current_frame_idx = runtime.session.current_frame_idx + 1
  BY <1>1, <1>3, AdvancePlaybackIs DEF TypeOK
<1>5. /\ runtime.session.total_frames = Len(runtime.sequence)
      /\ runtime.session.current_frame_idx = runtime.seq_index
  BY <1>1 DEF SessionTracksCursor
<1>6. SessionTracksCursor'
  BY <1>2, <1>4, <1>5 DEF SessionTracksCursor
<1>7. QED
  BY <1>2, <1>3, <1>4, <1>5, <1>6

\* The inductive invariant: the two cursors in step, the frame the one baked
\* from the fixtures, and the fixtures those the capture shows.
CaptureInv ==
  /\ SessionTracksCursor
  /\ FrameIsRendered
  /\ OlatOneLight
  /\ PlaybackShowsFrame

LEMMA CursorStep ==
  ASSUME TypeOK, SessionTracksCursor, [StageNext]_stageVars
  PROVE  SessionTracksCursor'
<1>1. CASE runtime'.mode \in {"Demo", "Manual"}
  BY <1>1 DEF SessionTracksCursor
<1>2. CASE UNCHANGED <<runtime, renderer, current_frame>>
  BY <1>2 DEF SessionTracksCursor
<1>3. CASE \E hz \in Rate : runtime' = OlatRuntime(hz)
  <2>1. NumArcs * LightsPerArc > 0
    BY StageAssumption
  <2>2. 0 * LightsPerArc + 0 = 0
    BY StageAssumption
  <2>3. QED
    BY <1>3, <2>1, <2>2, NewSession DEF SessionTracksCursor
<1>4. CASE \E seq \in Library : runtime' = PlaybackRuntime(seq)
  <2>1. PICK seq \in Library : runtime' = PlaybackRuntime(seq)
    BY <1>4
  <2>2. Len(seq.frames) \in Nat
    BY StageAssumption DEF PlaybackSequence
  <2>3. QED
    BY <2>1, <2>2, NewSession DEF SessionTracksCursor
<1>5. QED
  BY <1>1, <1>2, <1>3, <1>4, CaptureStep, LightShown, FrameShown

\* Every operation that changes a fixture bakes the frame before it returns.
LEMMA RenderedStep ==
  ASSUME TypeOK, FrameIsRendered, [StageNext]_stageVars
  PROVE  FrameIsRendered'
<1>1. ASSUME NEW r, Render(r) PROVE FrameIsRendered'
  BY <1>1 DEF Render, FrameIsRendered
<1>2. ASSUME UNCHANGED <<renderer, current_frame>> PROVE FrameIsRendered'
  BY <1>2 DEF FrameIsRendered, Bake
<1>3. CASE TickManual \/ TickDemo
  BY <1>1, <1>2, <1>3 DEF TickManual, TickDemo
<1>4. CASE TickOlat \/ TickPlayback
  BY <1>1, <1>4 DEF TickOlat, TickPlayback, TickCapture, FinishCapture
<1>5. CASE TransitionToDemo \/ TransitionToManual \/ RequestManualCapture
  BY <1>2, <1>5 DEF TransitionToDemo, TransitionToManual, RequestManualCapture,
                    TransitionTo, Rejected
<1>6. CASE \/ \E hz \in Rate : TransitionToOlat(hz)
           \/ \E seq \in Library : TransitionToPlayback(seq)
  BY <1>2, <1>6 DEF TransitionToOlat, TransitionToPlayback, TransitionTo, Rejected
<1>7. CASE \/ \E c \in ColourRequest, arc \in Arc, light \in Light :
                UpdateSingleFixture(arc, light, c)
           \/ \E c \in ColourRequest, arc \in Arc : UpdateArc(arc, c)
           \/ \E c \in ColourRequest : UpdateStage(c)
           \/ \E b \in Batch : UpdateBatch(b)
  BY <1>1, <1>7 DEF UpdateSingleFixture, UpdateArc, UpdateStage, UpdateBatch,
                    WithManualRenderer
<1>8. CASE UNCHANGED stageVars
  BY <1>2, <1>8 DEF stageVars
<1>9. QED
  BY <1>3, <1>4, <1>5, <1>6, <1>7, <1>8 DEF StageNext, AdvanceTick, ApiCall

LEMMA OneLightStep ==
  ASSUME TypeOK, SessionTracksCursor, OlatOneLight, [StageNext]_stageVars
  PROVE  OlatOneLight'
<1>1. CASE runtime'.mode \in {"Demo", "Manual"}
  BY <1>1 DEF OlatOneLight
<1>2. CASE UNCHANGED <<runtime, renderer, current_frame>>
  BY <1>2 DEF OlatOneLight
<1>3. CASE \/ \E hz \in Rate : runtime' = OlatRuntime(hz)
           \/ \E seq \in Library : runtime' = PlaybackRuntime(seq)
  BY <1>3, NewSession DEF OlatOneLight
<1>4. CASE ShowsFrame
  BY <1>4, FrameShown DEF OlatOneLight
<1>5. CASE ShowsLight
  <2> DEFINE arc == runtime.current_arc
             light == runtime.current_light
  <2>1. arc \in Arc /\ light \in Light
    BY <1>5, CursorTypes DEF ShowsLight, TickOlat
  <2>2. /\ current_frame' = Bake(OneLight(arc, light))
        /\ runtime'.session.current_frame_idx - 1 = arc * LightsPerArc + light
    BY <1>5, LightShown
  <2>3. ASSUME NEW k \in Kind, NEW a \in Arc, NEW l \in Light
        PROVE  current_frame'[k][a][BaseAddress(l)] =
                 IF k = "white" /\ a = arc /\ l = light THEN Full ELSE Off
    BY <2>1, <2>2, BakeShows, OneLightIs
  <2>4. ASSUME NEW a \in Arc, NEW l \in Light
        PROVE  a = arc /\ l = light
                 <=> a * LightsPerArc + l = runtime'.session.current_frame_idx - 1
    BY <2>1, <2>2, LightNumber
  <2>5. QED
    BY <2>3, <2>4 DEF OlatOneLight
<1>6. QED
  BY <1>1, <1>2, <1>3, <1>4, <1>5, CaptureStep

LEMMA ShowsFrameStep ==
  ASSUME TypeOK, SessionTracksCursor, PlaybackShowsFrame, [StageNext]_stageVars
  PROVE  PlaybackShowsFrame'
<1>1. CASE runtime'.mode \in {"Demo", "Manual"}
  BY <1>1 DEF PlaybackShowsFrame
<1>2. CASE UNCHANGED <<runtime, renderer, current_frame>>
  BY <1>2 DEF PlaybackShowsFrame
<1>3. CASE \/ \E hz \in Rate : runtime' = OlatRuntime(hz)
           \/ \E seq \in Library : runtime' = PlaybackRuntime(seq)
  BY <1>3, NewSession DEF PlaybackShowsFrame
<1>4. CASE ShowsLight
  <2>1. runtime'.mode = "OLAT"
    BY <1>4, LightShown, AdvanceOlatIs DEF ShowsLight, TickOlat, TypeOK
  <2>2. QED
    BY <2>1 DEF PlaybackShowsFrame
<1>5. CASE ShowsFrame
  <2> DEFINE f == runtime.sequence[runtime'.session.current_frame_idx]
  <2>1. /\ runtime'.sequence = runtime.sequence
        /\ f \in StageFrame
        /\ current_frame' = Bake(Overlay(renderer, f))
    BY <1>5, FrameShown
  <2>2. ASSUME NEW k \in Kind, NEW a \in Arc, NEW l \in Light,
               a < Len(f[k]), l < Len(f[k][a + 1])
        PROVE  current_frame'[k][a][BaseAddress(l)] = f[k][a + 1][l + 1]
    <3>1. renderer \in RendererType
      BY DEF TypeOK
    <3>2. Overlay(renderer, f) \in RendererType
      BY <2>1, <3>1, OverlayIs
    <3>3. Overlay(renderer, f)[k][a][l] = f[k][a + 1][l + 1]
      BY <2>1, <2>2, <3>1, OverlayIs
    <3>4. QED
      BY <2>1, <3>2, <3>3, BakeShows
  <2>3. QED
    BY <2>1, <2>2 DEF PlaybackShowsFrame
<1>6. QED
  BY <1>1, <1>2, <1>3, <1>4, <1>5, CaptureStep

LEMMA InitCapture == StageInit => TypeOK /\ CaptureInv
<1>1. StageInit => TypeOK
  BY InitType
<1>2. ASSUME StageInit PROVE CaptureInv
  <2>1. runtime.mode = "Demo"
    BY <1>2 DEF StageInit, DemoRuntime
  <2>2. FrameIsRendered
    <3>1. ASSUME NEW k \in Kind, NEW a \in Arc, NEW d \in Address
          PROVE  Dark[k][a][(d - 1) \div 6] = Off
      <4>1. PICK l \in Light : d = BaseAddress(l)
        BY DEF Address
      <4>2. (d - 1) \div 6 = l
        BY <4>1, StageAssumption DEF BaseAddress, Light
      <4>3. QED
        BY <4>2 DEF Dark, Uniform
    <3>2. QED
      BY <1>2, <3>1 DEF FrameIsRendered, Bake, StageInit
  <2>3. QED
    BY <2>1, <2>2 DEF CaptureInv, SessionTracksCursor, OlatOneLight, PlaybackShowsFrame
<1>3. QED
  BY <1>1, <1>2

LEMMA CaptureInvariant == StageSpec => [](TypeOK /\ CaptureInv)
<1>1. TypeOK /\ CaptureInv /\ [StageNext]_stageVars => (TypeOK /\ CaptureInv)'
  BY TypeStep, CursorStep, RenderedStep, OneLightStep, ShowsFrameStep DEF CaptureInv
<1>2. QED
  BY <1>1, InitCapture, PTL DEF StageSpec

\* The session and its animator stay in step, for any stage and any sequence.
THEOREM CursorCorrect == StageSpec => []SessionTracksCursor
<1>1. TypeOK /\ CaptureInv => SessionTracksCursor
  BY DEF CaptureInv
<1>2. QED
  BY <1>1, CaptureInvariant, PTL

\* The n-th frame of OLAT shows the n-th light and no other, for any stage.
THEOREM OlatCorrect == StageSpec => []OlatOneLight
<1>1. TypeOK /\ CaptureInv => OlatOneLight
  BY DEF CaptureInv
<1>2. QED
  BY <1>1, CaptureInvariant, PTL

\* The n-th frame of Playback shows the n-th stored frame, whatever its shape.
THEOREM PlaybackCorrect == StageSpec => []PlaybackShowsFrame
<1>1. TypeOK /\ CaptureInv => PlaybackShowsFrame
  BY DEF CaptureInv
<1>2. QED
  BY <1>1, CaptureInvariant, PTL
-----------------------------------------------------------------------------
(* StageState implements CaptureContract *)

\* A new runtime, announced by set_runtime alone, is a mode the client entered.
LEMMA EnterMapping ==
  ASSUME TypeOK, TypeOK', NEW new, SetRuntime(new, <<>>), new \in RuntimeType
  PROVE  Contract!Enter(new.mode)
<1>1. /\ runtime' = new
      /\ emitted' = IF new.mode = runtime.mode THEN <<>> ELSE <<ModeChanged(new.mode)>>
  BY DEF SetRuntime
<1>2. QED
  BY <1>1 DEF Contract!Enter, Contract!ModeChanged, ModeChanged

LEMMA TickMapping ==
  ASSUME TypeOK, TypeOK', SessionTracksCursor, SessionTracksCursor', AdvanceTick
  PROVE  Contract!Next
<1>1. CASE TickManual
  <2>1. /\ runtime.mode = "Manual" /\ runtime'.mode = "Manual"
        /\ runtime'.capture_requested = FALSE
    BY <1>1 DEF TickManual, ManualRuntime
  <2>2. FramesLeft = 0 /\ FramesLeft' = 0
    BY <2>1 DEF FramesLeft, InCapture, CaptureMode
  <2>3. TriggerQueued' = FALSE
    BY <2>1 DEF TriggerQueued
  <2>4. tick_result' = IF TriggerQueued THEN "TriggerCapture" ELSE "Continue"
    BY <1>1 DEF TickManual, TriggerQueued
  <2>5. Contract!ManualTick
    BY <1>1, <2>1, <2>2, <2>3, <2>4 DEF TickManual, Contract!ManualTick
  <2>6. QED
    BY <2>5 DEF Contract!Next
<1>2. CASE TickDemo
  <2>1. FramesLeft' = FramesLeft /\ TriggerQueued' = TriggerQueued
    BY <1>2 DEF TickDemo, FramesLeft, InCapture, TriggerQueued
  <2>2. Contract!IdleTick
    BY <1>2, <2>1 DEF TickDemo, Contract!IdleTick
  <2>3. QED
    BY <2>2 DEF Contract!Next
<1>3. ASSUME NEW r, FinishCapture(r), InCapture, FramesLeft = 0
      PROVE  Contract!Next
  <2>1. /\ runtime'.mode = "Demo" /\ runtime.mode \in CaptureMode
        /\ emitted' = <<CaptureFinished, ModeChanged("Demo")>>
        /\ tick_result' = "Finished"
    <3>1. Append(<<CaptureFinished>>, ModeChanged("Demo"))
            = <<CaptureFinished, ModeChanged("Demo")>>
      <4> DEFINE s == Append(<<CaptureFinished>>, ModeChanged("Demo"))
                 t == <<CaptureFinished, ModeChanged("Demo")>>
      <4>1. CaptureFinished \in Event /\ ModeChanged("Demo") \in Event
        BY DEF Event
      <4>2. s \in Seq(Event) /\ Len(s) = 2 /\ s[1] = CaptureFinished
              /\ s[2] = ModeChanged("Demo")
        BY <4>1
      <4>3. t \in Seq(Event) /\ Len(t) = 2 /\ t[1] = CaptureFinished
              /\ t[2] = ModeChanged("Demo")
        BY <4>1
      <4> HIDE DEF s, t
      <4>4. \A i \in 1 .. Len(s) : s[i] = t[i]
        BY <4>2, <4>3
      <4>5. s = t
        BY <4>2, <4>3, <4>4, SeqEqual
      <4>6. QED
        BY <4>5 DEF s, t
    <3>2. runtime.mode \in CaptureMode /\ runtime.mode # "Demo"
      BY <1>3 DEF InCapture, CaptureMode
    <3>3. /\ runtime'.mode = "Demo"
          /\ emitted' = Append(<<CaptureFinished>>, ModeChanged("Demo"))
          /\ tick_result' = "Finished"
      BY <1>3, <3>2 DEF FinishCapture, SetRuntime, DemoRuntime
    <3>4. QED
      BY <3>1, <3>2, <3>3
  <2>2. /\ FramesLeft' = 0
        /\ TriggerQueued' = FALSE /\ TriggerQueued = FALSE
    BY <2>1 DEF FramesLeft, InCapture, CaptureMode, TriggerQueued
  <2>3. Contract!FinishTick
    BY <1>3, <2>1, <2>2
       DEF Contract!FinishTick, Contract!CaptureMode, CaptureMode,
           Contract!CaptureFinished, CaptureFinished, Contract!ModeChanged, ModeChanged
  <2>4. QED
    BY <2>3 DEF Contract!Next
<1>4. ASSUME NEW new, NEW r, TickCapture(new, r), InCapture, InCapture',
             runtime'.mode = runtime.mode, FramesLeft > 0,
             FramesLeft' = FramesLeft - 1
      PROVE  Contract!Next
  <2>1. /\ runtime.mode \in CaptureMode
        /\ tick_result' = "TriggerCapture" /\ emitted' = <<>>
    BY <1>4 DEF TickCapture, InCapture
  <2>2. TriggerQueued' = FALSE /\ TriggerQueued = FALSE
    BY <1>4, <2>1 DEF CaptureMode, TriggerQueued
  <2>3. Contract!ShootTick
    BY <1>4, <2>1, <2>2 DEF Contract!ShootTick, Contract!CaptureMode, CaptureMode
  <2>4. QED
    BY <2>3 DEF Contract!Next
<1>5. NumArcs * LightsPerArc \in Nat
  BY StageAssumption
<1>6. CASE TickOlat /\ runtime.done
  <2>1. InCapture /\ FramesLeft = 0
    BY <1>5, <1>6 DEF TickOlat, FramesLeft, InCapture, CaptureMode, SessionTracksCursor
  <2>2. FinishCapture(Dark)
    BY <1>6 DEF TickOlat
  <2>3. QED
    BY <1>3, <2>1, <2>2
<1>7. CASE TickOlat /\ ~runtime.done
  <2>1. /\ runtime.mode = "OLAT"
        /\ TickCapture(AdvanceOlat(runtime),
                       OneLight(runtime.current_arc, runtime.current_light))
        /\ runtime' = AdvanceOlat(runtime)
    BY <1>7 DEF TickOlat, TickCapture
  <2>2. /\ runtime'.mode = "OLAT"
        /\ runtime'.session.total_frames = runtime.session.total_frames
        /\ runtime'.session.current_frame_idx = runtime.session.current_frame_idx + 1
    BY <2>1, AdvanceOlatIs DEF TypeOK
  <2>3. /\ runtime.session.total_frames \in Nat
        /\ runtime.session.current_frame_idx \in Nat
        /\ runtime.session.current_frame_idx < runtime.session.total_frames
    BY <1>5, <1>7, <2>1, CursorTypes DEF SessionTracksCursor
  <2>4. /\ InCapture /\ InCapture'
        /\ FramesLeft > 0 /\ FramesLeft' = FramesLeft - 1
    BY <2>1, <2>2, <2>3 DEF FramesLeft, InCapture, CaptureMode
  <2>5. QED
    BY <1>4, <2>1, <2>2, <2>4
<1>8. CASE TickPlayback
  <2>1. /\ runtime.mode = "Playback"
        /\ runtime.seq_index \in Nat
        /\ Len(runtime.sequence) \in Nat
        /\ runtime.session.total_frames = Len(runtime.sequence)
        /\ runtime.session.current_frame_idx = runtime.seq_index
        /\ runtime.seq_index <= Len(runtime.sequence)
    BY <1>8, CursorTypes DEF TickPlayback, SessionTracksCursor
  <2>2. CASE runtime.seq_index >= Len(runtime.sequence)
    <3>1. InCapture /\ FramesLeft = 0
      BY <2>1, <2>2 DEF FramesLeft, InCapture, CaptureMode
    <3>2. FinishCapture(renderer)
      BY <1>8, <2>2 DEF TickPlayback
    <3>3. QED
      BY <1>3, <3>1, <3>2
  <2>3. CASE runtime.seq_index < Len(runtime.sequence)
    <3>1. /\ runtime' = AdvancePlayback(runtime)
          /\ TickCapture(AdvancePlayback(runtime),
                         Overlay(renderer, runtime.sequence[runtime.seq_index + 1]))
      BY <1>8, <2>1, <2>3 DEF TickPlayback, TickCapture
    <3>2. /\ runtime'.mode = "Playback"
          /\ runtime'.session.total_frames = runtime.session.total_frames
          /\ runtime'.session.current_frame_idx = runtime.session.current_frame_idx + 1
      BY <2>1, <3>1, AdvancePlaybackIs DEF TypeOK
    <3>3. /\ InCapture /\ InCapture'
          /\ FramesLeft > 0 /\ FramesLeft' = FramesLeft - 1
      BY <2>1, <2>3, <3>2 DEF FramesLeft, InCapture, CaptureMode
    <3>4. QED
      BY <1>4, <2>1, <3>1, <3>2, <3>3
  <2>4. QED
    BY <2>1, <2>2, <2>3
<1>9. QED
  BY <1>1, <1>2, <1>6, <1>7, <1>8 DEF AdvanceTick

LEMMA RequestMapping ==
  ASSUME TypeOK, TypeOK', SessionTracksCursor', ApiCall
  PROVE  Contract!Next
<1>1. ASSUME NEW new \in RuntimeType, SetRuntime(new, <<>>),
             new.mode = "Demo" \/ new = ManualRuntime(FALSE),
             UNCHANGED tick_result
      PROVE  Contract!Next
  <2>1. /\ runtime' = new /\ new.mode \in {"Demo", "Manual"}
        /\ Contract!Enter(new.mode)
    BY <1>1, EnterMapping DEF SetRuntime, ManualRuntime
  <2>2. FramesLeft' = 0
    BY <2>1 DEF FramesLeft, InCapture, CaptureMode
  <2>3. TriggerQueued' = FALSE
    BY <1>1, <2>1 DEF TriggerQueued, ManualRuntime
  <2>4. Contract!BeginIdleOrManual
    BY <1>1, <2>1, <2>2, <2>3 DEF Contract!BeginIdleOrManual
  <2>5. QED
    BY <2>4 DEF Contract!Next
<1>2. ASSUME NEW new \in RuntimeType, TransitionTo(new), new.mode \in CaptureMode,
             new.session.total_frames \in Nat, new.session.current_frame_idx = 0
      PROVE  Contract!Next
  <2>1. runtime' = new /\ Contract!Enter(new.mode)
    BY <1>2, EnterMapping DEF TransitionTo, SetRuntime
  <2>2. FramesLeft' \in Nat
    BY <1>2, <2>1 DEF FramesLeft, InCapture
  <2>3. TriggerQueued' = FALSE
    BY <1>2, <2>1 DEF TriggerQueued, CaptureMode
  <2>4. Contract!BeginCapture
    BY <1>2, <2>1, <2>2, <2>3
       DEF TransitionTo, Contract!BeginCapture, Contract!CaptureMode, CaptureMode
  <2>5. QED
    BY <2>4 DEF Contract!Next
<1>3. ASSUME Rejected PROVE Contract!Next
  <2>1. FramesLeft' = FramesLeft /\ TriggerQueued' = TriggerQueued
    BY <1>3 DEF Rejected, FramesLeft, InCapture, TriggerQueued
  <2>2. Contract!Refuse
    BY <1>3, <2>1 DEF Rejected, Contract!Refuse
  <2>3. QED
    BY <2>2 DEF Contract!Next
<1>4. ASSUME NEW r, WithManualRenderer(r) PROVE Contract!Next
  BY <1>1, <1>4, ManualRuntimeType DEF WithManualRenderer
<1>5. CASE TransitionToDemo \/ TransitionToManual
  <2>1. DemoRuntime \in RuntimeType /\ DemoRuntime.mode = "Demo"
    BY DEF DemoRuntime, RuntimeType
  <2>2. QED
    BY <1>1, <1>5, <2>1, ManualRuntimeType
       DEF TransitionToDemo, TransitionToManual, TransitionTo
<1>6. CASE \E hz \in Rate : TransitionToOlat(hz)
  <2>1. NumArcs * LightsPerArc \in Nat
    BY StageAssumption
  <2>2. QED
    BY <1>2, <1>3, <1>6, <2>1, OlatRuntimeType, NewSession
       DEF TransitionToOlat, CaptureMode
<1>7. CASE \E seq \in Library : TransitionToPlayback(seq)
  <2>1. \A seq \in Library : Len(seq.frames) \in Nat
    BY StageAssumption DEF PlaybackSequence
  <2>2. QED
    BY <1>2, <1>3, <1>7, <2>1, PlaybackRuntimeType, NewSession
       DEF TransitionToPlayback, CaptureMode
<1>8. CASE \/ \E c \in ColourRequest, arc \in Arc, light \in Light :
                UpdateSingleFixture(arc, light, c)
           \/ \E c \in ColourRequest, arc \in Arc : UpdateArc(arc, c)
           \/ \E c \in ColourRequest : UpdateStage(c)
           \/ \E b \in Batch : UpdateBatch(b)
  BY <1>4, <1>8 DEF UpdateSingleFixture, UpdateArc, UpdateStage, UpdateBatch
<1>9. CASE RequestManualCapture
  <2>1. CASE runtime.mode = "Manual" /\ ~runtime.capture_requested
    <3>1. TransitionTo(ManualRuntime(TRUE))
      BY <1>9, <2>1 DEF RequestManualCapture
    <3>2. /\ runtime'.mode = "Manual" /\ runtime'.capture_requested = TRUE
          /\ emitted' = <<>>
      BY <2>1, <3>1 DEF TransitionTo, SetRuntime, ManualRuntime
    <3>3. /\ FramesLeft = 0 /\ FramesLeft' = 0
          /\ TriggerQueued = FALSE /\ TriggerQueued' = TRUE
      BY <2>1, <3>2 DEF FramesLeft, InCapture, CaptureMode, TriggerQueued
    <3>4. Contract!QueueTrigger
      BY <2>1, <3>1, <3>2, <3>3 DEF TransitionTo, Contract!QueueTrigger
    <3>5. QED
      BY <3>4 DEF Contract!Next
  <2>2. CASE ~(runtime.mode = "Manual" /\ ~runtime.capture_requested)
    BY <1>3, <1>9, <2>2 DEF RequestManualCapture
  <2>3. QED
    BY <2>1, <2>2
<1>10. QED
  BY <1>5, <1>6, <1>7, <1>8, <1>9 DEF ApiCall

\* The promises of CaptureContract hold of StageState: in particular a capture
\* asks for exactly total_frames shots and then, and only then, announces its
\* end, for any stage, any sequence and any interleaving of requests.
THEOREM StageImplementsContract == StageSpec => ContractSpec
<1>1. StageInit => Contract!Init
  BY DEF StageInit, DemoRuntime, Contract!Init, FramesLeft, InCapture, CaptureMode,
         TriggerQueued
<1>2. /\ TypeOK /\ CaptureInv
      /\ (TypeOK /\ CaptureInv)'
      /\ [StageNext]_stageVars
      => [Contract!Next]_(Contract!contractVars)
  <2>1. CASE UNCHANGED stageVars
    BY <2>1 DEF stageVars, Contract!contractVars, FramesLeft, InCapture, TriggerQueued
  <2>2. QED
    BY <2>1, TickMapping, RequestMapping DEF StageNext, CaptureInv
<1>3. QED
  BY <1>1, <1>2, CaptureInvariant, PTL DEF StageSpec, ContractSpec, Contract!Spec
=============================================================================
