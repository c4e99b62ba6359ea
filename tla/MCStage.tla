------------------------------- MODULE MCStage -------------------------------
(***************************************************************************)
(* A stage of two arcs with two lights each, and what its clients send.    *)
(***************************************************************************)
EXTENDS Stage

CONSTANTS Dim, NaN, None

MCLevel == {Off, Dim, Full}

\* The demo pattern is dim on every fixture, so that it differs from what the
\* other modes show.
MCDemoPattern == {Uniform(Dim)}

\* With RefreshMs = 100 and RateUnit = 1 the fastest valid rate is 10 Hz.
MCRate == {4, 10, 11, 0, NaN}

Every(v) == [a \in 1 .. NumArcs |-> [l \in 1 .. LightsPerArc |-> v]]

\* A whole frame; one that lists only the first arc's fixtures, one fixture too
\* many; and one with an arc the stage does not have and no white fixtures.
WholeFrame == [rgb |-> Every(Full), white |-> Every(Off)]
FirstArcFrame == [rgb |-> << <<Dim, Off, Full>> >>, white |-> << <<Off>> >>]
TallFrame == [rgb |-> << <<>>, <<Full>>, <<Dim>> >>, white |-> <<>>]

\* Sequences as clients store them: upload validates neither rate nor shape.
MCLibrary == {
  [capture_hz |-> 4, frames |-> <<WholeFrame, FirstArcFrame, TallFrame>>],
  [capture_hz |-> 10, frames |-> <<>>],
  [capture_hz |-> 11, frames |-> <<WholeFrame>>] }

MCColourRequest == {
  [rgb |-> Full, white |-> Keep],
  [rgb |-> Keep, white |-> Dim] }

\* The empty batch, and one that writes a fixture twice.
MCBatch == {
  <<>>,
  << [arc |-> 1, light |-> 0, colour |-> [rgb |-> Full, white |-> Keep]],
     [arc |-> 1, light |-> 0, colour |-> [rgb |-> Keep, white |-> Dim]] >> }
=============================================================================
