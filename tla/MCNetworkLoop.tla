--------------------------- MODULE MCNetworkLoop ---------------------------
(***************************************************************************)
(* The network thread with a small stage: one run looks at frames and      *)
(* losses with a clock that is never late, the other at time with a stage  *)
(* of one light.                                                           *)
(***************************************************************************)
EXTENDS NetworkLoop, Config

CONSTANTS Dim, NaN, None

\* Started with "--max-refresh-rate 10".
MCConfig == FromCli([max_refresh_rate |-> 10, gpio_pin |-> NotGiven, no_gpio |-> FALSE])
MCRefreshMs == MCConfig.refresh_rate_ms
MCHasPin == MCConfig.gpio_pin # NotGiven

MCLevel == {Off, Dim, Full}
MCDemoPattern == {Uniform(Dim)}

\* With RefreshMs = 100: 10 Hz is one packet per frame, 4 Hz two of 125 ms,
\* 3 Hz three of 111 ms and 1 Hz ten of 100 ms.
MCFrameRate == {10, 4}
MCTimingRate == {10, 3, 1}

Lit(v) == [a \in 1 .. NumArcs |-> [l \in 1 .. LightsPerArc |-> v]]
MCLibrary == {
  [capture_hz |-> 4, frames |-> <<[rgb |-> Lit(Full), white |-> Lit(Off)]>>],
  [capture_hz |-> 10, frames |-> <<>>] }
MCNoLibrary == {}

MCColourRequest == {[rgb |-> Full, white |-> Off]}
MCNothing == {}

\* A broadcast may miss one supply.
MCLossSets == {{}, {<<"white", 0>>}}
MCNoLoss == {{}}

MCReliable == {TRUE}
MCUnreliable == {TRUE, FALSE}
MCOnTime == {0}
MCStalls == {0, 40, 300}
MCOversleeps == {0, 5}
=============================================================================
