----------------------------- MODULE FrameTiming -----------------------------
(***************************************************************************)
(* Capture rates and the timing derived from them: CaptureConfig::validate *)
(* (lsserver/src/state.rs) and FrameTiming::calculate                      *)
(* (lsserver/src/network.rs).                                              *)
(*                                                                         *)
(* A rate is an integer number of 1/RateUnit Hz, so that the quotients the *)
(* code computes in f64 are exact here; NonFinite stands for the NaN and   *)
(* infinities a client may send.  Times are integer milliseconds.          *)
(***************************************************************************)
EXTENDS Integers

CONSTANTS
  RefreshMs,   \* ServerConfig::refresh_rate_ms, the shortest DMX refresh period
  RateUnit,    \* rate units per Hz
  NonFinite,   \* a capture_hz that is not a finite number
  NoRate       \* capture_hz of a mode without a capture session (None)

ASSUME TimingAssumption ==
  /\ RefreshMs \in Nat \ {0}
  /\ RateUnit \in Nat \ {0}
  /\ NonFinite \notin Int
  /\ NoRate \notin Int

\* Rate units in one refresh per millisecond: max_hz = UnitsPerMs / RefreshMs.
UnitsPerMs == 1000 * RateUnit

\* CaptureConfig::validate: finite, positive, at most the maximum refresh rate.
ValidRate(hz) ==
  /\ hz # NonFinite
  /\ hz > 0
  /\ hz * RefreshMs <= UnitsPerMs

\* Frames that are sent once, however long they are shown.
SubTicksOnce(hz) == 1

\* Frames whose packets are rounded up.
SubTicksUp(hz) == (UnitsPerMs + RefreshMs * hz - 1) \div (RefreshMs * hz)

\* DMX packets per animator frame: floor(max_network_hz / hz), at least one.
SubTicks(hz) ==
  LET k == UnitsPerMs \div (RefreshMs * hz)
  IN  IF k < 1 THEN 1 ELSE k

\* 1 / min(hz * sub_ticks, max_network_hz), rounded down to the clock's unit.
TickMs(hz) ==
  IF hz * SubTicks(hz) * RefreshMs > UnitsPerMs
    THEN RefreshMs
    ELSE UnitsPerMs \div (hz * SubTicks(hz))

BaseTiming == [sub_ticks_per_frame |-> 1, tick_duration |-> RefreshMs]

\* FrameTiming::calculate.  Without a session rate a capture mode would run at
\* max_network_hz, which is the timing of Demo and Manual.
Calculate(mode, hz) ==
  IF mode \in {"Demo", "Manual"} \/ hz = NoRate
    THEN BaseTiming
    ELSE [sub_ticks_per_frame |-> SubTicks(hz), tick_duration |-> TickMs(hz)]
=============================================================================
