---------------------------- MODULE NetworkProofs ----------------------------
(***************************************************************************)
(* Proofs about the network thread for every stage, every way the thread   *)
(* is held up, every loss of datagrams and every client.                   *)
(*                                                                         *)
(* The thread takes no step the stage does not allow, so what StageProofs  *)
(* shows of the stage holds here.  On top of it each property has an       *)
(* invariant of its own: TurnInv of the packets of a logical frame,        *)
(* ShotInv of the shutter releases of a capture, PulseInv of the pin,      *)
(* PaceInv of the schedule.  The rates of packets and frames follow from   *)
(* TickConfined, which is arithmetic.                                      *)
(***************************************************************************)
EXTENDS NetworkLoop, StageProofs

-----------------------------------------------------------------------------
(* The thread drives the stage *)

\* Every step of the thread or of a handler is a step of the stage or none.
LEMMA NetworkStepIsStageStep == [NetworkNext]_networkVars => [StageNext]_stageVars
<1>1. CASE LoopStep
  BY <1>1 DEF LoopStep, ReleasePin, Tick, AdvanceStage, Broadcast, Send, Fire, Pace,
              StageNext, stageVars
<1>2. CASE Request
  BY <1>2 DEF Request, StageNext
<1>3. CASE UNCHANGED networkVars
  BY <1>3 DEF networkVars
<1>4. QED
  BY <1>1, <1>2, <1>3 DEF NetworkNext

\* NetworkManager::run changes the stage only through advance_tick, at any
\* moment and however often, so all that is proved of StageState holds under it.
THEOREM NetworkRefinesStage == NetworkSpec => StageSpec
<1>1. NetworkInit => StageInit
  BY DEF NetworkInit
<1>2. QED
  BY <1>1, NetworkStepIsStageStep, PTL DEF NetworkSpec, StageSpec

\* What is known of the stage at every moment of the thread.
LEMMA StageUnderNetwork == NetworkSpec => [](TypeOK /\ CaptureInv)
BY NetworkRefinesStage, CaptureInvariant, PTL
-----------------------------------------------------------------------------
(* Types, and the timing of a frame *)

Timing == [sub_ticks_per_frame : Nat \ {0}, tick_duration : Nat \ {0}]

\* A positive number is not more than its product with another.
LEMMA ProductAtLeast ==
  ASSUME NEW x \in Nat, NEW y \in Nat \ {0}
  PROVE  x <= x * y
<1>1. PICK d \in Nat : y = d + 1
  <2>1. y - 1 \in Nat
    OBVIOUS
  <2>2. QED
    BY <2>1
<1>2. x * y = x * d + x /\ x * d \in Nat
  BY <1>1
<1>3. QED
  BY <1>2

\* A frame gets at least one packet at any rate validate lets through.
LEMMA SubTicksPositive ==
  ASSUME NEW hz \in Int, hz > 0
  PROVE  SubTicks(hz) \in Nat \ {0}
<1>1. RefreshMs * hz \in Nat \ {0} /\ UnitsPerMs \in Nat \ {0}
  BY TimingAssumption DEF UnitsPerMs
<1>2. UnitsPerMs \div (RefreshMs * hz) \in Int
  BY <1>1
<1>3. QED
  BY <1>2 DEF SubTicks

\* A tick lasts at least a millisecond, so the loop never divides the time of
\* a frame into nothing.
LEMMA TickPositive ==
  ASSUME NEW hz \in Int, hz > 0
  PROVE  TickMs(hz) \in Nat \ {0}
<1> DEFINE rate == hz * SubTicks(hz)
<1>1. rate \in Nat \ {0}
  BY SubTicksPositive
<1>2. UnitsPerMs \in Nat \ {0}
  BY TimingAssumption DEF UnitsPerMs
<1>3. CASE rate * RefreshMs > UnitsPerMs
  BY <1>3, TimingAssumption DEF TickMs
<1>4. CASE ~(rate * RefreshMs > UnitsPerMs)
  <2> HIDE DEF rate
  <2>1. rate * RefreshMs \in Nat /\ rate <= rate * RefreshMs
    BY <1>1, TimingAssumption, ProductAtLeast
  <2>2. rate <= UnitsPerMs
    BY <1>1, <1>2, <1>4, <2>1
  <2>3. UnitsPerMs \div rate \in Nat \ {0}
    BY <1>1, <1>2, <2>2
  <2>4. QED
    BY <1>4, <2>3 DEF TickMs, rate
<1>5. QED
  BY <1>3, <1>4

\* The quotient of two positive numbers and its remainder.
LEMMA Quotient ==
  ASSUME NEW a \in Nat, NEW b \in Nat \ {0}
  PROVE  /\ a \div b \in Nat
         /\ b * (a \div b) <= a
         /\ a < b * (a \div b) + b
OBVIOUS

\* At a rate validate lets through, a tick is what the packets of a frame leave to
\* each, no shorter than a refresh and shorter than two.
LEMMA TickConfined ==
  ASSUME NEW hz \in Int, ValidRate(hz)
  PROVE  /\ RefreshMs <= TickMs(hz) /\ TickMs(hz) < 2 * RefreshMs
         /\ hz * SubTicks(hz) * TickMs(hz) <= UnitsPerMs
         /\ UnitsPerMs < hz * SubTicks(hz) * (TickMs(hz) + 1)
<1> DEFINE k == UnitsPerMs \div (RefreshMs * hz)
           rate == hz * k
<1>1. /\ hz \in Nat \ {0} /\ RefreshMs \in Nat \ {0} /\ UnitsPerMs \in Nat \ {0}
      /\ hz * RefreshMs <= UnitsPerMs
  BY TimingAssumption DEF ValidRate, UnitsPerMs
<1>2. RefreshMs * hz \in Nat \ {0} /\ RefreshMs * hz = hz * RefreshMs
  BY <1>1
<1>3. /\ k \in Nat
      /\ RefreshMs * hz * k <= UnitsPerMs
      /\ UnitsPerMs < RefreshMs * hz * k + RefreshMs * hz
  BY <1>1, <1>2, Quotient
<1> HIDE DEF k
<1>4. k >= 1
  <2>1. SUFFICES k # 0
    BY <1>3
  <2>2. k = 0 => RefreshMs * hz * k = 0
    BY <1>2
  <2>3. QED
    BY <1>1, <1>2, <1>3, <2>2
<1>5. SubTicks(hz) = k
  BY <1>3, <1>4 DEF SubTicks, k
<1>6. rate \in Nat \ {0} /\ rate >= hz /\ rate * RefreshMs = RefreshMs * hz * k
  <2>1. hz <= hz * k
    BY <1>1, <1>3, <1>4, ProductAtLeast
  <2>2. QED
    BY <1>1, <1>3, <2>1
<1>7. TickMs(hz) = UnitsPerMs \div rate
  BY <1>1, <1>3, <1>5, <1>6 DEF TickMs
<1> HIDE DEF rate
<1> DEFINE tick == UnitsPerMs \div rate
<1>8. tick \in Nat /\ rate * tick <= UnitsPerMs /\ UnitsPerMs < rate * tick + rate
  BY <1>1, <1>6, Quotient
<1> HIDE DEF tick
<1>9. RefreshMs <= tick
  <2>1. SUFFICES ASSUME tick + 1 <= RefreshMs PROVE FALSE
    BY <1>1, <1>8
  <2>2. PICK d \in Nat : RefreshMs = tick + 1 + d
    <3>1. RefreshMs - (tick + 1) \in Nat
      BY <1>1, <1>8, <2>1
    <3>2. RefreshMs = tick + 1 + (RefreshMs - (tick + 1))
      BY <1>1, <1>8
    <3>3. QED
      BY ONLY <3>1, <3>2
  <2>3. rate * RefreshMs = rate * tick + rate + rate * d /\ rate * d \in Nat
    BY <1>6, <1>8, <2>2
  <2>4. QED
    BY <1>1, <1>3, <1>6, <1>8, <2>3
<1>10. tick < 2 * RefreshMs
  <2>1. SUFFICES ASSUME 2 * RefreshMs <= tick PROVE FALSE
    BY <1>1, <1>8
  <2>2. PICK d \in Nat : tick = 2 * RefreshMs + d
    <3>1. tick - 2 * RefreshMs \in Nat
      BY <1>1, <1>8, <2>1
    <3>2. QED
      BY <1>1, <1>8, <3>1
  <2>3. rate * tick = rate * RefreshMs + rate * RefreshMs + rate * d /\ rate * d \in Nat
    BY <1>1, <1>6, <2>2
  <2>4. RefreshMs * hz <= rate * RefreshMs
    <3>1. PICK c \in Nat : rate = hz + c
      <4>1. rate - hz \in Nat
        BY <1>1, <1>6
      <4>2. QED
        BY <1>1, <1>6, <4>1
    <3>2. rate * RefreshMs = hz * RefreshMs + c * RefreshMs /\ c * RefreshMs \in Nat
      BY <1>1, <3>1
    <3>3. QED
      BY <1>1, <1>2, <3>2
  <2>5. rate * RefreshMs \in Nat /\ rate * tick \in Nat
    BY <1>1, <1>6, <1>8
  <2>6. QED
    BY <1>1, <1>2, <1>3, <1>6, <1>8, <2>3, <2>4, <2>5
<1>11. /\ hz * SubTicks(hz) * TickMs(hz) = rate * tick
       /\ hz * SubTicks(hz) * (TickMs(hz) + 1) = rate * tick + rate
  <2>1. hz * SubTicks(hz) = rate
    BY <1>5 DEF rate
  <2>2. rate * (tick + 1) = rate * tick + rate
    BY <1>6, <1>8
  <2>3. QED
    BY <1>7, <2>1, <2>2 DEF tick
<1>12. QED
  BY <1>7, <1>8, <1>9, <1>10, <1>11 DEF tick

LEMMA CalculateType ==
  ASSUME NEW mode, NEW hz \in {r \in Rate : ValidRate(r)} \cup {NoRate}
  PROVE  Calculate(mode, hz) \in Timing
<1>1. BaseTiming \in Timing
  BY TimingAssumption DEF BaseTiming, Timing
<1>2. ASSUME hz # NoRate
      PROVE  hz \in Int /\ hz > 0
  BY <1>2, StageAssumption DEF ValidRate
<1>3. QED
  BY <1>1, <1>2, SubTicksPositive, TickPositive DEF Calculate, Timing

\* The rate of a stage in any mode is one validate let through, or none.
LEMMA CaptureHzType ==
  ASSUME TypeOK
  PROVE  CaptureHz(runtime) \in {r \in Rate : ValidRate(r)} \cup {NoRate}
BY DEF TypeOK, RuntimeType, SessionType, CaptureHz, CaptureMode, DemoRuntime

\* d ms later the times left and passed are times.
LEMMA ElapseType ==
  ASSUME off_in \in Nat \cup {NoTime}, queued \in Nat, since_fire \in 0 .. PulseMs,
         NEW d \in Nat, NEW packets \in {0, 1}, Elapse(d, packets)
  PROVE  /\ off_in' \in Nat \cup {NoTime}
         /\ queued' \in Nat
         /\ since_fire' \in 0 .. PulseMs
         /\ off_in = NoTime => off_in' = NoTime
         /\ off_in # NoTime => off_in' = After(off_in, d)
BY NetworkAssumption, TimingAssumption DEF Elapse, After, NoTime

\* A tick of the stage, seen by the thread: a frame, a timing, a trigger.
LEMMA AdvanceType ==
  ASSUME NetworkTypeOK, TypeOK, TypeOK', AdvanceStage
  PROVE  /\ net_frame' \in Frame
         /\ timing' \in Timing
         /\ should_trigger' \in BOOLEAN
         /\ refreshes' \in Nat
         /\ shot' \in [mode : {"Demo", "Manual"} \cup CaptureMode, number : Nat]
         /\ fired' \in Nat
<1>1. net_frame' \in Frame
  BY DEF AdvanceStage, TypeOK
<1>2. timing' \in Timing
  <2>1. CaptureHz(runtime') \in {r \in Rate : ValidRate(r)} \cup {NoRate}
    BY DEF TypeOK, RuntimeType, SessionType, CaptureHz, CaptureMode, DemoRuntime
  <2>2. QED
    BY <2>1, CalculateType DEF AdvanceStage
<1>3. shot' \in [mode : {"Demo", "Manual"} \cup CaptureMode, number : Nat]
  <2>1. runtime.mode \in {"Demo", "Manual"} \cup CaptureMode
    BY DEF TypeOK, RuntimeType, DemoRuntime, CaptureMode
  <2>2. CASE InCapture /\ tick_result' = "TriggerCapture"
    <3>1. runtime'.mode \in CaptureMode
      BY <2>2 DEF AdvanceStage, AdvanceTick, TickManual, TickDemo, TickOlat, TickPlayback,
                  FinishCapture, TickCapture, InCapture, CaptureMode, AdvanceOlat,
                  AdvancePlayback, TypeOK, RuntimeType, DemoRuntime
    <3>2. runtime'.session.current_frame_idx \in Nat
      BY <3>1 DEF TypeOK, RuntimeType, SessionType, DemoRuntime, CaptureMode
    <3>3. shot' = [mode |-> runtime.mode, number |-> runtime'.session.current_frame_idx]
      BY <2>2 DEF AdvanceStage
    <3>4. QED
      BY <2>1, <3>2, <3>3
  <2>3. CASE ~(InCapture /\ tick_result' = "TriggerCapture")
    BY <2>1, <2>3 DEF AdvanceStage
  <2>4. QED
    BY <2>2, <2>3
<1>4. fired' \in Nat
  BY DEF AdvanceStage, NetworkTypeOK
<1>5. QED
  BY <1>1, <1>2, <1>3, <1>4 DEF AdvanceStage

LEMMA NextSubTickType ==
  ASSUME NEW counter \in Nat, NEW n \in Nat \ {0}
  PROVE  /\ NextSubTick(counter, n) \in 0 .. n - 1
         /\ counter + 1 < n => NextSubTick(counter, n) = counter + 1
         /\ counter + 1 >= n => NextSubTick(counter, n) = 0
BY DEF NextSubTick

\* What a broadcast leaves at the supplies.
LEMMA DeliveredIs ==
  ASSUME net_frame \in Frame, wire \in Frame, NEW lostNow \in SUBSET Supply
  PROVE  /\ Delivered(lostNow) \in Frame
         /\ \A x \in Supply \ lostNow : Delivered(lostNow)[x[1]][x[2]] = net_frame[x[1]][x[2]]
BY DEF Delivered, Frame, Supply

\* A write to the pin, which takes effect if it succeeds.
LEMMA SetPinIs ==
  ASSUME pin \in BOOLEAN, NEW value \in BOOLEAN, SetPin(value)
  PROVE  pin' \in BOOLEAN /\ gpio_ok' \in BOOLEAN /\ (gpio_ok' => pin' = value)
BY NetworkAssumption DEF SetPin

LEMMA NetworkTypeStep ==
  ASSUME NetworkTypeOK, TypeOK, TypeOK', [NetworkNext]_networkVars
  PROVE  NetworkTypeOK'
<1> USE DEF NetworkTypeOK
<1>1. CASE ReleasePin
  <2>1. pin' \in BOOLEAN /\ gpio_ok' \in BOOLEAN
    BY <1>1, SetPinIs DEF ReleasePin
  <2>2. QED
    BY <1>1, <2>1 DEF ReleasePin, NoTime
<1>2. CASE Tick
  <2>1. timing' \in Timing
    BY <1>2, AdvanceType DEF Tick, Timing
  <2>2. sub_tick_counter' \in Nat
    BY <1>2, <2>1, NextSubTickType DEF Tick, Timing
  <2>3. CASE sub_tick_counter = 0
    <3>1. AdvanceStage
      BY <1>2, <2>3 DEF Tick
    <3>2. QED
      BY <1>2, <2>1, <2>2, <3>1, AdvanceType DEF Tick, Timing
  <2>4. CASE sub_tick_counter # 0
    BY <1>2, <2>2, <2>4 DEF Tick
  <2>5. QED
    BY <2>3, <2>4
<1>3. ASSUME NEW lostNow \in LossSets, Send(lostNow)
      PROVE  NetworkTypeOK'
  <2>1. lostNow \subseteq Supply
    BY NetworkAssumption
  <2>2. wire' \in Frame
    BY <1>3, <2>1, DeliveredIs DEF Send
  <2>3. PICK s \in Nat : Elapse(s, 1) /\ lead' = lead - s
    BY <1>3, NetworkAssumption DEF Send
  <2>4. QED
    BY <1>3, <2>1, <2>2, <2>3, ElapseType DEF Send
<1>4. CASE Fire
  <2>1. pin' \in BOOLEAN /\ gpio_ok' \in BOOLEAN
    BY <1>4, SetPinIs DEF Fire, PressShutter
  <2>2. off_in' \in Nat \cup {NoTime} /\ should_trigger' \in BOOLEAN
    BY <1>4, NetworkAssumption DEF Fire, PressShutter
  <2>3. lead' \in Int /\ queued' \in Nat /\ fired' \in Nat /\ since_fire' \in 0 .. PulseMs
    BY <1>4, NetworkAssumption DEF Fire
  <2>4. QED
    BY <1>4, <2>1, <2>2, <2>3 DEF Fire
<1>5. CASE Pace
  <2>1. lead + timing.tick_duration \in Int
    OBVIOUS
  <2>2. PICK d \in Nat : Elapse(d, 0) /\ lead' \in Int
    BY <1>5, <2>1, NetworkAssumption DEF Pace, Sleep
  <2>3. QED
    BY <1>5, <2>2, ElapseType DEF Pace
<1>6. CASE Request
  BY <1>6 DEF Request, threadVars, historyVars
<1>7. CASE UNCHANGED networkVars
  BY <1>7 DEF networkVars, threadVars, historyVars
<1>8. QED
  BY <1>1, <1>2, <1>3, <1>4, <1>5, <1>6, <1>7 DEF NetworkNext, LoopStep, Broadcast

LEMMA NetworkInitType == NetworkInit => NetworkTypeOK
<1>1. ASSUME NetworkInit PROVE NetworkTypeOK
  <2>1. TypeOK
    BY <1>1, InitType DEF NetworkInit
  <2>2. current_frame \in Frame
    BY <2>1 DEF TypeOK
  <2>3. timing \in Timing /\ refreshes \in Nat
    BY <1>1, TimingAssumption DEF NetworkInit, BaseTiming, Timing
  <2>4. /\ off_in \in Nat \cup {NoTime}
        /\ since_fire \in 0 .. PulseMs
        /\ shot \in [mode : {"Demo", "Manual"} \cup CaptureMode, number : Nat]
    BY <1>1, NetworkAssumption DEF NetworkInit
  <2>5. /\ pc \in {"pin", "tick", "send", "fire", "pace"}
        /\ pin \in BOOLEAN /\ should_trigger \in BOOLEAN /\ gpio_ok \in BOOLEAN
        /\ lost \subseteq Supply
    BY <1>1 DEF NetworkInit
  <2>6. /\ sub_tick_counter \in Nat /\ lead \in Int /\ fired \in Nat /\ queued \in Nat
        /\ net_frame \in Frame /\ wire \in Frame
    BY <1>1, <2>2 DEF NetworkInit
  <2>7. QED
    BY <2>3, <2>4, <2>5, <2>6 DEF NetworkTypeOK, Timing
<1>2. QED
  BY <1>1

LEMMA NetworkTypes == NetworkSpec => [](TypeOK /\ CaptureInv /\ NetworkTypeOK)
<1>1. NetworkTypeOK /\ TypeOK /\ TypeOK' /\ [NetworkNext]_networkVars => NetworkTypeOK'
  BY NetworkTypeStep
<1>2. QED
  BY <1>1, NetworkInitType, StageUnderNetwork, PTL DEF NetworkSpec

\* The thread's frame always fits the supplies, its timing is never zero, and
\* its deadlines are times.
THEOREM NetworkTypeCorrect == NetworkSpec => []NetworkTypeOK
BY NetworkTypes, PTL

\* The timing a tick of the stage yields is that of Demo and Manual or that of a
\* valid rate.
LEMMA AdvanceTiming ==
  ASSUME TypeOK', AdvanceStage
  PROVE  /\ RefreshMs <= timing'.tick_duration /\ timing'.tick_duration < 2 * RefreshMs
         /\ InCapture' =>
              LET hz == runtime'.session.capture_hz
                  packets == timing'.sub_ticks_per_frame
              IN  /\ hz * packets * timing'.tick_duration <= UnitsPerMs
                  /\ UnitsPerMs < hz * packets * (timing'.tick_duration + 1)
<1>1. timing' = Calculate(runtime'.mode, CaptureHz(runtime'))
  BY DEF AdvanceStage
<1>2. CASE InCapture'
  <2> DEFINE hz == runtime'.session.capture_hz
  <2>1. CaptureHz(runtime') = hz /\ runtime'.mode \notin {"Demo", "Manual"}
    BY <1>2 DEF CaptureHz, InCapture, CaptureMode
  <2>2. hz \in Rate /\ ValidRate(hz)
    BY <1>2 DEF TypeOK, RuntimeType, SessionType, InCapture, CaptureMode, DemoRuntime
  <2>3. hz \in Int /\ hz # NoRate
    BY <2>2, TimingAssumption, StageAssumption DEF ValidRate
  <2> HIDE DEF hz
  <2>4. timing' = [sub_ticks_per_frame |-> SubTicks(hz), tick_duration |-> TickMs(hz)]
    BY <1>1, <2>1, <2>3 DEF Calculate
  <2>5. /\ RefreshMs <= TickMs(hz) /\ TickMs(hz) < 2 * RefreshMs
        /\ hz * SubTicks(hz) * TickMs(hz) <= UnitsPerMs
        /\ UnitsPerMs < hz * SubTicks(hz) * (TickMs(hz) + 1)
    BY <2>2, <2>3, TickConfined
  <2>6. QED
    BY <2>4, <2>5 DEF hz
<1>3. CASE ~InCapture'
  <2>1. runtime'.mode \in {"Demo", "Manual"}
    BY <1>3 DEF TypeOK, RuntimeType, InCapture, CaptureMode, DemoRuntime
  <2>2. timing' = BaseTiming
    BY <1>1, <2>1 DEF Calculate
  <2>3. QED
    BY <1>3, <2>2, TimingAssumption DEF BaseTiming
<1>4. QED
  BY <1>2, <1>3

\* The tick the loop aims at is never shorter than the refresh period and never twice
\* as long, for any rates and any refresh period.
THEOREM RefreshConfinedCorrect == NetworkSpec => []RefreshConfined
<1>1. NetworkInit => RefreshConfined
  BY TimingAssumption DEF NetworkInit, RefreshConfined, BaseTiming
<1>2. TypeOK' /\ RefreshConfined /\ [NetworkNext]_networkVars => RefreshConfined'
  <2> SUFFICES ASSUME TypeOK', RefreshConfined, [NetworkNext]_networkVars
               PROVE  RefreshConfined'
    OBVIOUS
  <2>1. CASE AdvanceStage
    BY <2>1, AdvanceTiming DEF RefreshConfined
  <2>2. CASE UNCHANGED timing
    BY <2>2 DEF RefreshConfined
  <2>3. AdvanceStage \/ UNCHANGED timing
    BY DEF NetworkNext, LoopStep, ReleasePin, Tick, Broadcast, Send, Fire, Pace, Request,
           networkVars, threadVars
  <2>4. QED
    BY <2>1, <2>2, <2>3
<1>3. QED
  BY <1>1, <1>2, StageUnderNetwork, PTL DEF NetworkSpec

\* A frame of a capture is shown as long as its rate says, but for the rounding of
\* its packets' ticks to the clock.
THEOREM RateKeptCorrect == NetworkSpec => RateKept
<1> DEFINE Kept ==
      pc = "tick" /\ sub_tick_counter = 0 /\ pc' = "send" /\ InCapture' =>
        LET hz == runtime'.session.capture_hz
            packets == timing'.sub_ticks_per_frame
        IN  /\ hz * packets * timing'.tick_duration <= UnitsPerMs
            /\ UnitsPerMs < hz * packets * (timing'.tick_duration + 1)
<1>1. TypeOK' /\ [NetworkNext]_networkVars => [Kept]_networkVars
  <2> SUFFICES ASSUME TypeOK', NetworkNext, pc = "tick", sub_tick_counter = 0,
                      pc' = "send", InCapture'
               PROVE  Kept
    OBVIOUS
  <2>1. AdvanceStage
    BY DEF NetworkNext, LoopStep, ReleasePin, Tick, Broadcast, Send, Fire, Pace, Request,
           threadVars
  <2>2. QED
    BY <2>1, AdvanceTiming
<1>2. QED
  BY <1>1, StageUnderNetwork, PTL DEF NetworkSpec, RateKept
-----------------------------------------------------------------------------
(* The packets of a logical frame *)

\* Packets of this frame sent when the broadcast of this turn is over.
SentThisTurn == IF pc = "send" THEN refreshes + 1 ELSE refreshes

\* The counter is the number of packets of the frame in hand, 0 for all of them.
TurnInv ==
  /\ sub_tick_counter < timing.sub_ticks_per_frame
  /\ SentThisTurn = IF sub_tick_counter = 0 THEN timing.sub_ticks_per_frame
                                            ELSE sub_tick_counter

LEMMA TurnStep ==
  ASSUME NetworkTypeOK, NetworkTypeOK', TurnInv, [NetworkNext]_networkVars
  PROVE  TurnInv'
<1> USE DEF TurnInv, SentThisTurn
<1>1. CASE Tick
  <2>1. /\ timing.sub_ticks_per_frame \in Nat \ {0}
        /\ timing'.sub_ticks_per_frame \in Nat \ {0}
        /\ sub_tick_counter \in Nat
    BY DEF NetworkTypeOK
  <2>2. sub_tick_counter' = NextSubTick(sub_tick_counter, timing'.sub_ticks_per_frame)
    BY <1>1 DEF Tick
  <2>3. CASE sub_tick_counter = 0
    <3>1. refreshes' = 0 /\ pc' = "send"
      BY <1>1, <2>3 DEF Tick, AdvanceStage
    <3>2. QED
      BY <2>1, <2>2, <2>3, <3>1, NextSubTickType
  <2>4. CASE sub_tick_counter # 0
    <3>1. UNCHANGED <<timing, refreshes>> /\ pc' = "send" /\ pc = "tick"
      BY <1>1, <2>4 DEF Tick
    <3>2. refreshes = sub_tick_counter
      BY <2>4, <3>1
    <3>3. QED
      BY <2>1, <2>2, <2>4, <3>1, <3>2, NextSubTickType
  <2>5. QED
    BY <2>3, <2>4
<1>2. CASE \E lostNow \in LossSets : Send(lostNow)
  BY <1>2 DEF Send
<1>3. CASE ReleasePin \/ Fire \/ Pace
  BY <1>3 DEF ReleasePin, Fire, Pace
<1>4. CASE Request \/ UNCHANGED networkVars
  BY <1>4 DEF Request, networkVars, threadVars, historyVars
<1>5. QED
  BY <1>1, <1>2, <1>3, <1>4 DEF NetworkNext, LoopStep, Broadcast

\* Every logical frame gets the packets its rate asks for, no more and no fewer,
\* whatever becomes of mode and rate while they are sent.
THEOREM RefreshesCorrect == NetworkSpec => []ExactRefreshes
<1>1. NetworkInit => TurnInv
  BY DEF NetworkInit, TurnInv, SentThisTurn, BaseTiming
<1>2. NetworkTypeOK /\ NetworkTypeOK' /\ TurnInv /\ [NetworkNext]_networkVars => TurnInv'
  BY TurnStep
<1>3. TurnInv => ExactRefreshes
  BY DEF TurnInv, SentThisTurn, ExactRefreshes
<1>4. QED
  BY <1>1, <1>2, <1>3, NetworkTypeCorrect, PTL DEF NetworkSpec
-----------------------------------------------------------------------------
(* The shutter *)

\* The frame in the thread's hands shows light n of OLAT alone.
HoldsLight(n) ==
  \A k \in Kind, a \in Arc, l \in Light :
    net_frame[k][a][BaseAddress(l)] =
      IF k = "white" /\ a * LightsPerArc + l = n - 1 THEN Full ELSE Off

\* A frame waits for the shutter only until the turn is over; the shutter was
\* pressed for every frame before it; and a capture that has shown frames is the
\* one the thread shot last.
ShotInv ==
  /\ pc = "fire" => should_trigger
  /\ pc \in {"pace", "pin", "tick"} => ~should_trigger
  /\ shot.number > 0 =>
       fired = IF should_trigger THEN shot.number - 1 ELSE shot.number
  /\ InCapture /\ runtime.session.current_frame_idx > 0 =>
       shot.number = runtime.session.current_frame_idx
  /\ shot.number > 0 /\ shot.mode = "OLAT" => HoldsLight(shot.number)
  /\ pc = "fire" => \A x \in Supply \ lost : wire[x[1]][x[2]] = net_frame[x[1]][x[2]]

\* No request of a client continues a capture that has begun, except by doing
\* nothing to it.
LEMMA RequestLeavesCapture ==
  ASSUME TypeOK, ApiCall, InCapture', runtime'.session.current_frame_idx > 0
  PROVE  InCapture /\ runtime' = runtime
<1>1. ASSUME NEW r, WithManualRenderer(r)
      PROVE  FALSE
  BY <1>1 DEF WithManualRenderer, SetRuntime, ManualRuntime, InCapture, CaptureMode
<1>2. CASE TransitionToDemo \/ TransitionToManual
  BY <1>2 DEF TransitionToDemo, TransitionToManual, TransitionTo, SetRuntime,
              DemoRuntime, ManualRuntime, InCapture, CaptureMode
<1>3. CASE \E hz \in Rate : TransitionToOlat(hz)
  BY <1>3, NewSession DEF TransitionToOlat, TransitionTo, SetRuntime, Rejected, InCapture
<1>4. CASE \E seq \in Library : TransitionToPlayback(seq)
  BY <1>4, NewSession DEF TransitionToPlayback, TransitionTo, SetRuntime, Rejected, InCapture
<1>5. CASE \/ \E c \in ColourRequest, arc \in Arc, light \in Light :
                UpdateSingleFixture(arc, light, c)
           \/ \E c \in ColourRequest, arc \in Arc : UpdateArc(arc, c)
           \/ \E c \in ColourRequest : UpdateStage(c)
           \/ \E b \in Batch : UpdateBatch(b)
  BY <1>1, <1>5 DEF UpdateSingleFixture, UpdateArc, UpdateStage, UpdateBatch
<1>6. CASE RequestManualCapture
  BY <1>6 DEF RequestManualCapture, TransitionTo, SetRuntime, Rejected, ManualRuntime,
              InCapture, CaptureMode
<1>7. QED
  BY <1>2, <1>3, <1>4, <1>5, <1>6 DEF ApiCall

\* What a tick means for the thread: the next frame of the capture, to be shot,
\* or no capture afterwards.
ShootsNext ==
  /\ InCapture /\ tick_result' = "TriggerCapture"
  /\ InCapture' /\ runtime'.mode = runtime.mode
  /\ runtime'.session.current_frame_idx = runtime.session.current_frame_idx + 1

LeavesCapture ==
  /\ ~InCapture'
  /\ ~(InCapture /\ tick_result' = "TriggerCapture")
  /\ tick_result' = "Finished" =>
       InCapture /\ runtime.session.current_frame_idx = runtime.session.total_frames

LEMMA TickShootsOrLeaves ==
  ASSUME TypeOK, SessionTracksCursor, AdvanceTick
  PROVE  ShootsNext \/ LeavesCapture
<1>1. ASSUME NEW r, FinishCapture(r)
      PROVE  tick_result' = "Finished" /\ ~InCapture'
  BY <1>1 DEF FinishCapture, SetRuntime, DemoRuntime, InCapture, CaptureMode
<1>2. CASE TickManual
  BY <1>2 DEF TickManual, ManualRuntime, InCapture, CaptureMode, LeavesCapture
<1>3. CASE TickDemo
  BY <1>3 DEF TickDemo, InCapture, CaptureMode, LeavesCapture
<1>4. CASE TickOlat
  <2>1. runtime \in RuntimeType /\ runtime.mode = "OLAT" /\ InCapture
    BY <1>4 DEF TickOlat, TypeOK, InCapture, CaptureMode
  <2>2. CASE runtime.done
    BY <1>1, <1>4, <2>1, <2>2 DEF TickOlat, SessionTracksCursor, LeavesCapture
  <2>3. CASE ~runtime.done
    <3>1. runtime' = AdvanceOlat(runtime) /\ tick_result' = "TriggerCapture"
      BY <1>4, <2>3 DEF TickOlat, TickCapture
    <3>2. QED
      BY <2>1, <3>1, AdvanceOlatIs DEF ShootsNext, InCapture, CaptureMode
  <2>4. QED
    BY <2>2, <2>3
<1>5. CASE TickPlayback
  <2>1. /\ runtime \in RuntimeType /\ runtime.mode = "Playback" /\ InCapture
        /\ runtime.seq_index \in Nat /\ runtime.sequence \in Seq(StageFrame)
    BY <1>5, CursorTypes DEF TickPlayback, TypeOK, InCapture, CaptureMode
  <2>2. CASE runtime.seq_index >= Len(runtime.sequence)
    <3>1. runtime.session.current_frame_idx = runtime.session.total_frames
      BY <2>1, <2>2 DEF SessionTracksCursor
    <3>2. tick_result' = "Finished" /\ ~InCapture'
      BY <1>1, <1>5, <2>2 DEF TickPlayback
    <3>3. QED
      BY <2>1, <3>1, <3>2 DEF LeavesCapture
  <2>3. CASE ~(runtime.seq_index >= Len(runtime.sequence))
    <3>1. runtime' = AdvancePlayback(runtime) /\ tick_result' = "TriggerCapture"
      BY <1>5, <2>3 DEF TickPlayback, TickCapture
    <3>2. QED
      BY <2>1, <3>1, AdvancePlaybackIs DEF ShootsNext, InCapture, CaptureMode
  <2>4. QED
    BY <2>2, <2>3
<1>6. QED
  BY <1>2, <1>3, <1>4, <1>5 DEF AdvanceTick

\* The thread takes the next frame, with the shutter pressed for all before it.
LEMMA AdvanceShot ==
  ASSUME NetworkTypeOK, TypeOK, TypeOK', SessionTracksCursor, OlatOneLight',
         ShotInv, AdvanceStage, pc = "tick"
  PROVE  /\ shot'.number > 0 =>
              /\ should_trigger'
              /\ fired' = shot'.number - 1
         /\ InCapture' /\ runtime'.session.current_frame_idx > 0 =>
              shot'.number = runtime'.session.current_frame_idx
         /\ shot'.number > 0 /\ shot'.mode = "OLAT" => HoldsLight(shot.number)'
         /\ tick_result' = "Finished" => fired' = runtime.session.total_frames
<1>1. AdvanceTick
  BY DEF AdvanceStage
<1>2. ~should_trigger
  BY DEF ShotInv
<1>3. ASSUME InCapture
      PROVE  fired' = runtime.session.current_frame_idx
  <2>1. runtime.session.current_frame_idx \in Nat
    BY <1>3, CursorTypes DEF InCapture, CaptureMode
  <2>2. CASE runtime.session.current_frame_idx = 0
    BY <1>3, <2>2 DEF AdvanceStage
  <2>3. CASE runtime.session.current_frame_idx > 0
    BY <1>2, <1>3, <2>3 DEF AdvanceStage, ShotInv
  <2>4. QED
    BY <2>1, <2>2, <2>3
<1>4. CASE ShootsNext
  <2>1. /\ shot'.mode = runtime.mode
        /\ shot'.number = runtime'.session.current_frame_idx
        /\ should_trigger'
    BY <1>4 DEF ShootsNext, AdvanceStage
  <2>2. runtime.session.current_frame_idx \in Nat
    BY <1>4, CursorTypes DEF ShootsNext, InCapture, CaptureMode
  <2>3. fired' = shot'.number - 1
    BY <1>3, <1>4, <2>1, <2>2 DEF ShootsNext
  <2>4. shot'.number > 0 /\ shot'.mode = "OLAT" => HoldsLight(shot.number)'
    <3>1. net_frame' = current_frame'
      BY DEF AdvanceStage
    <3>2. QED
      BY <1>4, <2>1, <3>1 DEF ShootsNext, OlatOneLight, HoldsLight
  <2>5. tick_result' # "Finished"
    BY <1>4 DEF ShootsNext
  <2>6. QED
    BY <2>1, <2>3, <2>4, <2>5
<1>5. CASE LeavesCapture
  <2>1. shot'.number = 0 /\ ~InCapture'
    BY <1>5 DEF LeavesCapture, AdvanceStage
  <2>2. tick_result' = "Finished" => fired' = runtime.session.total_frames
    BY <1>3, <1>5 DEF LeavesCapture
  <2>3. QED
    BY <2>1, <2>2
<1>6. QED
  BY <1>1, <1>4, <1>5, TickShootsOrLeaves

LEMMA ShotStep ==
  ASSUME HasPin, NetworkTypeOK, NetworkTypeOK', TypeOK, TypeOK', CaptureInv, CaptureInv',
         ShotInv, [NetworkNext]_networkVars
  PROVE  ShotInv'
<1>1. CASE Tick
  <2>1. pc = "tick" /\ pc' = "send" /\ UNCHANGED <<lost, wire>>
    BY <1>1 DEF Tick
  <2>2. CASE sub_tick_counter = 0
    <3>1. AdvanceStage
      BY <1>1, <2>2 DEF Tick
    <3>2. SessionTracksCursor /\ OlatOneLight'
      BY DEF CaptureInv
    <3>3. QED
      BY <2>1, <3>1, <3>2, AdvanceShot DEF ShotInv
  <2>3. CASE sub_tick_counter # 0
    <3>1. UNCHANGED <<stageVars, net_frame, should_trigger, shot, fired>>
      BY <1>1, <2>3 DEF Tick
    <3>2. QED
      BY <2>1, <3>1 DEF ShotInv, HoldsLight, stageVars, InCapture
  <2>4. QED
    BY <2>2, <2>3
<1>2. ASSUME NEW lostNow \in LossSets, Send(lostNow)
      PROVE  ShotInv'
  <2>1. /\ UNCHANGED <<stageVars, net_frame, should_trigger, shot, fired>>
        /\ wire' = Delivered(lostNow) /\ lost' = lostNow
        /\ pc' = IF should_trigger THEN "fire" ELSE "pace"
    BY <1>2 DEF Send
  <2>2. \A x \in Supply \ lost' : wire'[x[1]][x[2]] = net_frame'[x[1]][x[2]]
    BY <2>1, NetworkAssumption, DeliveredIs DEF NetworkTypeOK
  <2>3. QED
    BY <2>1, <2>2 DEF ShotInv, HoldsLight, stageVars, InCapture
<1>3. CASE Fire
  <2>1. /\ UNCHANGED <<stageVars, net_frame, shot, wire, lost>>
        /\ ~should_trigger' /\ pc = "fire" /\ pc' = "pace"
        /\ fired' = IF shot.number > 0 THEN fired + 1 ELSE fired
    BY <1>3 DEF Fire, PressShutter
  <2>2. shot.number \in Nat /\ fired \in Nat
    BY DEF NetworkTypeOK
  <2>3. shot'.number > 0 => fired' = shot'.number
    BY <2>1, <2>2 DEF ShotInv
  <2>4. QED
    BY <2>1, <2>3 DEF ShotInv, HoldsLight, stageVars, InCapture
<1>4. CASE ReleasePin \/ Pace
  <2>1. /\ UNCHANGED <<stageVars, net_frame, should_trigger, shot, fired, wire, lost>>
        /\ pc \in {"pin", "pace"} /\ pc' \in {"pin", "tick"}
    BY <1>4 DEF ReleasePin, Pace
  <2>2. QED
    BY <2>1 DEF ShotInv, HoldsLight, stageVars, InCapture
<1>5. CASE Request
  <2>1. UNCHANGED <<pc, net_frame, should_trigger, shot, fired, wire, lost>> /\ ApiCall
    BY <1>5 DEF Request, threadVars, historyVars
  <2>2. InCapture' /\ runtime'.session.current_frame_idx > 0 =>
          InCapture /\ runtime' = runtime
    BY <2>1, RequestLeavesCapture
  <2>3. QED
    BY <2>1, <2>2 DEF ShotInv, HoldsLight
<1>6. CASE UNCHANGED networkVars
  BY <1>6 DEF networkVars, stageVars, threadVars, historyVars, ShotInv, HoldsLight, InCapture
<1>7. QED
  BY <1>1, <1>2, <1>3, <1>4, <1>5, <1>6 DEF NetworkNext, LoopStep, Broadcast

LEMMA ShotInvariant ==
  HasPin => (NetworkSpec => [](TypeOK /\ CaptureInv /\ NetworkTypeOK /\ ShotInv))
<1> SUFFICES ASSUME HasPin
             PROVE  NetworkSpec => [](TypeOK /\ CaptureInv /\ NetworkTypeOK /\ ShotInv)
  OBVIOUS
<1>1. NetworkInit => ShotInv
  <2> SUFFICES ASSUME NetworkInit PROVE ShotInv
    OBVIOUS
  <2>1. pc = "pin" /\ ~should_trigger /\ shot.number = 0 /\ ~InCapture
    BY DEF NetworkInit, StageInit, DemoRuntime, InCapture, CaptureMode
  <2>2. QED
    BY <2>1 DEF ShotInv
<1>2. TypeOK /\ CaptureInv /\ NetworkTypeOK /\ TypeOK' /\ CaptureInv' /\ NetworkTypeOK'
        /\ ShotInv /\ [NetworkNext]_networkVars => ShotInv'
  BY ShotStep
<1>3. QED
  BY <1>1, <1>2, NetworkTypes, PTL DEF NetworkSpec

\* With a camera pin, the n-th shutter release of a capture comes after exactly
\* n-1 others, and every supply that the last broadcast reached shows light n
\* alone: for any stage, loss and delay, and whatever clients do meanwhile.
THEOREM ShutterCorrect == HasPin => (NetworkSpec => []ShutterSeesItsFrame)
<1> SUFFICES ASSUME HasPin
             PROVE  NetworkSpec => []ShutterSeesItsFrame
  OBVIOUS
<1>1. NetworkTypeOK /\ ShotInv => ShutterSeesItsFrame
  <2> SUFFICES ASSUME NetworkTypeOK, ShotInv, pc = "fire", shot.number > 0
               PROVE  /\ fired = shot.number - 1
                      /\ shot.mode = "OLAT" =>
                           \A x \in Supply \ lost, l \in Light :
                             wire[x[1]][x[2]][BaseAddress(l)] =
                               IF x[1] = "white" /\ x[2] * LightsPerArc + l = shot.number - 1
                                 THEN Full ELSE Off
    BY DEF ShutterSeesItsFrame
  <2>1. fired = shot.number - 1
    BY DEF ShotInv
  <2>2. ASSUME shot.mode = "OLAT", NEW x \in Supply \ lost, NEW l \in Light
        PROVE  wire[x[1]][x[2]][BaseAddress(l)] =
                 IF x[1] = "white" /\ x[2] * LightsPerArc + l = shot.number - 1
                   THEN Full ELSE Off
    <3>1. wire[x[1]][x[2]] = net_frame[x[1]][x[2]] /\ HoldsLight(shot.number)
      BY <2>2 DEF ShotInv
    <3>2. x[1] \in Kind /\ x[2] \in Arc
      BY DEF Supply
    <3>3. QED
      BY <3>1, <3>2 DEF HoldsLight
  <2>3. QED
    BY <2>1, <2>2
<1>2. QED
  BY <1>1, ShotInvariant, PTL

\* The tick that ends a capture comes when every frame of it has been shot.
THEOREM FinishedCorrect == HasPin => (NetworkSpec => FinishedMeansAllShot)
<1> SUFFICES ASSUME HasPin
             PROVE  NetworkSpec => FinishedMeansAllShot
  OBVIOUS
<1> DEFINE Safe == TypeOK /\ CaptureInv /\ NetworkTypeOK /\ ShotInv
           Shot == pc = "tick" /\ sub_tick_counter = 0 /\ pc' = "send"
                     /\ tick_result' = "Finished" => fired' = runtime.session.total_frames
<1>1. Safe /\ Safe' /\ [NetworkNext]_networkVars => [Shot]_networkVars
  <2> SUFFICES ASSUME Safe, Safe', NetworkNext, pc = "tick", sub_tick_counter = 0,
                      pc' = "send", tick_result' = "Finished"
               PROVE  fired' = runtime.session.total_frames
    OBVIOUS
  <2>1. Tick
    BY DEF NetworkNext, LoopStep, ReleasePin, Broadcast, Send, Fire, Pace, Request, threadVars
  <2>2. AdvanceStage
    BY <2>1 DEF Tick
  <2>3. QED
    BY <2>2, AdvanceShot DEF CaptureInv
<1>2. QED
  BY <1>1, ShotInvariant, PTL DEF NetworkSpec, FinishedMeansAllShot
-----------------------------------------------------------------------------
(* The pulse on the camera pin *)

\* Unless the last write failed the pin is active exactly while it has a time to be
\* released at, and that time is PulseMs after the last shutter release.
PulseInv ==
  /\ gpio_ok => (pin <=> off_in # NoTime)
  /\ off_in = NoTime => since_fire = PulseMs
  /\ off_in # NoTime => since_fire = PulseMs - off_in
  /\ pc = "tick" => off_in # 0

LEMMA PulseElapses ==
  ASSUME NetworkTypeOK, PulseInv, NEW d \in Nat, NEW packets, Elapse(d, packets),
         UNCHANGED <<pin, gpio_ok>>, pc' # "tick"
  PROVE  PulseInv'
<1>1. since_fire' = IF since_fire + d < PulseMs THEN since_fire + d ELSE PulseMs
  BY DEF Elapse
<1>2. since_fire \in 0 .. PulseMs /\ PulseMs \in Nat /\ NoTime \notin Nat
  BY NetworkAssumption DEF NetworkTypeOK, NoTime
<1>3. CASE off_in = NoTime
  <2>1. off_in' = NoTime
    BY <1>3 DEF Elapse
  <2>2. since_fire' = PulseMs
    BY <1>1, <1>2, <1>3 DEF PulseInv
  <2>3. gpio_ok' => ~pin'
    BY <1>3 DEF PulseInv
  <2>4. QED
    BY <2>1, <2>2, <2>3 DEF PulseInv
<1>4. CASE off_in # NoTime
  <2>1. off_in \in Nat
    BY <1>4 DEF NetworkTypeOK
  <2>2. off_in' = After(off_in, d) /\ off_in' \in Nat
    BY <1>4, <2>1 DEF Elapse, After
  <2>3. since_fire' = PulseMs - off_in'
    BY <1>1, <1>2, <1>4, <2>1, <2>2 DEF PulseInv, After
  <2>4. gpio_ok' => pin'
    BY <1>4 DEF PulseInv
  <2>5. QED
    BY <1>2, <2>2, <2>3, <2>4 DEF PulseInv
<1>5. QED
  BY <1>3, <1>4

LEMMA PulseStep ==
  ASSUME HasPin, NetworkTypeOK, PulseInv, [NetworkNext]_networkVars
  PROVE  PulseInv'
<1>1. CASE ReleasePin
  <2>1. CASE off_in = 0
    <3>1. (gpio_ok' => ~pin') /\ off_in' = NoTime
      BY <1>1, <2>1, SetPinIs DEF ReleasePin, NetworkTypeOK
    <3>2. since_fire' = PulseMs
      <4>1. since_fire = PulseMs - 0
        BY <2>1 DEF PulseInv, NoTime
      <4>2. QED
        BY <1>1, <4>1, NetworkAssumption DEF ReleasePin
    <3>3. QED
      BY <3>1, <3>2 DEF PulseInv, NoTime
  <2>2. CASE off_in # 0
    BY <1>1, <2>2 DEF ReleasePin, PulseInv
  <2>3. QED
    BY <2>1, <2>2
<1>2. CASE Tick
  BY <1>2 DEF Tick, PulseInv
<1>3. CASE Broadcast
  <2>1. PICK s \in Nat : Elapse(s, 1)
    BY <1>3, NetworkAssumption DEF Broadcast, Send
  <2>2. UNCHANGED <<pin, gpio_ok>> /\ pc' # "tick"
    BY <1>3 DEF Broadcast, Send
  <2>3. QED
    BY <2>1, <2>2, PulseElapses
<1>4. CASE Fire
  <2>1. off_in' = PulseMs /\ since_fire' = 0 /\ pc' = "pace"
    BY <1>4 DEF Fire, PressShutter
  <2>2. gpio_ok' => pin'
    BY <1>4, SetPinIs DEF Fire, PressShutter, NetworkTypeOK
  <2>3. PulseMs \in Nat /\ NoTime \notin Nat
    BY NetworkAssumption DEF NoTime
  <2>4. QED
    BY <2>1, <2>2, <2>3 DEF PulseInv
<1>5. CASE Pace
  <2>1. lead + timing.tick_duration \in Int
    BY DEF NetworkTypeOK
  <2>2. PICK d \in Nat : Elapse(d, 0)
    BY <1>5, <2>1, NetworkAssumption DEF Pace, Sleep
  <2>3. UNCHANGED <<pin, gpio_ok>> /\ pc' # "tick"
    BY <1>5 DEF Pace
  <2>4. QED
    BY <2>2, <2>3, PulseElapses
<1>6. CASE Request \/ UNCHANGED networkVars
  BY <1>6 DEF Request, networkVars, threadVars, historyVars, PulseInv
<1>7. QED
  BY <1>1, <1>2, <1>3, <1>4, <1>5, <1>6 DEF NetworkNext, LoopStep

\* A camera pin whose last write succeeded is active from a shutter release until
\* the turn that finds PulseMs over, however the thread is held up in between and
\* whatever earlier writes failed.
THEOREM PulseCorrect == HasPin => (NetworkSpec => []PinFollowsPulse)
<1> SUFFICES ASSUME HasPin
             PROVE  NetworkSpec => []PinFollowsPulse
  OBVIOUS
<1>1. NetworkInit => PulseInv
  BY DEF NetworkInit, PulseInv
<1>2. NetworkTypeOK /\ PulseInv /\ [NetworkNext]_networkVars => PulseInv'
  BY PulseStep
<1>3. NetworkTypeOK /\ PulseInv => PinFollowsPulse
  <2> SUFFICES ASSUME NetworkTypeOK, PulseInv, pc = "tick", gpio_ok
               PROVE  pin <=> since_fire < PulseMs
    BY DEF PinFollowsPulse
  <2>1. off_in # NoTime => since_fire < PulseMs
    BY NetworkAssumption DEF NetworkTypeOK, PulseInv
  <2>2. off_in = NoTime => ~(since_fire < PulseMs)
    BY NetworkAssumption DEF PulseInv
  <2>3. QED
    BY <2>1, <2>2 DEF PulseInv
<1>4. QED
  BY <1>1, <1>2, <1>3, NetworkTypeCorrect, PTL DEF NetworkSpec
-----------------------------------------------------------------------------
(* The schedule *)

\* The schedule bounds what supplies are busy with.  A turn begins no earlier than
\* its deadline, until which they have at most one packet left; until the turn ends
\* they have at most two, counted from the deadline, or only the one it sent.
PaceInv ==
  /\ pc \in {"pin", "tick", "send"} =>
       lead <= 0 /\ (queued = 0 \/ queued <= RefreshMs + lead)
  /\ pc \in {"fire", "pace"} =>
       queued <= RefreshMs \/ queued <= 2 * RefreshMs + lead

\* d ms later so much less is left to do.
LEMMA QueueDrains ==
  ASSUME queued \in Nat, NEW d \in Nat, NEW packets \in {0, 1}, Elapse(d, packets)
  PROVE  \E left \in {0, queued - d} :
           left >= 0 /\ left >= queued - d /\ queued' = packets * RefreshMs + left
BY TimingAssumption DEF Elapse

\* A turn that overran begins the next at once, after a tick at least.
LEMMA PaceEnds ==
  ASSUME NetworkTypeOK, RefreshConfined, PaceInv, Pace
  PROVE  PaceInv'
<1> DEFINE until == lead + timing.tick_duration
<1>1. /\ lead \in Int /\ queued \in Nat /\ timing.tick_duration \in Nat
      /\ RefreshMs \in Nat /\ RefreshMs <= timing.tick_duration
      /\ queued <= RefreshMs \/ queued <= 2 * RefreshMs + lead
  BY TimingAssumption DEF NetworkTypeOK, RefreshConfined, PaceInv, Pace
<1>2. CASE until > 0
  <2>1. PICK o \in Nat : lead' = -o /\ Elapse(until + o, 0)
    BY <1>2, NetworkAssumption DEF Pace, Sleep
  <2>2. queued' = 0 \/ queued' = queued - (until + o)
    BY <1>1, <1>2, <2>1, QueueDrains
  <2>3. lead' <= 0 /\ (queued' = 0 \/ queued' <= RefreshMs + lead')
    BY <1>1, <1>2, <2>1, <2>2
  <2>4. pc' = "pin"
    BY DEF Pace
  <2>5. QED
    BY <2>3, <2>4 DEF PaceInv
<1>3. CASE ~(until > 0)
  <2>1. lead' = 0 /\ Elapse(0, 0)
    BY <1>3 DEF Pace, Sleep
  <2>2. queued' = queued
    BY <1>1, <2>1, QueueDrains
  <2>3. lead' <= 0 /\ queued' <= RefreshMs + lead'
    BY <1>1, <1>3, <2>1, <2>2
  <2>4. pc' = "pin"
    BY DEF Pace
  <2>5. QED
    BY <2>3, <2>4 DEF PaceInv
<1>4. QED
  BY <1>2, <1>3

LEMMA PaceStep ==
  ASSUME NetworkTypeOK, RefreshConfined, PaceInv, [NetworkNext]_networkVars
  PROVE  PaceInv'
<1> USE TimingAssumption
<1>1. CASE ReleasePin
  BY <1>1 DEF ReleasePin, PaceInv
<1>2. CASE Tick
  BY <1>2 DEF Tick, PaceInv
<1>3. CASE Broadcast
  <2>1. PICK s \in Nat : Elapse(s, 1) /\ lead' = lead - s
    BY <1>3, NetworkAssumption DEF Broadcast, Send
  <2>2. lead \in Int /\ queued \in Nat /\ (queued = 0 \/ queued <= RefreshMs + lead)
    BY <1>3 DEF Broadcast, Send, NetworkTypeOK, PaceInv
  <2>3. queued' = RefreshMs \/ queued' = RefreshMs + (queued - s)
    BY <2>1, <2>2, QueueDrains
  <2>4. queued' <= RefreshMs \/ queued' <= 2 * RefreshMs + lead'
    BY <2>1, <2>2, <2>3
  <2>5. pc' \in {"fire", "pace"}
    BY <1>3 DEF Broadcast, Send
  <2>6. QED
    BY <2>4, <2>5 DEF PaceInv
<1>4. CASE Fire
  <2>1. PICK d \in Nat : /\ lead' = lead - d
                         /\ queued' = IF queued > d THEN queued - d ELSE 0
    <3>1. PICK o \in Nat : /\ lead' = lead - SettleMs - o
                           /\ queued' = IF queued > SettleMs + o THEN queued - SettleMs - o ELSE 0
      BY <1>4, NetworkAssumption DEF Fire
    <3>2. SettleMs + o \in Nat /\ SettleMs \in Nat
      BY NetworkAssumption
    <3>3. lead' = lead - (SettleMs + o)
          /\ queued' = IF queued > SettleMs + o THEN queued - (SettleMs + o) ELSE 0
      BY <3>1, <3>2 DEF NetworkTypeOK
    <3>4. QED
      BY <3>2, <3>3
  <2>2. lead \in Int /\ queued \in Nat /\ (queued <= RefreshMs \/ queued <= 2 * RefreshMs + lead)
    BY <1>4 DEF Fire, NetworkTypeOK, PaceInv
  <2>3. queued' <= RefreshMs \/ queued' <= 2 * RefreshMs + lead'
    BY <2>1, <2>2
  <2>4. pc' = "pace"
    BY <1>4 DEF Fire
  <2>5. QED
    BY <2>3, <2>4 DEF PaceInv
<1>5. CASE Pace
  BY <1>5, PaceEnds
<1>6. CASE Request \/ UNCHANGED networkVars
  BY <1>6 DEF Request, networkVars, threadVars, historyVars, PaceInv
<1>7. QED
  BY <1>1, <1>2, <1>3, <1>4, <1>5, <1>6 DEF NetworkNext, LoopStep

\* Before a broadcast supplies have at most one packet left, so that after it at most
\* one waits; and no step but a broadcast gives them more.
LEMMA BurstStep ==
  ASSUME NetworkTypeOK, PaceInv, NoBurst, [NetworkNext]_networkVars
  PROVE  NoBurst'
<1>1. CASE Broadcast
  <2>1. PICK s \in Nat : Elapse(s, 1)
    BY <1>1, NetworkAssumption DEF Broadcast, Send
  <2>2. queued \in Nat /\ RefreshMs \in Nat /\ queued <= RefreshMs
    BY <1>1, TimingAssumption DEF Broadcast, Send, NetworkTypeOK, PaceInv
  <2>3. queued' = RefreshMs \/ queued' = RefreshMs + (queued - s)
    BY <2>1, <2>2, QueueDrains
  <2>4. QED
    BY <2>1, <2>2, <2>3 DEF NoBurst
<1>2. CASE Fire
  <2>1. PICK o \in Nat :
          queued' = IF queued > SettleMs + o THEN queued - SettleMs - o ELSE 0
    BY <1>2, NetworkAssumption DEF Fire
  <2>2. QED
    BY <2>1, NetworkAssumption, TimingAssumption DEF NetworkTypeOK, NoBurst
<1>3. CASE Pace
  <2>1. lead + timing.tick_duration \in Int
    BY DEF NetworkTypeOK
  <2>2. PICK d \in Nat : Elapse(d, 0)
    BY <1>3, <2>1, NetworkAssumption DEF Pace, Sleep
  <2>3. queued \in Nat
    BY DEF NetworkTypeOK
  <2>4. queued' = 0 \/ queued' = queued - d
    BY <2>2, <2>3, QueueDrains, TimingAssumption
  <2>5. QED
    BY <2>2, <2>3, <2>4, TimingAssumption DEF NoBurst
<1>4. CASE ReleasePin \/ Tick \/ Request \/ UNCHANGED networkVars
  BY <1>4 DEF ReleasePin, Tick, Request, networkVars, threadVars, historyVars, NoBurst
<1>5. QED
  BY <1>1, <1>2, <1>3, <1>4 DEF NetworkNext, LoopStep

\* However long the thread is held up and however late it wakes, packets do not come
\* in bursts: no supply that takes RefreshMs for each has more than one waiting.
THEOREM NoBurstCorrect == NetworkSpec => []NoBurst
<1>1. NetworkInit => PaceInv /\ NoBurst
  BY TimingAssumption DEF NetworkInit, PaceInv, NoBurst
<1>2. NetworkTypeOK /\ RefreshConfined /\ PaceInv /\ NoBurst /\ [NetworkNext]_networkVars
        => PaceInv' /\ NoBurst'
  BY PaceStep, BurstStep
<1>3. QED
  BY <1>1, <1>2, NetworkTypeCorrect, RefreshConfinedCorrect, PTL DEF NetworkSpec
=============================================================================
