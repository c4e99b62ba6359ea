----------------------------- MODULE NetworkLoop -----------------------------
(***************************************************************************)
(* NetworkManager::run (lsserver/src/network.rs) on top of Stage: the      *)
(* thread that ticks the stage, refreshes the power supplies and fires the *)
(* cameras, while API handlers change the stage between any two steps.     *)
(*                                                                         *)
(* The thread owns everything but StageState, so a step of its loop is     *)
(* what it does between two points where time passes or the stage's lock   *)
(* is taken.  Time is in milliseconds and passes where the thread may be   *)
(* held up or sleeps: before a broadcast (Stalls) and past the end of a    *)
(* sleep (Oversleeps).                                                     *)
(***************************************************************************)
EXTENDS Stage

CONSTANTS
  LossSets,     \* the sets of universes a broadcast may fail to deliver
  HasPin,       \* trigger_pin is Some
  GpioOutcome,  \* whether set_value may succeed, may fail
  SettleMs,     \* the sleep between the broadcast and the shutter
  PulseMs,      \* how long the pin is held
  Stalls,       \* delays of the thread before a broadcast
  Oversleeps    \* how much longer a sleep may last

\* The loop starts only if discovery mapped a supply for each kind of each arc.
Supply == Kind \X Arc

NoTime == -1    \* pin_turn_off_time is None

ASSUME NetworkAssumption ==
  /\ LossSets \subseteq SUBSET Supply
  /\ LossSets # {}
  /\ HasPin \in BOOLEAN
  /\ GpioOutcome \subseteq BOOLEAN /\ GpioOutcome # {}
  /\ SettleMs \in Nat /\ PulseMs \in Nat
  /\ Stalls \subseteq Nat /\ Stalls # {}
  /\ Oversleeps \subseteq Nat /\ Oversleeps # {}

VARIABLES
  pc,                 \* where the thread is in its loop
  sub_tick_counter,
  timing,             \* FrameTiming
  net_frame,          \* the thread's copy of the stage's frame
  should_trigger,
  pin,                \* the GPIO line is active
  off_in,             \* time left until pin_turn_off_time, NoTime for None
  lead,               \* next_tick_time - now
  wire,               \* what each power supply received last
  (* history variables, read by the properties only *)
  refreshes,          \* broadcasts of net_frame since the stage was ticked
  shot,               \* the session frame net_frame is, 0 outside a capture
  fired,              \* shutter releases of that session
  lost,               \* universes the last broadcast did not deliver
  queued,             \* how long supplies that take RefreshMs for a packet are
                      \* busy yet with those they were sent
  since_fire,         \* time since the last shutter release, at most PulseMs
  gpio_ok             \* the last set_value succeeded

threadVars == <<pc, sub_tick_counter, timing, net_frame, should_trigger, pin,
                off_in, lead, wire>>
historyVars == <<refreshes, shot, fired, lost, queued, since_fire, gpio_ok>>
networkVars == <<stageVars, threadVars, historyVars>>

\* A deadline that is only noticed at the very millisecond.
AfterExact(left, d) == left - d

\* The time left until a deadline d ms later, 0 once it has passed.
After(left, d) == IF left > d THEN left - d ELSE 0

\* d ms pass for the deadlines the thread keeps and for the history; then packets
\* are sent to each supply.
Elapse(d, packets) ==
  /\ off_in' = IF off_in = NoTime THEN NoTime ELSE After(off_in, d)
  /\ queued' = packets * RefreshMs + (IF queued > d THEN queued - d ELSE 0)
  /\ since_fire' = IF since_fire + d < PulseMs THEN since_fire + d ELSE PulseMs
-----------------------------------------------------------------------------
(* A turn of the loop *)

\* set_value; a failure is only logged.
SetPin(value) ==
  \E ok \in GpioOutcome :
    /\ pin' = IF ok THEN value ELSE pin
    /\ gpio_ok' = ok

\* The pin is released once its time has come, which is over even if that fails.
ReleasePin ==
  /\ pc = "pin"
  /\ IF off_in = 0
       THEN SetPin(FALSE) /\ off_in' = NoTime
       ELSE UNCHANGED <<pin, off_in, gpio_ok>>
  /\ pc' = "tick"
  /\ UNCHANGED <<stageVars, sub_tick_counter, timing, net_frame, should_trigger,
                 lead, wire, refreshes, shot, fired, lost, queued, since_fire>>

\* The stage is ticked under its lock, which also yields the mode and the rate.
AdvanceStage ==
  /\ AdvanceTick
  /\ net_frame' = current_frame'
  /\ timing' = Calculate(runtime'.mode, CaptureHz(runtime'))
  /\ should_trigger' = (tick_result' = "TriggerCapture")
  /\ refreshes' = 0
  /\ shot' = IF InCapture /\ tick_result' = "TriggerCapture"
               THEN [mode |-> runtime.mode,
                     number |-> runtime'.session.current_frame_idx]
               ELSE [mode |-> runtime.mode, number |-> 0]
  /\ fired' = IF InCapture /\ runtime.session.current_frame_idx = 0 THEN 0 ELSE fired

\* One packet too many for each logical frame.
NextSubTickLate(counter, subTicks) ==
  IF counter + 1 > subTicks THEN 0 ELSE counter + 1

\* The counter wraps after the packets one logical frame gets.
NextSubTick(counter, subTicks) ==
  IF counter + 1 >= subTicks THEN 0 ELSE counter + 1

Tick ==
  /\ pc = "tick"
  /\ IF sub_tick_counter = 0
       THEN AdvanceStage
       ELSE UNCHANGED <<stageVars, net_frame, timing, should_trigger,
                        refreshes, shot, fired>>
  /\ sub_tick_counter' = NextSubTick(sub_tick_counter, timing'.sub_ticks_per_frame)
  /\ pc' = "send"
  /\ UNCHANGED <<pin, off_in, lead, wire, lost, queued, since_fire, gpio_ok>>

\* A broadcast that leaves out the last arc.
DeliveredShort(lostNow) ==
  [k \in Kind |-> [a \in Arc |->
     IF a + 1 < NumArcs /\ <<k, a>> \notin lostNow
       THEN net_frame[k][a] ELSE wire[k][a]]]

\* broadcast_frame: one datagram to each supply, errors ignored.
Delivered(lostNow) ==
  [k \in Kind |-> [a \in Arc |->
     IF <<k, a>> \notin lostNow THEN net_frame[k][a] ELSE wire[k][a]]]

Send(lostNow) ==
  /\ pc = "send"
  /\ wire' = Delivered(lostNow)
  /\ lost' = lostNow
  /\ refreshes' = refreshes + 1
  /\ \E s \in Stalls :
       /\ Elapse(s, 1)
       /\ lead' = lead - s
  /\ pc' = IF should_trigger THEN "fire" ELSE "pace"
  /\ UNCHANGED <<stageVars, sub_tick_counter, timing, net_frame, should_trigger,
                 pin, shot, fired, gpio_ok>>

Broadcast == \E lostNow \in LossSets : Send(lostNow)

\* A shutter that is pressed again with every refresh of the frame.
PressShutterAgain ==
  /\ SetPin(TRUE)
  /\ off_in' = PulseMs
  /\ UNCHANGED should_trigger

\* A pulse that does not start again while the pin is active.
PressShutterOnce ==
  /\ SetPin(TRUE)
  /\ off_in' = IF off_in = NoTime THEN PulseMs ELSE off_in
  /\ should_trigger' = FALSE

\* The pin goes active and its time to stay so starts again; the trigger is
\* taken back only if there is a pin.
PressShutter ==
  IF HasPin
    THEN /\ SetPin(TRUE)
         /\ off_in' = PulseMs
         /\ should_trigger' = FALSE
    ELSE UNCHANGED <<pin, off_in, should_trigger, gpio_ok>>

\* After the fixtures had SettleMs to turn on.
Fire ==
  /\ pc = "fire"
  /\ \E o \in Oversleeps :
       /\ lead' = lead - SettleMs - o
       /\ queued' = IF queued > SettleMs + o THEN queued - SettleMs - o ELSE 0
  /\ PressShutter
  /\ fired' = IF shot.number > 0 THEN fired + 1 ELSE fired
  /\ since_fire' = 0
  /\ pc' = "pace"
  /\ UNCHANGED <<stageVars, sub_tick_counter, timing, net_frame, wire,
                 refreshes, shot, lost>>

\* A schedule that is kept after an overrun.
SleepCatchUp(until) ==
  IF until > 0
    THEN \E o \in Oversleeps : lead' = -o /\ Elapse(until + o, 0)
    ELSE lead' = until /\ Elapse(0, 0)

\* The deadline is tick_duration after the last one; a turn that missed it
\* starts the next turn, and the deadlines after it, from now.
Sleep(until) ==
  IF until > 0
    THEN \E o \in Oversleeps : lead' = -o /\ Elapse(until + o, 0)
    ELSE lead' = 0 /\ Elapse(0, 0)

Pace ==
  /\ pc = "pace"
  /\ Sleep(lead + timing.tick_duration)
  /\ pc' = "pin"
  /\ UNCHANGED <<stageVars, sub_tick_counter, timing, net_frame, should_trigger,
                 pin, wire, refreshes, shot, fired, lost, gpio_ok>>

LoopStep == ReleasePin \/ Tick \/ Broadcast \/ Fire \/ Pace

\* An API handler has the stage's lock; the thread does not.
Request ==
  /\ ApiCall
  /\ UNCHANGED <<threadVars, historyVars>>

NetworkInit ==
  /\ StageInit
  /\ pc = "pin"
  /\ sub_tick_counter = 0
  /\ timing = BaseTiming
  /\ net_frame = current_frame
  /\ should_trigger = FALSE
  /\ pin = FALSE
  /\ off_in = NoTime
  /\ lead = 0
  /\ wire = current_frame
  /\ refreshes = BaseTiming.sub_ticks_per_frame  \* the frame before the first tick
  /\ shot = [mode |-> "Demo", number |-> 0]
  /\ fired = 0
  /\ lost = {}
  /\ queued = 0
  /\ since_fire = PulseMs
  /\ gpio_ok = TRUE

NetworkNext == LoopStep \/ Request

NetworkSpec == NetworkInit /\ [][NetworkNext]_networkVars

\* The scheduler runs the thread and every handler gives the lock back; a
\* broadcast repeated for ever is delivered whole at last.
NetworkFairSpec ==
  /\ NetworkSpec
  /\ WF_networkVars(LoopStep)
  /\ SF_networkVars(Send({}))
-----------------------------------------------------------------------------
(* Properties *)

NetworkTypeOK ==
  /\ pc \in {"pin", "tick", "send", "fire", "pace"}
  /\ sub_tick_counter \in Nat
  /\ timing \in [sub_ticks_per_frame : Nat \ {0}, tick_duration : Nat \ {0}]
  /\ net_frame \in Frame
  /\ should_trigger \in BOOLEAN
  /\ pin \in BOOLEAN
  /\ off_in \in Nat \cup {NoTime}
  /\ lead \in Int
  /\ wire \in Frame
  /\ refreshes \in Nat
  /\ shot \in [mode : {"Demo", "Manual"} \cup CaptureMode, number : Nat]
  /\ fired \in Nat
  /\ lost \subseteq Supply
  /\ queued \in Nat
  /\ since_fire \in 0 .. PulseMs
  /\ gpio_ok \in BOOLEAN

\* When the shutter is about to be pressed for the n-th frame of a capture, it
\* was pressed n-1 times since the capture began, once for each frame before;
\* and in OLAT every supply that received the last broadcast shows light n and
\* no other, whatever clients did to the stage since the frame was rendered.
ShutterSeesItsFrame ==
  pc = "fire" /\ shot.number > 0 =>
    /\ fired = shot.number - 1
    /\ shot.mode = "OLAT" =>
         \A x \in Supply \ lost, l \in Light :
           wire[x[1]][x[2]][BaseAddress(l)] =
             IF x[1] = "white" /\ x[2] * LightsPerArc + l = shot.number - 1
               THEN Full ELSE Off

\* The tick that ends a capture, and so sends CaptureFinished, comes after the
\* shutter was pressed for every frame of it.
FinishedMeansAllShot ==
  [][pc = "tick" /\ sub_tick_counter = 0 /\ pc' = "send" /\ tick_result' = "Finished"
       => fired' = runtime.session.total_frames]_networkVars

\* Every logical frame is broadcast sub_ticks_per_frame times, the count that
\* held when it was rendered, before the stage is ticked again, also across
\* changes of mode and rate.
ExactRefreshes ==
  pc = "tick" =>
    refreshes = IF sub_tick_counter = 0 THEN timing.sub_ticks_per_frame
                                        ELSE sub_tick_counter

\* The pin is active for PulseMs from the last shutter release on, up to the
\* turn of the loop that finds the time over, and at no other time.  A write to
\* the pin that fails is not repeated, but the next one that succeeds, of
\* whichever pulse, puts the pin right again.
PinFollowsPulse ==
  pc = "tick" /\ gpio_ok => (pin <=> since_fire < PulseMs)

\* Whatever rate a capture asks for, the tick the loop aims at is at least the
\* period at which supplies may be refreshed and less than two of them.
RefreshConfined ==
  /\ RefreshMs <= timing.tick_duration
  /\ timing.tick_duration < 2 * RefreshMs

\* The packets of one frame take as long as a frame of the capture should, but for
\* the rounding of the tick to the clock.
RateKept ==
  [][pc = "tick" /\ sub_tick_counter = 0 /\ pc' = "send" /\ InCapture' =>
       LET hz == runtime'.session.capture_hz
           packets == timing'.sub_ticks_per_frame
       IN  /\ hz * packets * timing'.tick_duration <= UnitsPerMs
           /\ UnitsPerMs < hz * packets * (timing'.tick_duration + 1)]_networkVars

\* No burst: a supply that takes RefreshMs for each packet never has more than one
\* packet waiting behind the one it is at.  A stall before a broadcast may bring its
\* packet next to the one after it, so packets may be closer than RefreshMs; but the
\* time lost is not made up for with further packets.
NoBurst == queued <= 2 * RefreshMs

\* Clients leave the stage alone from some time on: every step is the thread's.
RequestsEnd == <>[][pc' # pc]_networkVars

\* A capture left alone ends by itself.
CaptureEnds == RequestsEnd => <>[](~InCapture)

\* What a client has set in Manual mode is what the supplies show in the end,
\* also after a slow capture and over a network that loses datagrams.
UpdateReachesWire ==
  RequestsEnd /\ <>[](runtime.mode = "Manual") =>
    <>[](wire = current_frame)

\* "Animator is running and requested cameras to fire" (TickResult::TriggerCapture,
\* state.rs:120) with the pin that triggers the DSLRs (network.rs:10): every
\* request takes the pin from inactive to active.
EdgePerTrigger ==
  [][pc = "fire" /\ pc' = "pace" => ~pin /\ pin']_networkVars
=============================================================================
