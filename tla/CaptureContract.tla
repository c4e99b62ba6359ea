--------------------------- MODULE CaptureContract ---------------------------
(***************************************************************************)
(* What the stage promises to a client that captures with it, and to the   *)
(* network thread that fires the cameras, without fixtures, frames or      *)
(* animators:                                                              *)
(*                                                                         *)
(*   - a capture of n frames asks the cameras to fire exactly n times, one *)
(*     per tick, then ends by itself on the next tick, announces           *)
(*     CaptureFinished once and leaves the stage in Demo;                  *)
(*   - a capture that a client replaces or cancels is never announced;     *)
(*   - outside a capture the cameras fire only in Manual, once for each    *)
(*     trigger that was queued and not cancelled by a later update.        *)
(*                                                                         *)
(* Module Stage implements it, whichever animator runs the capture.        *)
(***************************************************************************)
EXTENDS Integers, Sequences

CONSTANT FrameCount   \* how many frames a capture may have

ASSUME FrameCountAssumption == FrameCount \subseteq Nat

VARIABLES
  mode,         \* the public StageMode
  left,         \* frames of the current capture still to be fired
  queued,       \* a manual trigger is waiting for a tick
  answer,       \* what the last tick told the network thread
  announced     \* events sent by the last operation

contractVars == <<mode, left, queued, answer, announced>>

CaptureMode == {"Playback", "OLAT"}

ModeChanged(m) == [type |-> "ModeChanged", mode |-> m]
CaptureFinished == [type |-> "CaptureFinished"]

\* A mode change, and only a mode change, is announced as such.
Enter(m) ==
  /\ mode' = m
  /\ announced' = IF m = mode THEN <<>> ELSE <<ModeChanged(m)>>

Init ==
  /\ mode = "Demo"
  /\ left = 0
  /\ queued = FALSE
  /\ answer = "None"
  /\ announced = <<>>
-----------------------------------------------------------------------------
(* Ticks of the network thread *)

IdleTick ==
  /\ mode = "Demo"
  /\ answer' = "Continue"
  /\ announced' = <<>>
  /\ UNCHANGED <<mode, left, queued>>

ManualTick ==
  /\ mode = "Manual"
  /\ answer' = IF queued THEN "TriggerCapture" ELSE "Continue"
  /\ queued' = FALSE
  /\ announced' = <<>>
  /\ UNCHANGED <<mode, left>>

ShootTick ==
  /\ mode \in CaptureMode
  /\ left > 0
  /\ left' = left - 1
  /\ answer' = "TriggerCapture"
  /\ announced' = <<>>
  /\ UNCHANGED <<mode, queued>>

FinishTick ==
  /\ mode \in CaptureMode
  /\ left = 0
  /\ mode' = "Demo"
  /\ answer' = "Finished"
  /\ announced' = <<CaptureFinished, ModeChanged("Demo")>>
  /\ UNCHANGED <<left, queued>>
-----------------------------------------------------------------------------
(* Requests of clients *)

BeginCapture ==
  /\ \E m \in CaptureMode : Enter(m)
  /\ left' \in FrameCount
  /\ queued' = FALSE
  /\ UNCHANGED answer

BeginIdleOrManual ==
  /\ \E m \in {"Demo", "Manual"} : Enter(m)
  /\ left' = 0
  /\ queued' = FALSE
  /\ UNCHANGED answer

QueueTrigger ==
  /\ mode = "Manual"
  /\ queued = FALSE
  /\ queued' = TRUE
  /\ announced' = <<>>
  /\ UNCHANGED <<mode, left, answer>>

\* A refused request sends no event.
Refuse ==
  /\ announced' = <<>>
  /\ UNCHANGED <<mode, left, queued, answer>>

Next ==
  \/ IdleTick \/ ManualTick \/ ShootTick \/ FinishTick
  \/ BeginCapture \/ BeginIdleOrManual \/ QueueTrigger \/ Refuse

Spec == Init /\ [][Next]_contractVars
=============================================================================
