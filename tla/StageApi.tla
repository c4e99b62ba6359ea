------------------------------- MODULE StageApi -------------------------------
(***************************************************************************)
(* ApiState (lsserver/src/api/mod.rs) behind its REST handlers             *)
(* (lsserver/src/api/rest.rs): Stage and SequenceStore used by several     *)
(* clients at once.                                                        *)
(*                                                                         *)
(* What a request does to the stage happens under the stage's lock, in one *)
(* step; what it does on disk takes a step for each call of the file       *)
(* system, so a playback is loaded in several steps and only then started, *)
(* while others delete its file or change the mode.  A handler that panics *)
(* with the lock in hand poisons it, after which nobody gets it again.     *)
(***************************************************************************)
EXTENDS Stage, Config

CONSTANTS
  Handler, Id, Absent, Partial, InitialFiles, FlushOutcome, IoOutcome,  \* SequenceStore
  Index,        \* indices of arcs and lights clients send, good or not
  RawBatch,     \* batches of fixture updates clients send
  StoreRequest  \* what clients ask of the store

VARIABLES files, task, used, stored, owed, deleted   \* SequenceStore

Store == INSTANCE SequenceStore WITH Sequence <- Library

VARIABLES
  request,    \* what each handler is busy with
  poisoned    \* a handler panicked under the write lock

storeVars == <<files, task, used, stored, owed, deleted>>
apiVars == <<stageVars, storeVars, request, poisoned>>

RawUpdate == [arc : Index, light : Index, colour : ColourRequest]

ASSUME ApiAssumption ==
  /\ Store!StoreAssumption
  /\ Index \subseteq Nat
  /\ RawBatch \subseteq Seq(RawUpdate)
  /\ StoreRequest \subseteq {"list", "get", "upload", "delete", "play"}

config == [num_arcs |-> NumArcs, lights_per_arc |-> LightsPerArc]

NoRequest == "none"

Now(h, state) == request' = [request EXCEPT ![h] = state]
-----------------------------------------------------------------------------
(* Requests that only need the stage *)

\* write_state: unwrap panics once the lock is poisoned.
Locked == ~poisoned

\* An index out of range panics after the transition to Manual, in the middle of
\* the update, and the lock is dropped poisoned.
PanicInUpdate ==
  /\ SetRuntime(ManualRuntime(FALSE), <<>>)
  /\ poisoned' = TRUE
  /\ UNCHANGED <<renderer, current_frame, tick_result>>

\* set_arc
SetArc(arc_idx, c) ==
  IF ~ValidArc(config, arc_idx) THEN Rejected /\ UNCHANGED poisoned
  ELSE IF arc_idx \in Arc THEN UpdateArc(arc_idx, c) /\ UNCHANGED poisoned
  ELSE PanicInUpdate

\* set_fixture
SetFixture(arc_idx, light_idx, c) ==
  IF ~ValidFixture(config, arc_idx, light_idx) THEN Rejected /\ UNCHANGED poisoned
  ELSE IF arc_idx \in Arc /\ light_idx \in Light
    THEN UpdateSingleFixture(arc_idx, light_idx, c) /\ UNCHANGED poisoned
  ELSE PanicInUpdate

\* set_fixtures: all of a batch is validated before any of it is written.
SetFixtures(batch) ==
  IF \E n \in DOMAIN batch : ~ValidFixture(config, batch[n].arc, batch[n].light)
    THEN Rejected /\ UNCHANGED poisoned
  ELSE IF batch \in Seq(FixtureUpdate) THEN UpdateBatch(batch) /\ UNCHANGED poisoned
  ELSE PanicInUpdate

\* The handlers of one call under the lock, answered in the same step.
StageRequest ==
  /\ Locked
  /\ \/ /\ \/ TransitionToDemo
           \/ TransitionToManual
           \/ \E hz \in Rate : TransitionToOlat(hz)
           \/ \E c \in ColourRequest : UpdateStage(c)
           \/ RequestManualCapture
        /\ UNCHANGED poisoned
     \/ \E arc_idx \in Index, c \in ColourRequest : SetArc(arc_idx, c)
     \/ \E arc_idx, light_idx \in Index, c \in ColourRequest :
          SetFixture(arc_idx, light_idx, c)
     \/ \E batch \in RawBatch : SetFixtures(batch)
  /\ UNCHANGED <<storeVars, request>>

\* The network thread; it panics too once the lock is poisoned.
NetworkTick ==
  /\ Locked
  /\ AdvanceTick
  /\ UNCHANGED <<storeVars, request, poisoned>>
-----------------------------------------------------------------------------
(* Requests that need the store *)

\* A request comes to an idle handler, which makes its first call to the store.
Receive(h) ==
  /\ \/ /\ "list" \in StoreRequest
        /\ Store!ListBegin(h)
        /\ Now(h, "list")
     \/ /\ "get" \in StoreRequest
        /\ Store!LoadBegin(h)
        /\ Now(h, "get")
     \/ /\ "play" \in StoreRequest
        /\ Store!LoadBegin(h)
        /\ Now(h, "play")
     \/ /\ "upload" \in StoreRequest
        /\ Store!SaveCreate(h)
        /\ Now(h, "upload")
     \/ /\ "delete" \in StoreRequest
        /\ Store!DeleteBegin(h)
        /\ Now(h, "delete")
  /\ UNCHANGED <<stageVars, poisoned>>

\* The next call to the file system.
Work(h) ==
  /\ \/ Store!SaveWrite(h) \/ Store!SaveFlush(h)
     \/ Store!LoadExists(h) \/ Store!LoadRead(h)
     \/ Store!ListEntry(h) \/ Store!ListRead(h) \/ Store!ListEnd(h)
     \/ Store!DeleteExists(h) \/ Store!DeleteRemove(h)
  /\ UNCHANGED <<stageVars, request, poisoned>>

\* A transition that gives up if another client changed the mode meanwhile.
StartPlaybackFrom(seq) ==
  IF runtime.mode \in CaptureMode THEN Rejected ELSE TransitionToPlayback(seq)

StartPlayback(seq) == TransitionToPlayback(seq)

\* set_mode: what was loaded before the lock is played under it, whatever has
\* become of the file and of the stage in between; a refused rate is an error.
Play(h) ==
  /\ request[h] = "play"
  /\ Store!At(h, "ok")
  /\ Locked
  /\ LET loaded == CHOOSE s \in task[h].value : TRUE
     IN  /\ StartPlayback(loaded[2])
         /\ Store!Goto(h, IF ValidRate(loaded[2].capture_hz) THEN Store!Ok({loaded})
                                                             ELSE Store!Err)
  /\ UNCHANGED <<files, used, stored, owed, deleted, poisoned>>
  /\ Now(h, "played")

\* A client leaves during its upload and takes the write with it.
LeaveAborting(h) ==
  /\ request[h] = "upload"
  /\ task[h].at \in {"save_write", "save_flush"}
  /\ Store!Goto(h, Store!Err)
  /\ UNCHANGED <<stageVars, files, used, stored, owed, deleted, poisoned>>
  /\ Now(h, "upload_left")

\* A client leaves during its upload: its handler is dropped, but the save runs on
\* a thread of its own (spawn_blocking) to its end.
Leave(h) ==
  /\ request[h] = "upload"
  /\ task[h].at \in {"save_write", "save_flush"}
  /\ UNCHANGED <<stageVars, storeVars, poisoned>>
  /\ Now(h, "upload_left")

\* The answer, if the client is still there, and the end of the request.
Respond(h) ==
  /\ request[h] = "play" => Store!At(h, "err")
  /\ Store!Respond(h)
  /\ Now(h, NoRequest)
  /\ UNCHANGED <<stageVars, poisoned>>

Progress(h) == Work(h) \/ Play(h) \/ Respond(h)

ApiInit ==
  /\ StageInit
  /\ Store!Init
  /\ request = [h \in Handler |-> NoRequest]
  /\ poisoned = FALSE

ApiNext ==
  \/ NetworkTick
  \/ StageRequest
  \/ \E h \in Handler : Receive(h) \/ Leave(h) \/ Progress(h)

ApiSpec == ApiInit /\ [][ApiNext]_apiVars
-----------------------------------------------------------------------------
(* Properties *)

\* What a handler has loaded when it waits for the lock.
Loaded(h) == IF task[h].at = "ok" THEN task[h].value ELSE {}

\* A handler is busy exactly while it has a request, and plays only what it loaded.
ApiTypeOK ==
  /\ request \in [Handler -> {NoRequest, "list", "get", "upload", "upload_left",
                              "delete", "play", "played"}]
  /\ \A h \in Handler :
       /\ request[h] = NoRequest <=> Store!At(h, "idle")
       /\ request[h] = "play" /\ Store!At(h, "ok") =>
            \E s \in Id \X Library : task[h].value = {s}
  /\ poisoned \in BOOLEAN

\* A request to play a sequence whose upload was answered before it finds the file
\* if nobody deletes it during the load; and what it has loaded is what it plays, or
\* is refused for its rate alone, whatever other clients do before it has the lock:
\* upload, change the mode, or delete the very sequence.
UploadsCanBePlayed ==
  [][\A h \in Handler : request[h] = "play" =>
       /\ \A s \in owed[h] : task[h].at \in {"load", "load_read"} /\ task[h].id = s[1] =>
            task'[h].at # "err" /\ (task'[h].at = "ok" => s \in task'[h].value)
       /\ \A s \in Loaded(h) :
            IF request'[h] # "played" THEN request'[h] = "play" /\ Loaded(h)' = {s}
            ELSE IF ValidRate(s[2].capture_hz) THEN runtime' = PlaybackRuntime(s[2])
            ELSE task'[h].at = "err" /\ runtime' = runtime]_apiVars

\* No request, whatever indices it names, makes a handler panic with the stage's
\* lock in hand, which would end the network thread and every later request.
LockNeverPoisoned == ~poisoned

\* What clients upload gets on disk whole whether or not they wait for the answer:
\* a file that is not complete is one that is being written.
UploadsFinish ==
  \A id \in Id : files[id]["zst"] = Partial =>
    \E h \in Handler : /\ task[h].at \in {"save_write", "save_flush"}
                       /\ task[h].id = id
=============================================================================
