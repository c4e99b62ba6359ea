------------------------------ MODULE ApiProofs ------------------------------
(***************************************************************************)
(* Proofs about the service layer for any number of clients, sequences and *)
(* stages, and whatever indices clients name.                              *)
(*                                                                         *)
(* The store's lemmas are used through Proofs.  A handler's request tells  *)
(* where its task can be (Busy), so that what is played under the lock is  *)
(* a sequence that was loaded, and every request is one of the stage's.    *)
(***************************************************************************)
EXTENDS StageApi, TLAPS

Proofs == INSTANCE SequenceProofs WITH Sequence <- Library

\* The constants are those the store assumes.
LEMMA StoreConstants == Proofs!StoreAssumption
BY ApiAssumption
   DEF ApiAssumption, Store!StoreAssumption, Proofs!StoreAssumption, Store!File, Proofs!File,
       Store!Form, Proofs!Form
-----------------------------------------------------------------------------
(* Steps of the store *)

\* The first call to the store, and the next ones, are steps of the store.
LEMMA StoreStep ==
  ASSUME NEW h \in Handler
  PROVE  /\ Store!SaveCreate(h) => Proofs!SaveCreate(h)
         /\ Store!SaveWrite(h) => Proofs!SaveWrite(h)
         /\ Store!SaveFlush(h) => Proofs!SaveFlush(h)
         /\ Store!LoadBegin(h) => Proofs!LoadBegin(h)
         /\ Store!LoadExists(h) => Proofs!LoadExists(h)
         /\ Store!LoadRead(h) => Proofs!LoadRead(h)
         /\ Store!ListBegin(h) => Proofs!ListBegin(h)
         /\ Store!ListEntry(h) => Proofs!ListEntry(h)
         /\ Store!ListRead(h) => Proofs!ListRead(h)
         /\ Store!ListEnd(h) => Proofs!ListEnd(h)
         /\ Store!DeleteBegin(h) => Proofs!DeleteBegin(h)
         /\ Store!DeleteExists(h) => Proofs!DeleteExists(h)
         /\ Store!DeleteRemove(h) => Proofs!DeleteRemove(h)
         /\ Store!Respond(h) => Proofs!Respond(h)
<1> USE DEF Store!At, Proofs!At, Store!Goto, Proofs!Goto, Store!Begin, Proofs!Begin,
            Store!Ok, Proofs!Ok, Store!Err, Proofs!Err, Store!Idle, Proofs!Idle
<1>1. Store!SaveCreate(h) => Proofs!SaveCreate(h)
  BY DEF Store!SaveCreate, Proofs!SaveCreate, Store!NewUlids, Proofs!NewUlids
<1>2. Store!SaveWrite(h) => Proofs!SaveWrite(h)
  BY DEF Store!SaveWrite, Proofs!SaveWrite
<1>3. Store!SaveFlush(h) => Proofs!SaveFlush(h)
  BY DEF Store!SaveFlush, Proofs!SaveFlush, Store!Deleting, Proofs!Deleting
<1>4. /\ Store!LoadBegin(h) => Proofs!LoadBegin(h)
      /\ Store!LoadExists(h) => Proofs!LoadExists(h)
  BY DEF Store!LoadBegin, Proofs!LoadBegin, Store!LoadExists, Proofs!LoadExists
<1>5. Store!LoadRead(h) => Proofs!LoadRead(h)
  BY DEF Store!LoadRead, Proofs!LoadRead, Store!Whole, Proofs!Whole
<1>6. /\ Store!ListBegin(h) => Proofs!ListBegin(h)
      /\ Store!ListEntry(h) => Proofs!ListEntry(h)
  BY DEF Store!ListBegin, Proofs!ListBegin, Store!ListEntry, Proofs!ListEntry,
         Store!Present, Proofs!Present, Store!Form, Proofs!Form
<1>7. /\ Store!ListRead(h) => Proofs!ListRead(h)
      /\ Store!ListEnd(h) => Proofs!ListEnd(h)
  BY DEF Store!ListRead, Proofs!ListRead, Store!ListEnd, Proofs!ListEnd,
         Store!Whole, Proofs!Whole
<1>8. Store!DeleteBegin(h) => Proofs!DeleteBegin(h)
  BY DEF Store!DeleteBegin, Proofs!DeleteBegin
<1>9. Store!DeleteExists(h) => Proofs!DeleteExists(h)
  BY DEF Store!DeleteExists, Proofs!DeleteExists, Store!AfterForm, Proofs!AfterForm
<1>10. Store!DeleteRemove(h) => Proofs!DeleteRemove(h)
  BY DEF Store!DeleteRemove, Proofs!DeleteRemove, Store!AfterForm, Proofs!AfterForm,
         Store!Unlink, Proofs!Unlink
<1>11. Store!Respond(h) => Proofs!Respond(h)
  BY DEF Store!Respond, Proofs!Respond
<1>12. QED
  BY <1>1, <1>2, <1>3, <1>4, <1>5, <1>6, <1>7, <1>8, <1>9, <1>10, <1>11

\* A call to the store by handler h leaves the tasks of the others alone.
LEMMA GoesOn ==
  ASSUME Proofs!StoreTypes, NEW h \in Handler, NEW next, Proofs!Goto(h, next)
  PROVE  task'[h] = next /\ \A g \in Handler \ {h} : task'[g] = task[g]
BY DEF Proofs!StoreTypes, Proofs!Goto

InLoad == {"load", "load_read"}
InSave == {"save_write", "save_flush"}

\* The handler's task goes on to a step of the same operation, or to its end; a load
\* ends with one sequence or with an error.
Moves(h) ==
  /\ \A g \in Handler \ {h} : task'[g] = task[g]
  /\ task[h].at \notin {"idle", "ok", "err"}
  /\ task'[h].at # "idle"
  /\ task[h].at \in InLoad =>
       /\ task'[h].at \in InLoad \cup {"ok", "err"}
       /\ task'[h].at = "ok" => \E s \in Id \X Library : task'[h].value = {s}

\* Every call to the store moves its handler on, and no other.
LEMMA WorkMoves ==
  ASSUME Proofs!StoreTypes, NEW h \in Handler, Work(h)
  PROVE  Moves(h)
<1> USE DEF InLoad
<1>1. CASE Proofs!SaveWrite(h)
  <2>1. task[h].at = "save_write" /\ task[h] \in Proofs!Saving
    BY <1>1, Proofs!TaskShape, StoreConstants DEF Proofs!SaveWrite, Proofs!At
  <2>2. PICK ok \in IoOutcome :
          Proofs!Goto(h, IF ok THEN [task[h] EXCEPT !.at = "save_flush"] ELSE Proofs!Err)
    BY <1>1 DEF Proofs!SaveWrite
  <2>3. [task[h] EXCEPT !.at = "save_flush"].at = "save_flush" /\ Proofs!Err.at = "err"
    BY <2>1 DEF Proofs!Saving, Proofs!Err
  <2>4. task'[h].at \in {"save_flush", "err"} /\ \A g \in Handler \ {h} : task'[g] = task[g]
    BY <2>2, <2>3, GoesOn
  <2>5. QED
    BY <2>1, <2>4 DEF Moves
<1>2. CASE Proofs!SaveFlush(h)
  <2>1. task[h].at = "save_flush"
    BY <1>2 DEF Proofs!SaveFlush, Proofs!At
  <2>2. task'[h].at = "ok" /\ \A g \in Handler \ {h} : task'[g] = task[g]
    BY <1>2, GoesOn DEF Proofs!SaveFlush, Proofs!Ok
  <2>3. QED
    BY <2>1, <2>2 DEF Moves
<1>3. CASE Proofs!LoadExists(h)
  <2>1. task[h].at = "load" /\ task[h] \in Proofs!Loading
    BY <1>3, Proofs!TaskShape, StoreConstants DEF Proofs!LoadExists, Proofs!At
  <2>2. /\ [task[h] EXCEPT !.at = "load_read"].at = "load_read"
        /\ [task[h] EXCEPT !.form = "cbor"].at = "load"
        /\ Proofs!Err.at = "err"
    BY <2>1 DEF Proofs!Loading, Proofs!Err
  <2>3. task'[h].at \in {"load_read", "load", "err"} /\ \A g \in Handler \ {h} : task'[g] = task[g]
    BY <1>3, <2>2, GoesOn DEF Proofs!LoadExists
  <2>4. QED
    BY <2>1, <2>3 DEF Moves
<1>4. CASE Proofs!LoadRead(h)
  <2> DEFINE file == files[task[h].id][task[h].form]
             s == <<task[h].id, file>>
  <2>1. task[h].at = "load_read" /\ task[h].id \in Id
    BY <1>4, Proofs!TaskShape, StoreConstants DEF Proofs!LoadRead, Proofs!At, Proofs!Loading
  <2>2. Proofs!Goto(h, IF Proofs!Whole(file) THEN Proofs!Ok({s}) ELSE Proofs!Err)
    BY <1>4 DEF Proofs!LoadRead
  <2>3. Proofs!Whole(file) => s \in Id \X Library
    BY <2>1 DEF Proofs!Whole
  <2> HIDE DEF file, s
  <2>4. /\ \A g \in Handler \ {h} : task'[g] = task[g]
        /\ task'[h] = IF Proofs!Whole(file) THEN Proofs!Ok({s}) ELSE Proofs!Err
    BY <2>2, GoesOn
  <2>5. /\ Proofs!Ok({s}).at = "ok" /\ Proofs!Ok({s}).value = {s}
        /\ Proofs!Err.at = "err"
    BY DEF Proofs!Ok, Proofs!Err
  <2>6. QED
    BY <2>1, <2>3, <2>4, <2>5 DEF Moves
<1>5. CASE Proofs!ListEntry(h)
  <2>1. task[h].at = "list" /\ task[h] \in Proofs!Listing
    BY <1>5, Proofs!TaskShape, StoreConstants DEF Proofs!ListEntry, Proofs!At
  <2>2. PICK entry \in (task[h].left \cup Proofs!Present) \ task[h].visited :
          LET passed == [task[h] EXCEPT !.left = @ \ {entry}, !.visited = @ \cup {entry}]
          IN  Proofs!Goto(h, IF entry \notin Proofs!Present \/ entry[1] \in task[h].seen_ids
                THEN passed
                ELSE [at |-> "list_read", entry |-> entry,
                      rest |-> [passed EXCEPT !.seen_ids = @ \cup {entry[1]}]])
    BY <1>5 DEF Proofs!ListEntry
  <2> DEFINE passed == [task[h] EXCEPT !.left = @ \ {entry}, !.visited = @ \cup {entry}]
             read == [at |-> "list_read", entry |-> entry,
                      rest |-> [passed EXCEPT !.seen_ids = @ \cup {entry[1]}]]
  <2>3. passed.at = "list" /\ read.at = "list_read"
    BY <2>1 DEF Proofs!Listing
  <2> HIDE DEF passed, read
  <2>4. task'[h] \in {passed, read} /\ \A g \in Handler \ {h} : task'[g] = task[g]
    BY <2>2, GoesOn DEF passed, read
  <2>5. QED
    BY <2>1, <2>3, <2>4 DEF Moves
<1>6. CASE Proofs!ListRead(h)
  <2>1. task[h].at = "list_read" /\ task[h] \in Proofs!Reading
    BY <1>6, Proofs!TaskShape, StoreConstants DEF Proofs!ListRead, Proofs!At
  <2> DEFINE rest == task[h].rest
             more == [rest EXCEPT !.summaries =
                        @ \cup {<<task[h].entry[1], files[task[h].entry[1]][task[h].entry[2]]>>}]
  <2>2. rest.at = "list" /\ more.at = "list"
    BY <2>1, SMTT(30) DEF Proofs!Reading, Proofs!Listing
  <2> HIDE DEF rest, more
  <2>3. task'[h] \in {rest, more} /\ \A g \in Handler \ {h} : task'[g] = task[g]
    BY <1>6, GoesOn DEF rest, more, Proofs!ListRead
  <2>4. QED
    BY <2>1, <2>2, <2>3 DEF Moves
<1>7. CASE Proofs!ListEnd(h)
  <2>1. task[h].at = "list"
    BY <1>7 DEF Proofs!ListEnd, Proofs!At
  <2>2. task'[h].at = "ok" /\ \A g \in Handler \ {h} : task'[g] = task[g]
    BY <1>7, GoesOn DEF Proofs!ListEnd, Proofs!Ok
  <2>3. QED
    BY <2>1, <2>2 DEF Moves
<1>8. ASSUME NEW removed, task[h] \in Proofs!Removing
      PROVE  Proofs!AfterForm(h, removed).at # "idle"
  BY <1>8 DEF Proofs!AfterForm, Proofs!Ok, Proofs!Err, Proofs!Removing
<1>9. CASE Proofs!DeleteExists(h)
  <2>1. task[h].at = "delete" /\ task[h] \in Proofs!Removing
    BY <1>9, Proofs!TaskShape, StoreConstants DEF Proofs!DeleteExists, Proofs!At
  <2>2. [task[h] EXCEPT !.at = "delete_remove"].at = "delete_remove"
    BY <2>1 DEF Proofs!Removing
  <2>3. /\ task'[h] \in {[task[h] EXCEPT !.at = "delete_remove"], Proofs!AfterForm(h, FALSE)}
        /\ \A g \in Handler \ {h} : task'[g] = task[g]
    BY <1>9, GoesOn DEF Proofs!DeleteExists
  <2>4. QED
    BY <1>8, <2>1, <2>2, <2>3 DEF Moves
<1>10. CASE Proofs!DeleteRemove(h)
  <2>1. task[h].at = "delete_remove" /\ task[h] \in Proofs!Removing
    BY <1>10, Proofs!TaskShape, StoreConstants DEF Proofs!DeleteRemove, Proofs!At
  <2>2. /\ task'[h] \in {Proofs!AfterForm(h, TRUE), Proofs!Err}
        /\ \A g \in Handler \ {h} : task'[g] = task[g]
    BY <1>10, GoesOn DEF Proofs!DeleteRemove
  <2>3. Proofs!Err.at = "err"
    BY DEF Proofs!Err
  <2>4. QED
    BY <1>8, <2>1, <2>2, <2>3 DEF Moves
<1>11. QED
  BY <1>1, <1>2, <1>3, <1>4, <1>5, <1>6, <1>7, <1>9, <1>10, StoreStep DEF Work
-----------------------------------------------------------------------------
(* The lock *)

\* What passes validation is there to be reached, so no update panics.
LEMMA NoPanic ==
  ASSUME poisoned = FALSE, StageRequest
  PROVE  poisoned' = FALSE
<1> USE StageAssumption, ApiAssumption
<1>1. ASSUME NEW arc_idx \in Index, ValidArc(config, arc_idx)
      PROVE  arc_idx \in Arc
  BY <1>1 DEF ApiAssumption, StageAssumption, ValidArc, config, Arc
<1>2. ASSUME NEW arc_idx \in Index, NEW light_idx \in Index,
             ValidFixture(config, arc_idx, light_idx)
      PROVE  arc_idx \in Arc /\ light_idx \in Light
  <2>1. arc_idx \in Arc
    BY <1>1, <1>2 DEF ValidFixture
  <2>2. light_idx < LightsPerArc
    BY <1>2 DEF ValidFixture, config
  <2>3. QED
    BY <2>1, <2>2 DEF ApiAssumption, StageAssumption, Light
<1>3. ASSUME NEW batch \in RawBatch,
             \A n \in DOMAIN batch : ValidFixture(config, batch[n].arc, batch[n].light)
      PROVE  batch \in Seq(FixtureUpdate)
  <2>1. batch \in Seq(RawUpdate)
    BY DEF ApiAssumption
  <2>2. ASSUME NEW n \in DOMAIN batch
        PROVE  batch[n] \in FixtureUpdate
    <3>1. batch[n] \in RawUpdate
      BY <2>1
    <3>2. batch[n].arc \in Arc /\ batch[n].light \in Light
      BY <1>2, <1>3, <3>1 DEF RawUpdate
    <3>3. QED
      BY <3>1, <3>2 DEF RawUpdate, FixtureUpdate
  <2>3. DOMAIN batch = 1 .. Len(batch) /\ Len(batch) \in Nat /\ batch = [n \in 1 .. Len(batch) |-> batch[n]]
    BY <2>1
  <2>4. QED
    BY <2>2, <2>3
<1>4. ASSUME NEW arc_idx \in Index, NEW c, SetArc(arc_idx, c)
      PROVE  poisoned' = FALSE
  BY <1>1, <1>4, Zenon DEF SetArc
<1>5. ASSUME NEW arc_idx \in Index, NEW light_idx \in Index, NEW c,
             SetFixture(arc_idx, light_idx, c)
      PROVE  poisoned' = FALSE
  BY <1>2, <1>5, Zenon DEF SetFixture
<1>6. ASSUME NEW batch \in RawBatch, SetFixtures(batch)
      PROVE  poisoned' = FALSE
  BY <1>3, <1>6, Zenon DEF SetFixtures
<1>7. QED
  BY <1>4, <1>5, <1>6, Zenon DEF StageRequest

\* No request, whatever indices it names, makes a handler panic with the stage's lock
\* in hand, on a stage of any size (ApiState, validate_arc and validate_fixture).
THEOREM LockCorrect == ApiSpec => []LockNeverPoisoned
<1> DEFINE Inv == poisoned = FALSE
<1>1. ApiInit => Inv
  BY DEF ApiInit
<1>2. Inv /\ [ApiNext]_apiVars => Inv'
  <2>1. SUFFICES ASSUME Inv, [ApiNext]_apiVars PROVE Inv'
    OBVIOUS
  <2>2. CASE StageRequest
    BY <2>1, <2>2, NoPanic
  <2>3. CASE ~StageRequest
    <3>1. UNCHANGED poisoned
      BY <2>1, <2>3, Zenon DEF ApiNext, NetworkTick, Receive, Leave, Progress, Work, Play, Respond,
         apiVars
    <3>2. QED
      BY <2>1, <3>1
  <2>4. QED
    BY <2>2, <2>3
<1>3. Inv => LockNeverPoisoned
  BY DEF LockNeverPoisoned
<1>4. QED
  BY <1>1, <1>2, <1>3, PTL DEF ApiSpec
-----------------------------------------------------------------------------
(* Requests and tasks *)

Requests == {NoRequest, "list", "get", "upload", "upload_left", "delete", "play", "played"}

\* A request tells where the handler's task can be.
Busy(h) ==
  /\ request[h] = NoRequest <=> task[h].at = "idle"
  /\ request[h] = "play" => task[h].at \in InLoad \cup {"ok", "err"}
  /\ request[h] = "play" /\ task[h].at = "ok" => \E s \in Id \X Library : task[h].value = {s}

BusyInv ==
  /\ Proofs!StoreTypes
  /\ request \in [Handler -> Requests]
  /\ poisoned = FALSE
  /\ \A h \in Handler : Busy(h)

\* A step of one handler leaves the requests of the others as they are.
LEMMA OneHandler ==
  ASSUME BusyInv, NEW h \in Handler, Proofs!StoreTypes', poisoned' = FALSE,
         NEW state \in Requests, Now(h, state), Busy(h)',
         \A g \in Handler \ {h} : task'[g] = task[g]
  PROVE  BusyInv'
<1>1. request' \in [Handler -> Requests] /\ \A g \in Handler \ {h} : request'[g] = request[g]
  BY DEF BusyInv, Now
<1>2. ASSUME NEW g \in Handler \ {h} PROVE Busy(g)'
  BY <1>1 DEF BusyInv, Busy
<1>3. QED
  BY <1>1, <1>2 DEF BusyInv

\* The store's own steps keep its types.
LEMMA StoreKeepsTypes ==
  ASSUME Proofs!StoreTypes, NEW h \in Handler, Proofs!Step(h)
  PROVE  Proofs!StoreTypes'
BY Proofs!TypesStep, StoreConstants DEF Proofs!Next

\* A request comes.
LEMMA ReceiveBusy ==
  ASSUME BusyInv, NEW h \in Handler, Receive(h)
  PROVE  BusyInv' /\ task[h].at = "idle"
<1> USE DEF NoRequest
<1>1. Proofs!StoreTypes /\ UNCHANGED poisoned
  BY DEF BusyInv, Receive
<1>2. ASSUME NEW next, Proofs!Begin(h, next)
      PROVE  /\ task[h].at = "idle" /\ task'[h] = next
             /\ \A g \in Handler \ {h} : task'[g] = task[g]
  BY <1>1, <1>2, GoesOn DEF Proofs!Begin, Proofs!At
<1>3. CASE Proofs!SaveCreate(h) /\ Now(h, "upload")
  <2>1. /\ task[h].at = "idle" /\ task'[h].at \in {"save_write", "err"}
        /\ \A g \in Handler \ {h} : task'[g] = task[g]
    <3>1. PICK id, seq : \/ Proofs!Begin(h, [at |-> "save_write", id |-> id, seq |-> seq])
                         \/ Proofs!Begin(h, Proofs!Err)
      BY <1>3 DEF Proofs!SaveCreate
    <3> DEFINE begun == [at |-> "save_write", id |-> id, seq |-> seq]
    <3>2. begun.at = "save_write" /\ Proofs!Err.at = "err"
      BY DEF Proofs!Err
    <3> HIDE DEF begun
    <3>3. CASE Proofs!Begin(h, begun)
      BY <1>2, <3>2, <3>3
    <3>4. CASE Proofs!Begin(h, Proofs!Err)
      BY <1>2, <3>2, <3>4
    <3>5. QED
      BY <3>1, <3>3, <3>4 DEF begun
  <2>2. request'[h] = "upload"
    BY <1>3 DEF Now, BusyInv
  <2>3. Busy(h)'
    BY <2>1, <2>2 DEF Busy
  <2>4. Proofs!StoreTypes'
    BY <1>1, <1>3, StoreKeepsTypes DEF Proofs!Step
  <2>5. QED
    BY <1>1, <1>3, <2>1, <2>3, <2>4, OneHandler DEF BusyInv, Requests
<1>4. CASE Proofs!LoadBegin(h) /\ (Now(h, "get") \/ Now(h, "play"))
  <2>1. /\ task[h].at = "idle" /\ task'[h].at = "load"
        /\ \A g \in Handler \ {h} : task'[g] = task[g]
    BY <1>1, <1>4, GoesOn DEF Proofs!LoadBegin, Proofs!Begin, Proofs!At
  <2>2. request'[h] \in {"get", "play"}
    BY <1>4 DEF Now, BusyInv
  <2>3. Busy(h)'
    BY <2>1, <2>2 DEF Busy, InLoad
  <2>4. Proofs!StoreTypes'
    BY <1>1, <1>4, StoreKeepsTypes DEF Proofs!Step
  <2>5. QED
    BY <1>1, <1>4, <2>1, <2>3, <2>4, OneHandler DEF BusyInv, Requests
<1>5. CASE Proofs!ListBegin(h) /\ Now(h, "list")
  <2>1. /\ task[h].at = "idle" /\ task'[h].at = "list"
        /\ \A g \in Handler \ {h} : task'[g] = task[g]
    BY <1>1, <1>5, GoesOn DEF Proofs!ListBegin, Proofs!Begin, Proofs!At
  <2>2. request'[h] = "list"
    BY <1>5 DEF Now, BusyInv
  <2>3. Busy(h)'
    BY <2>1, <2>2 DEF Busy
  <2>4. Proofs!StoreTypes'
    BY <1>1, <1>5, StoreKeepsTypes DEF Proofs!Step
  <2>5. QED
    BY <1>1, <1>5, <2>1, <2>3, <2>4, OneHandler DEF BusyInv, Requests
<1>6. CASE Proofs!DeleteBegin(h) /\ Now(h, "delete")
  <2>1. /\ task[h].at = "idle" /\ task'[h].at = "delete"
        /\ \A g \in Handler \ {h} : task'[g] = task[g]
    BY <1>1, <1>6, GoesOn DEF Proofs!DeleteBegin, Proofs!At
  <2>2. request'[h] = "delete"
    BY <1>6 DEF Now, BusyInv
  <2>3. Busy(h)'
    BY <2>1, <2>2 DEF Busy
  <2>4. Proofs!StoreTypes'
    BY <1>1, <1>6, StoreKeepsTypes DEF Proofs!Step
  <2>5. QED
    BY <1>1, <1>6, <2>1, <2>3, <2>4, OneHandler DEF BusyInv, Requests
<1>7. QED
  BY <1>3, <1>4, <1>5, <1>6, StoreStep DEF Receive

\* The next call to the store, or an answer.
LEMMA WorkBusy ==
  ASSUME BusyInv, NEW h \in Handler, Work(h)
  PROVE  BusyInv'
<1>1. Proofs!StoreTypes /\ UNCHANGED <<request, poisoned>> /\ Moves(h)
  BY WorkMoves DEF BusyInv, Work
<1>2. Proofs!StoreTypes'
  BY <1>1, StoreStep, StoreKeepsTypes DEF Work, Proofs!Step
<1>3. Busy(h)'
  BY <1>1 DEF BusyInv, Busy, Moves
<1>4. ASSUME NEW g \in Handler \ {h} PROVE Busy(g)'
  BY <1>1 DEF BusyInv, Busy, Moves
<1>5. QED
  BY <1>1, <1>2, <1>3, <1>4 DEF BusyInv

\* An answer ends the request and the task together.
LEMMA RespondBusy ==
  ASSUME BusyInv, NEW h \in Handler, Respond(h)
  PROVE  BusyInv'
<1>1. Proofs!Respond(h) /\ Now(h, NoRequest) /\ UNCHANGED poisoned
  BY StoreStep DEF Respond
<1>2. Proofs!StoreTypes'
  BY <1>1, StoreKeepsTypes DEF BusyInv, Proofs!Step
<1>3. task'[h].at = "idle" /\ \A g \in Handler \ {h} : task'[g] = task[g]
  BY <1>1, GoesOn DEF BusyInv, Proofs!Respond, Proofs!Idle
<1>4. request'[h] = NoRequest
  BY <1>1 DEF Now, BusyInv
<1>5. Busy(h)'
  BY <1>3, <1>4 DEF Busy, NoRequest
<1>6. QED
  BY <1>1, <1>2, <1>3, <1>5, OneHandler DEF BusyInv, Requests

\* What is played is a sequence of the library.
LEMMA PlayLoaded ==
  ASSUME BusyInv, NEW h \in Handler, Play(h)
  PROVE  \E s \in Id \X Library :
           /\ StartPlayback(s[2])
           /\ Proofs!Goto(h, IF ValidRate(s[2].capture_hz) THEN Proofs!Ok({s}) ELSE Proofs!Err)
<1>1. PICK s \in Id \X Library : task[h].value = {s}
  BY DEF BusyInv, Busy, Play, Store!At
<1>2. (CHOOSE t \in task[h].value : TRUE) = s
  BY <1>1
<1>3. QED
  BY <1>2 DEF Play, Store!Goto, Proofs!Goto, Store!Ok, Proofs!Ok, Store!Err, Proofs!Err

\* A play ends its task with success or an error.
LEMMA PlayBusy ==
  ASSUME BusyInv, NEW h \in Handler, Play(h)
  PROVE  BusyInv'
<1>1. PICK s \in Id \X Library :
        Proofs!Goto(h, IF ValidRate(s[2].capture_hz) THEN Proofs!Ok({s}) ELSE Proofs!Err)
  BY PlayLoaded
<1>2. /\ UNCHANGED <<files, used, stored, owed, deleted, poisoned>>
      /\ Now(h, "played")
  BY DEF Play
<1>3. task'[h] \in {Proofs!Ok({s}), Proofs!Err} /\ \A g \in Handler \ {h} : task'[g] = task[g]
  BY <1>1, GoesOn DEF BusyInv
<1>4. Proofs!Ok({s}) \in Proofs!Task /\ Proofs!Err \in Proofs!Task
  BY DEF Proofs!Ok, Proofs!Err, Proofs!Task, Proofs!Answer, Proofs!Stored
<1>5. task' \in [Handler -> Proofs!Task]
  BY <1>1, <1>4 DEF BusyInv, Proofs!StoreTypes, Proofs!Goto
<1>6. Proofs!StoreTypes'
  BY <1>2, <1>5 DEF BusyInv, Proofs!StoreTypes
<1>7. task'[h].at \in {"ok", "err"}
  BY <1>3 DEF Proofs!Ok, Proofs!Err
<1>8. request'[h] = "played"
  BY <1>2 DEF Now, BusyInv
<1>9. Busy(h)'
  BY <1>7, <1>8 DEF Busy, NoRequest
<1>10. QED
  BY <1>2, <1>3, <1>6, <1>9, OneHandler DEF BusyInv, Requests

\* A client that leaves takes nothing with it.
LEMMA LeaveBusy ==
  ASSUME BusyInv, NEW h \in Handler, Leave(h)
  PROVE  BusyInv'
<1>1. /\ request[h] = "upload" /\ Now(h, "upload_left")
      /\ UNCHANGED <<files, task, used, stored, owed, deleted, poisoned>>
  BY DEF Leave, storeVars
<1>2. Proofs!StoreTypes'
  BY <1>1 DEF BusyInv, Proofs!StoreTypes
<1>3. request'[h] = "upload_left"
  BY <1>1 DEF Now, BusyInv
<1>4. Busy(h)'
  BY <1>1, <1>3 DEF BusyInv, Busy, NoRequest
<1>5. QED
  BY <1>1, <1>2, <1>4, OneHandler DEF BusyInv, Requests

\* Every step keeps requests and tasks together.
LEMMA BusyStep ==
  ASSUME BusyInv, [ApiNext]_apiVars
  PROVE  BusyInv'
<1>1. ASSUME UNCHANGED <<files, task, used, stored, owed, deleted, request>>, poisoned' = FALSE
      PROVE  BusyInv'
  BY <1>1 DEF BusyInv, Busy, Proofs!StoreTypes
<1>2. CASE NetworkTick \/ UNCHANGED apiVars
  BY <1>1, <1>2 DEF NetworkTick, storeVars, apiVars, BusyInv
<1>3. CASE StageRequest
  <2>1. UNCHANGED <<files, task, used, stored, owed, deleted, request>>
    BY <1>3 DEF StageRequest, storeVars
  <2>2. QED
    BY <1>1, <1>3, <2>1, NoPanic DEF BusyInv
<1>4. ASSUME NEW h \in Handler, Receive(h) \/ Leave(h) \/ Progress(h)
      PROVE  BusyInv'
  BY <1>4, ReceiveBusy, LeaveBusy, WorkBusy, PlayBusy, RespondBusy DEF Progress
<1>5. QED
  BY <1>2, <1>3, <1>4 DEF ApiNext

\* So does the beginning.
LEMMA BusyInitially == ApiInit => BusyInv
<1>1. SUFFICES ASSUME ApiInit PROVE BusyInv
  OBVIOUS
<1>2. Proofs!Init
  BY <1>1 DEF ApiInit, Store!Init, Proofs!Init, Store!Idle, Proofs!Idle, Store!Form, Proofs!Form
<1>3. Proofs!StoreTypes
  BY <1>2, Proofs!InitTypes, StoreConstants
<1>4. ASSUME NEW h \in Handler PROVE Busy(h)
  BY <1>1, <1>2 DEF ApiInit, Proofs!Init, Proofs!Idle, Busy, NoRequest
<1>5. QED
  BY <1>1, <1>3, <1>4 DEF ApiInit, BusyInv, Requests

\* A request always tells where the task of its handler can be, and no update has
\* panicked (ApiState).
THEOREM BusyCorrect == ApiSpec => []BusyInv
<1>1. BusyInv /\ [ApiNext]_apiVars => BusyInv'
  BY BusyStep
<1>2. QED
  BY <1>1, BusyInitially, PTL DEF ApiSpec

\* A handler is busy exactly while it has a request, and plays only what it loaded,
\* for any number of clients (set_mode).
THEOREM ApiTypeCorrect == ApiSpec => []ApiTypeOK
<1>1. BusyInv => ApiTypeOK
  BY DEF BusyInv, Busy, ApiTypeOK, Requests, Store!At
<1>2. QED
  BY <1>1, BusyCorrect, PTL
-----------------------------------------------------------------------------
(* The stage under the service layer *)

\* A request that is rejected changes no more than one for a refused rate does.
LEMMA RejectedIsRequest ==
  ASSUME \E hz \in Rate : ~ValidRate(hz), Rejected
  PROVE  ApiCall
BY Zenon DEF ApiCall, TransitionToOlat

\* A request to the stage is one of the stage's calls, if no update panics.
LEMMA RequestIsCall ==
  ASSUME {batch \in RawBatch : batch \in Seq(FixtureUpdate)} \subseteq Batch,
         \E hz \in Rate : ~ValidRate(hz),
         poisoned' = FALSE, StageRequest
  PROVE  ApiCall
<1>1. CASE TransitionToDemo \/ TransitionToManual \/ RequestManualCapture
  BY <1>1, Zenon DEF ApiCall
<1>2. CASE \E hz \in Rate : TransitionToOlat(hz)
  BY <1>2, Zenon DEF ApiCall
<1>3. CASE \E c \in ColourRequest : UpdateStage(c)
  BY <1>3, Zenon DEF ApiCall
<1>4. ~PanicInUpdate
  BY DEF PanicInUpdate
<1>5. ASSUME NEW arc_idx \in Index, NEW c \in ColourRequest, SetArc(arc_idx, c)
      PROVE  ApiCall
  <2>1. Rejected \/ (arc_idx \in Arc /\ UpdateArc(arc_idx, c))
    BY <1>4, <1>5, Zenon DEF SetArc
  <2>2. QED
    BY <2>1, RejectedIsRequest, Zenon DEF ApiCall
<1>6. ASSUME NEW arc_idx \in Index, NEW light_idx \in Index, NEW c \in ColourRequest,
             SetFixture(arc_idx, light_idx, c)
      PROVE  ApiCall
  <2>1. \/ Rejected
        \/ arc_idx \in Arc /\ light_idx \in Light /\ UpdateSingleFixture(arc_idx, light_idx, c)
    BY <1>4, <1>6, Zenon DEF SetFixture
  <2>2. QED
    BY <2>1, RejectedIsRequest, Zenon DEF ApiCall
<1>7. ASSUME NEW batch \in RawBatch, SetFixtures(batch)
      PROVE  ApiCall
  <2>1. Rejected \/ (batch \in Batch /\ UpdateBatch(batch))
    BY <1>4, <1>7, Zenon DEF SetFixtures
  <2>2. QED
    BY <2>1, RejectedIsRequest, Zenon DEF ApiCall
<1>8. QED
  BY <1>1, <1>2, <1>3, <1>5, <1>6, <1>7, Zenon DEF StageRequest

\* Clients drive the stage only through its methods and the network thread only
\* through advance_tick, each as a whole, however their requests to the store
\* interleave: every theorem about the stage holds under the service layer.  Clients
\* may also ask for refused rates, and send all the batches the stage gets.
THEOREM ApiRefinesStage ==
  ASSUME {batch \in RawBatch : batch \in Seq(FixtureUpdate)} \subseteq Batch,
         \E hz \in Rate : ~ValidRate(hz)
  PROVE  ApiSpec => StageSpec
<1>1. ApiInit => StageInit
  BY DEF ApiInit
<1>2. BusyInv /\ [ApiNext]_apiVars => [StageNext]_stageVars
  <2>1. SUFFICES ASSUME BusyInv, [ApiNext]_apiVars PROVE [StageNext]_stageVars
    OBVIOUS
  <2>2. CASE NetworkTick
    BY <2>2 DEF NetworkTick, StageNext
  <2>3. CASE StageRequest
    BY <2>1, <2>3, NoPanic, RequestIsCall DEF BusyInv, StageNext
  <2>4. ASSUME NEW h \in Handler, Play(h)
        PROVE  StageNext
    <3>1. PICK s \in Id \X Library : StartPlayback(s[2])
      BY <2>1, <2>4, PlayLoaded
    <3>2. s[2] \in Library /\ TransitionToPlayback(s[2])
      BY <3>1 DEF StartPlayback
    <3>3. QED
      BY <3>2, Zenon DEF ApiCall, StageNext
  <2>5. ASSUME NEW h \in Handler, Receive(h) \/ Leave(h) \/ Work(h) \/ Respond(h)
        PROVE  UNCHANGED stageVars
    BY <2>5, Zenon DEF Receive, Leave, Work, Respond
  <2>6. CASE UNCHANGED apiVars
    BY <2>6 DEF apiVars, stageVars
  <2>7. QED
    BY <2>1, <2>2, <2>3, <2>4, <2>5, <2>6 DEF ApiNext, Progress
<1>3. QED
  BY <1>1, <1>2, BusyCorrect, PTL DEF ApiSpec, StageSpec
-----------------------------------------------------------------------------
(* Uploads *)

\* Who saves under an identifier.
Saves(h, id) == task[h].at \in InSave /\ task[h].id = id

\* A call to the store by a handler that saves nothing keeps all saves, and leaves a
\* file as it is or removes it.
LEMMA OthersKeepFiles ==
  ASSUME Proofs!StoreTypes, NEW h \in Handler, NEW id \in Id,
         \/ Proofs!LoadExists(h) \/ Proofs!LoadRead(h) \/ Proofs!ListEntry(h)
         \/ Proofs!ListRead(h) \/ Proofs!ListEnd(h) \/ Proofs!DeleteExists(h)
         \/ Proofs!DeleteRemove(h) \/ Proofs!LoadBegin(h) \/ Proofs!ListBegin(h)
         \/ Proofs!DeleteBegin(h) \/ Proofs!Respond(h)
  PROVE  /\ task[h].at \notin InSave
         /\ files'[id]["zst"] \in {files[id]["zst"], Absent}
<1>1. CASE Proofs!DeleteRemove(h)
  <2>1. task[h].at = "delete_remove" /\ task[h] \in Proofs!Removing
    BY <1>1, Proofs!TaskShape, StoreConstants DEF Proofs!DeleteRemove, Proofs!At
  <2>2. \/ files' = [files EXCEPT ![task[h].id][task[h].form] = Absent]
        \/ UNCHANGED files
    BY <1>1, ZenonT(60) DEF Proofs!DeleteRemove, Proofs!Unlink
  <2>3. task[h].id \in Id /\ task[h].form \in Proofs!Form /\ Absent \in Proofs!File
    BY <2>1 DEF Proofs!Removing, Proofs!File
  <2>4. "zst" \in Proofs!Form
    BY DEF Proofs!Form
  <2>5. QED
    BY <2>1, <2>2, <2>3, <2>4, Proofs!FileUpdate, StoreConstants DEF Proofs!StoreTypes, InSave
<1>2. CASE ~Proofs!DeleteRemove(h)
  <2>1. UNCHANGED files
    BY <1>2, ZenonT(60) DEF Proofs!LoadExists, Proofs!LoadRead, Proofs!ListEntry, Proofs!ListRead,
       Proofs!ListEnd, Proofs!DeleteExists, Proofs!LoadBegin, Proofs!ListBegin,
       Proofs!DeleteBegin, Proofs!Respond
  <2>2. task[h].at \notin InSave
    BY <1>2 DEF Proofs!LoadExists, Proofs!LoadRead, Proofs!ListEntry, Proofs!ListRead,
       Proofs!ListEnd, Proofs!DeleteExists, Proofs!LoadBegin, Proofs!ListBegin,
       Proofs!DeleteBegin, Proofs!Respond, Proofs!At, Proofs!Begin, InSave
  <2>3. QED
    BY <2>1, <2>2, SMTT(40)
<1>3. QED
  BY <1>1, <1>2

\* Every step leaves the files that are not whole to those who save them.
LEMMA UploadStep ==
  ASSUME FlushOutcome = {TRUE}, IoOutcome = {TRUE},
         BusyInv, UploadsFinish, [ApiNext]_apiVars
  PROVE  UploadsFinish'
<1> USE DEF InSave
<1>1. Proofs!StoreTypes
  BY DEF BusyInv
<1>2. UploadsFinish <=>
        \A id \in Id : files[id]["zst"] = Partial => \E h \in Handler : Saves(h, id)
  BY DEF UploadsFinish, Saves
<1>3. UploadsFinish' <=>
        \A id \in Id : files'[id]["zst"] = Partial => \E h \in Handler : Saves(h, id)'
  BY DEF UploadsFinish, Saves
<1>4. Partial # Absent /\ Partial \notin Library
  BY StoreConstants DEF Proofs!StoreAssumption
<1>5. CASE UNCHANGED <<files, task>>
  BY <1>5, <1>2, <1>3 DEF Saves
<1>6. ASSUME NEW h \in Handler, task[h].at \notin InSave,
             \A g \in Handler \ {h} : task'[g] = task[g],
             \A id \in Id : files'[id]["zst"] \in {files[id]["zst"], Absent}
      PROVE  UploadsFinish'
  <2>1. SUFFICES ASSUME NEW id \in Id, files'[id]["zst"] = Partial
                 PROVE  \E g \in Handler : Saves(g, id)'
    BY <1>3
  <2>2. PICK g \in Handler : Saves(g, id)
    BY <1>2, <1>4, <1>6, <2>1
  <2>3. g # h
    BY <1>6, <2>2 DEF Saves
  <2>4. QED
    BY <1>6, <2>2, <2>3 DEF Saves
<1>7. ASSUME NEW h \in Handler, Proofs!SaveCreate(h)
      PROVE  UploadsFinish'
  <2>1. PICK new \in Proofs!NewUlids, seq \in Library :
          /\ files' = [files EXCEPT ![new]["zst"] = Partial]
          /\ Proofs!Begin(h, [at |-> "save_write", id |-> new, seq |-> seq])
    BY <1>7 DEF Proofs!SaveCreate
  <2>2. new \in Id
    BY DEF Proofs!NewUlids
  <2>3. /\ task[h].at = "idle" /\ task'[h] = [at |-> "save_write", id |-> new, seq |-> seq]
        /\ \A g \in Handler \ {h} : task'[g] = task[g]
    BY <1>1, <2>1, GoesOn DEF Proofs!Begin, Proofs!At
  <2>4. SUFFICES ASSUME NEW id \in Id, files'[id]["zst"] = Partial
                 PROVE  \E g \in Handler : Saves(g, id)'
    BY <1>3
  <2>5. CASE id = new
    BY <2>3, <2>5 DEF Saves
  <2>6. CASE id # new
    <3>1. files[id]["zst"] = Partial
      BY <1>1, <2>1, <2>4, <2>6 DEF Proofs!StoreTypes
    <3>2. PICK g \in Handler : Saves(g, id)
      BY <1>2, <3>1
    <3>3. g # h
      BY <2>3, <3>2 DEF Saves
    <3>4. QED
      BY <2>3, <3>2, <3>3 DEF Saves
  <2>7. QED
    BY <2>5, <2>6
<1>8. ASSUME NEW h \in Handler, Proofs!SaveWrite(h)
      PROVE  UploadsFinish'
  <2>1. task[h].at = "save_write" /\ task[h] \in Proofs!Saving
    BY <1>1, <1>8, Proofs!TaskShape, StoreConstants DEF Proofs!SaveWrite, Proofs!At
  <2>2. Proofs!Goto(h, [task[h] EXCEPT !.at = "save_flush"]) /\ UNCHANGED files
    BY <1>8 DEF Proofs!SaveWrite
  <2>3. /\ task'[h] = [task[h] EXCEPT !.at = "save_flush"]
        /\ \A g \in Handler \ {h} : task'[g] = task[g]
    BY <1>1, <2>2, GoesOn
  <2>4. task'[h].at = "save_flush" /\ task'[h].id = task[h].id
    BY <2>1, <2>3 DEF Proofs!Saving
  <2>5. \A g \in Handler, id \in Id : Saves(g, id) => Saves(g, id)'
    BY <2>3, <2>4 DEF Saves
  <2>6. QED
    BY <1>2, <1>3, <2>2, <2>5
<1>9. ASSUME NEW h \in Handler, Proofs!SaveFlush(h)
      PROVE  UploadsFinish'
  <2>1. task[h].at = "save_flush" /\ task[h].id \in Id /\ task[h].seq \in Library
    BY <1>1, <1>9, Proofs!TaskShape, StoreConstants DEF Proofs!SaveFlush, Proofs!At, Proofs!Saving
  <2>2. files' = IF files[task[h].id]["zst"] = Partial
                   THEN [files EXCEPT ![task[h].id]["zst"] = task[h].seq] ELSE files
    BY <1>9 DEF Proofs!SaveFlush
  <2>3. \A g \in Handler \ {h} : task'[g] = task[g]
    BY <1>1, <1>9, GoesOn DEF Proofs!SaveFlush
  <2>4. SUFFICES ASSUME NEW id \in Id, files'[id]["zst"] = Partial
                 PROVE  \E g \in Handler : Saves(g, id)'
    BY <1>3
  <2>5. id # task[h].id /\ files[id]["zst"] = Partial
    BY <1>1, <1>4, <2>1, <2>2, <2>4 DEF Proofs!StoreTypes, Proofs!Form
  <2>6. PICK g \in Handler : Saves(g, id)
    BY <1>2, <2>5
  <2>7. g # h
    BY <2>5, <2>6 DEF Saves
  <2>8. QED
    BY <2>3, <2>6, <2>7 DEF Saves
<1>10. ASSUME NEW h \in Handler, Receive(h) \/ Work(h) \/ Respond(h)
       PROVE  UploadsFinish'
  <2>1. CASE Proofs!SaveCreate(h) \/ Proofs!SaveWrite(h) \/ Proofs!SaveFlush(h)
    BY <1>7, <1>8, <1>9, <2>1
  <2>2. ASSUME \/ Proofs!LoadExists(h) \/ Proofs!LoadRead(h) \/ Proofs!ListEntry(h)
               \/ Proofs!ListRead(h) \/ Proofs!ListEnd(h) \/ Proofs!DeleteExists(h)
               \/ Proofs!DeleteRemove(h) \/ Proofs!LoadBegin(h) \/ Proofs!ListBegin(h)
               \/ Proofs!DeleteBegin(h) \/ Proofs!Respond(h)
        PROVE  UploadsFinish'
    <3>1. /\ task[h].at \notin InSave
          /\ \A id \in Id : files'[id]["zst"] \in {files[id]["zst"], Absent}
      <4>1. ASSUME NEW id \in Id
            PROVE  task[h].at \notin InSave /\ files'[id]["zst"] \in {files[id]["zst"], Absent}
        BY <1>1, <2>2, OthersKeepFiles, SMTT(30)
      <4>2. task[h].at \notin InSave
        BY <2>2, ZenonT(60) DEF Proofs!LoadExists, Proofs!LoadRead, Proofs!ListEntry, Proofs!ListRead,
           Proofs!ListEnd, Proofs!DeleteExists, Proofs!DeleteRemove, Proofs!LoadBegin,
           Proofs!ListBegin, Proofs!DeleteBegin, Proofs!Respond, Proofs!At, Proofs!Begin
      <4>3. QED
        BY <4>1, <4>2
    <3>2. \E next : Proofs!Goto(h, next)
      BY <2>2 DEF Proofs!LoadExists, Proofs!LoadRead, Proofs!ListEntry, Proofs!ListRead,
         Proofs!ListEnd, Proofs!DeleteExists, Proofs!DeleteRemove, Proofs!LoadBegin,
         Proofs!ListBegin, Proofs!DeleteBegin, Proofs!Respond, Proofs!Begin
    <3>3. \A g \in Handler \ {h} : task'[g] = task[g]
      BY <1>1, <3>2, GoesOn
    <3>4. QED
      BY <1>6, <3>1, <3>3
  <2>3. QED
    BY <1>10, <2>1, <2>2, StoreStep DEF Receive, Work, Respond
<1>11. ASSUME NEW h \in Handler, Play(h)
       PROVE  UploadsFinish'
  <2>1. task[h].at = "ok" /\ UNCHANGED files
    BY <1>11 DEF Play, Store!At
  <2>2. \A g \in Handler \ {h} : task'[g] = task[g]
    BY <1>1, <1>11, PlayLoaded, GoesOn
  <2>3. QED
    BY <1>6, <2>1, <2>2
<1>12. ASSUME NetworkTick \/ StageRequest \/ (\E h \in Handler : Leave(h)) \/ UNCHANGED apiVars
       PROVE  UNCHANGED <<files, task>>
  BY <1>12 DEF NetworkTick, StageRequest, Leave, apiVars, storeVars
<1>13. QED
  BY <1>5, <1>10, <1>11, <1>12 DEF ApiNext, Progress

\* If no call to the file system fails and the server does not start with half a file,
\* what clients upload gets on disk whole or is being written, for any number of
\* clients that leave at any time (upload_sequence, spawn_blocking).
THEOREM UploadsCorrect ==
  ASSUME FlushOutcome = {TRUE}, IoOutcome = {TRUE},
         \A initial \in InitialFiles, id \in Id : initial[id]["zst"] # Partial
  PROVE  ApiSpec => []UploadsFinish
<1>1. ApiInit => UploadsFinish
  BY DEF ApiInit, Store!Init, UploadsFinish
<1>2. BusyInv /\ UploadsFinish /\ [ApiNext]_apiVars => UploadsFinish'
  BY UploadStep
<1>3. QED
  BY <1>1, <1>2, BusyCorrect, PTL DEF ApiSpec
-----------------------------------------------------------------------------
(* Playback of uploads *)

\* What the store's lemmas need, under the service layer.
UploadInv ==
  BusyInv /\ Proofs!GoneInv /\ Proofs!SavedInv /\ Proofs!FoundInv

\* Every step but a start of a playback is one of the store, or leaves it alone.
LEMMA StoreNext ==
  ASSUME [ApiNext]_apiVars
  PROVE  [Proofs!Next]_(Proofs!vars) \/ \E h \in Handler : Play(h)
<1>1. CASE NetworkTick \/ StageRequest \/ (\E h \in Handler : Leave(h)) \/ UNCHANGED apiVars
  BY <1>1 DEF NetworkTick, StageRequest, Leave, apiVars, storeVars, Proofs!vars
<1>2. ASSUME NEW h \in Handler, Receive(h) \/ Work(h) \/ Respond(h)
      PROVE  Proofs!Step(h)
  BY <1>2, StoreStep, Zenon DEF Receive, Work, Respond, Proofs!Step
<1>3. QED
  BY <1>1, <1>2 DEF ApiNext, Progress, Proofs!Next

\* A playback is started by a handler whose load has ended, and changes its task only.
LEMMA PlayLeaves ==
  ASSUME BusyInv, NEW h \in Handler, Play(h)
  PROVE  /\ request[h] = "play" /\ task[h].at = "ok"
         /\ UNCHANGED <<files, used, stored, owed, deleted>>
         /\ task'[h].at \in {"ok", "err"} /\ request'[h] = "played"
         /\ \A g \in Handler \ {h} : task'[g] = task[g] /\ request'[g] = request[g]
<1>1. PICK s \in Id \X Library :
        Proofs!Goto(h, IF ValidRate(s[2].capture_hz) THEN Proofs!Ok({s}) ELSE Proofs!Err)
  BY PlayLoaded
<1>2. task'[h] \in {Proofs!Ok({s}), Proofs!Err} /\ \A g \in Handler \ {h} : task'[g] = task[g]
  BY <1>1, GoesOn DEF BusyInv
<1>3. task'[h].at \in {"ok", "err"}
  BY <1>2 DEF Proofs!Ok, Proofs!Err
<1>4. QED
  BY <1>2, <1>3 DEF Play, Store!At, Now, BusyInv

\* The store's invariants do not mind.
LEMMA PlayKeepsStore ==
  ASSUME BusyInv, Proofs!GoneInv, Proofs!SavedInv, Proofs!FoundInv,
         NEW h \in Handler, Play(h)
  PROVE  Proofs!GoneInv' /\ Proofs!SavedInv' /\ Proofs!FoundInv'
<1>1. /\ task[h].at = "ok" /\ task'[h].at \in {"ok", "err"}
      /\ UNCHANGED <<files, used, stored, owed, deleted>>
      /\ \A g \in Handler \ {h} : task'[g] = task[g]
  BY PlayLeaves
<1>2. ASSUME NEW g \in Handler, task'[g].at \notin {"ok", "err"}
      PROVE  task'[g] = task[g]
  BY <1>1, <1>2
<1>3. Proofs!GoneInv'
  BY <1>1, <1>2
    DEF Proofs!GoneInv, Proofs!Removes, Proofs!SureSoFar, Proofs!DeletedIsGone, Proofs!Form
<1>4. Proofs!SavedInv'
  BY <1>1, <1>2 DEF Proofs!SavedInv, Proofs!Saves, Proofs!Deleting
<1>5. Proofs!FoundInv'
  <2> DEFINE Kept(g, s) ==
        /\ task[g].at \in {"load", "load_read"} /\ task[g].id = s[1] => task[g].form = "zst"
        /\ task[g].at = "list" => Proofs!WillTell(task[g], s)
        /\ task[g].at = "list_read" =>
             task[g].entry = <<s[1], "zst">> \/ Proofs!WillTell(task[g].rest, s)
  <2>1. SUFFICES ASSUME NEW g \in Handler, NEW s \in owed'[g] PROVE Kept(g, s)'
    BY DEF Proofs!FoundInv
  <2>2. CASE task'[g].at \in {"ok", "err"}
    BY <2>2
  <2>3. CASE task'[g] = task[g]
    <3>1. Kept(g, s)
      BY <1>1 DEF Proofs!FoundInv
    <3>2. QED
      BY <2>3, <3>1 DEF Proofs!WillTell
  <2>4. QED
    BY <1>2, <2>2, <2>3
<1>6. QED
  BY <1>3, <1>4, <1>5

\* Every step keeps what is true of uploads and their loads.
LEMMA UploadInvStep ==
  ASSUME FlushOutcome = {TRUE}, UploadInv, [ApiNext]_apiVars
  PROVE  UploadInv'
<1>1. BusyInv'
  BY BusyStep DEF UploadInv
<1>2. CASE [Proofs!Next]_(Proofs!vars)
  <2>1. Proofs!GoneInv'
    BY <1>2, Proofs!GoneStep, StoreConstants DEF UploadInv, BusyInv
  <2>2. Proofs!SavedInv'
    BY <1>2, Proofs!SavedStep, StoreConstants DEF UploadInv, BusyInv
  <2>3. Proofs!FoundInv'
    BY <1>2, Proofs!FoundStep, StoreConstants DEF UploadInv, BusyInv
  <2>4. QED
    BY <1>1, <2>1, <2>2, <2>3 DEF UploadInv
<1>3. CASE \E h \in Handler : Play(h)
  BY <1>1, <1>3, PlayKeepsStore DEF UploadInv
<1>4. QED
  BY <1>2, <1>3, StoreNext

\* So is the beginning.
LEMMA UploadInitially == ApiInit => UploadInv
<1>1. SUFFICES ASSUME ApiInit PROVE UploadInv
  OBVIOUS
<1>2. Proofs!Init
  BY <1>1 DEF ApiInit, Store!Init, Proofs!Init, Store!Idle, Proofs!Idle, Store!Form, Proofs!Form
<1>3. Proofs!GoneInv /\ Proofs!SavedInv /\ Proofs!FoundInv
  BY <1>2, Proofs!GoneInit, Proofs!SavedInit, Proofs!FoundInit, StoreConstants
<1>4. QED
  BY <1>1, <1>3, BusyInitially DEF UploadInv

\* A handler that waits for the lock has just one sequence, and keeps it until it plays it.
LEMMA LoadedKept ==
  ASSUME BusyInv, [ApiNext]_apiVars,
         NEW h \in Handler, request[h] = "play", NEW s \in Loaded(h)
  PROVE  /\ s \in Id \X Library /\ task[h].at = "ok" /\ task[h].value = {s}
         /\ Play(h) \/ (request'[h] = "play" /\ task'[h] = task[h])
<1>1. s \in Id \X Library /\ task[h].at = "ok" /\ task[h].value = {s}
  BY DEF Loaded, BusyInv, Busy
<1>2. CASE NetworkTick \/ StageRequest \/ UNCHANGED apiVars
  BY <1>1, <1>2 DEF NetworkTick, StageRequest, apiVars, storeVars
<1>3. ASSUME NEW g \in Handler, Receive(g) \/ Leave(g) \/ Respond(g)
      PROVE  request'[h] = "play" /\ task'[h] = task[h]
  <2>1. g # h
    <3>1. CASE Receive(g)
      BY <1>1, <3>1, StoreStep
        DEF Receive, Proofs!SaveCreate, Proofs!LoadBegin, Proofs!ListBegin,
            Proofs!DeleteBegin, Proofs!Begin, Proofs!At
    <3>2. CASE Leave(g)
      BY <3>2 DEF Leave
    <3>3. CASE Respond(g)
      BY <1>1, <3>3 DEF Respond, Store!At
    <3>4. QED
      BY <1>3, <3>1, <3>2, <3>3
  <2>2. request'[h] = request[h]
    BY <1>3, <2>1 DEF Receive, Leave, Respond, Now, BusyInv
  <2>3. UNCHANGED task \/ \E next : Proofs!Goto(g, next)
    BY <1>3, StoreStep
      DEF Receive, Leave, Respond, storeVars, Proofs!SaveCreate, Proofs!LoadBegin,
          Proofs!ListBegin, Proofs!DeleteBegin, Proofs!Respond, Proofs!Begin
  <2>4. QED
    BY <2>1, <2>2, <2>3, GoesOn DEF BusyInv
<1>4. ASSUME NEW g \in Handler, Work(g)
      PROVE  request'[h] = "play" /\ task'[h] = task[h]
  BY <1>1, <1>4, WorkMoves DEF Work, Moves, BusyInv
<1>5. ASSUME NEW g \in Handler \ {h}, Play(g)
      PROVE  request'[h] = "play" /\ task'[h] = task[h]
  BY <1>5, PlayLeaves
<1>6. QED
  BY <1>1, <1>2, <1>3, <1>4, <1>5 DEF ApiNext, Progress

\* What was loaded is played, or refused for its rate.
LEMMA PlaysLoaded ==
  ASSUME BusyInv, [ApiNext]_apiVars,
         NEW h \in Handler, request[h] = "play", NEW s \in Loaded(h)
  PROVE  IF request'[h] # "played" THEN request'[h] = "play" /\ Loaded(h)' = {s}
         ELSE IF ValidRate(s[2].capture_hz) THEN runtime' = PlaybackRuntime(s[2])
         ELSE task'[h].at = "err" /\ runtime' = runtime
<1>1. /\ task[h].at = "ok" /\ task[h].value = {s}
      /\ Play(h) \/ (request'[h] = "play" /\ task'[h] = task[h])
  BY LoadedKept
<1>2. CASE request'[h] = "play" /\ task'[h] = task[h]
  BY <1>1, <1>2 DEF Loaded
<1>3. CASE Play(h)
  <2>1. request'[h] = "played"
    BY <1>3, PlayLeaves
  <2>2. (CHOOSE t \in task[h].value : TRUE) = s
    BY <1>1
  <2>3. /\ StartPlayback(s[2])
        /\ Proofs!Goto(h, IF ValidRate(s[2].capture_hz) THEN Proofs!Ok({s}) ELSE Proofs!Err)
    BY <1>3, <2>2 DEF Play, Store!Goto, Proofs!Goto, Store!Ok, Proofs!Ok, Store!Err, Proofs!Err
  <2>4. CASE ValidRate(s[2].capture_hz)
    BY <2>1, <2>3, <2>4 DEF StartPlayback, TransitionToPlayback, TransitionTo, SetRuntime
  <2>5. CASE ~ValidRate(s[2].capture_hz)
    BY <2>1, <2>3, <2>5, GoesOn
      DEF BusyInv, StartPlayback, TransitionToPlayback, Rejected, Proofs!Err
  <2>6. QED
    BY <2>4, <2>5
<1>4. QED
  BY <1>1, <1>2, <1>3

\* On a disk that takes the last write, a request to play finds what was uploaded before
\* it, unless it is deleted during the load, and plays just what it has found or is
\* refused for its rate, for any number of clients that upload, delete and change the
\* mode meanwhile (set_mode).
THEOREM PlayedCorrect ==
  ASSUME FlushOutcome = {TRUE}
  PROVE  ApiSpec => UploadsCanBePlayed
<1> DEFINE Finds(h, s) ==
             task[h].at \in {"load", "load_read"} /\ task[h].id = s[1] =>
               task'[h].at # "err" /\ (task'[h].at = "ok" => s \in task'[h].value)
           Plays(h, s) ==
             IF request'[h] # "played" THEN request'[h] = "play" /\ Loaded(h)' = {s}
             ELSE IF ValidRate(s[2].capture_hz) THEN runtime' = PlaybackRuntime(s[2])
             ELSE task'[h].at = "err" /\ runtime' = runtime
<1>1. UploadInv /\ [ApiNext]_apiVars => UploadInv'
  BY UploadInvStep
<1>2. UploadInv /\ [ApiNext]_apiVars =>
        [\A h \in Handler : request[h] = "play" =>
           /\ \A s \in owed[h] : Finds(h, s)
           /\ \A s \in Loaded(h) : Plays(h, s)]_apiVars
  <2>1. SUFFICES ASSUME UploadInv, [ApiNext]_apiVars, NEW h \in Handler, request[h] = "play"
                 PROVE  /\ \A s \in owed[h] : Finds(h, s)
                        /\ \A s \in Loaded(h) : Plays(h, s)
    OBVIOUS
  <2>2. ASSUME NEW s \in owed[h] PROVE Finds(h, s)
    <3>1. CASE [Proofs!Next]_(Proofs!vars)
      BY <2>1, <2>2, <3>1, Proofs!ReadersStep, StoreConstants DEF UploadInv, BusyInv
    <3>2. CASE \E g \in Handler : Play(g)
      <4>1. PICK g \in Handler : Play(g)
        BY <3>2
      <4>2. task[g].at = "ok" /\ \A i \in Handler \ {g} : task'[i] = task[i]
        BY <2>1, <4>1, PlayLeaves DEF UploadInv
      <4>3. QED
        BY <4>2
    <3>3. QED
      BY <2>1, <3>1, <3>2, StoreNext
  <2>3. ASSUME NEW s \in Loaded(h) PROVE Plays(h, s)
    BY <2>1, <2>3, PlaysLoaded DEF UploadInv
  <2>4. QED
    BY <2>2, <2>3
<1>3. QED
  BY <1>1, <1>2, UploadInitially, PTL DEF ApiSpec, UploadsCanBePlayed
=============================================================================
