---------------------------- MODULE SequenceProofs ----------------------------
(***************************************************************************)
(* Proofs about the sequence store for any number of handlers, identifiers *)
(* and sequences, with crashes and failing operations at any moment.       *)
(*                                                                         *)
(* StoreTypes gives every step of an operation its type; GoneInv says what *)
(* a deletion under way has made sure of, SavedInv what a save under way   *)
(* may count on, and FoundInv what a reader has still to meet.             *)
(***************************************************************************)
EXTENDS SequenceStore, TLAPS

\* The steps of the operations.
Entry == Id \X Form
Stored == Id \X Sequence

Listing ==
  [at : {"list"}, left : SUBSET Entry, visited : SUBSET Entry, seen_ids : SUBSET Id,
   summaries : SUBSET Stored]

Answer == [at : {"ok"}, value : SUBSET Stored]
Saving == [at : {"save_write", "save_flush"}, id : Id, seq : Sequence]
Loading == [at : {"load", "load_read"}, id : Id, form : Form]
Reading == [at : {"list_read"}, entry : Entry, rest : Listing]
Removing == [at : {"delete", "delete_remove"}, id : Id, form : Form, deleted : BOOLEAN]

Task ==
  [at : {"idle", "err"}] \cup Answer \cup Saving \cup Loading \cup Listing
    \cup Reading \cup Removing

StoreTypes ==
  /\ files \in [Id -> [Form -> File]]
  /\ task \in [Handler -> Task]
  /\ used \subseteq Id
  /\ stored \subseteq Stored
  /\ owed \in [Handler -> SUBSET stored]
  /\ deleted \subseteq Id

LEMMA InitTypes == Init => StoreTypes
BY StoreAssumption DEF Init, StoreTypes, Task, Idle

\* The step a handler is at tells what it holds.
LEMMA TaskShape ==
  ASSUME StoreTypes, NEW h \in Handler
  PROVE  /\ task[h].at = "ok" => task[h] \in Answer
         /\ task[h].at \in {"save_write", "save_flush"} => task[h] \in Saving
         /\ task[h].at \in {"load", "load_read"} => task[h] \in Loading
         /\ task[h].at = "list" => task[h] \in Listing
         /\ task[h].at = "list_read" => task[h] \in Reading
         /\ task[h].at \in {"delete", "delete_remove"} => task[h] \in Removing
<1>1. task[h] \in Task
  BY DEF StoreTypes
<1>2. QED
  BY <1>1 DEF Task, Answer, Saving, Loading, Listing, Reading, Removing

\* A write or removal changes one file.
LEMMA FileUpdate ==
  ASSUME files \in [Id -> [Form -> File]], NEW id \in Id, NEW form \in Form, NEW file \in File
  PROVE  /\ [files EXCEPT ![id][form] = file] \in [Id -> [Form -> File]]
         /\ \A i \in Id, f \in Form :
              [files EXCEPT ![id][form] = file][i][f] =
                IF i = id /\ f = form THEN file ELSE files[i][f]
OBVIOUS

\* Every step of an operation leaves a step of an operation.
LEMMA TypesStep ==
  ASSUME StoreTypes, [Next]_vars
  PROVE  StoreTypes'
<1> USE DEF StoreTypes, Form
<1>1. CASE Crash
  BY <1>1 DEF Crash, Idle, Task
<1>2. ASSUME NEW h \in Handler, SaveCreate(h)
      PROVE  StoreTypes'
  <2>1. PICK id \in NewUlids, seq \in Sequence :
          \/ /\ files' = [files EXCEPT ![id]["zst"] = Partial]
             /\ used' = used \cup {id}
             /\ Begin(h, [at |-> "save_write", id |-> id, seq |-> seq])
             /\ UNCHANGED <<stored, deleted>>
          \/ /\ FALSE \in IoOutcome
             /\ Begin(h, Err)
             /\ UNCHANGED <<files, used, stored, deleted>>
    BY <1>2 DEF SaveCreate
  <2>2. id \in Id
    BY DEF NewUlids
  <2>3. [at |-> "save_write", id |-> id, seq |-> seq] \in Task /\ Err \in Task
    BY <2>2 DEF Task, Saving, Err
  <2>4. [files EXCEPT ![id]["zst"] = Partial] \in [Id -> [Form -> File]]
    BY <2>2, FileUpdate DEF File
  <2>5. QED
    BY <2>1, <2>2, <2>3, <2>4 DEF Begin, Goto
<1>3. ASSUME NEW h \in Handler, SaveWrite(h)
      PROVE  StoreTypes'
  <2>1. [task[h] EXCEPT !.at = "save_flush"] \in Task /\ Err \in Task
    BY <1>3, TaskShape DEF SaveWrite, At, Task, Saving, Err
  <2>2. QED
    BY <1>3, <2>1 DEF SaveWrite, Goto
<1>4. ASSUME NEW h \in Handler, SaveFlush(h)
      PROVE  StoreTypes'
  <2>1. task[h].id \in Id /\ task[h].seq \in Sequence
    BY <1>4, TaskShape DEF SaveFlush, At, Saving
  <2>2. Ok({<<task[h].id, task[h].seq>>}) \in Task
    BY <2>1 DEF Ok, Task, Answer, Stored
  <2>3. task[h].seq \in File
    BY <2>1 DEF File
  <2>4. files' \in [Id -> [Form -> File]] /\ task' \in [Handler -> Task]
    BY <1>4, <2>1, <2>2, <2>3, FileUpdate DEF SaveFlush, Goto
  <2>5. stored \subseteq stored' /\ stored' \subseteq Stored
    BY <1>4, <2>1 DEF SaveFlush, Stored
  <2>6. QED
    BY <1>4, <2>4, <2>5 DEF SaveFlush
<1>5. ASSUME NEW h \in Handler, LoadBegin(h) \/ LoadExists(h) \/ LoadRead(h)
      PROVE  StoreTypes'
  <2>1. CASE LoadBegin(h)
    BY <2>1 DEF LoadBegin, Begin, Goto, Task, Loading
  <2>2. CASE LoadExists(h)
    BY <2>2, TaskShape DEF LoadExists, At, Goto, Task, Loading, Err
  <2>3. CASE LoadRead(h)
    <3>1. task[h].id \in Id /\ task[h].form \in Form
      BY <2>3, TaskShape DEF LoadRead, At, Loading
    <3>2. Whole(files[task[h].id][task[h].form]) =>
            Ok({<<task[h].id, files[task[h].id][task[h].form]>>}) \in Task
      BY <3>1 DEF Ok, Task, Answer, Stored, Whole
    <3>3. Err \in Task
      BY DEF Err, Task
    <3>4. QED
      BY <2>3, <3>2, <3>3 DEF LoadRead, Goto
  <2>4. QED
    BY <1>5, <2>1, <2>2, <2>3
<1>6. ASSUME NEW h \in Handler, ListBegin(h) \/ ListEntry(h) \/ ListRead(h) \/ ListEnd(h)
      PROVE  StoreTypes'
  <2>1. CASE ListBegin(h)
    <3>1. Present \subseteq Entry
      BY DEF Present, Entry
    <3>2. QED
      BY <2>1, <3>1 DEF ListBegin, Begin, Goto, Task, Listing
  <2>2. CASE ListEntry(h)
    <3>1. task[h] \in Listing
      BY <2>2, TaskShape DEF ListEntry, At
    <3>2. PICK entry \in (task[h].left \cup Present) \ task[h].visited :
            LET passed == [task[h] EXCEPT !.left = @ \ {entry}, !.visited = @ \cup {entry}]
            IN  Goto(h, IF entry \notin Present \/ entry[1] \in task[h].seen_ids
                          THEN passed
                          ELSE [at |-> "list_read", entry |-> entry,
                                rest |-> [passed EXCEPT !.seen_ids = @ \cup {entry[1]}]])
      BY <2>2 DEF ListEntry
    <3> DEFINE passed ==
          [task[h] EXCEPT !.left = @ \ {entry}, !.visited = @ \cup {entry}]
    <3>3. entry \in Entry /\ entry[1] \in Id
      BY <3>1 DEF Present, Entry, Listing
    <3>4. passed \in Listing
      BY <3>1, <3>3 DEF Listing
    <3>5. [passed EXCEPT !.seen_ids = @ \cup {entry[1]}] \in Listing
      BY <3>3, <3>4 DEF Listing
    <3>6. task'[h] \in Task /\ task' = [task EXCEPT ![h] = task'[h]]
      BY <3>2, <3>3, <3>4, <3>5, SMTT(30) DEF Goto, Task, Reading
    <3>7. QED
      BY <2>2, <3>6 DEF ListEntry
  <2>3. CASE ListRead(h)
    <3>1. task[h].entry \in Entry /\ task[h].rest \in Listing
      BY <2>3, TaskShape DEF ListRead, At, Reading
    <3> DEFINE entry == task[h].entry
               file == files[entry[1]][entry[2]]
               told == [task[h].rest EXCEPT !.summaries = @ \cup {<<entry[1], file>>}]
    <3>2. Whole(file) => told \in Listing
      BY <3>1 DEF Listing, Entry, Stored, Whole
    <3>3. QED
      BY <2>3, <3>1, <3>2 DEF ListRead, Goto, Task
  <2>4. CASE ListEnd(h)
    BY <2>4, TaskShape DEF ListEnd, At, Goto, Task, Listing, Answer, Ok
  <2>5. QED
    BY <1>6, <2>1, <2>2, <2>3, <2>4
<1>7. ASSUME NEW h \in Handler, DeleteBegin(h)
      PROVE  StoreTypes'
  <2>1. PICK id \in Id :
          /\ Goto(h, [at |-> "delete", id |-> id, form |-> "zst", deleted |-> FALSE])
          /\ stored' = {s \in stored : s[1] # id}
          /\ owed' = [g \in Handler |-> {s \in owed[g] : s[1] # id}]
          /\ UNCHANGED <<files, used, deleted>>
    BY <1>7 DEF DeleteBegin
  <2>2. QED
    BY <2>1 DEF Goto, Task, Removing
<1>8. ASSUME NEW h \in Handler, DeleteExists(h) \/ DeleteRemove(h)
      PROVE  StoreTypes'
  <2>1. /\ task[h].id \in Id /\ task[h].form \in Form
        /\ [task[h] EXCEPT !.at = "delete_remove"] \in Task
    BY <1>8, TaskShape, ZenonT(60) DEF DeleteExists, DeleteRemove, At, Task, Removing
  <2>2. \A removed \in BOOLEAN : AfterForm(h, removed) \in Task
    BY <1>8, TaskShape, ZenonT(60)
    DEF DeleteExists, DeleteRemove, At, AfterForm, Task, Removing, Answer, Ok, Err
  <2>3. Err \in Task /\ Absent \in File
    BY DEF Err, Task, File
  <2>4. CASE DeleteExists(h)
    BY <2>1, <2>2, <2>4 DEF DeleteExists, Goto
  <2>5. CASE DeleteRemove(h)
    <3>1. Unlink(task[h].id, task[h].form) => files' \in [Id -> [Form -> File]]
      BY <2>1, <2>3, FileUpdate DEF Unlink
    <3>2. QED
      BY <2>1, <2>2, <2>3, <2>5, <3>1 DEF DeleteRemove, Goto
  <2>6. QED
    BY <1>8, <2>4, <2>5
<1>9. ASSUME NEW h \in Handler, Respond(h)
      PROVE  StoreTypes'
  BY <1>9 DEF Respond, Goto, Idle, Task
<1>10. CASE UNCHANGED vars
  BY <1>10 DEF vars
<1>11. QED
  BY <1>1, <1>2, <1>3, <1>4, <1>5, <1>6, <1>7, <1>8, <1>9, <1>10 DEF Next, Step

\* The steps of the operations of SequenceStore have their types.
THEOREM TypesCorrect == Spec => []StoreTypes
<1>1. StoreTypes /\ [Next]_vars => StoreTypes'
  BY TypesStep
<1>2. QED
  BY InitTypes, <1>1, PTL DEF Spec
-----------------------------------------------------------------------------
(* What a step may do to the directory and to a handler *)

\* A file stays as it is, is removed by a delete, completed by the save that
\* created it, or created under an identifier nobody has used.
LEMMA FilesStep ==
  ASSUME StoreTypes, [Next]_vars
  PROVE  /\ used \subseteq used'
         /\ \A i \in Id, f \in Form :
              \/ files'[i][f] = files[i][f]
              \/ files'[i][f] = Absent /\ \E h \in Handler : Deleting(h, i)
              \/ /\ files[i][f] = Partial /\ f = "zst"
                 /\ \E h \in Handler : /\ SaveFlush(h) /\ task[h].id = i
                                       /\ files'[i][f] = task[h].seq
              \/ i \notin used /\ i \in used' /\ f = "zst" /\ files'[i][f] = Partial
<1> USE DEF StoreTypes
<1> DEFINE Confined ==
      \A i \in Id, f \in Form :
        \/ files'[i][f] = files[i][f]
        \/ files'[i][f] = Absent /\ \E h \in Handler : Deleting(h, i)
        \/ /\ files[i][f] = Partial /\ f = "zst"
           /\ \E h \in Handler : /\ SaveFlush(h) /\ task[h].id = i
                                 /\ files'[i][f] = task[h].seq
        \/ i \notin used /\ i \in used' /\ f = "zst" /\ files'[i][f] = Partial
<1>1. ASSUME NEW h \in Handler, SaveCreate(h)
      PROVE  used \subseteq used' /\ Confined
  <2>1. CASE UNCHANGED <<files, used>>
    BY <2>1
  <2>2. ASSUME NEW id \in NewUlids, used' = used \cup {id},
               files' = [files EXCEPT ![id]["zst"] = Partial]
        PROVE  used \subseteq used' /\ Confined
    <3>1. id \in Id /\ id \notin used /\ "zst" \in Form /\ Partial \in File
      BY DEF NewUlids, Form, File
    <3>2. \A i \in Id, f \in Form :
            files'[i][f] = IF i = id /\ f = "zst" THEN Partial ELSE files[i][f]
      BY <2>2, <3>1, FileUpdate, SMTT(30)
    <3>3. QED
      BY <2>2, <3>1, <3>2
  <2>3. QED
    BY <1>1, <2>1, <2>2 DEF SaveCreate
<1>2. ASSUME NEW h \in Handler, SaveFlush(h)
      PROVE  used \subseteq used' /\ Confined
  <2>1. task[h].id \in Id /\ task[h].seq \in File /\ "zst" \in Form
    BY <1>2, TaskShape DEF SaveFlush, At, Saving, File, Form
  <2>2. CASE files' = files
    BY <1>2, <2>2 DEF SaveFlush
  <2>3. CASE /\ files[task[h].id]["zst"] = Partial
             /\ files' = [files EXCEPT ![task[h].id]["zst"] = task[h].seq]
    <3>1. \A i \in Id, f \in Form :
            files'[i][f] = IF i = task[h].id /\ f = "zst" THEN task[h].seq ELSE files[i][f]
      BY <2>1, <2>3, FileUpdate
    <3>2. used' = used
      BY <1>2 DEF SaveFlush
    <3>3. QED
      BY <1>2, <2>3, <3>1, <3>2
  <2>4. QED
    BY <1>2, <2>2, <2>3 DEF SaveFlush
<1>3. ASSUME NEW h \in Handler, DeleteRemove(h)
      PROVE  used \subseteq used' /\ Confined
  <2>1. task[h].id \in Id /\ task[h].form \in Form /\ Absent \in File
    BY <1>3, TaskShape DEF DeleteRemove, At, Removing, File
  <2>2. Deleting(h, task[h].id)
    BY <1>3 DEF DeleteRemove, Deleting, At
  <2>3. CASE files' = files
    BY <1>3, <2>3 DEF DeleteRemove
  <2>4. CASE files' = [files EXCEPT ![task[h].id][task[h].form] = Absent]
    <3>1. \A i \in Id, f \in Form :
            files'[i][f] = IF i = task[h].id /\ f = task[h].form THEN Absent ELSE files[i][f]
      BY <2>1, <2>4, FileUpdate
    <3>2. QED
      BY <1>3, <2>2, <3>1 DEF DeleteRemove
  <2>5. QED
    BY <1>3, <2>3, <2>4 DEF DeleteRemove, Unlink
<1>4. CASE UNCHANGED <<files, used>>
  BY <1>4
<1>5. QED
  BY <1>1, <1>2, <1>3, <1>4
    DEF Next, Step, Crash, SaveWrite, LoadBegin, LoadExists, LoadRead, ListBegin, ListEntry,
        ListRead, ListEnd, DeleteBegin, DeleteExists, Respond, vars

\* A step is one handler's, except a crash, which leaves all of them idle.
LEMMA TaskStep ==
  ASSUME StoreTypes, [Next]_vars, NEW g \in Handler
  PROVE  task'[g] = task[g] \/ task'[g] = Idle \/ Step(g)
<1>1. CASE Crash
  BY <1>1 DEF Crash
<1>2. ASSUME NEW h \in Handler, Step(h)
      PROVE  task'[g] = task[g] \/ Step(g)
  <2>1. CASE h = g
    BY <1>2, <2>1
  <2>2. CASE h # g
    <3>1. \E next : Goto(h, next)
      BY <1>2, Zenon
        DEF Step, SaveCreate, SaveWrite, SaveFlush, LoadBegin, LoadExists, LoadRead,
            ListBegin, ListEntry, ListRead, ListEnd, DeleteBegin, DeleteExists, DeleteRemove,
            Respond, Begin
    <3>2. QED
      BY <2>2, <3>1 DEF Goto, StoreTypes
  <2>3. QED
    BY <2>1, <2>2
<1>3. QED
  BY <1>1, <1>2 DEF Next, vars
-----------------------------------------------------------------------------
(* Deletions *)

\* What a deletion has made sure of when it turns to the second form.
SureSoFar(h) ==
  LET id == task[h].id
  IN  /\ task[h].deleted => id \in used
      /\ task[h].form = "cbor" =>
           \/ files[id]["zst"] = Absent
           \/ ~ task[h].deleted /\ files[id]["cbor"] = Absent

Removes(h) == task[h].at \in {"delete", "delete_remove"}

GoneInv ==
  /\ \A id \in Id, form \in Form : files[id][form] # Absent => id \in used
  /\ deleted \subseteq used
  /\ DeletedIsGone
  /\ \A h \in Handler : Removes(h) => SureSoFar(h)

LEMMA GoneInit == Init => GoneInv
BY DEF Init, GoneInv, DeletedIsGone, Removes, Idle

\* Nothing appears under an identifier that was used.
LEMMA NothingAppears ==
  ASSUME StoreTypes, GoneInv, [Next]_vars, NEW id \in Id, NEW form \in Form,
         files'[id][form] # Absent
  PROVE  \/ files[id][form] # Absent
         \/ id \notin used /\ id \in used' /\ form = "zst"
BY FilesStep, StoreAssumption

\* One step of a deletion, with what it claims when it succeeds.
LEMMA RemoveStep ==
  ASSUME StoreTypes, GoneInv, [Next]_vars, NEW h \in Handler,
         DeleteExists(h) \/ DeleteRemove(h)
  PROVE  /\ Removes(h)' => SureSoFar(h)'
         /\ task'[h].at = "ok" =>
              task[h].id \in used /\ \A form \in Form : files'[task[h].id][form] = Absent
<1> DEFINE id == task[h].id
<1> USE DEF StoreTypes
<1>1. /\ task[h] \in Removing /\ id \in Id /\ Absent \in File /\ SureSoFar(h)
      /\ task[h].form \in Form /\ task[h].deleted \in BOOLEAN
  BY TaskShape DEF DeleteExists, DeleteRemove, At, Removing, File, GoneInv, Removes
<1>2. CASE DeleteExists(h)
  <2>1. UNCHANGED <<files, used>>
    BY <1>2 DEF DeleteExists
  <2>2. CASE files[id][task[h].form] # Absent
    <3>1. task'[h] = [task[h] EXCEPT !.at = "delete_remove"]
      BY <1>2, <2>2 DEF DeleteExists, Goto
    <3>2. QED
      BY <1>1, <2>1, <3>1 DEF Removing, SureSoFar
  <2>3. CASE files[id][task[h].form] = Absent /\ task[h].form = "zst"
    <3>1. task'[h] = [task[h] EXCEPT !.at = "delete", !.form = "cbor", !.deleted = FALSE]
      BY <1>2, <2>3 DEF DeleteExists, Goto, AfterForm
    <3>2. QED
      BY <1>1, <2>1, <2>3, <3>1 DEF Removing, SureSoFar
  <2>4. CASE files[id][task[h].form] = Absent /\ task[h].form = "cbor"
    <3>1. task'[h] = IF task[h].deleted THEN Ok({}) ELSE Err
      BY <1>2, <2>4 DEF DeleteExists, Goto, AfterForm
    <3>2. task[h].deleted => id \in used /\ files[id]["zst"] = Absent
      BY <1>1, <2>4 DEF SureSoFar
    <3>3. QED
      BY <2>1, <2>4, <3>1, <3>2 DEF Ok, Err, Removes, Form
  <2>5. QED
    BY <1>1, <2>2, <2>3, <2>4 DEF Form
<1>3. CASE DeleteRemove(h)
  <2>1. used' = used
    BY <1>3 DEF DeleteRemove
  <2>2. CASE task' = [task EXCEPT ![h] = Err]
    BY <2>2 DEF Err, Removes
  <2>3. CASE /\ files[id][task[h].form] # Absent /\ Unlink(id, task[h].form)
             /\ Goto(h, AfterForm(h, TRUE))
    <3>1. \A f \in Form :
            files'[id][f] = IF f = task[h].form THEN Absent ELSE files[id][f]
      BY <1>1, <2>3, FileUpdate DEF Unlink
    <3>2. id \in used
      BY <1>1, <2>3 DEF GoneInv
    <3>3. CASE task[h].form = "zst"
      <4>1. task'[h] = [task[h] EXCEPT !.at = "delete", !.form = "cbor", !.deleted = TRUE]
        BY <2>3, <3>3 DEF Goto, AfterForm
      <4>2. QED
        BY <1>1, <2>1, <3>1, <3>2, <3>3, <4>1 DEF Removing, SureSoFar, Form
    <3>4. CASE task[h].form = "cbor"
      <4>1. task'[h] = Ok({})
        BY <2>3, <3>4 DEF Goto, AfterForm
      <4>2. files[id]["zst"] = Absent
        BY <1>1, <2>3, <3>4 DEF SureSoFar
      <4>3. QED
        BY <3>1, <3>2, <3>4, <4>1, <4>2 DEF Ok, Removes, Form
    <3>5. QED
      BY <1>1, <3>3, <3>4 DEF Form
  <2>4. QED
    BY <1>3, <2>2, <2>3 DEF DeleteRemove, Goto
<1>4. QED
  BY <1>2, <1>3

LEMMA GoneStep ==
  ASSUME StoreTypes, GoneInv, [Next]_vars
  PROVE  GoneInv'
<1> USE DEF StoreTypes
<1>1. \A id \in Id, form \in Form : files'[id][form] # Absent => id \in used'
  BY NothingAppears, FilesStep DEF GoneInv
<1>2. deleted' \subseteq used' /\ DeletedIsGone'
  <2>1. SUFFICES ASSUME NEW id \in deleted'
                 PROVE  id \in used' /\ \A form \in Form : files'[id][form] = Absent
    BY DEF DeletedIsGone
  <2>2. CASE id \in deleted
    BY <2>2, NothingAppears, FilesStep DEF GoneInv, DeletedIsGone
  <2>3. CASE id \notin deleted
    <3>1. PICK h \in Handler : /\ DeleteExists(h) \/ DeleteRemove(h)
                               /\ task'[h].at = "ok" /\ id = task[h].id
      BY <2>3
        DEF Next, Step, Crash, SaveCreate, SaveWrite, SaveFlush, LoadBegin, LoadExists,
            LoadRead, ListBegin, ListEntry, ListRead, ListEnd, DeleteBegin, DeleteExists,
            DeleteRemove, Respond, vars
    <3>2. QED
      BY <3>1, RemoveStep, FilesStep, SMTT(40)
  <2>4. QED
    BY <2>2, <2>3
<1>3. ASSUME NEW h \in Handler, Removes(h)'
      PROVE  SureSoFar(h)'
  <2>1. CASE task'[h] = task[h]
    <3>1. Removes(h) /\ SureSoFar(h) /\ task[h] \in Removing /\ task[h].id \in Id
      BY <1>3, <2>1, TaskShape DEF Removes, GoneInv, Removing
    <3>2. \A form \in Form : files[task[h].id][form] = Absent =>
            \/ files'[task[h].id][form] = Absent
            \/ form = "zst" /\ task[h].id \notin used
      BY <3>1, NothingAppears
    <3>3. task[h].id \notin used => files[task[h].id]["cbor"] = Absent /\ ~ task[h].deleted
      BY <3>1 DEF GoneInv, Form, SureSoFar
    <3>4. QED
      BY <2>1, <3>1, <3>2, <3>3, FilesStep DEF SureSoFar, Form
  <2>2. CASE task'[h] = Idle
    BY <1>3, <2>2 DEF Removes, Idle
  <2>3. CASE DeleteExists(h) \/ DeleteRemove(h)
    BY <1>3, <2>3, RemoveStep
  <2>4. CASE DeleteBegin(h)
    <3>1. \E id \in Id :
            task'[h] = [at |-> "delete", id |-> id, form |-> "zst", deleted |-> FALSE]
      BY <2>4 DEF DeleteBegin, Goto
    <3>2. QED
      BY <3>1 DEF SureSoFar
  <2>5. CASE SaveCreate(h) \/ LoadBegin(h) \/ ListBegin(h) \/ Respond(h)
    <3>1. task'[h].at \in {"save_write", "load", "list", "err", "idle"}
      <4>1. CASE SaveCreate(h)
        <5>1. \/ Goto(h, Err)
              \/ \E id \in Id, seq \in Sequence :
                   Goto(h, [at |-> "save_write", id |-> id, seq |-> seq])
          BY <4>1 DEF SaveCreate, Begin, NewUlids
        <5>2. QED
          BY <5>1 DEF Goto, Err
      <4>2. CASE LoadBegin(h)
        BY <4>2 DEF LoadBegin, Begin, Goto
      <4>3. CASE ListBegin(h)
        BY <4>3 DEF ListBegin, Begin, Goto
      <4>4. CASE Respond(h)
        BY <4>4 DEF Respond, Goto, Idle
      <4>5. QED
        BY <2>5, <4>1, <4>2, <4>3, <4>4
    <3>2. QED
      BY <1>3, <3>1 DEF Removes
  <2>6. CASE SaveWrite(h) \/ SaveFlush(h)
    BY <1>3, <2>6, TaskShape DEF SaveWrite, SaveFlush, At, Goto, Removes, Saving, Ok, Err
  <2>7. CASE LoadExists(h) \/ LoadRead(h)
    BY <1>3, <2>7, TaskShape DEF LoadExists, LoadRead, At, Goto, Removes, Loading, Ok, Err
  <2>8. CASE ListRead(h) \/ ListEnd(h)
    BY <1>3, <2>8, TaskShape DEF ListRead, ListEnd, At, Goto, Removes, Reading, Listing, Ok
  <2>9. CASE ListEntry(h)
    BY <1>3, <2>9, TaskShape DEF ListEntry, At, Goto, Removes, Listing
  <2>10. QED
    BY TaskStep, <2>1, <2>2, <2>3, <2>4, <2>5, <2>6, <2>7, <2>8, <2>9 DEF Step
<1>4. QED
  BY <1>1, <1>2, <1>3 DEF GoneInv

\* Types, answers of whole sequences only, and identifiers used before they appear
\* in the directory, for any number of handlers.
THEOREM StoreTypeCorrect == Spec => []TypeOK
<1>1. StoreTypes /\ GoneInv /\ [Next]_vars => GoneInv'
  BY GoneStep
<1>2. StoreTypes /\ GoneInv => TypeOK
  BY TaskShape DEF StoreTypes, GoneInv, TypeOK, At, Answer, Stored
<1>3. QED
  BY TypesCorrect, GoneInit, <1>1, <1>2, PTL DEF Spec

\* A deletion that was answered with success has removed both files for good,
\* whatever other handlers save or delete and whatever fails or crashes.
THEOREM GoneCorrect == Spec => []DeletedIsGone
<1>1. StoreTypes /\ GoneInv /\ [Next]_vars => GoneInv'
  BY GoneStep
<1>2. GoneInv => DeletedIsGone
  BY DEF GoneInv
<1>3. QED
  BY TypesCorrect, GoneInit, <1>1, <1>2, PTL DEF Spec
-----------------------------------------------------------------------------
(* Saves *)

Saves(h) == task[h].at \in {"save_write", "save_flush"}

\* A file under way belongs to one save.  What was saved is there, alone, and no
\* deletion of it is under way.
SavedInv ==
  /\ \A h \in Handler : Saves(h) =>
       /\ task[h].id \in used
       /\ files[task[h].id]["zst"] \in {Partial, Absent}
       /\ files[task[h].id]["cbor"] = Absent
  /\ \A g, h \in Handler : Saves(g) /\ Saves(h) /\ g # h => task[g].id # task[h].id
  /\ \A s \in stored : /\ s[1] \in used
                       /\ files[s[1]]["zst"] = s[2]
                       /\ files[s[1]]["cbor"] = Absent
  /\ \A h \in Handler, s \in stored : ~ Deleting(h, s[1])

LEMMA SavedInit == Init => SavedInv
BY DEF Init, SavedInv, Saves, Idle

\* A deletion keeps to its identifier until it answers.
LEMMA RemovingStep ==
  ASSUME StoreTypes, NEW h \in Handler, DeleteExists(h) \/ DeleteRemove(h)
  PROVE  /\ Deleting(h, task[h].id)
         /\ \/ task'[h].at \in {"ok", "err"}
            \/ task'[h].at \in {"delete", "delete_remove"} /\ task'[h].id = task[h].id
<1> USE DEF StoreTypes
<1>1. task[h] \in Removing /\ Deleting(h, task[h].id)
  BY TaskShape DEF DeleteExists, DeleteRemove, At, Deleting
<1>2. \/ Goto(h, Err) \/ Goto(h, [task[h] EXCEPT !.at = "delete_remove"])
      \/ \E removed \in BOOLEAN : Goto(h, AfterForm(h, removed))
  BY DEF DeleteExists, DeleteRemove
<1>3. ASSUME NEW removed \in BOOLEAN
      PROVE  \/ AfterForm(h, removed).at \in {"ok", "err"}
             \/ AfterForm(h, removed).at = "delete" /\ AfterForm(h, removed).id = task[h].id
  BY <1>1 DEF AfterForm, Removing, Ok, Err
<1>4. QED
  BY <1>1, <1>2, <1>3 DEF Goto, Err, Removing

\* A handler that saves did so before, or has just generated an identifier.
LEMMA SavesStep ==
  ASSUME StoreTypes, [Next]_vars, NEW h \in Handler, Saves(h)'
  PROVE  \/ Saves(h) /\ task'[h].id = task[h].id
         \/ /\ task'[h].id \in NewUlids /\ task'[h].id \in used'
            /\ files'[task'[h].id]["zst"] = Partial
            /\ files'[task'[h].id]["cbor"] = files[task'[h].id]["cbor"]
            /\ \A g \in Handler : g # h => task'[g] = task[g]
<1> USE DEF StoreTypes
<1>1. CASE task'[h] = task[h]
  BY <1>1 DEF Saves
<1>2. CASE task'[h] = Idle
  BY <1>2 DEF Saves, Idle
<1>3. CASE SaveCreate(h)
  <2>1. CASE Goto(h, Err)
    BY <2>1 DEF Goto, Err, Saves
  <2>2. ASSUME NEW id \in NewUlids, NEW seq \in Sequence, used' = used \cup {id},
               files' = [files EXCEPT ![id]["zst"] = Partial],
               Goto(h, [at |-> "save_write", id |-> id, seq |-> seq])
        PROVE  /\ task'[h].id \in NewUlids /\ task'[h].id \in used'
               /\ files'[task'[h].id]["zst"] = Partial
               /\ files'[task'[h].id]["cbor"] = files[task'[h].id]["cbor"]
               /\ \A g \in Handler : g # h => task'[g] = task[g]
    <3>1. id \in Id /\ {"zst", "cbor"} \subseteq Form /\ Partial \in File
      BY DEF NewUlids, Form, File
    <3>2. \A i \in Id, f \in Form :
            files'[i][f] = IF i = id /\ f = "zst" THEN Partial ELSE files[i][f]
      BY <2>2, <3>1, FileUpdate
    <3>3. task'[h].id = id /\ \A g \in Handler : g # h => task'[g] = task[g]
      BY <2>2 DEF Goto
    <3>4. QED
      BY <2>2, <3>1, <3>2, <3>3
  <2>3. QED
    BY <1>3, <2>1, <2>2 DEF SaveCreate, Begin
<1>4. CASE SaveWrite(h)
  BY <1>4, TaskShape DEF SaveWrite, At, Goto, Saves, Saving, Err
<1>5. CASE SaveFlush(h)
  BY <1>5, TaskShape DEF SaveFlush, At, Goto, Saves, Saving, Ok
<1>6. CASE LoadBegin(h) \/ ListBegin(h) \/ Respond(h)
  BY <1>6 DEF LoadBegin, ListBegin, Respond, Begin, Goto, Saves, Idle
<1>7. CASE LoadExists(h) \/ LoadRead(h)
  BY <1>7, TaskShape DEF LoadExists, LoadRead, At, Goto, Saves, Loading, Ok, Err
<1>8. CASE ListEntry(h)
  BY <1>8, TaskShape DEF ListEntry, At, Goto, Saves, Listing
<1>9. CASE ListRead(h) \/ ListEnd(h)
  BY <1>9, TaskShape DEF ListRead, ListEnd, At, Goto, Saves, Reading, Listing, Ok
<1>10. CASE DeleteBegin(h)
  BY <1>10 DEF DeleteBegin, Goto, Saves
<1>11. CASE DeleteExists(h) \/ DeleteRemove(h)
  BY <1>11, RemovingStep DEF Saves
<1>12. QED
  BY TaskStep, <1>1, <1>2, <1>3, <1>4, <1>5, <1>6, <1>7, <1>8, <1>9, <1>10, <1>11 DEF Step

\* Who deletes did so before, or has just been asked to.
LEMMA DeletingStep ==
  ASSUME StoreTypes, [Next]_vars, NEW h \in Handler, NEW id \in Id, Deleting(h, id)'
  PROVE  Deleting(h, id) \/ (stored' \subseteq stored /\ \A s \in stored' : s[1] # id)
<1> USE DEF StoreTypes
<1>1. CASE task'[h] = task[h]
  BY <1>1 DEF Deleting
<1>2. CASE task'[h] = Idle
  BY <1>2 DEF Deleting, Idle
<1>3. CASE SaveCreate(h)
  <2>1. \/ Goto(h, Err)
        \/ \E i \in Id, seq \in Sequence :
             Goto(h, [at |-> "save_write", id |-> i, seq |-> seq])
    BY <1>3 DEF SaveCreate, Begin, NewUlids
  <2>2. QED
    BY <2>1 DEF Goto, Err, Deleting
<1>4. CASE SaveWrite(h)
  BY <1>4, TaskShape DEF SaveWrite, At, Goto, Deleting, Saving, Err
<1>5. CASE SaveFlush(h)
  BY <1>5, TaskShape DEF SaveFlush, At, Goto, Deleting, Saving, Ok
<1>6. CASE LoadBegin(h) \/ ListBegin(h) \/ Respond(h)
  BY <1>6 DEF LoadBegin, ListBegin, Respond, Begin, Goto, Deleting, Idle
<1>7. CASE LoadExists(h) \/ LoadRead(h)
  BY <1>7, TaskShape DEF LoadExists, LoadRead, At, Goto, Deleting, Loading, Ok, Err
<1>8. CASE ListEntry(h)
  BY <1>8, TaskShape DEF ListEntry, At, Goto, Deleting, Listing
<1>9. CASE ListRead(h) \/ ListEnd(h)
  BY <1>9, TaskShape DEF ListRead, ListEnd, At, Goto, Deleting, Reading, Listing, Ok
<1>10. CASE DeleteBegin(h)
  <2>1. PICK i \in Id : /\ task'[h].id = i
                        /\ stored' = {s \in stored : s[1] # i}
    BY <1>10 DEF DeleteBegin, Goto
  <2>2. QED
    BY <2>1 DEF Deleting
<1>11. CASE DeleteExists(h) \/ DeleteRemove(h)
  BY <1>11, RemovingStep DEF Deleting
<1>12. QED
  BY TaskStep, <1>1, <1>2, <1>3, <1>4, <1>5, <1>6, <1>7, <1>8, <1>9, <1>10, <1>11 DEF Step

\* Only a save adds to what was saved.
LEMMA StoredStep ==
  ASSUME StoreTypes, [Next]_vars, NEW s \in stored', s \notin stored
  PROVE  \E h \in Handler : /\ SaveFlush(h) /\ s = <<task[h].id, task[h].seq>>
                            /\ files[task[h].id]["zst"] # Absent
                            /\ \A g \in Handler : ~ Deleting(g, task[h].id)
<1>1. ASSUME NEW h \in Handler, SaveFlush(h)
      PROVE  /\ s = <<task[h].id, task[h].seq>>
             /\ files[task[h].id]["zst"] # Absent
             /\ \A g \in Handler : ~ Deleting(g, task[h].id)
  BY <1>1, SMTT(40) DEF SaveFlush
<1>2. \E h \in Handler : SaveFlush(h)
  BY DEF Next, Step, Crash, SaveCreate, SaveWrite, LoadBegin, LoadExists, LoadRead,
         ListBegin, ListEntry, ListRead, ListEnd, DeleteBegin, DeleteExists, DeleteRemove,
         Respond, vars
<1>3. QED
  BY <1>1, <1>2

LEMMA SavedStep ==
  ASSUME FlushOutcome = {TRUE}, StoreTypes, GoneInv, SavedInv, [Next]_vars
  PROVE  SavedInv'
<1> USE DEF StoreTypes
<1>1. \A h \in Handler : Saves(h) => task[h] \in Saving /\ task[h].id \in Id
  BY TaskShape DEF Saves, Saving
<1>2. "zst" \in Form /\ "cbor" \in Form /\ "zst" # "cbor"
  BY DEF Form
<1>3. ASSUME NEW g \in Handler, NEW h \in Handler, Saves(g)', Saves(h)', g # h
      PROVE  task'[g].id # task'[h].id
  BY <1>3, SavesStep DEF SavedInv, Saves, NewUlids
<1>4. ASSUME NEW h \in Handler, Saves(h)'
      PROVE  /\ task'[h].id \in used'
             /\ files'[task'[h].id]["zst"] \in {Partial, Absent}
             /\ files'[task'[h].id]["cbor"] = Absent
  <2>1. CASE Saves(h) /\ task'[h].id = task[h].id
    <3>1. ~ \E g \in Handler : SaveFlush(g) /\ task[g].id = task[h].id
      <4>1. ASSUME NEW g \in Handler, SaveFlush(g), task[g].id = task[h].id
            PROVE  FALSE
        <5>1. Saves(g) /\ task'[g].at = "ok"
          BY <4>1 DEF SaveFlush, At, Saves, Goto, Ok
        <5>2. QED
          BY <1>4, <2>1, <4>1, <5>1 DEF SavedInv, Saves
      <4>2. QED
        BY <4>1
    <3>2. QED
      BY <1>1, <1>2, <2>1, <3>1, FilesStep DEF SavedInv
  <2>2. CASE task'[h].id \in NewUlids /\ task'[h].id \in used'
    BY <1>2, <1>4, <2>2, SavesStep DEF GoneInv, NewUlids, SavedInv
  <2>3. QED
    BY <1>4, <2>1, <2>2, SavesStep
<1>5. ASSUME NEW s \in stored'
      PROVE  /\ s[1] \in used' /\ files'[s[1]]["zst"] = s[2] /\ files'[s[1]]["cbor"] = Absent
             /\ \A h \in Handler : ~ Deleting(h, s[1])'
  <2>1. CASE s \in stored
    <3>1. s[1] \in Id /\ s[2] \in Sequence /\ s[1] \in used
      BY <2>1 DEF Stored, SavedInv
    <3>2. /\ files[s[1]]["zst"] = s[2] /\ files[s[1]]["cbor"] = Absent
          /\ \A h \in Handler : ~ Deleting(h, s[1])
      BY <2>1 DEF SavedInv
    <3>3. \A h \in Handler : ~ Deleting(h, s[1])'
      BY <1>5, <3>1, <3>2, DeletingStep
    <3>4. QED
      BY <1>2, <3>1, <3>2, <3>3, FilesStep, StoreAssumption
  <2>2. CASE s \notin stored
    <3>1. PICK h \in Handler : /\ SaveFlush(h) /\ s = <<task[h].id, task[h].seq>>
                              /\ files[task[h].id]["zst"] # Absent
                              /\ \A g \in Handler : ~ Deleting(g, task[h].id)
      BY <1>5, <2>2, StoredStep
    <3>2. Saves(h)
      BY <3>1 DEF SaveFlush, At, Saves
    <3>3. task[h].id \in Id /\ task[h].seq \in File
      BY <1>1, <3>2 DEF Saving, File
    <3>4. /\ files[task[h].id]["zst"] = Partial /\ files[task[h].id]["cbor"] = Absent
          /\ task[h].id \in used
      BY <3>1, <3>2 DEF SavedInv
    <3>5. files' = [files EXCEPT ![task[h].id]["zst"] = task[h].seq] /\ used' = used
      BY <3>1, <3>4 DEF SaveFlush
    <3>6. files'[task[h].id]["zst"] = task[h].seq /\ files'[task[h].id]["cbor"] = Absent
      BY <1>2, <3>3, <3>4, <3>5, FileUpdate
    <3>7. s[1] = task[h].id /\ s[2] = task[h].seq
      BY <3>1
    <3>8. ASSUME NEW g \in Handler, Deleting(g, s[1])'
          PROVE  FALSE
      <4>1. Deleting(g, s[1])
        BY <1>5, <2>2, <3>3, <3>7, <3>8, DeletingStep
      <4>2. QED
        BY <3>1, <3>7, <4>1
    <3>9. /\ s[1] \in used' /\ files'[s[1]]["zst"] = s[2]
          /\ files'[s[1]]["cbor"] = Absent
      BY <3>4, <3>5, <3>6, <3>7
    <3>10. QED
      BY <3>8, <3>9
  <2>3. QED
    BY <2>1, <2>2
<1>6. QED
  BY <1>3, <1>4, <1>5 DEF SavedInv

LEMMA SavedInvCorrect ==
  ASSUME FlushOutcome = {TRUE}
  PROVE  Spec => [](StoreTypes /\ SavedInv)
<1>1. StoreTypes /\ GoneInv /\ [Next]_vars => GoneInv'
  BY GoneStep
<1>2. StoreTypes /\ GoneInv /\ SavedInv /\ [Next]_vars => SavedInv'
  BY SavedStep
<1>3. QED
  BY TypesCorrect, GoneInit, SavedInit, <1>1, <1>2, PTL DEF Spec

\* On a disk that takes the last write, what save has answered with success stays
\* until somebody asks to delete it.
THEOREM SavedCorrect ==
  ASSUME FlushOutcome = {TRUE}
  PROVE  Spec => []SavedIsOnDisk
<1>1. SavedInv => SavedIsOnDisk
  BY DEF SavedInv, SavedIsOnDisk
<1>2. QED
  BY SavedInvCorrect, <1>1, PTL
-----------------------------------------------------------------------------
(* Readers *)

\* A list has read a sequence, or will still visit its file.
WillTell(listing, s) ==
  \/ s \in listing.summaries
  \/ <<s[1], "zst">> \in listing.left \ listing.visited /\ s[1] \notin listing.seen_ids

ReadsNext == {"load", "load_read", "list", "list_read"}

FoundInv ==
  \A h \in Handler : \A s \in owed[h] :
    /\ task[h].at \in {"load", "load_read"} /\ task[h].id = s[1] => task[h].form = "zst"
    /\ task[h].at = "list" => WillTell(task[h], s)
    /\ task[h].at = "list_read" =>
         task[h].entry = <<s[1], "zst">> \/ WillTell(task[h].rest, s)

LEMMA FoundInit == Init => FoundInv
BY SMTT(40) DEF Init, FoundInv

\* What is owed to a reader is settled when it begins.
LEMMA OwedStep ==
  ASSUME StoreTypes, [Next]_vars, NEW h \in Handler, NEW s \in owed'[h], ~ At(h, "idle")
  PROVE  s \in owed[h]
<1> USE DEF StoreTypes
<1>1. CASE UNCHANGED owed
  BY <1>1
<1>2. ASSUME NEW g \in Handler, At(g, "idle"), owed' = [owed EXCEPT ![g] = stored]
      PROVE  s \in owed[h]
  BY <1>2
<1>3. CASE Crash
  BY <1>3 DEF Crash
<1>4. ASSUME NEW g \in Handler, Respond(g)
      PROVE  s \in owed[h]
  BY <1>4 DEF Respond
<1>5. ASSUME NEW g \in Handler, DeleteBegin(g)
      PROVE  s \in owed[h]
  BY <1>5 DEF DeleteBegin
<1>6. ASSUME NEW g \in Handler, SaveCreate(g)
      PROVE  s \in owed[h]
  <2>1. At(g, "idle") /\ owed' = [owed EXCEPT ![g] = stored]
    BY <1>6 DEF SaveCreate, Begin
  <2>2. QED
    BY <1>2, <2>1
<1>7. ASSUME NEW g \in Handler, LoadBegin(g) \/ ListBegin(g)
      PROVE  s \in owed[h]
  <2>1. At(g, "idle") /\ owed' = [owed EXCEPT ![g] = stored]
    BY <1>7 DEF LoadBegin, ListBegin, Begin
  <2>2. QED
    BY <1>2, <2>1
<1>8. QED
  BY <1>1, <1>3, <1>4, <1>5, <1>6, <1>7
    DEF Next, Step, SaveWrite, SaveFlush, LoadExists, LoadRead, ListEntry, ListRead,
        ListEnd, DeleteExists, DeleteRemove, vars

\* The other operations do not turn into a reader.
LEMMA OthersDoNotRead ==
  ASSUME StoreTypes, NEW h \in Handler,
         \/ SaveCreate(h) \/ SaveWrite(h) \/ SaveFlush(h) \/ Respond(h)
         \/ DeleteBegin(h) \/ DeleteExists(h) \/ DeleteRemove(h)
  PROVE  task'[h].at \notin ReadsNext
<1> USE DEF StoreTypes, ReadsNext
<1>1. CASE SaveCreate(h)
  <2>1. \/ Goto(h, Err)
        \/ \E i \in Id, seq \in Sequence :
             Goto(h, [at |-> "save_write", id |-> i, seq |-> seq])
    BY <1>1 DEF SaveCreate, Begin, NewUlids
  <2>2. QED
    BY <2>1 DEF Goto, Err
<1>2. CASE SaveWrite(h)
  BY <1>2, TaskShape DEF SaveWrite, At, Goto, Saving, Err
<1>3. CASE SaveFlush(h)
  BY <1>3, TaskShape DEF SaveFlush, At, Goto, Saving, Ok
<1>4. CASE Respond(h)
  BY <1>4 DEF Respond, Goto, Idle
<1>5. CASE DeleteBegin(h)
  BY <1>5 DEF DeleteBegin, Goto
<1>6. CASE DeleteExists(h) \/ DeleteRemove(h)
  BY <1>6, RemovingStep
<1>7. QED
  BY <1>1, <1>2, <1>3, <1>4, <1>5, <1>6

\* What is owed was saved, so it is there under one form.
LEMMA OwedIsThere ==
  ASSUME StoreTypes, SavedInv, NEW h \in Handler, NEW s \in owed[h]
  PROVE  /\ s[1] \in Id /\ s[2] \in Sequence /\ s = <<s[1], s[2]>>
         /\ files[s[1]]["zst"] = s[2] /\ s[2] # Absent
         /\ files[s[1]]["cbor"] = Absent
         /\ <<s[1], "zst">> \in Present /\ <<s[1], "cbor">> \notin Present
<1>1. s \in stored /\ s \in Stored
  BY DEF StoreTypes
<1>2. QED
  BY <1>1, StoreAssumption DEF SavedInv, Stored, Present, Form

\* One step of a list, as far as an owed sequence is concerned.
LEMMA ListEntryTells ==
  ASSUME StoreTypes, SavedInv, FoundInv, NEW h \in Handler, NEW s \in owed[h], ListEntry(h)
  PROVE  /\ task'[h].at = "list" => WillTell(task'[h], s)
         /\ task'[h].at = "list_read" =>
              task'[h].entry = <<s[1], "zst">> \/ WillTell(task'[h].rest, s)
<1>0. /\ s[1] \in Id /\ s[2] \in Sequence /\ s = <<s[1], s[2]>>
      /\ files[s[1]]["zst"] = s[2] /\ s[2] # Absent
      /\ <<s[1], "zst">> \in Present /\ <<s[1], "cbor">> \notin Present
  BY OwedIsThere
<1> USE DEF StoreTypes
<1>1. task[h] \in Listing /\ WillTell(task[h], s)
  BY TaskShape DEF ListEntry, At, FoundInv
<1>2. PICK entry \in (task[h].left \cup Present) \ task[h].visited :
        LET passed == [task[h] EXCEPT !.left = @ \ {entry}, !.visited = @ \cup {entry}]
        IN  Goto(h, IF entry \notin Present \/ entry[1] \in task[h].seen_ids
                      THEN passed
                      ELSE [at |-> "list_read", entry |-> entry,
                            rest |-> [passed EXCEPT !.seen_ids = @ \cup {entry[1]}]])
  BY DEF ListEntry
<1> DEFINE passed == [task[h] EXCEPT !.left = @ \ {entry}, !.visited = @ \cup {entry}]
           read == [passed EXCEPT !.seen_ids = @ \cup {entry[1]}]
<1>3. entry \in Entry /\ \E id \in Id, form \in Form : entry = <<id, form>>
  BY <1>1 DEF Present, Entry, Listing
<1>4. /\ passed.at = "list" /\ passed.summaries = task[h].summaries
      /\ passed.left = task[h].left \ {entry} /\ passed.visited = task[h].visited \cup {entry}
      /\ passed.seen_ids = task[h].seen_ids /\ passed \in Listing
  BY <1>1, <1>3 DEF Listing
<1>5. /\ read.summaries = task[h].summaries /\ read.left = passed.left
      /\ read.visited = passed.visited /\ read.seen_ids = task[h].seen_ids \cup {entry[1]}
  BY <1>4 DEF Listing
<1>6. CASE entry \notin Present \/ entry[1] \in task[h].seen_ids
  <2>1. task'[h] = passed
    BY <1>2, <1>6 DEF Goto
  <2>2. entry = <<s[1], "zst">> => s \in task[h].summaries
    BY <1>1, <1>6, <1>0 DEF WillTell
  <2>3. QED
    BY <1>1, <1>4, <2>1, <2>2 DEF WillTell
<1>7. CASE entry \in Present /\ entry[1] \notin task[h].seen_ids
  <2>1. task'[h] = [at |-> "list_read", entry |-> entry, rest |-> read]
    BY <1>2, <1>7 DEF Goto
  <2>2. entry[1] = s[1] => entry = <<s[1], "zst">>
    BY <1>3, <1>7, <1>0 DEF Form
  <2>3. task'[h].at = "list_read" /\ task'[h].entry = entry /\ task'[h].rest = read
    BY <2>1
  <2>4. CASE entry = <<s[1], "zst">>
    BY <2>3, <2>4
  <2>5. CASE entry[1] # s[1]
    BY <1>1, <1>4, <1>5, <2>3, <2>5 DEF WillTell
  <2>6. QED
    BY <2>2, <2>4, <2>5
<1>8. QED
  BY <1>6, <1>7

LEMMA ListReadTells ==
  ASSUME StoreTypes, SavedInv, FoundInv, NEW h \in Handler, NEW s \in owed[h], ListRead(h)
  PROVE  task'[h].at = "list" /\ WillTell(task'[h], s)
<1>0. /\ s[1] \in Id /\ s[2] \in Sequence /\ s = <<s[1], s[2]>>
      /\ files[s[1]]["zst"] = s[2] /\ s[2] # Absent
      /\ <<s[1], "zst">> \in Present /\ <<s[1], "cbor">> \notin Present
  BY OwedIsThere
<1> USE DEF StoreTypes
<1> DEFINE entry == task[h].entry
           file == files[entry[1]][entry[2]]
           told == [task[h].rest EXCEPT !.summaries = @ \cup {<<entry[1], file>>}]
<1>1. /\ task[h] \in Reading /\ task[h].rest \in Listing
      /\ entry = <<s[1], "zst">> \/ WillTell(task[h].rest, s)
  BY TaskShape DEF ListRead, At, FoundInv, Reading
<1>2. task'[h] = IF Whole(file) THEN told ELSE task[h].rest
  BY DEF ListRead, Goto
<1>3. /\ told.at = "list" /\ told.left = task[h].rest.left
      /\ told.visited = task[h].rest.visited /\ told.seen_ids = task[h].rest.seen_ids
      /\ told.summaries = task[h].rest.summaries \cup {<<entry[1], file>>}
      /\ task[h].rest.at = "list"
  BY <1>1 DEF Listing
<1>4. CASE entry = <<s[1], "zst">>
  <2>1. file = s[2] /\ Whole(file) /\ <<entry[1], file>> = s
    BY <1>4, <1>0 DEF Whole
  <2>2. QED
    BY <1>2, <1>3, <2>1 DEF WillTell
<1>5. CASE WillTell(task[h].rest, s)
  BY <1>2, <1>3, <1>5 DEF WillTell
<1>6. QED
  BY <1>1, <1>4, <1>5

\* An owed sequence is found by the next step of a load, too.
LEMMA LoadFinds ==
  ASSUME StoreTypes, SavedInv, FoundInv, NEW h \in Handler, NEW s \in owed[h],
         LoadExists(h) \/ LoadRead(h), task[h].id = s[1]
  PROVE  \/ task'[h].at = "load_read" /\ task'[h].form = "zst"
         \/ task'[h] = Ok({s})
<1>0. /\ s[1] \in Id /\ s[2] \in Sequence /\ s = <<s[1], s[2]>>
      /\ files[s[1]]["zst"] = s[2] /\ s[2] # Absent
      /\ <<s[1], "zst">> \in Present /\ <<s[1], "cbor">> \notin Present
  BY OwedIsThere
<1> USE DEF StoreTypes
<1>1. task[h] \in Loading /\ task[h].form = "zst"
  BY TaskShape DEF LoadExists, LoadRead, At, FoundInv
<1>2. CASE LoadExists(h)
  <2>1. task'[h] = [task[h] EXCEPT !.at = "load_read"]
    BY <1>1, <1>2, <1>0 DEF LoadExists, Goto
  <2>2. QED
    BY <1>1, <2>1 DEF Loading
<1>3. CASE LoadRead(h)
  BY <1>1, <1>3, <1>0 DEF LoadRead, Goto, Whole
<1>4. QED
  BY <1>2, <1>3

LEMMA FoundStep ==
  ASSUME StoreTypes, SavedInv, FoundInv, [Next]_vars
  PROVE  FoundInv'
<1> USE DEF StoreTypes
<1> DEFINE Kept(h, s) ==
      /\ task[h].at \in {"load", "load_read"} /\ task[h].id = s[1] => task[h].form = "zst"
      /\ task[h].at = "list" => WillTell(task[h], s)
      /\ task[h].at = "list_read" =>
           task[h].entry = <<s[1], "zst">> \/ WillTell(task[h].rest, s)
<1> SUFFICES ASSUME NEW h \in Handler, NEW s \in owed'[h]
             PROVE  Kept(h, s)'
  BY DEF FoundInv
<1>1. CASE task'[h].at \notin ReadsNext
  BY <1>1 DEF ReadsNext
<1>2. CASE task'[h] = task[h]
  <2>1. CASE At(h, "idle")
    BY <1>1, <1>2, <2>1 DEF At, ReadsNext
  <2>2. CASE ~ At(h, "idle")
    <3>1. s \in owed[h]
      BY <2>2, OwedStep
    <3>2. Kept(h, s)
      BY <3>1 DEF FoundInv
    <3>3. QED
      BY <1>2, <3>2 DEF WillTell
  <2>3. QED
    BY <2>1, <2>2
<1>3. CASE LoadBegin(h)
  BY <1>3 DEF LoadBegin, Begin, Goto
<1>4. CASE LoadExists(h) \/ LoadRead(h)
  <2>1. task[h].at \in {"load", "load_read"} /\ task[h] \in Loading
    BY <1>4, TaskShape DEF LoadExists, LoadRead, At
  <2>2. s \in owed[h]
    BY <2>1, OwedStep DEF At
  <2>3. CASE task[h].id = s[1]
    <3>1. \/ task'[h].at = "load_read" /\ task'[h].form = "zst"
          \/ task'[h] = Ok({s})
      BY <1>4, <2>2, <2>3, LoadFinds
    <3>2. QED
      BY <3>1 DEF Ok
  <2>4. CASE task[h].id # s[1]
    BY <1>4, <2>1, <2>4 DEF LoadExists, LoadRead, Goto, Loading, Ok, Err
  <2>5. QED
    BY <2>3, <2>4
<1>5. CASE ListBegin(h)
  <2>1. s \in stored /\ s[1] \in Id
    BY <1>5 DEF ListBegin, Begin, Stored
  <2>2. <<s[1], "zst">> \in Present
    BY <2>1, StoreAssumption DEF SavedInv, Stored, Present, Form
  <2>3. task'[h] = [at |-> "list", left |-> Present, visited |-> {}, seen_ids |-> {},
                    summaries |-> {}]
    BY <1>5 DEF ListBegin, Begin, Goto
  <2>4. QED
    BY <2>2, <2>3 DEF WillTell
<1>6. CASE ListEntry(h)
  <2>1. s \in owed[h] /\ task[h] \in Listing
    BY <1>6, OwedStep, TaskShape DEF ListEntry, At
  <2>2. task'[h].at \in {"list", "list_read"}
    BY <1>6, <2>1 DEF ListEntry, Goto, Listing
  <2>3. QED
    BY <1>6, <2>1, <2>2, ListEntryTells
<1>7. CASE ListRead(h)
  <2>1. s \in owed[h]
    BY <1>7, OwedStep DEF ListRead, At
  <2>2. QED
    BY <1>7, <2>1, ListReadTells
<1>8. CASE ListEnd(h)
  BY <1>8 DEF ListEnd, Goto, Ok
<1>9. QED
  <2>1. task'[h] = Idle => task'[h].at \notin ReadsNext
    BY DEF Idle, ReadsNext
  <2>2. QED
    BY TaskStep, OthersDoNotRead, <1>1, <1>2, <1>3, <1>4, <1>5, <1>6, <1>7, <1>8, <2>1 DEF Step

\* A load or a list tells of every sequence it owes when it answers.
LEMMA ReadersStep ==
  ASSUME StoreTypes, SavedInv, FoundInv, [Next]_vars,
         NEW h \in Handler, NEW s \in owed[h]
  PROVE  /\ task[h].at \in {"load", "load_read"} /\ task[h].id = s[1]
              => task'[h].at # "err" /\ (task'[h].at = "ok" => s \in task'[h].value)
         /\ task[h].at \in {"list", "list_read"} /\ task'[h].at = "ok"
              => s \in task'[h].value
<1> USE DEF StoreTypes
<1>1. CASE task'[h] = task[h] \/ task'[h] = Idle
  BY <1>1 DEF Idle
<1>2. CASE LoadExists(h) \/ LoadRead(h)
  <2>1. task[h].at \in {"load", "load_read"}
    BY <1>2 DEF LoadExists, LoadRead, At
  <2>2. task[h].id = s[1] =>
          task'[h].at # "err" /\ (task'[h].at = "ok" => s \in task'[h].value)
    <3>1. task[h].id = s[1] =>
            \/ task'[h].at = "load_read" /\ task'[h].form = "zst"
            \/ task'[h] = Ok({s})
      BY <1>2, LoadFinds
    <3>2. QED
      BY <3>1 DEF Ok
  <2>3. QED
    BY <2>1, <2>2
<1>3. CASE ListEntry(h)
  <2>1. task[h].at = "list" /\ task'[h].at # "ok"
    BY <1>3, TaskShape, SMTT(30) DEF ListEntry, At, Goto, Listing
  <2>2. QED
    BY <2>1
<1>4. CASE ListRead(h)
  BY <1>4, ListReadTells DEF ListRead, At
<1>5. CASE ListEnd(h)
  <2>1. task[h].at = "list" /\ task[h].left = {} /\ task'[h] = Ok(task[h].summaries)
    BY <1>5 DEF ListEnd, At, Goto
  <2>2. s \in task[h].summaries
    BY <2>1 DEF FoundInv, WillTell
  <2>3. QED
    BY <2>1, <2>2 DEF Ok
<1>6. CASE \/ SaveCreate(h) \/ SaveWrite(h) \/ SaveFlush(h) \/ LoadBegin(h) \/ ListBegin(h)
           \/ DeleteBegin(h) \/ DeleteExists(h) \/ DeleteRemove(h) \/ Respond(h)
  <2>1. task[h].at \notin ReadsNext
    BY <1>6
      DEF SaveCreate, SaveWrite, SaveFlush, LoadBegin, ListBegin, DeleteBegin, DeleteExists,
          DeleteRemove, Respond, Begin, At, ReadsNext
  <2>2. QED
    BY <2>1 DEF ReadsNext
<1>7. QED
  BY TaskStep, <1>1, <1>2, <1>3, <1>4, <1>5, <1>6 DEF Step

\* On a disk that takes the last write, no reader misses a sequence that was saved
\* before it began and that nobody deletes.
THEOREM ReadersCorrect ==
  ASSUME FlushOutcome = {TRUE}
  PROVE  Spec => ReadersFindSaved
<1>1. StoreTypes /\ SavedInv /\ FoundInv /\ [Next]_vars => FoundInv'
  BY FoundStep
<1>2. StoreTypes /\ SavedInv /\ FoundInv /\ [Next]_vars =>
        [\A h \in Handler : \A s \in owed[h] :
           /\ task[h].at \in {"load", "load_read"} /\ task[h].id = s[1]
                => task'[h].at # "err" /\ (task'[h].at = "ok" => s \in task'[h].value)
           /\ task[h].at \in {"list", "list_read"} /\ task'[h].at = "ok"
                => s \in task'[h].value]_vars
  BY ReadersStep
<1>3. QED
  BY SavedInvCorrect, FoundInit, <1>1, <1>2, PTL DEF Spec, ReadersFindSaved
=============================================================================
