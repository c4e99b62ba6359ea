---------------------------- MODULE SequenceStore ----------------------------
(***************************************************************************)
(* SequenceStore (lsserver/src/api/sequence.rs): playback sequences on     *)
(* disk, compressed (.cbor.zst) or not (.cbor), saved, loaded, listed and  *)
(* deleted by API handlers that share nothing but the directory.           *)
(*                                                                         *)
(* Every call on the file system is a step of its own, between which other *)
(* handlers run and the server may crash.  A file holds a whole sequence   *)
(* or is Partial, which neither decoder accepts.                           *)
(***************************************************************************)
EXTENDS FiniteSets

CONSTANTS
  Handler,        \* handlers that may run at a time
  Id, Sequence,
  Absent, Partial,
  InitialFiles,   \* directories the server may start with
  FlushOutcome,   \* whether the last write of a save may succeed, may fail
  IoOutcome       \* whether creating, writing and removing a file may succeed, may fail

Form == {"zst", "cbor"}
File == Sequence \cup {Absent, Partial}

ASSUME StoreAssumption ==
  /\ Absent \notin Sequence /\ Partial \notin Sequence /\ Absent # Partial
  /\ InitialFiles \subseteq [Id -> [Form -> File]]
  /\ FlushOutcome \subseteq BOOLEAN /\ FlushOutcome # {}
  /\ IoOutcome \subseteq BOOLEAN /\ IoOutcome # {}

VARIABLES
  files,    \* the directory
  task,     \* what each handler is doing, a record with the step it is at
  used,     \* identifiers that exist or were generated
  (* history *)
  stored,   \* saves that were answered with success and not asked to be deleted
  owed,     \* stored when the handler's operation began, and ever since
  deleted   \* identifiers whose deletion was answered with success

vars == <<files, task, used, stored, owed, deleted>>

Idle == [at |-> "idle"]

\* Decoders that take what they get.
WholeIfThere(file) == file # Absent

\* read_sequence succeeds: both decoders refuse a file that ends early.
Whole(file) == file \in Sequence


At(h, step) == task[h].at = step
Goto(h, next) == task' = [task EXCEPT ![h] = next]
Begin(h, next) == At(h, "idle") /\ Goto(h, next) /\ owed' = [owed EXCEPT ![h] = stored]

\* The answer a handler gives, with the sequences it tells of.
Ok(value) == [at |-> "ok", value |-> value]
Err == [at |-> "err"]

Unlink(id, form) == files' = [files EXCEPT ![id][form] = Absent]

Deleting(h, id) == task[h].at \in {"delete", "delete_remove"} /\ task[h].id = id

\* A generator that only avoids the sequences of running operations.
NewUlidsShort == {id \in Id : ~ \E h \in Handler : At(h, "save_flush") /\ task[h].id = id}

\* Ulid::generate never repeats an identifier.
NewUlids == Id \ used
-----------------------------------------------------------------------------
(* save *)

\* File::create under a new Ulid.
SaveCreate(h) ==
  \E id \in NewUlids, seq \in Sequence :
    \/ /\ files' = [files EXCEPT ![id]["zst"] = Partial]
       /\ used' = used \cup {id}
       /\ Begin(h, [at |-> "save_write", id |-> id, seq |-> seq])
       /\ UNCHANGED <<stored, deleted>>
    \/ /\ FALSE \in IoOutcome
       /\ Begin(h, Err)
       /\ UNCHANGED <<files, used, stored, deleted>>

\* into_writer, which passes on its errors; the file stays as far as it got.
SaveWrite(h) ==
  /\ At(h, "save_write")
  /\ \E ok \in IoOutcome :
       Goto(h, IF ok THEN [task[h] EXCEPT !.at = "save_flush"] ELSE Err)
  /\ UNCHANGED <<files, used, stored, owed, deleted>>

\* The encoder and the buffer are dropped at the end of save and write the rest.
\* Their errors are lost, and save answers with success.  What is written to a
\* file that was deleted meanwhile is lost too, and nobody may count on a sequence
\* that is being deleted.
SaveFlush(h) ==
  LET id == task[h].id
  IN  /\ At(h, "save_flush")
      /\ \E flushed \in FlushOutcome :
           files' = IF flushed /\ files[id]["zst"] = Partial
                      THEN [files EXCEPT ![id]["zst"] = task[h].seq] ELSE files
      /\ stored' = IF files[id]["zst"] = Absent \/ \E g \in Handler : Deleting(g, id)
                     THEN stored ELSE stored \cup {<<id, task[h].seq>>}
      /\ Goto(h, Ok({<<id, task[h].seq>>}))
      /\ UNCHANGED <<used, owed, deleted>>
-----------------------------------------------------------------------------
(* load *)

LoadBegin(h) ==
  \E id \in Id : /\ Begin(h, [at |-> "load", id |-> id, form |-> "zst"])
                 /\ UNCHANGED <<files, used, stored, deleted>>

\* exists: the compressed file first, then the other.
LoadExists(h) ==
  LET id == task[h].id
      form == task[h].form
  IN  /\ At(h, "load")
      /\ Goto(h, IF files[id][form] # Absent THEN [task[h] EXCEPT !.at = "load_read"]
                 ELSE IF form = "zst" THEN [task[h] EXCEPT !.form = "cbor"]
                 ELSE Err)
      /\ UNCHANGED <<files, used, stored, owed, deleted>>

\* read_sequence of the file found, which may be gone again.
LoadRead(h) ==
  LET file == files[task[h].id][task[h].form]
  IN  /\ At(h, "load_read")
      /\ Goto(h, IF Whole(file) THEN Ok({<<task[h].id, file>>}) ELSE Err)
      /\ UNCHANGED <<files, used, stored, owed, deleted>>
-----------------------------------------------------------------------------
(* list *)

Present == {entry \in Id \X Form : files[entry[1]][entry[2]] # Absent}

\* read_dir: the entries that are there at the beginning will be visited.
ListBegin(h) ==
  /\ Begin(h, [at |-> "list", left |-> Present, visited |-> {}, seen_ids |-> {},
               summaries |-> {}])
  /\ UNCHANGED <<files, used, stored, deleted>>

\* An entry, in any order, perhaps one created since; one that is no longer a file
\* is passed over, as is an identifier that was seen under the other form.
ListEntry(h) ==
  /\ At(h, "list")
  /\ \E entry \in (task[h].left \cup Present) \ task[h].visited :
       LET passed == [task[h] EXCEPT !.left = @ \ {entry}, !.visited = @ \cup {entry}]
       IN  Goto(h, IF entry \notin Present \/ entry[1] \in task[h].seen_ids
                     THEN passed
                     ELSE [at |-> "list_read", entry |-> entry,
                           rest |-> [passed EXCEPT !.seen_ids = @ \cup {entry[1]}]])
  /\ UNCHANGED <<files, used, stored, owed, deleted>>

\* A list that ends at the first entry that cannot be read.
ListReadStops(h) ==
  LET entry == task[h].entry
      file == files[entry[1]][entry[2]]
  IN  /\ At(h, "list_read")
      /\ Goto(h, IF Whole(file)
                   THEN [task[h].rest EXCEPT !.summaries = @ \cup {<<entry[1], file>>}]
                   ELSE Ok(task[h].rest.summaries))
      /\ UNCHANGED <<files, used, stored, owed, deleted>>

\* read_sequence; an entry that cannot be read is left out.
ListRead(h) ==
  LET entry == task[h].entry
      file == files[entry[1]][entry[2]]
  IN  /\ At(h, "list_read")
      /\ Goto(h, IF Whole(file)
                   THEN [task[h].rest EXCEPT !.summaries = @ \cup {<<entry[1], file>>}]
                   ELSE task[h].rest)
      /\ UNCHANGED <<files, used, stored, owed, deleted>>

ListEnd(h) ==
  /\ At(h, "list")
  /\ task[h].left = {}
  /\ Goto(h, Ok(task[h].summaries))
  /\ UNCHANGED <<files, used, stored, owed, deleted>>
-----------------------------------------------------------------------------
(* delete *)

\* From the request on nobody may count on the sequence.
DeleteBegin(h) ==
  \E id \in Id :
    /\ At(h, "idle")
    /\ Goto(h, [at |-> "delete", id |-> id, form |-> "zst", deleted |-> FALSE])
    /\ stored' = {s \in stored : s[1] # id}
    /\ owed' = [g \in Handler |-> {s \in owed[g] : s[1] # id}]
    /\ UNCHANGED <<files, used, deleted>>

\* A delete that is content with the first file.
AfterFirst(h, removed) ==
  IF removed THEN Ok({})
  ELSE IF task[h].form = "zst" THEN [task[h] EXCEPT !.at = "delete", !.form = "cbor"]
  ELSE Err

\* Then the other file; at the end there must have been one.
AfterForm(h, removed) ==
  IF task[h].form = "zst"
    THEN [task[h] EXCEPT !.at = "delete", !.form = "cbor", !.deleted = removed]
  ELSE IF removed \/ task[h].deleted THEN Ok({})
  ELSE Err

DeleteExists(h) ==
  /\ At(h, "delete")
  /\ Goto(h, IF files[task[h].id][task[h].form] # Absent
               THEN [task[h] EXCEPT !.at = "delete_remove"]
               ELSE AfterForm(h, FALSE))
  /\ deleted' = IF task'[h].at = "ok" THEN deleted \cup {task[h].id} ELSE deleted
  /\ UNCHANGED <<files, used, stored, owed>>

\* remove_file fails if another handler was faster; an error ends the operation
\* with the other file still there.
DeleteRemove(h) ==
  LET id == task[h].id
      form == task[h].form
  IN  /\ At(h, "delete_remove")
      /\ \E ok \in IoOutcome :
           IF ok /\ files[id][form] # Absent
             THEN Unlink(id, form) /\ Goto(h, AfterForm(h, TRUE))
             ELSE UNCHANGED files /\ Goto(h, Err)
      /\ deleted' = IF task'[h].at = "ok" THEN deleted \cup {id} ELSE deleted
      /\ UNCHANGED <<used, stored, owed>>
-----------------------------------------------------------------------------
\* The answer is sent.
Respond(h) ==
  /\ At(h, "ok") \/ At(h, "err")
  /\ Goto(h, Idle)
  /\ owed' = [owed EXCEPT ![h] = {}]
  /\ UNCHANGED <<files, used, stored, deleted>>

\* The server crashes and is started again: files stay as they are.
Crash ==
  /\ task' = [h \in Handler |-> Idle]
  /\ owed' = [h \in Handler |-> {}]
  /\ UNCHANGED <<files, used, stored, deleted>>

Init ==
  /\ files \in InitialFiles
  /\ task = [h \in Handler |-> Idle]
  /\ used = {id \in Id : \E form \in Form : files[id][form] # Absent}
  /\ stored = {}
  /\ owed = [h \in Handler |-> {}]
  /\ deleted = {}

Step(h) ==
  \/ SaveCreate(h) \/ SaveWrite(h) \/ SaveFlush(h)
  \/ LoadBegin(h) \/ LoadExists(h) \/ LoadRead(h)
  \/ ListBegin(h) \/ ListEntry(h) \/ ListRead(h) \/ ListEnd(h)
  \/ DeleteBegin(h) \/ DeleteExists(h) \/ DeleteRemove(h)
  \/ Respond(h)

Next == Crash \/ \E h \in Handler : Step(h)

Spec == Init /\ [][Next]_vars
-----------------------------------------------------------------------------
(* Properties *)

\* Types of the variables; answers tell of whole sequences only, and identifiers
\* are used before they appear in the directory.
TypeOK ==
  /\ files \in [Id -> [Form -> File]]
  /\ {id \in Id : \E form \in Form : files[id][form] # Absent} \subseteq used
  /\ used \subseteq Id
  /\ \A h \in Handler : At(h, "ok") => task[h].value \subseteq Id \X Sequence
  /\ stored \subseteq Id \X Sequence
  /\ owed \in [Handler -> SUBSET stored]
  /\ deleted \subseteq used

\* "Saves a PlaybackSequence to disk" (sequence.rs:111): what save has answered
\* with success is on disk, whatever crashes, other saves and failed writes there
\* are meanwhile, until somebody asks to delete it.
SavedIsOnDisk ==
  \A s \in stored : files[s[1]]["zst"] = s[2]

\* A load or list finds every sequence that was saved before it began and that
\* nobody deletes, whatever other handlers save, delete and fail at meanwhile.
ReadersFindSaved ==
  [][\A h \in Handler : \A s \in owed[h] :
       /\ task[h].at \in {"load", "load_read"} /\ task[h].id = s[1]
            => task'[h].at # "err" /\ (task'[h].at = "ok" => s \in task'[h].value)
       /\ task[h].at \in {"list", "list_read"} /\ task'[h].at = "ok"
            => s \in task'[h].value]_vars

\* "Deletes all sequence files (compressed and uncompressed)" (sequence.rs:183):
\* once a deletion was answered with success neither file is there, and a save that
\* was under way does not bring the sequence back.
DeletedIsGone ==
  \A id \in deleted, form \in Form : files[id][form] = Absent
=============================================================================
