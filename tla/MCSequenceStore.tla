--------------------------- MODULE MCSequenceStore ---------------------------
(***************************************************************************)
(* Two handlers, two identifiers.  The server starts with an empty         *)
(* directory or one in which somebody has put both forms of a sequence.    *)
(***************************************************************************)
EXTENDS SequenceStore

CONSTANTS i, j, x, y

Empty == [id \in Id |-> [form \in Form |-> Absent]]
MCInitialFiles == {
  Empty,
  [Empty EXCEPT ![i] = [zst |-> x, cbor |-> y]],
  [Empty EXCEPT ![i]["cbor"] = x] }
=============================================================================
