------------------------------ MODULE ChangeSet -----------------------------
(***************************************************************************)
(* The change sets commands hand to an index (src/changeset.c) and the     *)
(* return codes they get back (src/index.h).                               *)
(***************************************************************************)
EXTENDS Sequences

OK == "OK"
ERROR == "ERROR"
DUPLICATE_KEY == "DUPLICATE_KEY"

(* SI_NewAddChange, SI_NewDelChange *)
AddChange(id, v) == [type |-> "ADD", id |-> id, v |-> v]
DelChange(id) == [type |-> "DEL", id |-> id]

(* The changes to these ids, with value vectors of vecs. *)
Changes(ids, vecs) ==
    [type : {"ADD"}, id : ids, v : vecs] \cup [type : {"DEL"}, id : ids]

=============================================================================
