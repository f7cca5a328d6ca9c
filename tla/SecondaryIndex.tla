--------------------------- MODULE SecondaryIndex ---------------------------
(***************************************************************************)
(* What an index promises the commands that use it: it holds at most one   *)
(* record, an id with its value tuple, per id; an add replaces the id's    *)
(* record; a UNIQUE index refuses a tuple another id holds.  A change set  *)
(* is applied change by change, each exactly once and in order, and given  *)
(* up at the first change refused.                                         *)
(***************************************************************************)
EXTENDS ChangeSet

CONSTANTS
    Id,         \* the ids of the indexed objects
    Tuple,      \* the value tuples
    BadValues,  \* a vector of the wrong number of values
    Unique      \* is the index declared UNIQUE?

VARIABLES
    records,    \* the records held: a function from some ids to tuples
    todo,       \* the changes of the current change set still to apply
    rc          \* the return code of the current or last change set

Init == records = <<>> /\ todo = <<>> /\ rc = OK

Holders(t) == {i \in DOMAIN records : records[i] = t}

NextChange(c) == todo # <<>> /\ Head(todo) = c
Done == todo' = Tail(todo) /\ UNCHANGED rc
GiveUp(code) == todo' = <<>> /\ rc' = code /\ UNCHANGED records

Begin ==
    /\ todo = <<>> /\ todo' \in Seq(Changes(Id, Tuple \cup {BadValues}))
    /\ rc' = OK /\ UNCHANGED records

Put(id, t) ==
    /\ NextChange(AddChange(id, t))
    /\ Unique => Holders(t) \subseteq {id}
    /\ records' = [i \in DOMAIN records \cup {id} |-> IF i = id THEN t ELSE records[i]]
    /\ Done

Refuse(id, t) ==
    /\ NextChange(AddChange(id, t))
    /\ Unique /\ Holders(t) \ {id} # {}
    /\ GiveUp(DUPLICATE_KEY)

Reject(id) == NextChange(AddChange(id, BadValues)) /\ GiveUp(ERROR)

Drop(id) ==
    /\ NextChange(DelChange(id))
    /\ records' = [i \in DOMAIN records \ {id} |-> records[i]]
    /\ Done

Clear == todo = <<>> /\ records' = <<>> /\ UNCHANGED <<todo, rc>>

Next ==
    \/ Begin \/ Clear
    \/ \E id \in Id : Drop(id) \/ Reject(id) \/ \E t \in Tuple : Put(id, t) \/ Refuse(id, t)

Spec == Init /\ [][Next]_<<records, todo, rc>>

=============================================================================
