------------------------------ MODULE MCBTree ------------------------------
EXTENDS BTree

CONSTANTS x, y

(* Three levels need five keys in a tree of order 3, ten in one of order 4. *)
MCKeys == (3 :> 1..6) @@ (4 :> 1..10)
MCValues == (3 :> {x, y}) @@ (4 :> {x})
=============================================================================
