------------------------------- MODULE BTree -------------------------------
(***************************************************************************)
(* The B+ tree of src/btree/btree.c: nodes on a heap, linked down by the   *)
(* pointers of inner nodes, up by parent, and leaf to leaf by the last     *)
(* pointer of a leaf.  Inserting splits nodes towards the root, deleting   *)
(* merges a node with a neighbour or takes one entry of it.                *)
(*                                                                         *)
(* A node is [leaf, keys, pointers, next, parent]: num_keys is Len(keys),  *)
(* and next is the slot order - 1 of a leaf's pointers, which C shares     *)
(* with the records.  Keys are not negative: compared with the void *      *)
(* they are stored in, a negative key would come after all others.         *)
(***************************************************************************)
EXTENDS Integers, SequencesExt

CONSTANTS
    Keys,       \* the keys, for each value of the global "order"
    Values      \* the values, for each of them

ASSUME BTreeAssumption ==
    /\ DOMAIN Keys \subseteq Nat \ 0..2 /\ DOMAIN Values = DOMAIN Keys
    /\ \A n \in DOMAIN Keys : Keys[n] \subseteq Nat \ {0}

NULL == 0

VARIABLES
    order,
    tree,       \* [root, node]: the root, and the nodes that are allocated
    entries     \* what was inserted and not deleted since (history)

vars == <<order, tree, entries>>

Record(key, value) == [key |-> key, value |-> value]
NoRecord == Record(NULL, NULL)

Init ==
    /\ order \in DOMAIN Keys
    /\ tree = [root |-> NULL, node |-> <<>>]
    /\ entries = <<>>
-----------------------------------------------------------------------------
(* btree_find_leaf, btree_find, btree_cut *)
Slot(keys, key) == Min({i \in DOMAIN keys : key < keys[i]} \cup {Len(keys) + 1})

RECURSIVE LeafBelow(_, _, _)
LeafBelow(node, n, key) ==
    IF node[n].leaf THEN n ELSE LeafBelow(node, node[n].pointers[Slot(node[n].keys, key)], key)

FindLeaf(t, key) == IF t.root = NULL THEN NULL ELSE LeafBelow(t.node, t.root, key)

Find(t, key) ==
    LET leaf == FindLeaf(t, key)
    IN  IF leaf = NULL \/ key \notin ToSet(t.node[leaf].keys) THEN NoRecord
        ELSE t.node[leaf].pointers[CHOOSE i \in DOMAIN t.node[leaf].keys : t.node[leaf].keys[i] = key]

Cut(length) == (length + 1) \div 2

(* btree_find_range gives up when the leaf of key_start has no key from    *)
(* key_start on; else it goes along the leaves to the last of them.        *)
RECURSIVE Along(_, _, _)
Along(node, n, keyEnd) ==
    IF n = NULL THEN <<>>
    ELSE SelectSeq(node[n].keys, LAMBDA key : key <= keyEnd) \o Along(node, node[n].next, keyEnd)

FindRange(t, keyStart, keyEnd) ==
    LET leaf == FindLeaf(t, keyStart)
    IN  IF leaf = NULL \/ \A i \in DOMAIN t.node[leaf].keys : t.node[leaf].keys[i] < keyStart THEN <<>>
        ELSE SelectSeq(t.node[leaf].keys, LAMBDA key : keyStart <= key /\ key <= keyEnd)
                 \o Along(t.node, t.node[leaf].next, keyEnd)
-----------------------------------------------------------------------------
(* btree_make_node, btree_make_leaf: memory that was freed is used again.  *)
Fresh(node) == Min((1..(Cardinality(DOMAIN node) + 1)) \ DOMAIN node)

(* Mutant of Adopt: the children that moved keep their parent.             *)
MutantNotAdopted(node, children, n) == node

Adopt(node, children, n) == [c \in DOMAIN node |-> IF c \in children THEN [node[c] EXCEPT !.parent = n] ELSE node[c]]

NewRoot(t, left, key, right) ==
    LET root == Fresh(t.node)
        new == [leaf |-> FALSE, keys |-> <<key>>, pointers |-> <<left, right>>, next |-> NULL, parent |-> NULL]
    IN  [root |-> root, node |-> Adopt((root :> new) @@ t.node, {left, right}, root)]

(* btree_insert_into_node_after_splitting, up to its last call: the node   *)
(* that takes the upper half, and the key between the two.                 *)
SplitNode(t, old, left, key, right) ==
    LET at == CHOOSE i \in DOMAIN t.node[old].pointers : t.node[old].pointers[i] = left
        keys == InsertAt(t.node[old].keys, at, key)
        pointers == InsertAt(t.node[old].pointers, at + 1, right)
        split == Cut(order)
        new == Fresh(t.node)
        moved == SubSeq(pointers, split + 1, order + 1)
        half == [t.node[old] EXCEPT !.keys = SubSeq(keys, 1, split - 1), !.pointers = SubSeq(pointers, 1, split)]
        rest == [t.node[old] EXCEPT !.keys = SubSeq(keys, split + 1, order), !.pointers = moved]
    IN  [node |-> Adopt((old :> half) @@ (new :> rest) @@ t.node, ToSet(moved), new),
         new |-> new, key |-> keys[split]]

(* btree_insert_into_parent; btree_get_left_index, btree_insert_into_node  *)
RECURSIVE InsertIntoParent(_, _, _, _)
InsertIntoParent(t, left, key, right) ==
    LET parent == t.node[left].parent
        at == CHOOSE i \in DOMAIN t.node[parent].pointers : t.node[parent].pointers[i] = left
    IN  IF parent = NULL THEN NewRoot(t, left, key, right)
        ELSE IF Len(t.node[parent].keys) < order - 1
        THEN [t EXCEPT !.node[parent].keys = InsertAt(@, at, key), !.node[parent].pointers = InsertAt(@, at + 1, right)]
        ELSE LET split == SplitNode(t, parent, left, key, right)
             IN  InsertIntoParent([t EXCEPT !.node = split.node], parent, split.key, split.new)

(* Mutant of NextOfNew: a new leaf is the last one, as btree_new makes it. *)
MutantNewIsLast(node, leaf) == NULL

NextOfNew(node, leaf) == node[leaf].next

(* btree_insert_into_leaf, btree_insert_into_leaf_after_splitting          *)
InsertIntoLeaf(t, leaf, key, record) ==
    LET at == Min({i \in DOMAIN t.node[leaf].keys : t.node[leaf].keys[i] >= key} \cup {Len(t.node[leaf].keys) + 1})
        keys == InsertAt(t.node[leaf].keys, at, key)
        pointers == InsertAt(t.node[leaf].pointers, at, record)
        split == Cut(order - 1)
        new == Fresh(t.node)
        half == [t.node[leaf] EXCEPT !.keys = SubSeq(keys, 1, split), !.pointers = SubSeq(pointers, 1, split), !.next = new]
        rest == [t.node[leaf] EXCEPT !.keys = SubSeq(keys, split + 1, order), !.next = NextOfNew(t.node, leaf),
                                     !.pointers = SubSeq(pointers, split + 1, order)]
    IN  IF Len(keys) < order
        THEN [t EXCEPT !.node[leaf].keys = keys, !.node[leaf].pointers = pointers]
        ELSE InsertIntoParent([t EXCEPT !.node = (leaf :> half) @@ (new :> rest) @@ @], leaf, keys[split + 1], new)

(* btree_new *)
NewTree(key, record) ==
    [root |-> 1,
     node |-> <<[leaf |-> TRUE, keys |-> <<key>>, pointers |-> <<record>>, next |-> NULL, parent |-> NULL]>>]

(* btree_insert: a key that is there keeps its record.                     *)
Insert(key, value) ==
    /\ tree' = IF Find(tree, key) # NoRecord THEN tree
               ELSE IF tree.root = NULL THEN NewTree(key, Record(key, value))
               ELSE InsertIntoLeaf(tree, FindLeaf(tree, key), key, Record(key, value))
    /\ entries' = IF key \in DOMAIN entries THEN entries ELSE entries @@ (key :> value)
    /\ UNCHANGED order
-----------------------------------------------------------------------------
(* btree_remove_entry_from_node: the key and the pointer are each looked   *)
(* for; the pointer of a key of an inner node is the one behind it.        *)
RemoveEntry(t, n, key, pointer) ==
    LET k == CHOOSE i \in DOMAIN t.node[n].keys : t.node[n].keys[i] = key
        p == CHOOSE i \in DOMAIN t.node[n].pointers : t.node[n].pointers[i] = pointer
    IN  [t EXCEPT !.node[n].keys = RemoveAt(@, k), !.node[n].pointers = RemoveAt(@, p)]

Without(node, n) == [m \in DOMAIN node \ {n} |-> node[m]]

(* btree_adjust_root *)
AdjustRoot(t) ==
    IF t.node[t.root].keys # <<>> THEN t
    ELSE LET child == t.node[t.root].pointers[1]
         IN  IF t.node[t.root].leaf THEN [root |-> NULL, node |-> Without(t.node, t.root)]
             ELSE [root |-> child, node |-> Adopt(Without(t.node, t.root), {child}, NULL)]

(* btree_coalesce_nodes: the right one of the two goes into the left one.  *)
Merged(node, left, right, between) ==
    IF node[right].leaf
    THEN [node EXCEPT ![left].keys = @ \o node[right].keys, ![left].pointers = @ \o node[right].pointers,
                      ![left].next = node[right].next]
    ELSE Adopt([node EXCEPT ![left].keys = @ \o <<between>> \o node[right].keys,
                            ![left].pointers = @ \o node[right].pointers],
               ToSet(node[left].pointers) \cup ToSet(node[right].pointers), left)

(* btree_redistribute_nodes: n takes the last entry of the neighbour on    *)
(* its left, or, when n comes first, the first of the one on its right.    *)
TakeFromLeft(node, n, neighbor, at) ==
    LET keys == node[neighbor].keys
        pointers == node[neighbor].pointers
        given == IF node[n].leaf THEN Last(keys) ELSE node[node[n].parent].keys[at]
        moved == [node EXCEPT ![n].keys = <<given>> \o @, ![n].pointers = <<Last(pointers)>> \o @,
                              ![neighbor].keys = Front(@), ![neighbor].pointers = Front(@),
                              ![node[n].parent].keys[at] = Last(keys)]
    IN  IF node[n].leaf THEN moved ELSE Adopt(moved, {Last(pointers)}, n)

(* Mutant of BetweenAfterRight: the key that was taken, for a leaf too.    *)
MutantTakenKey(node, neighbor) == node[neighbor].keys[1]

(* The least key that the neighbour on the right keeps.                    *)
BetweenAfterRight(node, neighbor) ==
    IF node[neighbor].leaf THEN node[neighbor].keys[2] ELSE node[neighbor].keys[1]

TakeFromRight(node, n, neighbor, at) ==
    LET keys == node[neighbor].keys
        pointers == node[neighbor].pointers
        given == IF node[n].leaf THEN keys[1] ELSE node[node[n].parent].keys[at]
        moved == [node EXCEPT ![n].keys = Append(@, given), ![n].pointers = Append(@, Head(pointers)),
                              ![neighbor].keys = Tail(@), ![neighbor].pointers = Tail(@),
                              ![node[n].parent].keys[at] = BetweenAfterRight(node, neighbor)]
    IN  IF node[n].leaf THEN moved ELSE Adopt(moved, {Head(pointers)}, n)

(* btree_delete_entry *)
RECURSIVE DeleteEntry(_, _, _, _)
DeleteEntry(t0, n, key, pointer) ==
    LET t == RemoveEntry(t0, n, key, pointer)
        node == t.node
        minKeys == IF node[n].leaf THEN Cut(order - 1) ELSE Cut(order) - 1
        capacity == IF node[n].leaf THEN order ELSE order - 1
        parent == node[node[n].parent]
        place == CHOOSE i \in DOMAIN parent.pointers : parent.pointers[i] = n
        first == place = 1
        at == IF first THEN 1 ELSE place - 1
        neighbor == parent.pointers[IF first THEN 2 ELSE place - 1]
        left == IF first THEN n ELSE neighbor
        right == IF first THEN neighbor ELSE n
    IN  IF n = t.root THEN AdjustRoot(t)
        ELSE IF Len(node[n].keys) >= minKeys THEN t
        ELSE IF Len(node[neighbor].keys) + Len(node[n].keys) < capacity
        THEN LET merged == [t EXCEPT !.node = Merged(node, left, right, parent.keys[at])]
                 below == DeleteEntry(merged, node[n].parent, parent.keys[at], right)
             IN  [below EXCEPT !.node = Without(@, right)]
        ELSE IF first THEN [t EXCEPT !.node = TakeFromRight(node, n, neighbor, at)]
        ELSE [t EXCEPT !.node = TakeFromLeft(node, n, neighbor, at)]

(* btree_delete *)
Delete(key) ==
    LET record == Find(tree, key)
    IN  /\ tree' = IF record = NoRecord THEN tree ELSE DeleteEntry(tree, FindLeaf(tree, key), key, record)
        /\ entries' = [k \in DOMAIN entries \ {key} |-> entries[k]]
        /\ UNCHANGED order

(* btree_destroy_tree: the nodes that are found from the root are freed.   *)
RECURSIVE Below(_, _)
Below(node, n) ==
    {n} \cup (IF node[n].leaf THEN {} ELSE UNION {Below(node, c) : c \in ToSet(node[n].pointers)})

Destroy ==
    /\ tree.root # NULL
    /\ tree' = [root |-> NULL, node |-> [n \in DOMAIN tree.node \ Below(tree.node, tree.root) |-> tree.node[n]]]
    /\ entries' = <<>>
    /\ UNCHANGED order

Next ==
    \/ \E key \in Keys[order], value \in Values[order] : Insert(key, value)
    \/ \E key \in Keys[order] : Delete(key)
    \/ Destroy

Spec == Init /\ [][Next]_vars
-----------------------------------------------------------------------------
(* A node below the root is between half full and full, an inner node has  *)
(* one child more than keys, and each child knows its parent.              *)
Filled(node, root, n) ==
    LET here == node[n]
        least == IF n = root THEN 1 ELSE IF here.leaf THEN Cut(order - 1) ELSE Cut(order) - 1
    IN  /\ Len(here.keys) \in least..(order - 1)
        /\ Len(here.pointers) = Len(here.keys) + (IF here.leaf THEN 0 ELSE 1)
        /\ ~here.leaf => \A i \in DOMAIN here.pointers : node[here.pointers[i]].parent = n

RECURSIVE Leaves(_, _), Height(_, _)
Leaves(node, n) ==
    IF node[n].leaf THEN <<n>> ELSE FlattenSeq([i \in DOMAIN node[n].pointers |-> Leaves(node, node[n].pointers[i])])
Height(node, n) == IF node[n].leaf THEN 0 ELSE 1 + Height(node, node[n].pointers[1])

(* The tree is a B+ tree of its order after every insertion and deletion:  *)
(* all nodes but the root at least half full, all leaves equally deep, no  *)
(* node lost, freed or reached twice, and the leaves linked in order.      *)
TreeSound ==
    tree.root # NULL =>
        LET leaves == Leaves(tree.node, tree.root)
            inner == {n \in DOMAIN tree.node : ~tree.node[n].leaf}
        IN  /\ tree.node[tree.root].parent = NULL
            /\ DOMAIN tree.node = Below(tree.node, tree.root)
            /\ \A n \in DOMAIN tree.node : Filled(tree.node, tree.root, n)
            /\ Cardinality(DOMAIN tree.node)
                   = 1 + FoldFunctionOnSet(+, 0, [n \in DOMAIN tree.node |-> Len(tree.node[n].pointers)], inner)
            /\ \A n \in inner : \A i \in DOMAIN tree.node[n].pointers :
                   Height(tree.node, tree.node[n].pointers[i]) + 1 = Height(tree.node, n)
            /\ \A i \in DOMAIN leaves :
                   tree.node[leaves[i]].next = IF i = Len(leaves) THEN NULL ELSE leaves[i + 1]

(* Every key that was inserted and not deleted is found with the value it  *)
(* was first inserted with, and no other: the keys of inner nodes may be   *)
(* those of deleted entries, and still lead to the right leaf.             *)
FindExact ==
    \A key \in Keys[order] :
        Find(tree, key) = IF key \in DOMAIN entries THEN Record(key, entries[key]) ELSE NoRecord

(* btree_find_range returns the keys of the range, in order and each once, *)
(* when the leaf of key_start holds a key that is not below it.            *)
RangeExact ==
    tree.root # NULL =>
        \A keyStart, keyEnd \in Keys[order] :
            LET leaf == FindLeaf(tree, keyStart)
                found == FindRange(tree, keyStart, keyEnd)
            IN  /\ ToSet(found) \subseteq keyStart..keyEnd
                /\ (\E key \in ToSet(tree.node[leaf].keys) : key >= keyStart)
                       => ToSet(found) = DOMAIN entries \cap (keyStart..keyEnd)
                /\ \A i, j \in DOMAIN found : i < j => found[i] < found[j]
=============================================================================
