# A verification project for `secondary`, the Redis secondary-index module

`secondary` is a Redis module that keeps secondary indexes: ordered maps from value tuples to the ids of the
objects that have them, queried with a `WHERE` language and kept up to date when Redis hashes change. This
directory models it in TLA+, checks the models with TLC and proves theorems about them with TLAPS. Paths below
are relative to the repository (`src/index.c` is the repository's `src/index.c`).

## 1. Inventory

| component | code | state | operations | who it talks to |
|---|---|---|---|---|
| skip list | `src/skiplist/` | nodes with towers of forward links and spans, back pointers, tail, length, level | insert, delete, find, find-at-least, pop, range iterator | compares keys through a callback of the index; stores pointers it does not own |
| compound index | `src/index.c` | skip list, reverse index, heap of key chunks, `length` | `Apply` of a change set, `Find`, `Traverse`, `Len`, `Free` | skip list, reverse index, query plan |
| reverse index | `src/reverse_index.c`, `src/util/khash.h` | id -> key chunk | insert, delete, exists | owned by the compound index |
| change sets | `src/changeset.c` | a vector of adds and deletes | build, free | built by commands, consumed by `Apply` |
| query plan | `src/query_plan.c` | - (scan ranges and a filter tree computed from a query tree) | build, free | marks nodes of the query tree it has turned into ranges; read by cursors |
| cursor | `src/index.c:184-349`, `src/cursor.c` | plan, current range, skip-list iterator, which points into the live list | `Find`, `Next` | skip list, query plan, commands |
| hash transactions | `src/hash_index.c` | id source (static keys or a cursor), command proxy | read commands per id, write + reindex per id | Redis keyspace, cursor, `Apply` |
| commands | `src/module.c` | - | IDX.CREATE / INSERT / DEL / CARD / SELECT / FROM / INTO | all of the above |
| persistence | `src/index_type.c` | RDB image, AOF command stream | save, load, rewrite | `Traverse`, `Apply`; IDX.CREATE and IDX.INSERT, which a rewrite emits |
| specification of an index | `src/spec.c`, `src/index_type.c` | kind, flags, property names and types | parse from the words of IDX.CREATE, save, load, look a property up | commands, query tree, persistence |
| values and keys | `src/value.c`, `src/key.c` | tagged values | parse, compare, copy, free | all |
| WHERE parser | `src/parser/` | the automaton's stack, the tree so far, the memory it owns, `ok` | one `Parse` per token: shift, reduce, overflow, syntax error, accept | called by the query tree's `SI_ParseQuery` |
| query tree | `src/query_parse.c`, `src/query.c`, `src/query_normalize.c` | query nodes sharing the strings of the parse tree by reference count | convert, free the tree, normalise, free | parser before it, query plan after it |
| B-tree | `src/btree/btree.c` (tested, not part of the module's build) | nodes linked down, up and from leaf to leaf; the global `order` | insert, delete, find, range, destroy | - |
| library code | `src/rmutil/`, `src/util/khash.h` | | argument lookup, vectors, strings | commands |

**What is hard.** Redis runs commands one at a time, so there are no threads; a cursor, however, is advanced
between writes of the same command (`IDX.INTO ... WHERE`). The rest of the difficulty is ownership and
bookkeeping that has to survive long histories of legal calls: keys shared between the skip list, the reverse
index and the nodes of other ids; spans and levels; a length kept by hand; change sets that fail half-way;
a query split between scan ranges and a residual filter; a persisted image produced by a different traversal
than the one that fills it; a table-driven parser with a fixed stack, whose half-built trees are freed by destructors on
an error; strings shared between a tree and a query; numbers narrowed from 64 bits to 32; splits and merges of tree nodes
that may go on to the root.

**What makes each part correct.** The skip list is an ordered map whose towers are sub-lists and whose spans
are exact. The compound index holds one record per id; its two structures agree; each key chunk has one owner;
a UNIQUE index holds one id per tuple; `length` counts ids. A query returns each id whose record satisfies the
WHERE clause, once. A transaction leaves index and hashes in agreement. What is saved is what is loaded. A clause
has the tree the grammar gives it, and each piece of its memory one release. A record has a value of the right type
and range for each property. A B-tree stays balanced, filled and linked, and finds what was inserted.

## 2. Modules

| module | models | kind |
|---|---|---|
| `NodeList` | what one call of the skip list does to its list of nodes, as operators | operators |
| `OrderedList` | the skip list's promise: a state machine over a list of nodes | abstract specification |
| `Skiplist` | `src/skiplist/skiplist.c`, links, spans, back pointers | component |
| `ChangeSet` | `src/changeset.c`, return codes | operators |
| `SecondaryIndex` | the promise of an index to the commands: a map from ids to tuples | abstract specification |
| `CompoundIndex` | `src/index.c` without queries, `src/reverse_index.c`; uses `NodeList` for the list | component |
| `QueryPlan` | `src/query_plan.c`, predicates of `src/query_parse.c`, filter of `src/index.c` | operators |
| `QueryCursor` | one SELECT: parsed clause, plan, scan, release | component, uses `QueryPlan` |
| `HashIndex` | `IDX.INTO`, `IDX.FROM`: hash commands, cursor and index interleaved | composition over `CompoundIndex` |
| `Persistence` | `src/index_type.c`: RDB save and load; `Traverse` of `src/index.c` | composition over `CompoundIndex` |
| `Values` | `src/value.c`: what a text is read as, what a value is printed as, which values are equal | operators |
| `IndexCommands` | `src/module.c` IDX.CREATE, INSERT, DEL from their words; the fields of the RDB dump; AOF rewrite, restart and replay | component, uses `Values` |
| `WhereTables` | the tables of the generated `src/parser/parser.c` and its two look-ups | data and operators |
| `WhereParser` | `ParseQuery`: tokens, stack, reductions, destructors, memory | component, uses `WhereTables` |
| `WhereGrammar` | the grammar of `src/parser/parser.y` as a definition on texts | reference for `WhereParser` |
| `WhereQuery` | `SI_ParseQuery`, `SIQuery_Normalize`, `SIQuery_Free` | extends `WhereParser` |
| `BTree` | `src/btree/btree.c` | component |
| `MCSkiplist`, `MCCompoundIndex`, `MCQueryCursor`, `MCHashIndex`, `MCPersistence`, `MCIndexCommands`, `MCWhereQuery`, `MCBTree` | instances for TLC | |
| `SkiplistProofs`, `CompoundIndexProofs`, `IndexUseProofs`, `QueryProofs`, `CommandProofs`, `WhereProofs`, `MemoryProofs` | theorems | |
| `Listings` | lemmas the proofs about lists, queries, commands and clauses share | |

The layers: `Skiplist` is proved to implement `OrderedList`, whose steps are `NodeList`'s operators;
`CompoundIndex` is built on the same operators and is proved to implement `SecondaryIndex`; `HashIndex` and
`Persistence` extend `CompoundIndex`; the first is proved to take only steps of it, the second on a UNIQUE index.
`IndexCommands` stands on the other side of `SecondaryIndex`: its index is the map of records promised there, and it
follows what the words of a client and the fields of a file become. `WhereQuery` ends where `QueryPlan` begins, at the
tree of predicates.

### How state and actions correspond to the code

**`Skiplist`.** `node` maps an address of `NodeId` to the node `malloc` put there: `obj`, `vals`, `backward` and `level[l].forward`,
`level[l].span`, named as in the code; `tail`, `length` and `level` are the list's own fields. `Insert` is `skiplistInsert` with `skiplistRandomLevel`'s choice left
open, and so is the free address a new node gets; `Delete` is `skiplistDelete` of a value or (value NULL) of a whole key; `PopHead` and `PopTail` are the calls
of that name. `Find`, `FindAtLeast` and `Scan` are operators: they change nothing. Iteration is split like the
code: `skiplistIterateRange` clips the first node, `skiplistIterator_Next` all others.

**`CompoundIndex`.** Keys are heap chunks (`SIMultiKey`): `mem` is what a chunk holds, `live` those allocated,
`ri` maps an id to the address of its chunk, and a node's `obj` is an address too. A command hands over a change
set (`Submit`), `Apply` takes one change at a time, in the order of the code's early returns: vector of the wrong
length (`AddRejected`), own tuple on a UNIQUE index (`AddUnchanged`), someone else's (`AddDuplicate`), new id
(`AddNew`), known id (`AddMove`), delete (`DelRecord`, `DelMissing`). `Drop` is `compoundIndex_Free` followed by a
new index.

*Freed memory.* A node keeps the key of the first id stored in it; when that id leaves, `applyDel` and `applyAdd`
free the chunk whoever else is in the node. `tainted` records that this has happened. From then on the content of
the chunk is any tuple (`FreedContent`), a search lands wherever the comparisons allow (`Landings` returns every
place the random towers could lead to), and the chunk may be allocated again. A program that is tainted finishes its
change set; it is not followed into the next one (the guard `~tainted` of `Submit`), because after a read of freed
memory no later state says anything about the code.

**`QueryPlan`, `QueryCursor`.** A clause is a sequence of nodes, `PRED` with a condition or `LOGIC` with the
numbers of its children, which is the tree `SI_ParseQuery` builds. `GetPredicate` picks the condition for the next
property (never under OR), `Taken` is the loop over the properties, `RangeKeys` and `ScanRange` build the bounds,
`Clean` cuts the taken conditions out of the tree and says which nodes it frees. `Find` builds the plan and starts
the first range; `Return`, `Skip` and `NextRange` are the three ways through the loop of `scan_next`; `Release`
frees query and cursor. A refused clause leaves a cursor whose release pointer was never written
(`SI_NewCursor`): `Release` may then end the program, which is the phase `crashed`. `CursorAssumption` says what clauses and
lists are: a clause is a tree with its nodes numbered as `traverseNode` meets them (`Clause`), whose conditions are those of
the grammar (`Condition`) and whose IN lists have different values (with a repeated value each id comes twice); a list has
ascending keys, no empty node and each id once (`Listing`), which is what the theorems about the skip list and the index
establish.

**`HashIndex`.** `hash` is the Redis keyspace, reduced to the tuple the index reads from a hash; a hash with a field
that does not parse is `Unparsable`. A command is `cmd`: on named keys (`keys`, those still `todo`) or on a clause
(`plan`). Between two writes `cmd.step` is `"next"`; during one it is the id written to. `cursor` is the iterator of
`scan_next`: range, node (known by its key's address) and position in the node. The order of the code is kept: the
cursor advances first (`CursorYields`), then Redis runs the command and the handler builds the change
(`WriteHash`, `DeleteHash`), then `Apply` runs (`ApplyChange`), then the handler's result is looked at (`Settle`).
`ReindexFails` is the early return of `reindexHashHandler`: the write stands, the command stops.

**`Persistence`.** `Serve` hands over a change set or deletes the index key and `Work` is a step of its `Apply`. `BeginSave`
writes `Len` into `dump`, `SaveNode` is one round of the loop of `compoundIndex_Traverse` with the RDB visitor called
for every value of the node, and `Onward` is the iterator, which counts off one value per round and so comes back to a
node of several values; `EndSave` is the end of the loop. `BeginLoad` frees the index and makes a new one, `LoadRecord`
reads a record and applies it, with no look at the result, until the count written first is reached (`EndLoad`). The
history variable `saved` is what the index held when it was saved. The kind, flags and specification are constants. A
value goes through as it is: `__readValue` reads each type the way `__writeValue` wrote it, and a value is only of the types
they both know. Saves do not start in a tainted state, for the reason given above.

**`Values`, `IndexCommands`.** A text is what it reads as: an integer, a number of quarters or a word; a floating point
number is a number of quarters, of which a float, and the format `%f`, lose the last. `Parsed` is
`SI_ParseValue`, with `strtoll` reading the digits in front and INT32 narrowed without a check; `Printed` is
`siValueToRMString`. `ParseSpec` is `SI_ParseSpec` on the words of IDX.CREATE: `UNIQUE` is searched for everywhere, `SCHEMA` behind
it. `Create`, `Insert` and `Del` are the three handlers; the loop of IDX.INSERT over the values stops at the first that
cannot be read. `Saved` and `Loaded` are `RedisIndex_RdbSave` and `RedisIndex_RdbLoad` field by field, each field
carrying the call that wrote it, so that reading it with another call is an error of the model. `Rewrite` is
`RedisIndex_AofRewrite`; `types[mask]` is looked up as the code does, by a bit mask in a list counted one by one: STRING becomes
INT32, INT32 becomes INT64, INT64 becomes BOOL, UINT is the NULL behind the names (`RewriteDies`), and larger types are
whatever lies there (`garbage`). `Restart` may come at any moment and loses the key; it is followed by `Loaded(dump)` or by the
replay of the rewritten commands one by one (`Replay`). No command of the module calls
`RedisModule_Replicate`, so the AOF has nothing but rewrites. The index is a map from ids to tuples here; a shared tuple is not
saved (guard of `Save`), since `Persistence` has what happens then.

**`WhereParser`, `WhereQuery`.** `style` says which tokens a text may have and how many; a token is its word, and what it
stands for is told by its place. `Token` is one round of the reading loop of `ParseQuery`: `yylex`, then the head of
`Parse`, which sets an empty stack up. The loop of `Parse` is one action per round: `Shift`, `Reduce`, `StackOverflow`,
`SyntaxError`, `AcceptClause`; the action is looked up in the generated tables as `yy_find_shift_action` does, defaults included. A
reduction computes the symbol's value (`Minor`), the parse node (`NewNode`) and the memory (`NewBlocks`) of the rule's C
code. `heap` counts the references to each block; `PopAll` frees what the destructors in `yy_destructor` free and no
more. After an overflow nothing is told to `ParseQuery`: the next token sets the stack up again and `restart` remembers where.
`Refused`, `Unsupported`, `Convert`, `FreeTree`, `Normalize` and `FreeQuery` are the ways on. `Unsupported` is `!=`: `toQueryNode` answers
NULL and `traverseNode` writes through it. `Normalize` is `SIQuery_Normalize`, which the tests call and no
command does. The lexer is behind the words: an unknown character is echoed and skipped, `$n` takes a single digit, the
word TIME is never produced as a token of its own.

**`BTree`.** `tree` is the root and the nodes allocated; a leaf's link to the next leaf is `next` (the last of its
pointers in C). `Insert` and `Delete` are whole calls of the code, with `InsertIntoParent` and `DeleteEntry` the two
recursions that may go on to the root; `Destroy` is `btree_destroy_tree`. Keys are not negative: the code compares ints with
pointers, which is a comparison without sign.

Not followed in the models: memory other than key chunks and the blocks of a parse (id strings, cursors, change sets), replies, logging.

## 3. Runs

| run | instance | result |
|---|---|---|
| `skiplist` | 3 keys, 2 values, towers of up to 3 levels, one address per key | levels nested, spans exact, back links mirror, find and scans exact, implements `OrderedList` |
| `shared` | not UNIQUE, 3 ids, 2 tuples, with a save or a load between any two commands | ownership and length always, the rest up to the first freed key in use |
| `saved` | UNIQUE, 3 ids, 3 tuples, change sets of up to 2, with a save or a load between any two commands | ownership, uniqueness, implements `SecondaryIndex`, comes back from its dump as it was |
| `plan` | 2 properties, values 1, 2, NULL; all shapes of clauses of up to 3 conditions | ranges, filter and answer exact; the query tree freed once |
| `hashes` | UNIQUE, 3 ids, 3 tuples, 3 plans | cursor stays valid under writes, no matching id is passed over, reads and DEL visit the matches once, index follows hashes |
| `commands` | 2 ids, 21 forms of IDX.CREATE, 12 lists of values; integers of 4 and 6 bits | records fit their properties, a schema makes the index it means, a dump restores it, a rewrite keeps what it can |
| `parse` | texts of four kinds, up to 12 tokens, on a stack of 8; an index of a string and a number, one of times | the tree is the grammar's, memory is owned, marks right, casts right but for bools, every clause answered |
| `btree` | orders 3 (6 keys, 2 values) and 4 (10 keys) | balanced, filled and linked; lookups and ranges exact |
| `tracks`, `filter`, `aof`, `bools` | as `shared` (2 ids, the index alone), `plan`, `commands`, `parse` | a statement of the documentation the code does not meet |

**Bounds.** Three levels over three keys give every relation of a tower to its neighbours: higher, equal, lower,
first, last, between; a longer list adds none. Three ids on two tuples put two ids in a node in every order and still leave one to move; on
three tuples with UNIQUE an id can move to a tuple free, taken or its own. Change sets of two are the smallest where
one change fails after another was applied; longer ones add no new pair of neighbours. `Addr` has one chunk more
than ids, since a move on a UNIQUE index allocates before it frees. Three conditions are the smallest clause with a
conjunction inside a disjunction and the other way round; the key set leaves out one combination so that ranges begin
and end between keys, and its first node holds two ids. One property has condition arguments outside the index
(`NumProps + 1`), the path where the filter refuses. The plans of `hashes` are a full scan, two ranges in an order
that is not the index's (as IN produces), and a range with a filter. A dump may be loaded again later, over a changed index,
so the old contents of the index vary freely when a load begins. `SYMMETRY` permutes ids (the values of the skip list) and addresses; all are only
compared for equality, no configuration names one, and no liveness is checked with it (`ImplementsSecondaryIndex` is a matter of initial states and steps).

The texts of `parse` are of four kinds, so that each gets long where it matters: names, parentheses and both
connectives (nesting, up to the stack's end); bare conditions with both connectives (precedence among three); every operator and
literal of one condition; times shifted twice. The real stack has 100 entries; what matters is that a text can fill it, which it
does with 8 entries and eight parentheses, and that most texts do not. In `commands` -9 does not fit the short integer, 40
not the long one, and 7 quarters do not fit a float; one schema stands for each way words can be misread (a property called
UNIQUE, SCHEMA or TYPE, a type missing, no schema). A B-tree of order 3 has three levels from five keys on and one of
order 4 from ten, so that splits and merges reach the root through an inner node; in order 3 leaves and inner nodes
have the same minimum, in order 4 a leaf has a higher one.

**Deadlock** is checked except in `plan`, `filter`, `parse` and `bools`, where a command that is over stops. In `hashes` the check says
that no command gets stuck between its steps.

**Fairness.** `WhereQuery` assumes `WF_vars(Next)`: the parse and the query belong to one command, which runs to its
end on Redis's only thread, so a step that can be taken is taken. `Answered` then says that the parser's loop ends on every text, whatever the
tables, the overflow and the errors do. Everywhere else the properties are about safety and no fairness is assumed.

### What the violations show

* `tracks` – an index that is not UNIQUE frees a key that other ids' node still points at (`src/index.c:29`, `:73`);
  the other ids are no longer found although the reverse index lists them (`src/reverse_index.h:7`).
* `filter` – a condition that is not turned into ranges is left to `evalPredicate`, which asks of IN that the key
  equal every value of the list and has no case for IS NULL; `docs/WHERE.md:6` lists both.
* `aof` – the rewrite emits kind and schema of an index and not UNIQUE (`src/index_type.c:363`): after a restart the
  index takes two ids under one tuple (`docs/Commands.md:19`).
* `bools` – `castPredicateValue` passes a bool without a cast (`src/query_normalize.c:75`): after QE_OK the condition
  `$1 >= TRUE` on a string hands a bool to `si_cmp_string` (`src/key.c:33`), which reads a pointer and a length there, and on a FLOAT or
  DOUBLE the bool is read as a floating point number. The comment at `src/query_normalize.c:57` says that values are converted "so
  that they can be compared". `NormalizeExact` therefore leaves bools out by name (`UncastBool`).

Disagreements met while modelling that have no run of their own:

* `src/index.c:371` "free up all keys in the skiplist": `compoundIndex_Free` meets a node once for each value and frees its key
  each time; on an index with shared tuples keys of the other ids are never freed. `UniqueDropReleases` is therefore about
  UNIQUE indexes and would not show it.
* `src/index_type.c:166` "Load all the index's data from an rdb buffer": where two ids share a tuple the dump has each twice, and the
  length before it counts them once, so the load stops early. `UniqueReloads` is therefore about UNIQUE indexes and would not
  show it.
* `docs/Commands.md:231`: IDX.INTO with WHERE writes while its cursor is open, so an id moved ahead of the cursor is visited
  again (an HINCRBY counts twice). `WritesReachMatching` says what remains true: no matching id is passed over. On a shared
  node a write also shortens the node under the cursor, and ids are skipped or the scan ends early (`CursorBehind`);
  `CursorLive` says less about indexes that are not UNIQUE.
* `docs/Commands.md:229`: a UNIQUE index refuses the tuple of a hash just written, the refusal is logged and the command reports
  success. These ids are the ones in `missed`.
* `src/key.c:17` and `src/key.h:14` say that NULL on the left compares as -1; the code returns 1, so NULLs come last. The
  order is consistent either way and the models take the code's.
* `docs/WHERE.md:3` calls the language a subset of SQL; the order of the two `%left` lines of `src/parser/parser.y:2` makes OR
  bind tighter than AND. `WhereGrammar` has the code's precedence in one word (`Grammar`).
* `docs/WHERE.md:54` (and `README.md:208`) give `join_time >= TIME_SUB(TODAY, DAYS(30))` as a condition on a time:
  `castPredicateValue` (`src/query_normalize.c:63`) has no case for the value of a time function, so `SIQuery_Normalize` refuses it
  with QE_INVALID_VALUE on every property, one of times too. `NormalizeExact` says so. No command calls it, and IDX.SELECT takes such a clause.
* A list of IN needs two values (`multivals` of `parser.y`); a clause with `!=` ends the server (`Unsupported`).
* `src/btree/btree.c:48` describes a range of all keys between two; the search returns none when the leaf of the first key
  has only smaller ones (`:62`). `RangeExact` leaves that case out.
* The rewrite's type names, described above: of all schemas only INT32 keeps its numbers (`RewriteKeepsInt32`).

## 4. Proofs

TLAPS proves the following for every set of ids and tuples, every comparator that is a strict total order, any
supply of addresses, towers of any height, any bound on change sets, (for `HashIndex`) any plans, (for `QueryCursor`) any
number of properties, any clauses and any lists, (for `IndexCommands`) any words, values and widths of integers, and (for
`WhereQuery`) any kinds of texts of any length, any depth of the stack and any schemas. The assumptions are `LtAssumption`,
`SkiplistAssumption`, `IndexAssumption`, `HashAssumption`, `PlansAssumption`, `PersistenceAssumption`, `QueryAssumption`,
`CursorAssumption`, `ValuesAssumption`, `CommandsAssumption`, `ParserAssumption` and `SpecsAssumption`; TLC evaluates them in the runs.
`PlansAssumption` says that each range of a plan is an interval of the comparator's order; its bounds need not be tuples.

* **`SkiplistProofs`.** `TypeCorrect`; `LevelsStayNested`: the nodes of a level are those of the level below whose
  tower reaches it, in the same order; `SpansStayExact`: a span counts the places it jumps over, at the end of a level
  too; `BackLinksStayMirrored`; `SearchStaysExact`: find and find-at-least answer as a search from the front would. None
  is inductive alone: a span is repaired from the ranks that `update[]` adds up on the way down, so it stays right only if the
  search passed the right nodes on every level, which takes nesting and order, and those stay right only if the insertion links
  at the places the search stopped. The invariant `SInv` is one picture of the list: there is a function `pos` that gives every node its
  place from 1 to `length` (and the header 0), under which keys ascend (`Placed`), each link goes to the next node tall
  enough and each span is the difference of the places (`Linked`), and the back links step down by one (`Backed`); with
  `Towers`, that `level` is the height of the highest tower. From it the recursive walk of the code is identified with the
  last place whose key is smaller, on each level (`Stops`, `Descent`), and an insertion or an unlinking becomes a shift
  of the places behind it (`Grown`, `Shrunk`). The functions that recurse over a level (`Walk`, `Chain`) are met without
  induction over operators: their value is written down from `pos`, and where it would differ a greatest counterexample is
  refuted.
  `ScansStayExact`: an iterator returns the values of the keys in its range, once, in order. The nodes it meets are those from the
  place its search lands on to the last one that is not beyond the upper bound (`Within`), by induction from the end of the
  list (`ScanLists`, with a function built by `Recursion` as the witness that the recursion has a solution); a key is in the range
  exactly when its place is between the two, and two sequences with the same values in the same order are one (`OrderedAlike`).
  `SkiplistImplementsPromise`: read along the bottom level, the linked nodes are a list of
  `OrderedList`, and each of insert, delete, delete of a whole node and the two pops is the step promised there. `CompoundIndex`
  uses the same operators for its list, so what is proved of the index rests on the towers and not on a list taken on trust.
* **`CompoundIndexProofs`.** `TypeCorrect`, `KeysAlwaysOwned`, `IndexConsistent`, `UniqueIsUnique`,
  `UniqueDropsClean`, `LengthAlwaysCounts`. None of the invariants is inductive alone: that deleting an id leaves
  the rest in order needs its node to be found under its tuple, hence agreement of list and reverse index; that
  agreement survives a move needs each id's chunk to be its own, hence ownership; ownership of the nodes' keys needs
  to know whether a freed chunk was in use. `IInv` is their conjunction. The lemmas `InsertStep` and `DeleteStep` say
  once what an insertion and a deletion do to a consistent list (with facts about `ListInsert` and `ListDelete`:
  `AppendValueAdds`, `RemoveValueRemoves`, `LandingSplits`), and the proof has one lemma per action. `KeysOwned`, `LengthCounts` and the types hold in tainted states
  too: the book-keeping of chunks does not depend on where a search lands.
  Under `Records == [id \in DOMAIN ri |-> mem[ri[id]]]`, each step that does not taint
  is a step of `SecondaryIndex` (`EveryStepKeepsPromise`, on any index), and a UNIQUE index, which never taints,
  implements it (`UniqueImplements`).
* **`IndexUseProofs`**, on hash commands. `IndexInside`: `HashSpec => Spec`, so the index theorems hold inside all hash commands.
  `HashTypeCorrect`: the types, and that a change is only pending for the id the command is at.
  `IndexAlwaysFollows`: index and hashes agree between writes, except for ids in `missed` and keys of a DEL in
  progress. Its inductive invariant `FInv` adds that the pending change is the one the current hash calls for, that
  all keys a DEL names are gone from the first of its calls on, and that after a change was accepted the record is there
  before the command moves on. What applying the change does to the records comes from the refinement, not from the
  details of the list.
  Then comes what a WHERE command may rely on while it writes to the UNIQUE index its cursor is open on.
  `CursorStaysLive`: the cursor is always at a value of a node of the list. `WritesReachAll`: every id that matched at the
  start is reached, whatever the writes do. `ReadsVisitExactly`: a read or a DEL reaches those ids once each and no other,
  under the hypothesis `PlansDisjoint` that no tuple is in two ranges (an IN that lists a value twice breaks it, and then ids do come
  twice). The invariant `CursorInv` says where the cursor is: at a record of its range that is not the one being
  written (`OnRecord`), because `scan_next` moves on before it returns; what matched is visited or still ahead
  (`CInv`); and, for commands that add nothing, what was visited is behind and what is ahead matched from the start (`RInv`). It
  is kept because a change touches one record's node and key only (`OthersKept`, from the ownership of key chunks in
  `IInv`), that record is the one just visited (`PendingRight` of `FInv`), and a step of the iterator goes to the next record of the
  range and passes none (`StartLands`, `AdvancedLands`). On an index that is not UNIQUE records share nodes, a write can
  shorten the node under the cursor (`CursorBehind`), and neither the run nor these theorems say anything of it.
* **`IndexUseProofs`**, on persistence. `PersistTypeCorrect`: types and the form of the dump. `ReloadInside`: commands, saves and loads of a UNIQUE index take only steps of
  `CompoundIndex`. `UniqueAlwaysReloads`: it comes back with the records it was saved with, and the load reads the dump to
  its end. The invariant `PInv` says of each phase how far it is: during a save the dump holds the records of the nodes
  behind the iterator (each node one value, by uniqueness, so the iterator never comes back); a finished dump has as many
  records as its count says (`Counted`, which ties `length` to the list, is needed here), with no id or tuple twice; during a load
  the index holds the records read so far, hence the next `Apply` finds neither its id nor its tuple and cannot be
  refused. What applying a record does comes from the refinement.

* **`QueryProofs`.** From a clause to its answer, for clauses of any size and shape. `RangesStayExact`: the product of
  the alternatives of the conditions taken is a set of disjoint ranges with exactly the keys that satisfy them. The argument
  is that all conditions taken but the last are points, so a range compares the first properties for equality and only its last
  with bounds (`InScanRange`, `RangesAre`). `RefusedExactly` and `FreedExactlyOnce` are about the tree: a condition
  taken is under no OR (`PlanBinds`), and what `Clean` frees is what the new root no longer reaches (`CleanedTree`).
  `AnswerStaysExact` puts it together. A clause cannot hold unless the conditions taken do (`BoundNeeded`); if they do,
  a subtree cleaned away holds (`DoneHolds`) and the node in the place of any other asks what the subtree asked
  (`FilterExact`, by descending over the nodes; this is where IN and IS NULL have to be excepted). So a node of the list
  is in a range, in one only, and passes the filter exactly when its key satisfies the clause (`HitsExact`). The inductive invariant `QueryInv` has
  three parts: the tree, the ranges and the count of frees are those of the plan of the clause (`PlanInv`); the cursor is at an end or at a value of a node
  inside its range (`CursorInv`, which rests on the list being ascending: the keys of a range lie together, so clipping loses none); what was
  returned are the hits behind the cursor, each once and in the order of the scan (`GotInv`). `AnswerExact` alone says nothing before
  the end and is not inductive. What an answer and a scan return is compared place by place (`RunsPair`); for a single range the
  pairing ascends and so is the identity (`OrderedAlike`, in `Listings`).
  The recursive functions of the plan (`Taken`, `Ranges`, `Clean`, `EvalKey`, `Meets`, `FlattenSeq`) are handled with sets in the place of predicates: that a
  function with the recursion's equations exists (`Recursion`, `TreeFunction`), and then `Upwards` and `Downwards` (`Listings`) over the
  set of numbers at which a fact holds.

* **`CommandProofs`.** `RecordsStayFit`: each record has one value per property, of its type and in its range, and in a UNIQUE
  index no equal (`RecordsFit`). `DumpStaysExact`: the index loaded from a dump is the one saved (`DumpRestores`).
  `RewriteStaysExact`: an index of INT32 properties comes back from a rewritten AOF with its ids and numbers
  (`RewriteKeepsInt32`). None is inductive alone, for a restart takes the index from the dump or from the commands of a rewrite.
  `CommandsInv` says of the dump that it is `Saved(saved)` and of the commands waiting to be replayed that they
  have words and texts (`Runnable`): what they leave behind passes the same checks as a client's. That what is parsed
  is of its type (`ParsedHeld`) is where INT32 needs its narrowing and UINT its wrap-around, for any widths. `LoadedSaved` is
  the codec: the properties have two or three fields each and the records one and two per value, so that field `j` of row `i`
  is at `(i - 1) * w + j` (`FlattenEven` of `Listings`), which is where the load reads it (`SavedAs`, `SpecLoaded`,
  `RecordLoaded`); what is written of a value is read back with the same call and the same width (`ReadWritten`, which a load of
  INT64 as an `int` breaks); and no record in a sound index is refused on the way (`NextAdded`).
  The rewrite needs more, `ReplayInv`: as long as no client has been served since the restart, the commands still to run are
  the last ones of the file, and the index is what the first `k` make of an empty key (`Partly`, `Replayed`). Its step
  (`ReplayedOne`) is two lemmas: the words of the rewritten IDX.CREATE are found again by the search for UNIQUE, TYPE and SCHEMA
  (`RewriteFound`, which is where a property called UNIQUE has to be excepted and where leaving out TYPE HASH fails), and a printed INT32 is
  read as the same INT64 (`NumberAgain`, `InsertAgain`). TLC found no violation of `ReplayInv` on the instance of the run `commands`.
  `CreateExact` stays with TLC: it holds of the words its run has and not of all words (the code passes over an unknown or a
  repeated word in front of SCHEMA, which has no place in `docs/Commands.md`).

* **`WhereProofs`.** The generated parser and the query tree, for any text and a stack of any depth. `ParserAssertions`
  (`ParserSound`): the stack keeps to its array; what a state and a token call for is a shift, an error, the acceptance of the one tree on
  the stack, or a rule whose right-hand side lies on the stack above a state the goto table lists (the assertions of
  `yy_find_reduce_action`, which a release build leaves out); the operands of a connective are nodes to its left and right, so
  `ParseNode_Free` and every other descent ends. The tables are data, and what the proof needs of them is read off
  them entry by entry: which actions there are (`ShiftTable`), which states may stand on one another (`GotoTable`, `Linked`), which rules a
  state can call for (`RuleSizes` and the lemmas `...Rules`). From `Linked` the top of a stack in a given state is known as
  deep as the rule of that state is long (`Behind`, `Handle`). The invariant `ParseInv` is a picture of the stack over the text: `ends`
  gives the token each entry ends at, ascending (`Pictured`), and the value of an entry is made of tokens between the end of the one below and its
  own (`Fits`); the nodes made so far are trees, each an interval of the text with a connective standing between its operands (`Forest`,
  `Shaped`). So a new node is at a place nothing else has (`Fresh`), and the intervals give the order along which the recursive functions of trees
  are unfolded (`FromLeaves`, `TreeFunction`). On top of it `QueryInv` has the query: its tree is the one of the text
  (`ConvertedTree`), its values of the types a query has. `MarksAlike`: a mark is the property of all conditions below (`MarkedIsAlike`,
  by the intervals again). `NormalizesExactly`: QE_OK means that every value is one its property's comparator reads
  (`Comparable`) or a bool, a refusal that one is neither; of bools nothing is claimed, they are what `bools` refutes. The induction is over the order in which
  `validateNode` meets the values, up to the first that fails. Without `IsQueryTree`, what a query's values may be before the cast,
  `NormalizeExact` is not inductive.

* **`MemoryProofs`.** `MemoryAlwaysAccounted`: `MemoryAccounted`, for any text, a stack of any depth and any schema. The invariant `MemInv`
  has a half for each side of the handover of the tree. While the text is parsed (`HeapInv`), every block on the heap is referred to once, by the symbol
  on the stack that owns it or by the lexer, which has copied a name for the token at hand; what has neither is a text from before a
  restart or from a stack that is gone. What a symbol owns is said symbol by symbol (`Claim`), and the heart is `Hands`, rule by
  rule: what a rule makes owns what its right-hand side owned and what its code allocates, no more and no less. That no block has two owners
  comes from the places: a block is known by the token it was made for, `ParseInv` says which tokens each entry stands for, and these
  are disjoint (`ClaimsApart`); hence the destructors that run when the stack is popped ask for each block once (`DroppedOnce`). After the parse
  (`UseInv`) a block has one reference for the tree and one for each value of the query that holds it. Converting takes the
  references it counts (`HeldByTree`), a cast gives one up and makes a string that one value holds (`CastUses`),
  and the two releases take back exactly their side. `MemoryAccounted` alone is not inductive: it counts owners and does not say that the
  owners of a block on the stack are one, nor that the tree's blocks are those the last symbol had (`UseAccepted`, which needs
  that the table accepts at the end of the text only).
  What is lost stays lost (`Lost`): the theorem bounds the leak to strings and does not deny it.

Only model-checked: that the tree is the grammar's (`AnswerExact` of `WhereQuery`), the words of IDX.CREATE (`CreateExact`), the B-tree
(`TreeSound`, `FindExact`, `RangeExact`). `BTree` recurses over nodes with RECURSIVE operators, about which nothing can be proved here; that
the parser's tables accept exactly what the grammar derives is an induction over texts. `Answered` is liveness and stays with
TLC. Nothing temporal beyond invariance and refinement is proved.

## 5. Not modelled, and what is left

Built in this order: the index and its list (`NodeList`, `CompoundIndex`, `SecondaryIndex`), the skip list under it,
queries, hash commands, persistence, then the WHERE language, the commands with values and the AOF, the B-tree.

Not modelled:

* **Order of strings and NaN** (`src/key.h:11`, `src/key.c`): strings compare without case and up to a NUL, NaN is equal to
  everything. Tuples are ordered by `Lt`, assumed a strict total order, so the models say nothing of an index of floats
  that holds NaN.
* **Arguments of IDX.SELECT, FROM and INTO, and all replies** (`src/module.c`): positions of words and formatting. In particular
  IDX.FROM without WHERE replies with an error and goes on, and IDX.INTO with WHERE as its last word leaves its query
  uninitialised; both were read, neither has a model.
* **Characters of a token and flex's buffers** (`src/parser/lex.yy.c`): the lexer is a generated scanner over fixed patterns; its
  effect on the parser is the sequence of words.
* **IN with a repeated value** (each id is returned twice) and **256 properties** (the loop counter of `src/index.c:134` wraps).
* **Printing** of trees and keys, third-party containers (`src/rmutil/`, `src/util/khash.h`): no logic of this program.

Left to do: a composition of `IndexCommands` with `HashIndex`, so that hashes and index come back together from a restart; a B-tree
without RECURSIVE operators, so that its balance can be proved.
