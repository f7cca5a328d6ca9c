----------------------------- MODULE WhereParser ----------------------------
(***************************************************************************)
(* ParseQuery (src/parser/parser.y and the parser.c made from it): a text  *)
(* is read token by token, and each token drives the parser until it is    *)
(* shifted or refused.  The parser is the table automaton of WhereTables.  *)
(*                                                                         *)
(* A token is its word; what it stands for in the text (a name, a number)  *)
(* is told by its place.  Memory the parse owns is `heap`, from blocks to  *)
(* reference counts: <<"string", p>> is the copy made of the text of token *)
(* p, <<"vector", p>> the values of the list opened at p, <<"node", p>>    *)
(* the ParseNode made for the property or the connective at p, whose       *)
(* content is node[p].                                                     *)
(***************************************************************************)
EXTENDS WhereTables, FiniteSets, SequencesExt

CONSTANTS
    YYSTACKDEPTH,   \* entries of the parser's stack
    Texts           \* kinds of text that are tried: [words, size] records

ASSUME ParserAssumption ==
    /\ YYSTACKDEPTH \in Nat \ {0}
    /\ \A t \in Texts : DOMAIN t = {"words", "size"} /\ t.words \subseteq Range(Terminals) /\ t.size \in Nat

VARIABLES
    style,      \* which kind of text this is; bounds the tokens only
    text,       \* words read so far
    stack,      \* yystack[0..yyidx]
    look,       \* yymajor of the call of Parse in progress, YYNOCODE between calls
    ctx,        \* root of the tree, ok
    node,       \* the ParseNodes made
    heap,       \* blocks that are allocated, with their reference counts
    freedTwice, \* a free has met a block that is not allocated
    restart,    \* tokens read when the parser was last set up (history)
    phase       \* "reading", "closing" (Parse is called with 0), "parsed"

parserVars == <<style, text, stack, look, ctx, node, heap, freedTwice, restart, phase>>

NoNode == 0
Alloc(blocks) == [b \in DOMAIN heap \cup blocks |-> IF b \in blocks THEN 1 ELSE heap[b]]

(* Blocks whose counts are taken down, each by its number in the bag:      *)
(* those that reach nothing are freed.                                     *)
FreeBlocks(times) ==
    LET Down(b) == IF b \in DOMAIN times THEN times[b] ELSE 0
    IN  /\ heap' = [b \in {c \in DOMAIN heap : Down(c) = 0 \/ heap[c] > Down(c)} |-> heap[b] - Down(b)]
        /\ freedTwice' = (freedTwice \/ \E b \in DOMAIN times : b \notin DOMAIN heap \/ heap[b] < times[b])
-----------------------------------------------------------------------------
(* Blocks an SIValueVector's values, a predicate and a tree own.           *)
Strings(vals) == {<<"string", vals[i].at>> : i \in {j \in DOMAIN vals : vals[j].type = "T_STRING"}}

NodeBlocks(n) ==
    {<<"node", n>>}
        \cup IF node[n].t = "N_COND" THEN {}
             ELSE Strings(node[n].vals)
                      \cup (IF node[n].prop.named THEN {<<"string", node[n].prop.at>>} ELSE {})
                      \cup (IF node[n].op = "IN" THEN {<<"vector", node[n].vals[1].at>>} ELSE {})

(* ParseNode_Free: the blocks of a node and of all below it.               *)
TreeBlocks(n) ==
    LET b[m \in DOMAIN node] ==
            IF node[m].t = "N_COND" THEN NodeBlocks(m) \cup b[node[m].left] \cup b[node[m].right]
            ELSE NodeBlocks(m)
    IN  b[n]

(* yy_destructor: what is freed with a symbol that is popped.              *)
Destroyed(entry) ==
    CASE entry.major = cond -> TreeBlocks(entry.minor.at)
      [] entry.major = prop -> IF entry.minor.named THEN {<<"string", entry.minor.at>>} ELSE {}
      [] entry.major \in {vallist, multivals} ->
             Strings(entry.minor.vals) \cup {<<"vector", entry.minor.vals[1].at>>}
      [] OTHER -> {}

(* yy_pop_parser_stack until the stack is empty.                           *)
PopAll ==
    /\ stack' = <<>>
    /\ FreeBlocks([b \in UNION {Destroyed(stack[i]) : i \in DOMAIN stack} |->
                      Cardinality({i \in DOMAIN stack : b \in Destroyed(stack[i])})])
-----------------------------------------------------------------------------
ParserInit ==
    /\ style \in Texts
    /\ text = <<>> /\ stack = <<>> /\ look = YYNOCODE
    /\ ctx = [root |-> NoNode, ok |-> TRUE]
    /\ node = <<>> /\ heap = <<>> /\ freedTwice = FALSE
    /\ restart = 0 /\ phase = "reading"

Reading == phase = "reading" /\ look = YYNOCODE /\ ctx.ok

(* The head of Parse: an empty stack is set up with the start state.       *)
Parse(symbol) ==
    /\ look' = symbol
    /\ IF stack = <<>>
       THEN /\ stack' = <<[stateno |-> 0, major |-> 0, minor |-> [at |-> 0]]>>
            /\ restart' = Len(text)
       ELSE UNCHANGED <<stack, restart>>

(* yylex and the call of Parse: a name is copied by the lexer.             *)
Token(word) ==
    /\ Reading
    /\ word \in style.words /\ Len(text) < style.size
    /\ Parse(Code(word))
    /\ text' = Append(text, word)
    /\ heap' = IF word = "IDENT" THEN Alloc({<<"string", Len(text) + 1>>}) ELSE heap
    /\ UNCHANGED <<style, ctx, node, freedTwice, phase>>

(* yylex returns 0.                                                        *)
TextEnds ==
    /\ Reading
    /\ Parse(EndOfText)
    /\ phase' = "closing"
    /\ UNCHANGED <<style, text, ctx, node, heap, freedTwice>>
-----------------------------------------------------------------------------
InParse == look # YYNOCODE
Action == FindShiftAction(Last(stack).stateno, look)

(* yy_shift. *)
Push(stateno, major, minor, below) ==
    Append(below, [stateno |-> stateno, major |-> major, minor |-> minor])

Shift ==
    /\ InParse /\ Action < YYNSTATE
    /\ Len(stack) < YYSTACKDEPTH
    /\ stack' = Push(Action, look, [word |-> Last(text), at |-> Len(text)], stack)
    /\ look' = YYNOCODE
    /\ UNCHANGED <<style, text, ctx, node, heap, freedTwice, restart, phase>>

(* yy_shift when the stack is full, and yyStackOverflow: the token and the *)
(* stack are dropped; nothing tells ParseQuery.                            *)
StackOverflow ==
    /\ InParse /\ Action < YYNSTATE
    /\ Len(stack) = YYSTACKDEPTH
    /\ PopAll
    /\ look' = YYNOCODE
    /\ UNCHANGED <<style, text, ctx, node, restart, phase>>

(* Mutant of SyntaxError: the reading loop does not look at ctx.ok.        *)
MutantNotTold ==
    /\ InParse /\ Action = YYNSTATE + YYNRULE
    /\ ctx' = [ctx EXCEPT !.ok = FALSE]
    /\ PopAll
    /\ look' = YYNOCODE
    /\ UNCHANGED <<style, text, node, restart, phase>>

(* A syntax error: ParseQuery stops reading and ParseFree pops the stack.  *)
SyntaxError ==
    /\ InParse /\ Action = YYNSTATE + YYNRULE
    /\ ctx' = [ctx EXCEPT !.ok = FALSE]
    /\ PopAll
    /\ look' = YYNOCODE
    /\ phase' = "parsed"
    /\ UNCHANGED <<style, text, node, restart>>
-----------------------------------------------------------------------------
(* What the rules make of the values of their right-hand side.             *)
Value(type, token) == [type |-> type, at |-> token.at]
Predicate(property, op, vals) == [t |-> "N_PRED", prop |-> property, op |-> op, vals |-> vals]

(* Mutant of Condition: the operands change sides.                         *)
MutantSidesSwapped(left, op, right) == [t |-> "N_COND", left |-> right, op |-> op, right |-> left]

Condition(left, op, right) == [t |-> "N_COND", left |-> left, op |-> op, right |-> right]
Later(time, sign, duration) == [time EXCEPT !.shifts = Append(@, <<sign, duration.unit, duration.at>>)]

Minor(rule, rhs) ==
    CASE rule \in 1..6 -> rhs[1]
      [] rule \in 7..10 -> [at |-> rhs[1].at]
      [] rule \in {11, 20} -> rhs[2]
      [] rule \in {12, 13} -> [at |-> rhs[2].at]
      [] rule = 14 -> Value("T_INT64", rhs[1])
      [] rule = 15 -> Value("T_STRING", rhs[1])
      [] rule = 16 -> Value("T_DOUBLE", rhs[1])
      [] rule \in {17, 18} -> Value("T_BOOL", rhs[1])
      [] rule = 19 -> [type |-> "T_TIME", at |-> rhs[1].base.at, shifts |-> rhs[1].shifts]
      [] rule = 21 -> [vals |-> <<rhs[1], rhs[3]>>]
      [] rule = 22 -> [vals |-> Append(rhs[1].vals, rhs[3])]
      [] rule = 23 -> [named |-> FALSE, at |-> rhs[1].at]
      [] rule = 24 -> [named |-> TRUE, at |-> rhs[1].at]
      [] rule \in {25, 26} -> [base |-> rhs[1], shifts |-> <<>>]
      [] rule \in {27, 28} -> [base |-> rhs[3], shifts |-> <<>>]
      [] rule = 29 -> Later(rhs[3], 1, rhs[5])
      [] rule = 30 -> Later(rhs[3], -1, rhs[5])
      [] rule \in 31..34 -> [unit |-> rhs[1].word, at |-> rhs[3].at]
      [] OTHER -> [at |-> 0]

Null == [type |-> "T_NULL", at |-> 0]

NewNode(rule, rhs) ==
    CASE rule = 7 -> Predicate(rhs[1], rhs[2].word, <<rhs[3]>>)
      [] rule = 8 -> Predicate(rhs[1], "LIKE", <<Value("T_STRING", rhs[3])>>)
      [] rule = 9 -> Predicate(rhs[1], "IS", <<Null>>)
      [] rule = 10 -> Predicate(rhs[1], "IN", rhs[3].vals)
      [] rule = 12 -> Condition(rhs[1].at, "AND", rhs[3].at)
      [] rule = 13 -> Condition(rhs[1].at, "OR", rhs[3].at)

(* strdup of a string literal, a new vector, a new node.                   *)
NewBlocks(rule, rhs) ==
    CASE rule = 8 -> {<<"string", rhs[3].at>>, <<"node", rhs[1].at>>}
      [] rule \in {7, 9, 10} -> {<<"node", rhs[1].at>>}
      [] rule \in {12, 13} -> {<<"node", rhs[2].at>>}
      [] rule = 15 -> {<<"string", rhs[1].at>>}
      [] rule = 21 -> {<<"vector", rhs[1].at>>}
      [] OTHER -> {}

(* yy_reduce by a rule other than the first; the pop has made room, so     *)
(* yy_shift does not overflow.                                             *)
Reduce ==
    LET rule == Action - YYNSTATE
        size == nrhs[rule + 1]
        below == SubSeq(stack, 1, Len(stack) - size)
        rhs == [i \in 1..size |-> stack[Len(stack) - size + i].minor]
        makes == rule \in {7, 8, 9, 10, 12, 13}
        made == Minor(rule, rhs).at
    IN  /\ InParse /\ rule \in 1..(YYNRULE - 1)
        /\ stack' = Push(FindReduceAction(Last(below).stateno, lhs[rule + 1]),
                         lhs[rule + 1], Minor(rule, rhs), below)
        /\ heap' = Alloc(NewBlocks(rule, rhs))
        /\ node' = IF makes
                   THEN [n \in DOMAIN node \cup {made} |-> IF n = made THEN NewNode(rule, rhs) ELSE node[n]]
                   ELSE node
        /\ UNCHANGED <<style, text, look, ctx, freedTwice, restart, phase>>

(* The first rule, query ::= cond, hands over the tree; the table accepts, *)
(* and ParseQuery returns.                                                 *)
AcceptClause ==
    /\ InParse /\ Action = YYNSTATE
    /\ FindReduceAction(stack[Len(stack) - 1].stateno, lhs[1]) = Accept
    /\ ctx' = [ctx EXCEPT !.root = Last(stack).minor.at]
    /\ stack' = <<>> /\ look' = YYNOCODE
    /\ phase' = "parsed"
    /\ UNCHANGED <<style, text, node, heap, freedTwice, restart>>

Engine == Shift \/ StackOverflow \/ SyntaxError \/ Reduce \/ AcceptClause
ReadText == (\E word \in Range(Terminals) : Token(word)) \/ TextEnds
=============================================================================
