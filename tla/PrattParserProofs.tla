-------------------------- MODULE PrattParserProofs --------------------------
(***************************************************************************)
(* Proofs about the operators of an expression: for every input and every  *)
(* set of operators, the tree lists the tokens in their order, and every   *)
(* operand belongs to the operator that the binding powers give it to.     *)
(***************************************************************************)
EXTENDS PrattParser, SequenceTheorems, TLAPS

(* The inductive invariant.  The calls are numbered from the outermost. *)

Depths     == 1..Len(calls)
Stage(i)   == calls[i].stage
HasLhs(i)  == Stage(i) \in {"loop", "infix", "subscript", "args"}
Extends(i) == Stage(i) \in {"infix", "subscript", "args"}
Waiting(i) == Extends(i) \/ Stage(i) \in {"paren", "prefix"}

\* The first token of what call i parses; it stays the same while it lasts.
Start(i) ==
    IF Stage(i) = "start" THEN read + 1
    ELSE IF HasLhs(i) THEN ast[calls[i].lhs].first ELSE calls[i].at

\* The power to the left of the operator that call i has read.
LeftPower(i) == IF Stage(i) = "infix" THEN Infix[calls[i].op].lhs ELSE Postfix[calls[i].op]

\* All calls but the innermost wait for the one above; it got the power of the
\* operator between them, which was not too weak for its caller.
CallShape(i) ==
    /\ Stage(i) \in {"start", "loop"} <=> i = Len(calls)
    /\ HasLhs(i) => calls[i].lhs \in Nodes
    /\ Stage(i) = "prefix" =>
          /\ calls[i].op \in DOMAIN Prefix
          /\ calls[i + 1].min = Prefix[calls[i].op]
    /\ Stage(i) = "infix" =>
          /\ calls[i].op \in DOMAIN Infix
          /\ calls[i + 1].min = Infix[calls[i].op].rhs
    /\ Stage(i) \in {"subscript", "args"} => calls[i].op \in DOMAIN Postfix
    /\ Stage(i) = "subscript" => calls[i].op = "subscript"
    /\ Stage(i) = "args" => calls[i].op = "call"
    /\ Extends(i) => LeftPower(i) >= calls[i].min

\* Where call i is in the input, and the call above it.
CallPlace(i) ==
    /\ Waiting(i) => Start(i) <= calls[i].at /\ calls[i].at <= read
    /\ Waiting(i) /\ Stage(i) # "args" => Start(i + 1) = calls[i].at + 1
    /\ Extends(i) => ast[calls[i].lhs].last + 1 = calls[i].at
    /\ Stage(i) = "loop" => ast[calls[i].lhs].last = read

\* The nodes that begin where call i does are part of its left-hand side, and
\* those that begin before it have ended before it.
CallNodes(i) ==
    \A m \in Nodes :
        /\ ast[m].first = Start(i) => HasLhs(i) /\ ast[m].last <= ast[calls[i].lhs].last
        /\ ast[m].first < Start(i) => ast[m].last < Start(i)

\* None of the operators at the beginning of what call i parses is too weak
\* for it.
AtLeastMin(i) ==
    \A m \in Nodes :
        Bare(m) /\ HasLeft(m) /\ ast[m].first = Start(i) => LeftOf(m) >= calls[i].min

\* Those at the end of its left-hand side have lost it to the operator that
\* follows, ...
LeftKept(i) ==
    Extends(i) =>
        \A m \in Nodes :
            Bare(m) /\ HasRight(m) /\ ast[m].last + 1 = calls[i].at /\ ast[m].first >= Start(i)
                => RightOf(m) > LeftPower(i)

\* ... or lose it when the operator that is the next token gets it.
LeftNext(i) ==
    Stage(i) = "loop" =>
        \A m \in Nodes :
            Bare(m) /\ HasRight(m) /\ ast[m].last = read /\ ast[m].first >= Start(i)
                => /\ token \in DOMAIN Infix => RightOf(m) > Infix[token].lhs
                   /\ token \in DOMAIN Postfix => RightOf(m) > Postfix[token]

\* A comparison that is as weak as call i allows is all that it has parsed.
OnlyRoot(i) ==
    \A m \in Nodes :
        Bare(m) /\ InfixOf(m) /\ NonAssociative(ast[m].op) /\ ast[m].first = Start(i)
            /\ calls[i].min >= LeftOf(m)
        => Stage(i) = "loop" /\ m = calls[i].lhs

\* What the calls have parsed are nodes of their own, part of no other.
Roots ==
    /\ \A i, j \in Depths :
          HasLhs(i) /\ HasLhs(j) /\ calls[i].lhs = calls[j].lhs => i = j
    /\ \A i \in Depths : HasLhs(i) =>
          \A n \in Nodes : ast[n].lhs # calls[i].lhs /\ ast[n].rhs # calls[i].lhs

\* A node is made of tokens that were read, and its operands are nodes.
NodeShape ==
    \A n \in Nodes :
        /\ 1 <= ast[n].first /\ ast[n].first <= ast[n].last /\ ast[n].last <= read
        /\ HasLeft(n) => ast[n].lhs \in Nodes /\ ast[ast[n].lhs].last < ast[n].last
        /\ HasRight(n) => ast[n].rhs \in Nodes
        /\ ast[n].lhs \in Nodes \cup {NoNode} /\ ast[n].rhs \in Nodes \cup {NoNode}

\* The calls begin one after the other.
InTurn ==
    /\ Start(1) = 1
    /\ \A i, j \in Depths : i < j => calls[i].at < Start(j)

Stack ==
    /\ Len(calls) # 0
    /\ \A i \in Depths : CallShape(i)
    /\ \A i \in Depths : CallPlace(i)
    /\ \A i \in Depths : CallNodes(i)
    /\ InTurn
    /\ Roots
    /\ NodeShape

PowersKept ==
    /\ \A i \in Depths : AtLeastMin(i)
    /\ \A i \in Depths : LeftKept(i)
    /\ \A i \in Depths : LeftNext(i)
    /\ \A i \in Depths : OnlyRoot(i)

Inv == TypeOK /\ Stack /\ PowersKept /\ SourceOrder /\ TighterOperator
-----------------------------------------------------------------------------
(* Sequences. *)

\* The first n members of s.
LEMMA FirstOnes ==
    ASSUME NEW T, NEW s \in Seq(T), NEW n \in Nat, n <= Len(s)
    PROVE  /\ SubSeq(s, 1, n) \in Seq(T)
           /\ Len(SubSeq(s, 1, n)) = n
           /\ \A k \in 1..n : SubSeq(s, 1, n)[k] = s[k]
<1> DEFINE p == SubSeq(s, 1, n)
<1>1. Len(s) \in Nat /\ \A k \in 1..n : s[k] \in T
    <2>1. Len(s) \in Nat
        BY LenProperties
    <2>2. \A k \in 1..n : k \in 1..Len(s)
        BY <2>1
    <2> QED
        BY <2>1, <2>2
<1>2. /\ p \in Seq(T)
      /\ Len(p) = IF 1 <= n THEN n - 1 + 1 ELSE 0
      /\ \A k \in 1..n - 1 + 1 : p[k] = s[1 + k - 1]
    BY <1>1, SubSeqProperties
<1> HIDE DEF p
<1>3. Len(p) = n /\ \A k \in 1..n : p[k] = s[k]
    BY <1>2
<1> QED
    BY <1>2, <1>3 DEF p

LEMMA AndOne ==
    ASSUME NEW T, NEW s \in Seq(T), NEW x \in T
    PROVE  /\ s \o <<x>> \in Seq(T)
           /\ Len(s \o <<x>>) = Len(s) + 1
           /\ (s \o <<x>>)[Len(s) + 1] = x
           /\ \A k \in 1..Len(s) : (s \o <<x>>)[k] = s[k]
<1> DEFINE q == <<x>>
<1>1. q \in Seq(T) /\ Len(q) = 1 /\ q[1] = x
    OBVIOUS
<1> HIDE DEF q
<1>2. /\ s \o q \in Seq(T)
      /\ Len(s \o q) = Len(s) + Len(q)
      /\ \A i \in 1..Len(s) + Len(q) :
            (s \o q)[i] = IF i <= Len(s) THEN s[i] ELSE q[i - Len(s)]
    BY <1>1, ConcatProperties
<1>3. Len(s) \in Nat
    BY LenProperties
<1>4. /\ Len(s) + 1 \in 1..Len(s) + 1 /\ ~(Len(s) + 1 <= Len(s)) /\ Len(s) + 1 - Len(s) = 1
      /\ \A k \in 1..Len(s) : k \in 1..Len(s) + 1 /\ k <= Len(s)
    BY <1>3
<1>5. (s \o q)[Len(s) + 1] = x /\ \A k \in 1..Len(s) : (s \o q)[k] = s[k]
    BY <1>1, <1>2, <1>4
<1> QED
    BY <1>1, <1>2, <1>5 DEF q

LEMMA AndTwo ==
    ASSUME NEW T, NEW s \in Seq(T), NEW x \in T, NEW y \in T
    PROVE  /\ s \o <<x, y>> \in Seq(T)
           /\ Len(s \o <<x, y>>) = Len(s) + 2
           /\ (s \o <<x, y>>)[Len(s) + 1] = x
           /\ (s \o <<x, y>>)[Len(s) + 2] = y
           /\ \A k \in 1..Len(s) : (s \o <<x, y>>)[k] = s[k]
<1> DEFINE q == <<x, y>>
<1>1. q \in Seq(T) /\ Len(q) = 2 /\ q[1] = x /\ q[2] = y
    OBVIOUS
<1> HIDE DEF q
<1>2. /\ s \o q \in Seq(T)
      /\ Len(s \o q) = Len(s) + Len(q)
      /\ \A i \in 1..Len(s) + Len(q) :
            (s \o q)[i] = IF i <= Len(s) THEN s[i] ELSE q[i - Len(s)]
    BY <1>1, ConcatProperties
<1>3. Len(s) \in Nat
    BY LenProperties
<1>4. /\ Len(s) + 1 \in 1..Len(s) + 2 /\ ~(Len(s) + 1 <= Len(s)) /\ Len(s) + 1 - Len(s) = 1
      /\ Len(s) + 2 \in 1..Len(s) + 2 /\ ~(Len(s) + 2 <= Len(s)) /\ Len(s) + 2 - Len(s) = 2
      /\ \A k \in 1..Len(s) : k \in 1..Len(s) + 2 /\ k <= Len(s)
    BY <1>3
<1>5. /\ (s \o q)[Len(s) + 1] = x
      /\ (s \o q)[Len(s) + 2] = y
      /\ \A k \in 1..Len(s) : (s \o q)[k] = s[k]
    BY <1>1, <1>2, <1>4
<1> QED
    BY <1>1, <1>2, <1>5 DEF q

-----------------------------------------------------------------------------
(* The binding powers. *)

LEMMA Domains ==
    /\ DOMAIN Infix \subseteq Operators /\ DOMAIN Prefix \subseteq Operators
    /\ DOMAIN Postfix \subseteq Operators
    /\ "call" \notin DOMAIN Infix /\ "subscript" \notin DOMAIN Infix
    /\ "call" \notin DOMAIN Prefix
    /\ DOMAIN Infix \cap DOMAIN Postfix = {}
    /\ DOMAIN Postfix \subseteq {"call", "subscript"}
    /\ "operand" \notin Operators
BY PrattAssumption DEF Infix, Prefix, Postfix, InfixOperators, PrefixOperators, PostfixOperators,
    Comparisons, Assignments

LEMMA PrefixPower ==
    ASSUME NEW op \in DOMAIN Prefix
    PROVE  Prefix[op] \in Nat
BY DEF Prefix, PrefixOperators

LEMMA PostfixPower ==
    ASSUME NEW op \in DOMAIN Postfix
    PROVE  Postfix[op] \in Nat
BY DEF Postfix, PostfixOperators

\* Powers are natural numbers, and those of the comparisons are the only ones
\* that are the same on both sides.
LEMMA InfixPower ==
    ASSUME NEW op \in DOMAIN Infix
    PROVE  /\ Infix[op].lhs \in Nat
           /\ Infix[op].rhs \in Nat
           /\ Infix[op].lhs = Infix[op].rhs <=> op \in Comparisons
           /\ op \in Comparisons => Infix[op].lhs = 120 /\ Infix[op].rhs = 120
<1>1. op \in Operators \cap InfixOperators
    BY DEF Infix
<1>2. CASE op \in Comparisons
    <2>1. Infix[op] = Powers(120, 120)
        BY <1>1, <1>2 DEF Infix, Comparisons, Assignments
    <2> QED
        BY <1>2, <2>1 DEF Powers
<1>3. CASE op \in Assignments
    <2>1. Infix[op] = Powers(1, 0) /\ op \notin Comparisons
        BY <1>1, <1>3 DEF Infix, Comparisons, Assignments
    <2> QED
        BY <2>1 DEF Powers
<1>4. CASE op \notin Comparisons \cup Assignments
    <2>1. \E l, r \in Nat : l # r /\ Infix[op] = Powers(l, r)
        <3>1. CASE op \in {"dot", "double_colon"}
            <4>1. Infix[op] = Powers(200, 201)
                BY <1>1, <1>4, <3>1 DEF Infix, Comparisons, Assignments
            <4> QED
                BY <4>1
        <3>2. CASE op \in {"shift_left", "shift_right"}
            <4>1. Infix[op] = Powers(160, 161)
                BY <1>1, <1>4, <3>2 DEF Infix, Comparisons, Assignments
            <4> QED
                BY <4>1
        <3>3. CASE op \in {"star", "divide", "mod"}
            <4>1. Infix[op] = Powers(150, 151)
                BY <1>1, <1>4, <3>3 DEF Infix, Comparisons, Assignments
            <4> QED
                BY <4>1
        <3>4. CASE op \in {"plus", "minus"}
            <4>1. Infix[op] = Powers(140, 141)
                BY <1>1, <1>4, <3>4 DEF Infix, Comparisons, Assignments
            <4> QED
                BY <4>1
        <3>5. CASE op \in {"ampersand", "bitwise_or", "bitwise_xor"}
            <4>1. Infix[op] = Powers(130, 131)
                BY <1>1, <1>4, <3>5 DEF Infix, Comparisons, Assignments
            <4> QED
                BY <4>1
        <3>6. CASE op \in {"logical_and"}
            <4>1. Infix[op] = Powers(100, 101)
                BY <1>1, <1>4, <3>6 DEF Infix, Comparisons, Assignments
            <4> QED
                BY <4>1
        <3>7. CASE op \in {"logical_or"}
            <4>1. Infix[op] = Powers(90, 91)
                BY <1>1, <1>4, <3>7 DEF Infix, Comparisons, Assignments
            <4> QED
                BY <4>1
        <3> QED
            BY <1>1, <1>4, <3>1, <3>2, <3>3, <3>4, <3>5, <3>6, <3>7 DEF InfixOperators
    <2>2. Infix[op].lhs \in Nat /\ Infix[op].rhs \in Nat /\ Infix[op].lhs # Infix[op].rhs
        BY <2>1 DEF Powers
    <2>3. op \notin Comparisons
        BY <1>4
    <2> QED
        BY <2>2, <2>3
<1> QED
    BY <1>2, <1>3, <1>4
-----------------------------------------------------------------------------
(* What the type invariant says of calls and nodes. *)

LEMMA CallSeq ==
    ASSUME NEW s \in Seq(CallType)
    PROVE  /\ Len(s) \in Nat
           /\ \A i \in 1..Len(s) :
                 /\ s[i] \in CallType
                 /\ s[i].min \in Nat
                 /\ s[i].at \in Nat
                 /\ s[i].lhs \in Nat
                 /\ s[i].op \in Token
                 /\ s[i].stage \in Stages
<1>1. Len(s) \in Nat /\ \A i \in 1..Len(s) : s[i] \in CallType
    BY LenProperties, ElementOfSeq
<1>2. ASSUME NEW c \in CallType
      PROVE  c.min \in Nat /\ c.at \in Nat /\ c.lhs \in Nat /\ c.op \in Token /\ c.stage \in Stages
    BY DEF CallType
<1> QED
    BY <1>1, <1>2

LEMMA CallsTyped ==
    ASSUME TypeOK
    PROVE  /\ Len(calls) \in Nat
           /\ \A i \in Depths :
                 /\ calls[i] \in CallType
                 /\ calls[i].min \in Nat
                 /\ calls[i].at \in Nat
                 /\ calls[i].lhs \in Nat
                 /\ calls[i].op \in Token
                 /\ calls[i].stage \in Stages
BY CallSeq DEF TypeOK, Depths

LEMMA NodesTyped ==
    ASSUME TypeOK
    PROVE  /\ Len(ast) \in Nat
           /\ \A n \in Nodes :
                 /\ ast[n] \in Node
                 /\ ast[n].first \in Nat
                 /\ ast[n].last \in Nat
                 /\ ast[n].lhs \in Nat
                 /\ ast[n].rhs \in Nat
                 /\ ast[n].paren \in BOOLEAN
                 /\ ast[n].op \in Operators \cup {"operand"}
                 /\ ast[n].kind \in Kinds
<1>1. ast \in Seq(Node)
    BY DEF TypeOK
<1>2. Len(ast) \in Nat /\ \A n \in Nodes : ast[n] \in Node
    BY <1>1, LenProperties, ElementOfSeq DEF Nodes
<1>3. ASSUME NEW c \in Node
      PROVE  /\ c.first \in Nat /\ c.last \in Nat /\ c.lhs \in Nat /\ c.rhs \in Nat
             /\ c.paren \in BOOLEAN /\ c.op \in Operators \cup {"operand"} /\ c.kind \in Kinds
    BY DEF Node
<1> QED
    BY <1>2, <1>3

\* Start() of a call that is there.
LEMMA StartTyped ==
    ASSUME TypeOK, \A i \in Depths : CallShape(i), NEW k \in Depths
    PROVE  Start(k) \in Nat
<1>1. read \in Nat /\ calls[k].at \in Nat
    BY CallsTyped DEF TypeOK
<1>2. HasLhs(k) => ast[calls[k].lhs].first \in Nat
    BY NodesTyped DEF CallShape
<1> QED
    BY <1>1, <1>2 DEF Start

-----------------------------------------------------------------------------
(* A call begins above call k, which waits for it: after a prefix or infix  *)
(* operator, an opening bracket, or the comma after an argument.            *)

Opens(k) ==
    /\ k \in Depths
    /\ Len(calls') = k + 1
    /\ \A i \in 1..k - 1 : calls'[i] = calls[i]
    /\ calls'[k].min = calls[k].min
    /\ calls'[k].lhs = calls[k].lhs
    /\ HasLhs(k)' <=> HasLhs(k)
    /\ Waiting(k)'
    /\ ~HasLhs(k)' => Start(k) = calls'[k].at
    /\ Start(k) <= calls'[k].at
    /\ calls'[k].at <= read + 1
    /\ Stage(k)' # "args" => calls'[k].at = read + 1
    /\ Extends(k)' => ast[calls[k].lhs].last + 1 = calls'[k].at
    /\ CallShape(k)'
    /\ calls'[k + 1].stage = "start"
    /\ read' = read + 1
    /\ ast' = ast

LEMMA OpensStarts ==
    ASSUME TypeOK, TypeOK', \A i \in Depths : CallShape(i), NEW k, Opens(k)
    PROVE  /\ \A i \in 1..k : Start(i)' = Start(i) /\ Start(i) \in Nat
           /\ \A i \in 1..k : (HasLhs(i)' <=> HasLhs(i)) /\ calls'[i].lhs = calls[i].lhs
           /\ \A i \in 1..k : calls'[i].min = calls[i].min
           /\ Start(k + 1)' = read + 2
           /\ ~HasLhs(k + 1)'
           /\ k \in Nat \ {0}
           /\ Depths' = 1..k + 1
           /\ k <= Len(calls)
<1>1. /\ Len(calls) \in Nat /\ read \in Nat
      /\ k \in 1..Len(calls) /\ Len(calls') = k + 1
    BY CallsTyped DEF Opens, TypeOK, Depths
<1>2. k \in Nat \ {0} /\ Depths' = 1..k + 1 /\ k <= Len(calls)
    BY <1>1 DEF Depths
<1>3. ASSUME NEW i \in 1..k, i # k
      PROVE  calls'[i] = calls[i] /\ Stage(i) # "start"
    <2>1. i \in 1..k - 1 /\ i \in Depths /\ i # Len(calls)
        BY <1>1, <1>2, <1>3 DEF Depths
    <2> QED
        BY <2>1 DEF Opens, CallShape
<1>4. ASSUME NEW i \in 1..k
      PROVE  (HasLhs(i)' <=> HasLhs(i)) /\ calls'[i].lhs = calls[i].lhs /\ calls'[i].min = calls[i].min
    BY <1>3 DEF Opens, HasLhs, Stage
<1>5. ASSUME NEW i \in 1..k
      PROVE  Start(i)' = Start(i) /\ Start(i) \in Nat
    <2>1. i \in Depths
        BY <1>1 DEF Depths
    <2>2. Start(i) \in Nat
        BY <2>1, StartTyped
    <2>3. CASE i # k
        BY <1>3, <1>4, <2>2, <2>3 DEF Start, Stage, Opens
    <2>4. CASE i = k
        <3>1. Stage(i)' # "start"
            BY <2>4 DEF Opens, Waiting, Extends
        <3>2. CASE HasLhs(i)
            BY <1>4, <2>2, <3>1, <3>2 DEF Start, Opens, HasLhs
        <3>3. CASE ~HasLhs(i)
            BY <1>4, <2>2, <2>4, <3>1, <3>3 DEF Start, Opens
        <3> QED
            BY <3>2, <3>3
    <2> QED
        BY <2>3, <2>4
<1>6. Start(k + 1)' = read + 2 /\ ~HasLhs(k + 1)'
    BY <1>1 DEF Opens, Start, Stage, HasLhs
<1> QED
    BY <1>2, <1>4, <1>5, <1>6
LEMMA OpensStack ==
    ASSUME TypeOK, TypeOK', Stack, NEW k, Opens(k)
    PROVE  Stack'
<1>1. /\ \A i \in Depths : CallShape(i)
      /\ Len(calls) \in Nat /\ read \in Nat
    BY CallsTyped DEF Stack, TypeOK
<1>2. /\ \A i \in 1..k : Start(i)' = Start(i) /\ Start(i) \in Nat
      /\ \A i \in 1..k : (HasLhs(i)' <=> HasLhs(i)) /\ calls'[i].lhs = calls[i].lhs
      /\ \A i \in 1..k : calls'[i].min = calls[i].min
      /\ Start(k + 1)' = read + 2
      /\ ~HasLhs(k + 1)'
      /\ k \in Nat \ {0}
      /\ Depths' = 1..k + 1
      /\ k <= Len(calls)
    BY <1>1, OpensStarts
<1>3. /\ Nodes' = Nodes
      /\ ast' = ast
      /\ read' = read + 1
      /\ Len(calls') = k + 1
      /\ calls'[k + 1].stage = "start"
    BY DEF Opens, Nodes
<1>4. \A n \in Nodes :
          ast[n].first \in Nat /\ ast[n].last \in Nat /\ ast[n].lhs \in Nat /\ ast[n].rhs \in Nat
    BY NodesTyped
<1>5. ASSUME NEW i \in 1..k - 1
      PROVE  /\ i \in Depths /\ i # Len(calls) /\ i + 1 \in 1..k /\ i \in 1..k /\ i # k + 1
             /\ calls'[i] = calls[i]
             /\ (Extends(i)' <=> Extends(i)) /\ (Waiting(i)' <=> Waiting(i))
             /\ Stage(i)' = Stage(i)
             /\ LeftPower(i)' = LeftPower(i)
    <2>1. i \in Depths /\ i # Len(calls) /\ i + 1 \in 1..k /\ i \in 1..k /\ i # k + 1
        BY <1>1, <1>2 DEF Depths
    <2>2. calls'[i] = calls[i]
        BY DEF Opens
    <2> QED
        BY <2>1, <2>2 DEF Extends, Waiting, Stage, LeftPower
<1>6. \A i \in Depths' : i \in 1..k - 1 \/ i = k \/ i = k + 1
    BY <1>2
<1>7. \A i \in Depths' : CallShape(i)'
    <2>1. ASSUME NEW i \in 1..k - 1
          PROVE  CallShape(i)'
        <3>1. CallShape(i) /\ calls'[i + 1].min = calls[i + 1].min
            BY <1>1, <1>2, <1>5
        <3> QED
            BY <1>2, <1>3, <1>5, <3>1 DEF CallShape
    <2>2. CallShape(k)'
        BY DEF Opens
    <2>3. CallShape(k + 1)'
        BY <1>2, <1>3 DEF CallShape, Stage, HasLhs, Extends
    <2> QED
        BY <1>6, <2>1, <2>2, <2>3
<1>8. \A i \in Depths' : CallPlace(i)'
    <2>1. ASSUME NEW i \in 1..k - 1
          PROVE  CallPlace(i)'
        <3>1. CallPlace(i) /\ CallShape(i)
            BY <1>5 DEF Stack
        <3>2. Start(i)' = Start(i) /\ Start(i + 1)' = Start(i + 1)
            BY <1>2, <1>5
        <3>3. calls[i].at \in Nat
            BY <1>5, CallsTyped
        <3>4. Stage(i) # "loop"
            BY <1>5, <3>1 DEF CallShape
        <3> QED
            BY <1>1, <1>3, <1>5, <3>1, <3>2, <3>3, <3>4 DEF CallPlace
    <2>2. CallPlace(k)'
        <3>1. Stage(k)' # "loop"
            BY DEF Opens, Waiting, Extends
        <3>2. /\ Start(k) <= calls'[k].at
              /\ calls'[k].at <= read + 1
              /\ Stage(k)' # "args" => calls'[k].at = read + 1
              /\ Extends(k)' => ast[calls[k].lhs].last + 1 = calls'[k].at
            BY DEF Opens
        <3>3. k \in 1..k /\ read + 2 = (read + 1) + 1
            BY <1>1, <1>2
        <3> QED
            BY <1>2, <1>3, <3>1, <3>2, <3>3 DEF CallPlace
    <2>3. CallPlace(k + 1)'
        BY <1>3 DEF CallPlace, Stage, Waiting, Extends
    <2> QED
        BY <1>6, <2>1, <2>2, <2>3
<1>9. \A i \in Depths' : CallNodes(i)'
    <2>1. ASSUME NEW i \in 1..k
          PROVE  CallNodes(i)'
        <3>1. CallNodes(i) /\ Start(i)' = Start(i) /\ (HasLhs(i)' <=> HasLhs(i))
                /\ calls'[i].lhs = calls[i].lhs
            BY <1>1, <1>2 DEF Stack, Depths
        <3> QED
            BY <1>3, <3>1 DEF CallNodes
    <2>2. CallNodes(k + 1)'
        <3>1. \A m \in Nodes : ast[m].first <= read /\ ast[m].last <= read
            BY <1>1, <1>4 DEF Stack, NodeShape
        <3> QED
            BY <1>1, <1>2, <1>3, <1>4, <3>1 DEF CallNodes
    <2> QED
        BY <1>2, <1>6, <2>1, <2>2
<1>10. InTurn'
    <2>1. Start(1)' = 1
        BY <1>2 DEF Stack, InTurn
    <2>2. ASSUME NEW i \in 1..k + 1, NEW j \in 1..k + 1, i < j
          PROVE  calls'[i].at < Start(j)'
        <3>1. CASE j = k + 1
            <4>1. Start(j)' = read + 2
                BY <1>1, <1>3, <3>1 DEF Start, Stage
            <4>2. CASE i = k
                <5>1. calls'[k].at <= read + 1 /\ calls'[k].at \in Nat
                    <6>1. calls' \in Seq(CallType) /\ k \in 1..Len(calls')
                        BY <1>2 DEF TypeOK, Depths
                    <6>2. calls'[k].at \in Nat
                        BY <6>1, CallSeq
                    <6> QED
                        BY <6>2 DEF Opens
                <5> QED
                    BY <1>1, <4>1, <4>2, <5>1
            <4>3. CASE i # k
                <5>1. i \in 1..k - 1
                    BY <1>2, <2>2, <3>1, <4>3
                <5>2. Stage(i) \notin {"start", "loop"} /\ Stage(i) \in Stages
                    BY <1>1, <1>5, <5>1, CallsTyped DEF CallShape, Stage
                <5>3. Waiting(i)
                    BY <5>2 DEF Waiting, Extends, Stages
                <5>4. calls[i].at <= read /\ calls[i].at \in Nat
                    BY <1>5, <5>1, <5>3, CallsTyped DEF Stack, CallPlace
                <5> QED
                    BY <1>1, <1>5, <4>1, <5>1, <5>4
            <4> QED
                BY <4>2, <4>3
        <3>2. CASE j # k + 1
            <4>1. j \in 1..k /\ i \in 1..k - 1
                BY <1>2, <2>2, <3>2
            <4>2. j \in Depths
                BY <1>1, <1>2, <4>1 DEF Depths
            <4>3. calls[i].at < Start(j)
                BY <1>5, <2>2, <4>1, <4>2 DEF Stack, InTurn
            <4> QED
                BY <1>2, <1>5, <4>1, <4>3
        <3> QED
            BY <3>1, <3>2
    <2> QED
        BY <1>2, <2>1, <2>2 DEF InTurn
<1>11. Roots'
    <2>1. Roots
        BY DEF Stack
    <2>2. \A i \in Depths' : HasLhs(i)' =>
              i \in Depths /\ HasLhs(i) /\ calls'[i].lhs = calls[i].lhs
        BY <1>1, <1>2 DEF Depths
    <2> QED
        BY <1>3, <2>1, <2>2 DEF Roots
<1>12. NodeShape'
    <2>1. \A n \in Nodes : (HasLeft(n)' <=> HasLeft(n)) /\ (HasRight(n)' <=> HasRight(n))
        BY <1>3 DEF HasLeft, HasRight, InfixOf
    <2> QED
        BY <1>1, <1>3, <1>4, <2>1 DEF Stack, NodeShape
<1> QED
    BY <1>1, <1>2, <1>3, <1>7, <1>8, <1>9, <1>10, <1>11, <1>12 DEF Stack
\* With the nodes, everything that is said of them alone stays as it is.
LEMMA TreeKept ==
    ASSUME ast' = ast
    PROVE  /\ Nodes' = Nodes
           /\ \A m \in Nodes :
                 /\ Bare(m)' <=> Bare(m)
                 /\ HasLeft(m)' <=> HasLeft(m)
                 /\ HasRight(m)' <=> HasRight(m)
                 /\ InfixOf(m)' <=> InfixOf(m)
                 /\ LeftOf(m)' = LeftOf(m)
                 /\ RightOf(m)' = RightOf(m)
           /\ TighterOperator => TighterOperator'
           /\ SourceOrder /\ status' # "done" => SourceOrder'
<1>1. /\ Nodes' = Nodes
      /\ \A m \in Nodes :
            /\ Bare(m)' <=> Bare(m)
            /\ HasLeft(m)' <=> HasLeft(m)
            /\ HasRight(m)' <=> HasRight(m)
            /\ InfixOf(m)' <=> InfixOf(m)
            /\ LeftOf(m)' = LeftOf(m)
            /\ RightOf(m)' = RightOf(m)
    BY DEF Nodes, Bare, HasLeft, HasRight, InfixOf, LeftOf, RightOf
<1>2. TighterOperator => TighterOperator'
    BY DEF TighterOperator, RightOperands, LeftOperands, NoComparisonChain, Opening, Closing,
        Nodes, Bare, HasLeft, HasRight, InfixOf, LeftOf, RightOf
<1>3. SourceOrder /\ status' # "done" => SourceOrder'
    BY DEF SourceOrder, Nodes, Bare, InfixOf
<1> QED
    BY <1>1, <1>2, <1>3

LEMMA OpensPowers ==
    ASSUME TypeOK, TypeOK', Stack, PowersKept, NEW k, Opens(k), LeftKept(k)', OnlyRoot(k)'
    PROVE  PowersKept'
<1>1. /\ \A i \in Depths : CallShape(i)
      /\ Len(calls) \in Nat /\ read \in Nat
    BY CallsTyped DEF Stack, TypeOK
<1>2. /\ \A i \in 1..k : Start(i)' = Start(i) /\ Start(i) \in Nat
      /\ \A i \in 1..k : (HasLhs(i)' <=> HasLhs(i)) /\ calls'[i].lhs = calls[i].lhs
      /\ \A i \in 1..k : calls'[i].min = calls[i].min
      /\ Start(k + 1)' = read + 2
      /\ ~HasLhs(k + 1)'
      /\ k \in Nat \ {0}
      /\ Depths' = 1..k + 1
      /\ k <= Len(calls)
    BY <1>1, OpensStarts
<1>3. /\ ast' = ast
      /\ read' = read + 1
      /\ calls'[k + 1].stage = "start"
    BY DEF Opens
<1>4. /\ Nodes' = Nodes
      /\ \A m \in Nodes :
            /\ Bare(m)' <=> Bare(m)
            /\ HasLeft(m)' <=> HasLeft(m)
            /\ HasRight(m)' <=> HasRight(m)
            /\ InfixOf(m)' <=> InfixOf(m)
            /\ LeftOf(m)' = LeftOf(m)
            /\ RightOf(m)' = RightOf(m)
    BY <1>3, TreeKept
<1>5. \A m \in Nodes : ast[m].first \in Nat /\ ast[m].first <= read /\ ast[m].first # read + 2
    <2>1. \A m \in Nodes : ast[m].first \in Nat /\ ast[m].last \in Nat
        BY NodesTyped
    <2>2. \A m \in Nodes : ast[m].first <= ast[m].last /\ ast[m].last <= read
        BY DEF Stack, NodeShape
    <2> QED
        BY <1>1, <2>1, <2>2
<1>6. ASSUME NEW i \in 1..k - 1
      PROVE  /\ i \in Depths /\ i \in 1..k
             /\ calls'[i] = calls[i]
             /\ (Extends(i)' <=> Extends(i))
             /\ Stage(i)' = Stage(i) /\ Stage(i) # "loop"
             /\ LeftPower(i)' = LeftPower(i)
    <2>1. i \in Depths /\ i \in 1..k /\ i # Len(calls)
        BY <1>1, <1>2 DEF Depths
    <2>2. calls'[i] = calls[i]
        BY DEF Opens
    <2>3. Stage(i) # "loop"
        BY <1>1, <2>1 DEF CallShape
    <2> QED
        BY <2>1, <2>2, <2>3 DEF Extends, Stage, LeftPower
<1>7. \A i \in Depths' : i \in 1..k - 1 \/ i = k \/ i = k + 1
    BY <1>2
<1>8. \A i \in Depths' : i \in 1..k \/ i = k + 1
    BY <1>2
<1>9. ASSUME NEW i \in Depths', i = k + 1
      PROVE  Start(i)' = read + 2 /\ Stage(i)' = "start"
    BY <1>2, <1>3, <1>9 DEF Stage
<1>10. ASSUME NEW i \in Depths'
       PROVE  AtLeastMin(i)'
    <2>1. CASE i \in 1..k
        <3>1. AtLeastMin(i)
            BY <1>1, <1>2, <2>1 DEF PowersKept, Depths
        <3> QED
            BY <1>2, <1>3, <1>4, <2>1, <3>1 DEF AtLeastMin
    <2>2. CASE i = k + 1
        BY <1>3, <1>4, <1>5, <1>9, <2>2 DEF AtLeastMin
    <2> QED
        BY <1>8, <2>1, <2>2
<1>11. ASSUME NEW i \in Depths'
       PROVE  LeftKept(i)'
    <2>1. CASE i \in 1..k - 1
        <3>1. LeftKept(i)
            BY <1>6, <2>1 DEF PowersKept
        <3> QED
            BY <1>2, <1>3, <1>4, <1>6, <2>1, <3>1 DEF LeftKept
    <2>2. CASE i = k + 1
        BY <1>9, <2>2 DEF LeftKept, Extends
    <2> QED
        BY <1>7, <2>1, <2>2
<1>12. ASSUME NEW i \in Depths'
       PROVE  LeftNext(i)'
    <2>1. Stage(i)' # "loop"
        BY <1>6, <1>7, <1>9 DEF Opens, Waiting, Extends
    <2> QED
        BY <2>1 DEF LeftNext
<1>13. ASSUME NEW i \in Depths'
       PROVE  OnlyRoot(i)'
    <2>1. CASE i \in 1..k - 1
        <3>1. OnlyRoot(i)
            BY <1>6, <2>1 DEF PowersKept
        <3> QED
            BY <1>2, <1>3, <1>4, <1>6, <2>1, <3>1 DEF OnlyRoot
    <2>2. CASE i = k + 1
        BY <1>3, <1>4, <1>5, <1>9, <2>2 DEF OnlyRoot
    <2> QED
        BY <1>7, <2>1, <2>2
<1> QED
    BY <1>10, <1>11, <1>12, <1>13 DEF PowersKept
-----------------------------------------------------------------------------
(* Node r becomes the left-hand side of call k, which is the innermost one  *)
(* then: it is a new one, or the one that gets its parentheses.             *)

Makes(k, r) ==
    /\ k \in Depths
    /\ Stage(k) # "loop"
    /\ Len(calls') = k
    /\ \A i \in 1..k - 1 : calls'[i] = calls[i]
    /\ calls'[k].min = calls[k].min
    /\ calls'[k].lhs = r
    /\ calls'[k].stage = "loop"
    /\ read' \in {read, read + 1}
    /\ Nodes' = Nodes \cup {r}
    /\ \A m \in Nodes : m # r => ast'[m] = ast[m]
    /\ ast'[r].first = Start(k)
    /\ ast'[r].last = read'
    /\ Start(k) <= read'
    /\ \A m \in Nodes : m # r /\ ast[m].first = Start(k) => ast[m].last < read'
    /\ \A i \in 1..k - 1 : HasLhs(i) => calls[i].lhs # r /\ ast'[r].lhs # calls[i].lhs
                                                         /\ ast'[r].rhs # calls[i].lhs
    /\ \A m \in Nodes : ast[m].lhs # r /\ ast[m].rhs # r
    /\ ast'[r].lhs # r /\ ast'[r].rhs # r
    /\ HasLeft(r)' => ast'[r].lhs \in Nodes /\ ast[ast'[r].lhs].last < read'
    /\ HasRight(r)' => ast'[r].rhs \in Nodes
    /\ ast'[r].lhs \in Nodes \cup {NoNode} /\ ast'[r].rhs \in Nodes \cup {NoNode}

\* What is left of the others.
LEMMA MakesOthers ==
    ASSUME TypeOK, TypeOK', Stack, NEW k, NEW r, Makes(k, r)
    PROVE  /\ k \in Nat \ {0} /\ k <= Len(calls) /\ Len(calls) \in Nat
           /\ read \in Nat /\ read' \in Nat /\ read <= read'
           /\ Depths' = 1..k
           /\ r \in Nodes'
           /\ \A i \in 1..k : Start(i)' = Start(i) /\ Start(i) \in Nat \ {0}
           /\ \A i \in 1..k - 1 :
                 /\ i \in Depths /\ i \in 1..k /\ i + 1 \in 1..k /\ i # Len(calls) /\ i # k
                 /\ calls'[i] = calls[i] /\ calls[i].at \in Nat
                 /\ Start(i) <= calls[i].at /\ calls[i].at <= read
                 /\ calls[i].at < Start(k)
                 /\ Start(i) # Start(k)
                 /\ Stage(i)' = Stage(i) /\ Stage(i) \notin {"start", "loop"}
                 /\ (HasLhs(i)' <=> HasLhs(i)) /\ (Extends(i)' <=> Extends(i))
                 /\ (Waiting(i)' <=> Waiting(i))
                 /\ LeftPower(i)' = LeftPower(i)
           /\ \A m \in Nodes' : m # r =>
                 /\ m \in Nodes /\ ast'[m] = ast[m]
                 /\ ast[m].first \in Nat /\ ast[m].last \in Nat
                 /\ ast[m].first <= read /\ ast[m].last <= read
                 /\ Bare(m)' <=> Bare(m)
                 /\ HasLeft(m)' <=> HasLeft(m)
                 /\ HasRight(m)' <=> HasRight(m)
                 /\ InfixOf(m)' <=> InfixOf(m)
                 /\ LeftOf(m)' = LeftOf(m)
                 /\ RightOf(m)' = RightOf(m)
<1>1. /\ Len(calls) \in Nat /\ read \in Nat /\ read' \in Nat
      /\ k \in 1..Len(calls) /\ Len(calls') = k /\ read' \in {read, read + 1}
      /\ \A i \in Depths : CallShape(i)
    BY CallsTyped DEF Makes, TypeOK, Depths, Stack
<1>2. k \in Nat \ {0} /\ k <= Len(calls) /\ read <= read' /\ Depths' = 1..k
    BY <1>1 DEF Depths
<1>3. Nodes' = Nodes \cup {r} /\ \A m \in Nodes : m # r => ast'[m] = ast[m]
    BY DEF Makes
<1>4. ASSUME NEW m \in Nodes', m # r
      PROVE  /\ m \in Nodes /\ ast'[m] = ast[m]
             /\ ast[m].first \in Nat /\ ast[m].last \in Nat
             /\ ast[m].first <= read /\ ast[m].last <= read
             /\ Bare(m)' <=> Bare(m)
             /\ HasLeft(m)' <=> HasLeft(m)
             /\ HasRight(m)' <=> HasRight(m)
             /\ InfixOf(m)' <=> InfixOf(m)
             /\ LeftOf(m)' = LeftOf(m)
             /\ RightOf(m)' = RightOf(m)
    <2>1. m \in Nodes /\ ast'[m] = ast[m]
        BY <1>3, <1>4
    <2>2. ast[m].first \in Nat /\ ast[m].last \in Nat
        BY <2>1, NodesTyped
    <2>3. ast[m].first <= ast[m].last /\ ast[m].last <= read
        BY <2>1 DEF Stack, NodeShape
    <2>4. /\ Bare(m)' <=> Bare(m)
          /\ HasLeft(m)' <=> HasLeft(m)
          /\ HasRight(m)' <=> HasRight(m)
          /\ InfixOf(m)' <=> InfixOf(m)
          /\ LeftOf(m)' = LeftOf(m)
          /\ RightOf(m)' = RightOf(m)
        BY <2>1 DEF Bare, HasLeft, HasRight, InfixOf, LeftOf, RightOf
    <2> QED
        BY <1>1, <2>1, <2>2, <2>3, <2>4
<1>5. ASSUME NEW i \in 1..k - 1
      PROVE  /\ i \in Depths /\ i \in 1..k /\ i + 1 \in 1..k /\ i # Len(calls) /\ i # k
             /\ calls'[i] = calls[i] /\ calls[i].at \in Nat
             /\ Start(i) <= calls[i].at /\ calls[i].at <= read
             /\ Stage(i)' = Stage(i) /\ Stage(i) \notin {"start", "loop"}
             /\ (HasLhs(i)' <=> HasLhs(i)) /\ (Extends(i)' <=> Extends(i))
             /\ (Waiting(i)' <=> Waiting(i))
             /\ LeftPower(i)' = LeftPower(i)
    <2>1. i \in Depths /\ i \in 1..k /\ i + 1 \in 1..k /\ i # Len(calls) /\ i # k
        BY <1>1, <1>2 DEF Depths
    <2>2. calls'[i] = calls[i] /\ calls[i].at \in Nat /\ Stage(i) \in Stages
        BY <2>1, CallsTyped DEF Makes, Stage
    <2>3. Stage(i) \notin {"start", "loop"}
        BY <1>1, <2>1 DEF CallShape
    <2>4. Waiting(i)
        BY <2>2, <2>3 DEF Waiting, Extends, Stages
    <2>5. Start(i) <= calls[i].at /\ calls[i].at <= read
        BY <2>1, <2>4 DEF Stack, CallPlace
    <2>6. /\ Stage(i)' = Stage(i)
          /\ (HasLhs(i)' <=> HasLhs(i)) /\ (Extends(i)' <=> Extends(i))
          /\ (Waiting(i)' <=> Waiting(i))
          /\ LeftPower(i)' = LeftPower(i)
        BY <2>2 DEF Extends, Stage, LeftPower, HasLhs, Waiting
    <2> QED
        BY <2>1, <2>2, <2>3, <2>5, <2>6
<1>6. ASSUME NEW i \in 1..k
      PROVE  Start(i)' = Start(i) /\ Start(i) \in Nat \ {0}
    <2>1. i \in Depths /\ (i = k \/ i \in 1..k - 1)
        BY <1>1, <1>2 DEF Depths
    <2>2. Start(i) \in Nat
        BY <1>1, <2>1, StartTyped
    <2>3. Start(i) # 0
        <3>1. CASE i = 1
            BY <3>1 DEF Stack, InTurn
        <3>2. CASE i # 1
            <4>1. 1 \in Depths /\ 1 < i
                BY <1>1, <1>2, <3>2 DEF Depths
            <4>2. calls[1].at < Start(i) /\ calls[1].at \in Nat
                BY <2>1, <4>1, CallsTyped DEF Stack, InTurn
            <4> QED
                BY <2>2, <4>2
        <3> QED
            BY <3>1, <3>2
    <2>4. CASE i = k
        BY <2>2, <2>3, <2>4 DEF Makes, Start, Stage, HasLhs
    <2>5. CASE i \in 1..k - 1
        <3>1. HasLhs(i) => ast'[calls[i].lhs] = ast[calls[i].lhs]
            BY <1>1, <2>1, <2>5 DEF Makes, CallShape
        <3> QED
            BY <1>5, <2>2, <2>3, <2>5, <3>1 DEF Start
    <2> QED
        BY <2>1, <2>4, <2>5
<1>7. ASSUME NEW i \in 1..k - 1
      PROVE  calls[i].at < Start(k) /\ Start(i) # Start(k)
    <2>1. i < k /\ k \in Depths /\ k \in 1..k
        BY <1>1, <1>2 DEF Depths
    <2>2. calls[i].at < Start(k)
        BY <1>5, <2>1 DEF Stack, InTurn
    <2> QED
        BY <1>5, <1>6, <2>1, <2>2
<1>8. r \in Nodes'
    BY <1>3
<1> QED
    BY <1>1, <1>2, <1>4, <1>5, <1>6, <1>7, <1>8
LEMMA MakesStack ==
    ASSUME TypeOK, TypeOK', Stack, NEW k, NEW r, Makes(k, r)
    PROVE  Stack'
<1>1. /\ k \in Nat \ {0} /\ k <= Len(calls) /\ Len(calls) \in Nat
      /\ read \in Nat /\ read' \in Nat /\ read <= read'
      /\ Depths' = 1..k
      /\ r \in Nodes'
    BY MakesOthers
<1>2. \A i \in 1..k : Start(i)' = Start(i) /\ Start(i) \in Nat \ {0}
    BY MakesOthers
<1>3. \A i \in 1..k - 1 :
          /\ i \in Depths /\ i \in 1..k /\ i + 1 \in 1..k /\ i # Len(calls) /\ i # k
          /\ calls'[i] = calls[i] /\ calls[i].at \in Nat
          /\ Start(i) <= calls[i].at /\ calls[i].at <= read
          /\ calls[i].at < Start(k)
          /\ Start(i) # Start(k)
          /\ Stage(i)' = Stage(i) /\ Stage(i) \notin {"start", "loop"}
          /\ (HasLhs(i)' <=> HasLhs(i)) /\ (Extends(i)' <=> Extends(i))
          /\ (Waiting(i)' <=> Waiting(i))
          /\ LeftPower(i)' = LeftPower(i)
    BY MakesOthers
<1>4. \A m \in Nodes' : m # r =>
          /\ m \in Nodes /\ ast'[m] = ast[m]
          /\ ast[m].first \in Nat /\ ast[m].last \in Nat
          /\ ast[m].first <= read /\ ast[m].last <= read
          /\ HasLeft(m)' <=> HasLeft(m)
          /\ HasRight(m)' <=> HasRight(m)
    BY MakesOthers
<1>5. /\ Len(calls') = k
      /\ calls'[k].min = calls[k].min
      /\ calls'[k].lhs = r
      /\ Stage(k)' = "loop" /\ HasLhs(k)' /\ ~Extends(k)' /\ ~Waiting(k)'
      /\ Nodes' = Nodes \cup {r}
      /\ \A m \in Nodes : m # r => ast'[m] = ast[m]
      /\ ast'[r].first = Start(k)
      /\ ast'[r].last = read'
      /\ Start(k) <= read'
    BY DEF Makes, Stage, HasLhs, Extends, Waiting
<1>6. ASSUME NEW i \in 1..k - 1, HasLhs(i)
      PROVE  /\ calls[i].lhs \in Nodes /\ calls[i].lhs # r
             /\ ast'[calls[i].lhs] = ast[calls[i].lhs]
    BY <1>3, <1>6 DEF Makes, Stack, CallShape
<1>7. \A i \in Depths' : i \in 1..k /\ (i = k \/ i \in 1..k - 1)
    BY <1>1
<1>8. ASSUME NEW i \in Depths'
      PROVE  CallShape(i)'
    <2>1. CASE i = k
        BY <1>1, <1>5, <2>1 DEF CallShape
    <2>2. CASE i \in 1..k - 1
        <3>1. CallShape(i)
            BY <1>3, <2>2 DEF Stack
        <3>2. calls'[i + 1].min = calls[i + 1].min
            <4>1. i + 1 = k \/ i + 1 \in 1..k - 1
                BY <1>1, <2>2
            <4> QED
                BY <1>3, <1>5, <4>1
        <3>3. HasLhs(i) => calls[i].lhs \in Nodes'
            BY <1>5, <1>6, <2>2
        <3>4. i # Len(calls')
            BY <1>3, <1>5, <2>2
        <3> QED
            BY <1>3, <2>2, <3>1, <3>2, <3>3, <3>4 DEF CallShape
    <2> QED
        BY <1>7, <2>1, <2>2
<1>9. ASSUME NEW i \in Depths'
      PROVE  CallPlace(i)'
    <2>1. CASE i = k
        BY <1>5, <2>1 DEF CallPlace
    <2>2. CASE i \in 1..k - 1
        <3>1. CallPlace(i)
            BY <1>3, <2>2 DEF Stack
        <3>2. Start(i)' = Start(i) /\ Start(i + 1)' = Start(i + 1)
            BY <1>2, <1>3, <2>2
        <3>3. Extends(i) => HasLhs(i)
            BY DEF Extends, HasLhs
        <3>4. calls[i].at <= read'
            BY <1>1, <1>3, <2>2
        <3>5. Extends(i) => ast'[calls[i].lhs] = ast[calls[i].lhs]
            BY <1>6, <2>2, <3>3
        <3> QED
            BY <1>3, <2>2, <3>1, <3>2, <3>4, <3>5 DEF CallPlace
    <2> QED
        BY <1>7, <2>1, <2>2
<1>10. ASSUME NEW i \in Depths'
       PROVE  CallNodes(i)'
    <2>1. CallNodes(i) /\ Start(i)' = Start(i) /\ Start(i) \in Nat
        <3>1. i \in Depths
            BY <1>1, <1>7 DEF Depths
        <3> QED
            BY <1>2, <1>7, <3>1 DEF Stack
    <2>2. ASSUME NEW m \in Nodes'
          PROVE  /\ ast'[m].first = Start(i) => HasLhs(i)' /\ ast'[m].last <= ast'[calls'[i].lhs].last
                 /\ ast'[m].first < Start(i) => ast'[m].last < Start(i)
        <3>1. CASE m = r
            <4>1. CASE i = k
                BY <1>1, <1>2, <1>5, <3>1, <4>1
            <4>2. CASE i \in 1..k - 1
                <5>1. Start(i) < Start(k) /\ Start(k) \in Nat
                    BY <1>1, <1>2, <1>3, <2>1, <4>2
                <5> QED
                    BY <1>5, <2>1, <3>1, <5>1
            <4> QED
                BY <1>7, <4>1, <4>2
        <3>2. CASE m # r
            <4>1. m \in Nodes /\ ast'[m] = ast[m] /\ ast[m].last \in Nat /\ ast[m].last <= read'
                BY <1>1, <1>4, <3>2
            <4>2. CASE i = k
                BY <1>5, <2>1, <4>1, <4>2 DEF CallNodes
            <4>3. CASE i \in 1..k - 1
                BY <1>3, <1>6, <2>1, <4>1, <4>3 DEF CallNodes
            <4> QED
                BY <1>7, <4>2, <4>3
        <3> QED
            BY <3>1, <3>2
    <2> QED
        BY <2>1, <2>2 DEF CallNodes
<1>11. InTurn'
    <2>1. Start(1)' = 1
        BY <1>1, <1>2 DEF Stack, InTurn
    <2>2. ASSUME NEW i \in 1..k, NEW j \in 1..k, i < j
          PROVE  calls'[i].at < Start(j)'
        <3>1. i \in 1..k - 1 /\ j \in Depths
            BY <1>1, <2>2 DEF Depths
        <3>2. calls[i].at < Start(j)
            BY <1>3, <2>2, <3>1 DEF Stack, InTurn
        <3> QED
            BY <1>2, <1>3, <3>1, <3>2
    <2> QED
        BY <1>1, <2>1, <2>2 DEF InTurn
<1>12. Roots'
    <2>1. Roots
        BY DEF Stack
    <2>2. ASSUME NEW i \in Depths', NEW j \in Depths', HasLhs(i)', HasLhs(j)', calls'[i].lhs = calls'[j].lhs
          PROVE  i = j
        <3>1. CASE i = k \/ j = k
            BY <1>3, <1>5, <1>6, <1>7, <2>2, <3>1
        <3>2. CASE i \in 1..k - 1 /\ j \in 1..k - 1
            BY <1>3, <2>1, <2>2, <3>2 DEF Roots
        <3> QED
            BY <1>7, <3>1, <3>2
    <2>3. ASSUME NEW i \in Depths', HasLhs(i)', NEW n \in Nodes'
          PROVE  ast'[n].lhs # calls'[i].lhs /\ ast'[n].rhs # calls'[i].lhs
        <3>1. CASE i = k
            <4>1. CASE n = r
                BY <1>5, <3>1, <4>1 DEF Makes
            <4>2. CASE n # r
                BY <1>4, <1>5, <3>1, <4>2 DEF Makes
            <4> QED
                BY <4>1, <4>2
        <3>2. CASE i \in 1..k - 1
            <4>1. HasLhs(i) /\ calls'[i].lhs = calls[i].lhs /\ i \in Depths
                BY <1>3, <2>3, <3>2
            <4>2. CASE n = r
                BY <3>2, <4>1, <4>2 DEF Makes
            <4>3. CASE n # r
                BY <1>4, <2>1, <4>1, <4>3 DEF Roots
            <4> QED
                BY <4>2, <4>3
        <3> QED
            BY <1>7, <3>1, <3>2
    <2> QED
        BY <2>2, <2>3 DEF Roots
<1>13. NodeShape'
    <2>1. ASSUME NEW n \in Nodes'
          PROVE  /\ 1 <= ast'[n].first /\ ast'[n].first <= ast'[n].last /\ ast'[n].last <= read'
                 /\ HasLeft(n)' => ast'[n].lhs \in Nodes' /\ ast'[ast'[n].lhs].last < ast'[n].last
                 /\ HasRight(n)' => ast'[n].rhs \in Nodes'
                 /\ ast'[n].lhs \in Nodes' \cup {NoNode} /\ ast'[n].rhs \in Nodes' \cup {NoNode}
        <3>1. CASE n = r
            <4>1. HasLeft(r)' => ast'[r].lhs \in Nodes /\ ast'[ast'[r].lhs] = ast[ast'[r].lhs]
                                   /\ ast[ast'[r].lhs].last < read'
                BY <1>5 DEF Makes
            <4>2. /\ HasRight(r)' => ast'[r].rhs \in Nodes
                  /\ ast'[r].lhs \in Nodes \cup {NoNode} /\ ast'[r].rhs \in Nodes \cup {NoNode}
                BY DEF Makes
            <4>3. Start(k) \in Nat \ {0}
                BY <1>1, <1>2
            <4> QED
                BY <1>1, <1>5, <3>1, <4>1, <4>2, <4>3
        <3>2. CASE n # r
            <4>1. /\ n \in Nodes /\ ast'[n] = ast[n] /\ ast[n].lhs # r
                  /\ ast[n].first \in Nat /\ ast[n].last \in Nat
                  /\ HasLeft(n)' <=> HasLeft(n)
                  /\ HasRight(n)' <=> HasRight(n)
                BY <1>4, <3>2 DEF Makes
            <4>2. /\ 1 <= ast[n].first /\ ast[n].first <= ast[n].last /\ ast[n].last <= read
                  /\ HasLeft(n) => ast[n].lhs \in Nodes /\ ast[ast[n].lhs].last < ast[n].last
                  /\ HasRight(n) => ast[n].rhs \in Nodes
                  /\ ast[n].lhs \in Nodes \cup {NoNode} /\ ast[n].rhs \in Nodes \cup {NoNode}
                BY <4>1 DEF Stack, NodeShape
            <4>3. HasLeft(n) => ast'[ast[n].lhs] = ast[ast[n].lhs]
                BY <1>5, <4>1, <4>2
            <4> QED
                BY <1>1, <1>5, <4>1, <4>2, <4>3
        <3> QED
            BY <3>1, <3>2
    <2> QED
        BY <2>1 DEF NodeShape, NoNode
<1> QED
    BY <1>1, <1>5, <1>8, <1>9, <1>10, <1>11, <1>12, <1>13 DEF Stack
\* The operator of the new node is not too weak for its call; that those on
\* its right side lose to the next token is for the step to show.
LEMMA MakesPowers ==
    ASSUME TypeOK, TypeOK', Stack, PowersKept, NEW k, NEW r, Makes(k, r),
           Bare(r)' /\ HasLeft(r)' => LeftOf(r)' >= calls[k].min,
           LeftNext(k)'
    PROVE  PowersKept'
<1>1. /\ k \in Nat \ {0} /\ k <= Len(calls) /\ Len(calls) \in Nat
      /\ read \in Nat /\ read' \in Nat /\ read <= read'
      /\ Depths' = 1..k
      /\ k \in Depths
    BY MakesOthers DEF Makes
<1>2. \A i \in 1..k : Start(i)' = Start(i) /\ Start(i) \in Nat \ {0}
    BY MakesOthers
<1>3. \A i \in 1..k - 1 :
          /\ i \in Depths /\ i \in 1..k
          /\ calls'[i] = calls[i] /\ calls[i].at \in Nat
          /\ calls[i].at <= read
          /\ Start(i) # Start(k)
          /\ Stage(i)' = Stage(i) /\ Stage(i) # "loop"
          /\ (Extends(i)' <=> Extends(i))
          /\ LeftPower(i)' = LeftPower(i)
    BY MakesOthers
<1>4. \A m \in Nodes' : m # r =>
          /\ m \in Nodes /\ ast'[m] = ast[m]
          /\ Bare(m)' <=> Bare(m)
          /\ HasLeft(m)' <=> HasLeft(m)
          /\ HasRight(m)' <=> HasRight(m)
          /\ InfixOf(m)' <=> InfixOf(m)
          /\ LeftOf(m)' = LeftOf(m)
          /\ RightOf(m)' = RightOf(m)
    BY MakesOthers
<1>5. /\ calls'[k].min = calls[k].min
      /\ calls'[k].lhs = r
      /\ Stage(k)' = "loop" /\ ~Extends(k)'
      /\ ast'[r].first = Start(k)
      /\ ast'[r].last = read'
      /\ Stage(k) # "loop"
    BY DEF Makes, Stage, Extends
<1>6. \A i \in Depths' : i \in 1..k /\ (i = k \/ i \in 1..k - 1) /\ i \in Depths
    BY <1>1 DEF Depths
<1>7. ASSUME NEW i \in Depths'
      PROVE  AtLeastMin(i)'
    <2>1. AtLeastMin(i) /\ Start(i)' = Start(i) /\ calls'[i].min = calls[i].min
        BY <1>2, <1>3, <1>5, <1>6 DEF PowersKept
    <2>2. ASSUME NEW m \in Nodes', Bare(m)', HasLeft(m)', ast'[m].first = Start(i)'
          PROVE  LeftOf(m)' >= calls'[i].min
        <3>1. CASE m = r
            <4>1. i = k
                BY <1>3, <1>5, <1>6, <2>1, <2>2, <3>1
            <4>2. Bare(r)' /\ HasLeft(r)'
                BY <2>2, <3>1
            <4>3. LeftOf(r)' >= calls[k].min
                BY <4>2
            <4> QED
                BY <2>1, <3>1, <4>1, <4>3
        <3>2. CASE m # r
            BY <1>4, <2>1, <2>2, <3>2 DEF AtLeastMin
        <3> QED
            BY <3>1, <3>2
    <2> QED
        BY <2>2 DEF AtLeastMin
<1>8. ASSUME NEW i \in Depths'
      PROVE  LeftKept(i)'
    <2>1. CASE i = k
        BY <1>5, <2>1 DEF LeftKept
    <2>2. CASE i \in 1..k - 1
        <3>1. LeftKept(i) /\ Start(i)' = Start(i)
            BY <1>2, <1>3, <2>2 DEF PowersKept
        <3>2. ASSUME NEW m \in Nodes', ast'[m].last + 1 = calls'[i].at
              PROVE  m # r
            BY <1>1, <1>3, <1>5, <2>2, <3>2
        <3> QED
            BY <1>3, <1>4, <2>2, <3>1, <3>2 DEF LeftKept
    <2> QED
        BY <1>6, <2>1, <2>2
<1>9. ASSUME NEW i \in Depths'
      PROVE  LeftNext(i)'
    <2>1. CASE i = k
        BY <2>1
    <2>2. CASE i \in 1..k - 1
        BY <1>3, <2>2 DEF LeftNext
    <2> QED
        BY <1>6, <2>1, <2>2
<1>10. ASSUME NEW i \in Depths'
       PROVE  OnlyRoot(i)'
    <2>1. OnlyRoot(i) /\ Start(i)' = Start(i) /\ calls'[i].min = calls[i].min /\ Stage(i) # "loop"
        BY <1>2, <1>3, <1>5, <1>6 DEF PowersKept
    <2>2. ASSUME NEW m \in Nodes', Bare(m)', InfixOf(m)', NonAssociative(ast'[m].op),
                 ast'[m].first = Start(i)', calls'[i].min >= LeftOf(m)'
          PROVE  Stage(i)' = "loop" /\ m = calls'[i].lhs
        <3>1. CASE m = r
            BY <1>3, <1>5, <1>6, <2>1, <2>2, <3>1
        <3>2. CASE m # r
            BY <1>4, <2>1, <2>2, <3>2 DEF OnlyRoot
        <3> QED
            BY <3>1, <3>2
    <2> QED
        BY <2>2 DEF OnlyRoot, NonAssociative
<1> QED
    BY <1>7, <1>8, <1>9, <1>10 DEF PowersKept

\* The tree: what node r has for operands is for the step to show.
LEMMA MakesTree ==
    ASSUME TypeOK, TypeOK', Stack, SourceOrder, TighterOperator, NEW k, NEW r, Makes(k, r),
           status' # "done",
           InfixOf(r)' => ast'[ast'[r].lhs].last + 2 = ast'[ast'[r].rhs].first,
           ast'[r].kind = "prefix" /\ Bare(r)' => Start(k) + 1 = ast'[ast'[r].rhs].first,
           Bare(r)' /\ HasRight(r)' => ast'[ast'[r].rhs].first # Start(k),
           HasRight(r)' => \A m \in Nodes : Bare(m) /\ ast[m].first = ast[ast'[r].rhs].first
               /\ ast[m].last <= ast[ast'[r].rhs].last /\ HasLeft(m) /\ m # r
               => LeftOf(m) >= RightOf(r)',
           HasLeft(r)' => \A m \in Nodes : Bare(m) /\ ast[m].last = ast[ast'[r].lhs].last
               /\ ast[m].first >= ast[ast'[r].lhs].first /\ HasRight(m) /\ m # r
               => RightOf(m) > LeftOf(r)',
           InfixOf(r)' /\ NonAssociative(ast'[r].op) => \A m \in Nodes : Bare(m) /\ m # r
               /\ ast[m].first = ast[ast'[r].rhs].first /\ ast[m].last <= ast[ast'[r].rhs].last
               /\ InfixOf(m) => ~NonAssociative(ast[m].op),
           InfixOf(r)' /\ NonAssociative(ast'[r].op) => \A m \in Nodes : Bare(m) /\ m # r
               /\ ast[m].last = ast[ast'[r].lhs].last /\ ast[m].first >= ast[ast'[r].lhs].first
               /\ InfixOf(m) => ~NonAssociative(ast[m].op)
    PROVE  SourceOrder' /\ TighterOperator'
<1>1. /\ read \in Nat /\ read' \in Nat /\ read <= read' /\ r \in Nodes'
      /\ Start(k) \in Nat
    <2>1. k \in Nat \ {0} /\ \A i \in 1..k : Start(i) \in Nat \ {0}
        BY MakesOthers
    <2> QED
        BY <2>1, MakesOthers
<1>2. \A m \in Nodes' : m # r =>
          /\ m \in Nodes /\ ast'[m] = ast[m] /\ ast[m].lhs # r /\ ast[m].rhs # r
          /\ ast[m].first \in Nat /\ ast[m].last \in Nat
          /\ ast[m].last <= read
          /\ Bare(m)' <=> Bare(m)
          /\ HasLeft(m)' <=> HasLeft(m)
          /\ HasRight(m)' <=> HasRight(m)
          /\ InfixOf(m)' <=> InfixOf(m)
          /\ LeftOf(m)' = LeftOf(m)
          /\ RightOf(m)' = RightOf(m)
    <2>1. \A m \in Nodes : ast[m].lhs # r /\ ast[m].rhs # r
        BY DEF Makes
    <2> QED
        BY <2>1, MakesOthers
<1>3. /\ ast'[r].first = Start(k) /\ ast'[r].last = read'
      /\ ast'[r].lhs # r /\ ast'[r].rhs # r
      /\ \A m \in Nodes : m # r => ast'[m] = ast[m]
      /\ \A m \in Nodes : m # r /\ ast[m].first = Start(k) => ast[m].last < read'
      /\ Nodes' = Nodes \cup {r}
    BY DEF Makes
<1>4. \A m : InfixOf(m) => HasLeft(m) /\ HasRight(m)
    BY DEF InfixOf, HasLeft, HasRight
<1>5. \A m : InfixOf(m)' => HasLeft(m)' /\ HasRight(m)'
    BY DEF InfixOf, HasLeft, HasRight
\* Node r is no part of an operand, and the operands are as they were.
<1>6. ASSUME NEW n \in Nodes', HasRight(n)', NEW m \in Nodes', Bare(m)',
             ast'[m].first = ast'[ast'[n].rhs].first, ast'[m].last <= ast'[ast'[n].rhs].last
      PROVE  /\ m # r /\ ast'[n].rhs \in Nodes
             /\ ast'[ast'[n].rhs] = ast[ast'[n].rhs]
    <2>1. ast'[n].rhs \in Nodes /\ ast'[n].rhs # r
        <3>1. CASE n = r
            BY <1>3, <1>6, <3>1 DEF Makes
        <3>2. CASE n # r
            BY <1>2, <1>6, <3>2 DEF Stack, NodeShape
        <3> QED
            BY <3>1, <3>2
    <2>2. ast'[ast'[n].rhs] = ast[ast'[n].rhs]
        BY <1>3, <2>1
    <2>3. ASSUME m = r
          PROVE  FALSE
        <3>1. ast[ast'[n].rhs].first = Start(k) /\ read' <= ast[ast'[n].rhs].last
            BY <1>3, <1>6, <2>2, <2>3
        <3>2. ast[ast'[n].rhs].last < read' /\ ast[ast'[n].rhs].last \in Nat
            BY <1>3, <2>1, <3>1, NodesTyped
        <3> QED
            BY <1>1, <3>1, <3>2
    <2> QED
        BY <2>1, <2>2, <2>3
<1>7. ASSUME NEW n \in Nodes', HasLeft(n)', NEW m \in Nodes', ast'[m].last = ast'[ast'[n].lhs].last
      PROVE  /\ m # r /\ ast'[n].lhs \in Nodes
             /\ ast'[ast'[n].lhs] = ast[ast'[n].lhs]
    <2>1. ast'[n].lhs \in Nodes /\ ast'[n].lhs # r /\ ast[ast'[n].lhs].last < read'
        <3>1. CASE n = r
            BY <1>3, <1>7, <3>1 DEF Makes
        <3>2. CASE n # r
            <4>1. ast[n].lhs \in Nodes /\ ast[ast[n].lhs].last < ast[n].last
                BY <1>2, <1>7, <3>2 DEF Stack, NodeShape
            <4>2. ast[ast[n].lhs].last \in Nat
                BY <4>1, NodesTyped
            <4> QED
                BY <1>1, <1>2, <3>2, <4>1, <4>2
        <3> QED
            BY <3>1, <3>2
    <2>2. ast'[ast'[n].lhs] = ast[ast'[n].lhs]
        BY <1>3, <2>1
    <2>3. ast[ast'[n].lhs].last \in Nat
        BY <2>1, NodesTyped
    <2> QED
        BY <1>1, <1>3, <1>7, <2>1, <2>2, <2>3
<1>8. RightOperands'
    <2>1. ASSUME NEW n \in Nodes', HasRight(n)', NEW m \in Nodes', Bare(m)', HasLeft(m)',
                 ast'[m].first = ast'[ast'[n].rhs].first, ast'[m].last <= ast'[ast'[n].rhs].last
          PROVE  LeftOf(m)' >= RightOf(n)'
        <3>1. /\ m # r /\ ast'[n].rhs \in Nodes
              /\ ast'[ast'[n].rhs] = ast[ast'[n].rhs]
            BY <1>6, <2>1
        <3>2. /\ m \in Nodes /\ Bare(m) /\ HasLeft(m) /\ LeftOf(m)' = LeftOf(m)
              /\ ast[m].first = ast[ast'[n].rhs].first /\ ast[m].last <= ast[ast'[n].rhs].last
            BY <1>2, <2>1, <3>1
        <3>3. CASE n = r
            BY <2>1, <3>1, <3>2, <3>3
        <3>4. CASE n # r
            <4>1. n \in Nodes /\ ast'[n] = ast[n] /\ HasRight(n) /\ RightOf(n)' = RightOf(n)
                BY <1>2, <2>1, <3>4
            <4> QED
                BY <3>2, <4>1 DEF TighterOperator, RightOperands, Opening
        <3> QED
            BY <3>3, <3>4
    <2> QED
        BY <2>1 DEF RightOperands, Opening
<1>9. LeftOperands'
    <2>1. ASSUME NEW n \in Nodes', HasLeft(n)', NEW m \in Nodes', Bare(m)', HasRight(m)',
                 ast'[m].last = ast'[ast'[n].lhs].last, ast'[m].first >= ast'[ast'[n].lhs].first
          PROVE  RightOf(m)' > LeftOf(n)'
        <3>1. /\ m # r /\ ast'[n].lhs \in Nodes
              /\ ast'[ast'[n].lhs] = ast[ast'[n].lhs]
            BY <1>7, <2>1
        <3>2. /\ m \in Nodes /\ Bare(m) /\ HasRight(m) /\ RightOf(m)' = RightOf(m)
              /\ ast[m].last = ast[ast'[n].lhs].last /\ ast[m].first >= ast[ast'[n].lhs].first
            BY <1>2, <2>1, <3>1
        <3>3. CASE n = r
            BY <2>1, <3>1, <3>2, <3>3
        <3>4. CASE n # r
            <4>1. n \in Nodes /\ ast'[n] = ast[n] /\ HasLeft(n) /\ LeftOf(n)' = LeftOf(n)
                BY <1>2, <2>1, <3>4
            <4> QED
                BY <3>2, <4>1 DEF TighterOperator, LeftOperands, Closing
        <3> QED
            BY <3>3, <3>4
    <2> QED
        BY <2>1 DEF LeftOperands, Closing
<1>10. NoComparisonChain'
    <2>1. ASSUME NEW n \in Nodes', InfixOf(n)', NonAssociative(ast'[n].op),
                 NEW m \in Nodes', Bare(m)', InfixOf(m)',
                 ast'[m].first = ast'[ast'[n].rhs].first, ast'[m].last <= ast'[ast'[n].rhs].last
          PROVE  ~NonAssociative(ast'[m].op)
        <3>1. /\ m # r /\ ast'[n].rhs \in Nodes
              /\ ast'[ast'[n].rhs] = ast[ast'[n].rhs]
            BY <1>5, <1>6, <2>1
        <3>2. /\ m \in Nodes /\ Bare(m) /\ InfixOf(m) /\ ast'[m] = ast[m]
              /\ ast[m].first = ast[ast'[n].rhs].first /\ ast[m].last <= ast[ast'[n].rhs].last
            BY <1>2, <2>1, <3>1
        <3>3. CASE n = r
            BY <2>1, <3>1, <3>2, <3>3
        <3>4. CASE n # r
            <4>1. n \in Nodes /\ ast'[n] = ast[n] /\ InfixOf(n)
                BY <1>2, <2>1, <3>4
            <4> QED
                BY <2>1, <3>2, <4>1 DEF TighterOperator, NoComparisonChain, Opening
        <3> QED
            BY <3>3, <3>4
    <2>2. ASSUME NEW n \in Nodes', InfixOf(n)', NonAssociative(ast'[n].op),
                 NEW m \in Nodes', Bare(m)', InfixOf(m)',
                 ast'[m].last = ast'[ast'[n].lhs].last, ast'[m].first >= ast'[ast'[n].lhs].first
          PROVE  ~NonAssociative(ast'[m].op)
        <3>1. /\ m # r /\ ast'[n].lhs \in Nodes
              /\ ast'[ast'[n].lhs] = ast[ast'[n].lhs]
            BY <1>5, <1>7, <2>2
        <3>2. /\ m \in Nodes /\ Bare(m) /\ InfixOf(m) /\ ast'[m] = ast[m]
              /\ ast[m].last = ast[ast'[n].lhs].last /\ ast[m].first >= ast[ast'[n].lhs].first
            BY <1>2, <2>2, <3>1
        <3>3. CASE n = r
            BY <2>2, <3>1, <3>2, <3>3
        <3>4. CASE n # r
            <4>1. n \in Nodes /\ ast'[n] = ast[n] /\ InfixOf(n)
                BY <1>2, <2>2, <3>4
            <4> QED
                BY <2>2, <3>2, <4>1 DEF TighterOperator, NoComparisonChain, Closing
        <3> QED
            BY <3>3, <3>4
    <2> QED
        BY <2>1, <2>2 DEF NoComparisonChain, Opening, Closing, NonAssociative
<1>11. SourceOrder'
    <2>1. ASSUME NEW n \in Nodes', InfixOf(n)'
          PROVE  ast'[ast'[n].lhs].last + 2 = ast'[ast'[n].rhs].first
        <3>1. CASE n = r
            BY <2>1, <3>1
        <3>2. CASE n # r
            <4>1. n \in Nodes /\ ast'[n] = ast[n] /\ InfixOf(n) /\ ast[n].lhs # r /\ ast[n].rhs # r
                BY <1>2, <2>1, <3>2
            <4>2. ast[n].lhs \in Nodes /\ ast[n].rhs \in Nodes
                BY <1>4, <4>1 DEF Stack, NodeShape
            <4>3. ast'[ast[n].lhs] = ast[ast[n].lhs] /\ ast'[ast[n].rhs] = ast[ast[n].rhs]
                BY <1>3, <4>1, <4>2
            <4> QED
                BY <4>1, <4>3 DEF SourceOrder
        <3> QED
            BY <3>1, <3>2
    <2>2. ASSUME NEW n \in Nodes', ast'[n].kind = "prefix", Bare(n)'
          PROVE  ast'[n].first + 1 = ast'[ast'[n].rhs].first
        <3>1. CASE n = r
            BY <1>3, <2>2, <3>1
        <3>2. CASE n # r
            <4>1. n \in Nodes /\ ast'[n] = ast[n] /\ Bare(n) /\ ast[n].rhs # r
                BY <1>2, <2>2, <3>2
            <4>2. ast[n].rhs \in Nodes
                BY <2>2, <4>1 DEF Stack, NodeShape, HasRight
            <4>3. ast'[ast[n].rhs] = ast[ast[n].rhs]
                BY <1>3, <4>1, <4>2
            <4> QED
                BY <2>2, <4>1, <4>3 DEF SourceOrder
        <3> QED
            BY <3>1, <3>2
    <2> QED
        BY <2>1, <2>2 DEF SourceOrder
<1> QED
    BY <1>8, <1>9, <1>10, <1>11 DEF TighterOperator
-----------------------------------------------------------------------------
(* The steps that begin a call. *)

\* Call k, which read an operator or a bracket, waits at stage s for a call
\* with the power p.
Awaits(k, s, p) ==
    /\ k = Len(calls)
    /\ Running
    /\ calls' = Under \o <<[Top EXCEPT !.stage = s, !.op = token, !.at = read + 1], Call(p)>>
    /\ Advance
    /\ UNCHANGED <<ast, status>>
    /\ p \in Nat
    /\ \/ s = "paren" /\ Stage(k) = "start"
       \/ s = "prefix" /\ Stage(k) = "start" /\ token \in DOMAIN Prefix /\ p = Prefix[token]
       \/ /\ s = "infix" /\ Stage(k) = "loop"
          /\ token \in DOMAIN Infix /\ p = Infix[token].rhs
          /\ Infix[token].lhs >= calls[k].min
       \/ /\ s = "subscript" /\ Stage(k) = "loop" /\ token = "subscript"
          /\ token \in DOMAIN Postfix /\ Postfix[token] >= calls[k].min
       \/ /\ s = "args" /\ Stage(k) = "loop" /\ token = "call"
          /\ token \in DOMAIN Postfix /\ Postfix[token] >= calls[k].min

LEMMA AdvanceTyped ==
    ASSUME TypeOK, Advance
    PROVE  token' \in Token /\ read' \in Nat /\ read' = read + 1
<1>1. read \in Nat
    BY DEF TypeOK
<1>2. "end" \in Token
    BY DEF Token
<1> QED
    BY <1>1, <1>2 DEF Advance

LEMMA BeginsTyped ==
    ASSUME NEW p \in Nat
    PROVE  Call(p) \in CallType /\ Call(p).stage = "start" /\ Call(p).min = p
BY DEF Call, CallType, Stages, Token, NoNode

LEMMA AwaitsCalls ==
    ASSUME TypeOK, Stack, NEW k, NEW s, NEW p, Awaits(k, s, p)
    PROVE  /\ calls' \in Seq(CallType)
           /\ Len(calls') = k + 1
           /\ \A i \in 1..k - 1 : calls'[i] = calls[i]
           /\ calls'[k].min = calls[k].min
           /\ calls'[k].lhs = calls[k].lhs
           /\ calls'[k].stage = s
           /\ calls'[k].op = token
           /\ calls'[k].at = read + 1
           /\ calls'[k + 1].stage = "start"
           /\ calls'[k + 1].min = p
           /\ k \in Depths /\ k \in Nat \ {0}
<1>1. /\ calls \in Seq(CallType) /\ Len(calls) \in Nat /\ k = Len(calls) /\ Len(calls) # 0
      /\ token \in Token /\ read \in Nat
    BY CallsTyped DEF TypeOK, Awaits, Stack
<1>2. k \in Nat \ {0} /\ k \in Depths
    BY <1>1 DEF Depths
<1>3. PICK n \in Nat : k = n + 1 /\ n <= Len(calls) /\ n = k - 1
    BY <1>1, <1>2
<1>4. calls[k] \in CallType
    BY <1>2, CallsTyped
<1>5. s \in Stages /\ p \in Nat
    BY DEF Awaits, Stages
<1>6. PICK c \in CallType, t \in Token, a \in Nat : c = calls[k] /\ t = token /\ a = read + 1
    BY <1>1, <1>4
<1>7. PICK x : x = [calls[k] EXCEPT !.stage = s, !.op = token, !.at = read + 1]
    OBVIOUS
<1>8. x \in CallType /\ x.min = c.min /\ x.lhs = c.lhs /\ x.stage = s /\ x.op = t /\ x.at = a
    <2>1. x = [c EXCEPT !.stage = s, !.op = t, !.at = a]
        BY <1>6, <1>7
    <2> QED
        BY <1>5, <2>1 DEF CallType
<1>9. PICK y : y = Call(p)
    OBVIOUS
<1>10. y \in CallType /\ y.stage = "start" /\ y.min = p
    BY <1>5, <1>9, BeginsTyped
<1>11. PICK u : u = SubSeq(calls, 1, n)
    OBVIOUS
<1>12. u \in Seq(CallType) /\ Len(u) = n /\ \A i \in 1..n : u[i] = calls[i]
    BY <1>1, <1>3, <1>11, FirstOnes
<1>13. calls' = u \o <<x, y>>
    <2>1. Top = calls[k] /\ Under = u
        BY <1>1, <1>3, <1>11 DEF Top, Under
    <2>2. calls' = Under \o <<[Top EXCEPT !.stage = s, !.op = token, !.at = read + 1], Call(p)>>
        BY DEF Awaits
    <2>3. [Top EXCEPT !.stage = s, !.op = token, !.at = read + 1] = x
        BY <1>7, <2>1
    <2> QED
        BY <1>9, <2>1, <2>2, <2>3, Zenon
<1>14. /\ calls' \in Seq(CallType) /\ Len(calls') = n + 2
       /\ \A i \in 1..n : calls'[i] = calls[i]
       /\ calls'[n + 1] = x /\ calls'[n + 2] = y
    <2>1. /\ u \o <<x, y>> \in Seq(CallType)
          /\ Len(u \o <<x, y>>) = Len(u) + 2
          /\ (u \o <<x, y>>)[Len(u) + 1] = x
          /\ (u \o <<x, y>>)[Len(u) + 2] = y
          /\ \A i \in 1..Len(u) : (u \o <<x, y>>)[i] = u[i]
        BY <1>8, <1>10, <1>12, AndTwo
    <2> QED
        BY <1>12, <1>13, <2>1
<1>15. n + 1 = k /\ n + 2 = k + 1 /\ k - 1 = n
    BY <1>3
<1> QED
    BY <1>2, <1>6, <1>8, <1>10, <1>14, <1>15

LEMMA AwaitsOpens ==
    ASSUME TypeOK, Stack, NEW k, NEW s, NEW p, Awaits(k, s, p)
    PROVE  TypeOK' /\ Opens(k)
<1>1. /\ calls' \in Seq(CallType)
      /\ Len(calls') = k + 1
      /\ \A i \in 1..k - 1 : calls'[i] = calls[i]
      /\ calls'[k].min = calls[k].min
      /\ calls'[k].lhs = calls[k].lhs
      /\ calls'[k].stage = s
      /\ calls'[k].op = token
      /\ calls'[k].at = read + 1
      /\ calls'[k + 1].stage = "start"
      /\ calls'[k + 1].min = p
      /\ k \in Depths /\ k \in Nat \ {0}
    BY AwaitsCalls
<1>2. ast' = ast /\ status' = status /\ token' \in Token /\ read' \in Nat /\ read' = read + 1
    BY AdvanceTyped DEF Awaits
<1>3. TypeOK'
    BY <1>1, <1>2 DEF TypeOK
<1>4. CallShape(k) /\ CallPlace(k) /\ read \in Nat
    BY <1>1 DEF Stack, TypeOK
<1>5. Nodes' = Nodes
    BY <1>2 DEF Nodes
<1>6. /\ HasLhs(k)' <=> HasLhs(k)
      /\ Waiting(k)'
      /\ ~HasLhs(k)' => Start(k) = calls'[k].at
      /\ Start(k) <= calls'[k].at
      /\ Extends(k)' => ast[calls[k].lhs].last + 1 = calls'[k].at
      /\ CallShape(k)'
    <2>1. CASE s \in {"paren", "prefix"}
        <3>1. Stage(k) = "start"
            BY <2>1 DEF Awaits
        <3>2. Start(k) = read + 1 /\ ~HasLhs(k)
            BY <3>1 DEF Start, HasLhs
        <3>3. ~HasLhs(k)' /\ ~Extends(k)' /\ Waiting(k)' /\ Stage(k)' = s
            BY <1>1, <2>1 DEF HasLhs, Extends, Waiting, Stage
        <3>4. k # Len(calls')
            BY <1>1
        <3>5. s = "prefix" => token \in DOMAIN Prefix /\ p = Prefix[token]
            BY DEF Awaits
        <3>6. CallShape(k)'
            BY <1>1, <2>1, <3>3, <3>4, <3>5 DEF CallShape
        <3> QED
            BY <1>1, <1>4, <3>2, <3>3, <3>6
    <2>2. CASE s \notin {"paren", "prefix"}
        <3>1. Stage(k) = "loop" /\ s \in {"infix", "subscript", "args"}
            BY <2>2 DEF Awaits
        <3>2. /\ Start(k) = ast[calls[k].lhs].first /\ HasLhs(k) /\ calls[k].lhs \in Nodes
              /\ ast[calls[k].lhs].last = read
            BY <1>4, <3>1 DEF Start, HasLhs, CallShape, CallPlace
        <3>3. ast[calls[k].lhs].first <= read /\ ast[calls[k].lhs].first \in Nat
            BY <1>4, <3>2, NodesTyped DEF Stack, NodeShape
        <3>4. HasLhs(k)' /\ Extends(k)' /\ Waiting(k)' /\ Stage(k)' = s
            BY <1>1, <3>1 DEF HasLhs, Extends, Waiting, Stage
        <3>5. k # Len(calls')
            BY <1>1
        <3>6. LeftPower(k)' = IF s = "infix" THEN Infix[token].lhs ELSE Postfix[token]
            BY <1>1, <3>4 DEF LeftPower
        <3>7. CallShape(k)'
            <4>1. /\ s = "infix" => token \in DOMAIN Infix /\ p = Infix[token].rhs
                                      /\ Infix[token].lhs >= calls[k].min
                  /\ s \in {"subscript", "args"} => token \in DOMAIN Postfix /\ Postfix[token] >= calls[k].min
                  /\ s = "subscript" => token = "subscript"
                  /\ s = "args" => token = "call"
                BY <3>1 DEF Awaits
            <4> QED
                BY <1>1, <1>5, <3>1, <3>2, <3>4, <3>5, <3>6, <4>1 DEF CallShape
        <3> QED
            BY <1>1, <1>4, <3>2, <3>3, <3>4, <3>7
    <2> QED
        BY <2>1, <2>2
<1> QED
    BY <1>1, <1>2, <1>3, <1>4, <1>6 DEF Opens
\* The operator that is read takes the operand from those on its left, which
\* have been told so, and a comparison as weak as the call allows would have
\* lost its own.
LEMMA AwaitsPowers ==
    ASSUME TypeOK, Stack, PowersKept, NEW k, NEW s, NEW p, Awaits(k, s, p)
    PROVE  LeftKept(k)' /\ OnlyRoot(k)'
<1>1. TypeOK' /\ Opens(k) /\ k \in Depths
    BY AwaitsOpens, AwaitsCalls
<1>2. /\ calls'[k].min = calls[k].min
      /\ calls'[k].lhs = calls[k].lhs
      /\ calls'[k].stage = s
      /\ calls'[k].op = token
      /\ calls'[k].at = read + 1
      /\ k \in Nat \ {0}
    BY AwaitsCalls
<1>3. /\ LeftNext(k) /\ OnlyRoot(k) /\ CallPlace(k) /\ CallShape(k)
      /\ read \in Nat /\ calls[k].min \in Nat
    BY <1>1, CallsTyped DEF PowersKept, Stack, TypeOK
<1>4. Start(k)' = Start(k)
    <2>1. \A i \in Depths : CallShape(i)
        BY DEF Stack
    <2>2. k \in 1..k
        BY <1>2
    <2> QED
        BY <1>1, <2>1, <2>2, OpensStarts
<1>5. ast' = ast
    BY DEF Awaits
<1>6. /\ Nodes' = Nodes
      /\ \A m \in Nodes :
            /\ Bare(m)' <=> Bare(m)
            /\ HasRight(m)' <=> HasRight(m)
            /\ InfixOf(m)' <=> InfixOf(m)
            /\ LeftOf(m)' = LeftOf(m)
            /\ RightOf(m)' = RightOf(m)
    BY <1>5, TreeKept
<1>7. \A m \in Nodes : ast[m].last \in Nat
    BY NodesTyped
<1>8. CASE s \in {"paren", "prefix"}
    <2>1. Stage(k) = "start"
        BY <1>8 DEF Awaits
    <2>2. LeftKept(k)'
        BY <1>2, <1>8 DEF LeftKept, Extends, Stage
    <2>3. OnlyRoot(k)'
        BY <1>2, <1>3, <1>4, <1>5, <1>6, <2>1 DEF OnlyRoot
    <2> QED
        BY <2>2, <2>3
<1>9. CASE s \notin {"paren", "prefix"}
    <2>1. /\ Stage(k) = "loop"
          /\ \/ s = "infix" /\ token \in DOMAIN Infix /\ Infix[token].lhs >= calls[k].min
             \/ s # "infix" /\ token \in DOMAIN Postfix /\ Postfix[token] >= calls[k].min
        BY <1>9 DEF Awaits
    <2>2. PICK q : q = IF s = "infix" THEN Infix[token].lhs ELSE Postfix[token]
        OBVIOUS
    <2>3. q \in Nat /\ q >= calls[k].min
        BY <2>1, <2>2, InfixPower, PostfixPower
    <2>4. LeftPower(k)' = q
        BY <1>2, <2>2 DEF LeftPower, Stage
    <2>5. ASSUME NEW m \in Nodes, Bare(m), HasRight(m), ast[m].last = read, ast[m].first >= Start(k)
          PROVE  RightOf(m) > q
        BY <1>3, <2>1, <2>2, <2>5 DEF LeftNext
    <2>6. LeftKept(k)'
        <3>1. ASSUME NEW m \in Nodes', Bare(m)', HasRight(m)', ast'[m].last + 1 = calls'[k].at,
                     ast'[m].first >= Start(k)'
              PROVE  RightOf(m)' > LeftPower(k)'
            <4>1. ast[m].last = read
                BY <1>2, <1>3, <1>5, <1>6, <1>7, <3>1
            <4> QED
                BY <1>4, <1>5, <1>6, <2>4, <2>5, <3>1, <4>1
        <3> QED
            BY <3>1 DEF LeftKept
    <2>7. OnlyRoot(k)'
        <3>1. ASSUME NEW m \in Nodes', Bare(m)', InfixOf(m)', NonAssociative(ast'[m].op),
                     ast'[m].first = Start(k)', calls'[k].min >= LeftOf(m)'
              PROVE  FALSE
            <4>1. /\ m \in Nodes /\ Bare(m) /\ InfixOf(m) /\ NonAssociative(ast[m].op)
                  /\ ast[m].first = Start(k) /\ calls[k].min >= LeftOf(m)
                BY <1>2, <1>4, <1>5, <1>6, <3>1
            <4>2. m = calls[k].lhs
                BY <1>3, <4>1 DEF OnlyRoot
            <4>3. ast[m].last = read /\ HasRight(m) /\ ast[m].first \in Nat
                BY <1>3, <2>1, <4>1, <4>2, NodesTyped DEF CallPlace, HasRight
            <4>4. RightOf(m) > q
                BY <2>5, <4>1, <4>3
            <4>5. LeftOf(m) = RightOf(m) /\ LeftOf(m) \in Nat
                BY <4>1, InfixPower DEF LeftOf, RightOf, NonAssociative
            <4> QED
                BY <1>3, <2>3, <4>1, <4>4, <4>5
        <3> QED
            BY <3>1 DEF OnlyRoot, NonAssociative
    <2> QED
        BY <2>6, <2>7
<1> QED
    BY <1>8, <1>9

LEMMA AwaitsKeeps ==
    ASSUME Inv, NEW k, NEW s, NEW p, Awaits(k, s, p)
    PROVE  Inv'
<1>1. TypeOK /\ Stack /\ PowersKept /\ SourceOrder /\ TighterOperator
    BY DEF Inv
<1>2. TypeOK' /\ Opens(k)
    BY <1>1, AwaitsOpens
<1>3. Stack'
    BY <1>1, <1>2, OpensStack
<1>4. PowersKept'
    BY <1>1, <1>2, AwaitsPowers, OpensPowers
<1>5. SourceOrder' /\ TighterOperator'
    <2>1. ast' = ast /\ status' # "done"
        BY DEF Awaits, Running
    <2> QED
        BY <1>1, <2>1, TreeKept
<1> QED
    BY <1>2, <1>3, <1>4, <1>5 DEF Inv

\* After the comma, the call that waits for the arguments waits for the next.
LEMMA NextArgumentKeeps ==
    ASSUME Inv, NextArgument
    PROVE  Inv'
<1>1. TypeOK /\ Stack /\ PowersKept /\ SourceOrder /\ TighterOperator
    BY DEF Inv
<1>2. /\ calls \in Seq(CallType) /\ Len(calls) \in Nat /\ Len(calls) > 1 /\ read \in Nat
    BY <1>1, CallsTyped DEF TypeOK, NextArgument, Ending
<1>3. PICK k \in Nat : k = Len(calls) - 1 /\ k # 0 /\ k <= Len(calls) /\ k \in Depths /\ k # Len(calls)
    <2>1. \A l \in Nat : l > 1 => l - 1 \in Nat /\ l - 1 # 0 /\ l - 1 <= l /\ l - 1 \in 1..l /\ l - 1 # l
        OBVIOUS
    <2>2. Len(calls) - 1 \in Nat /\ Len(calls) - 1 # 0 /\ Len(calls) - 1 <= Len(calls)
            /\ Len(calls) - 1 \in 1..Len(calls) /\ Len(calls) - 1 # Len(calls)
        BY <1>2, <2>1
    <2> QED
        BY <2>2 DEF Depths
<1>4. Stage(k) = "args"
    BY <1>3 DEF NextArgument, Ending, Caller, Stage
<1>5. PICK u : u = Under
    OBVIOUS
<1>6. u \in Seq(CallType) /\ Len(u) = k /\ \A i \in 1..k : u[i] = calls[i]
    BY <1>2, <1>3, <1>5, FirstOnes DEF Under
<1>7. PICK y : y = Call(0)
    OBVIOUS
<1>8. y \in CallType /\ y.stage = "start" /\ y.min = 0
    BY <1>7, BeginsTyped
<1>9. calls' = u \o <<y>>
    BY <1>5, <1>7 DEF NextArgument
<1>10. /\ calls' \in Seq(CallType) /\ Len(calls') = k + 1
       /\ \A i \in 1..k : calls'[i] = calls[i]
       /\ calls'[k + 1].stage = "start"
    <2>1. /\ u \o <<y>> \in Seq(CallType)
          /\ Len(u \o <<y>>) = Len(u) + 1
          /\ (u \o <<y>>)[Len(u) + 1] = y
          /\ \A i \in 1..Len(u) : (u \o <<y>>)[i] = u[i]
        BY <1>6, <1>8, AndOne
    <2> QED
        BY <1>6, <1>8, <1>9, <2>1
<1>11. ast' = ast /\ status' = status /\ status' # "done"
       /\ token' \in Token /\ read' \in Nat /\ read' = read + 1
    BY <1>1, AdvanceTyped DEF NextArgument, Ending, At, Running
<1>12. TypeOK'
    BY <1>1, <1>10, <1>11 DEF TypeOK
<1>13. k \in 1..k /\ calls'[k] = calls[k]
    BY <1>3, <1>10
<1>14. CallShape(k) /\ CallPlace(k)
    BY <1>1, <1>3 DEF Stack
<1>15. /\ HasLhs(k)' /\ HasLhs(k) /\ Waiting(k)' /\ Waiting(k) /\ Extends(k)' /\ Extends(k)
       /\ Stage(k)' = "args" /\ LeftPower(k)' = LeftPower(k)
    BY <1>4, <1>13 DEF HasLhs, Waiting, Extends, Stage, LeftPower
<1>16. Start(k) <= calls[k].at /\ calls[k].at <= read + 1
    <2>1. calls[k].at \in Nat
        BY <1>1, <1>3, CallsTyped
    <2> QED
        BY <1>2, <1>14, <1>15, <2>1 DEF CallPlace
<1>17. CallShape(k)'
    <2>1. k # Len(calls') /\ Nodes' = Nodes
        BY <1>10, <1>11 DEF Nodes
    <2> QED
        BY <1>4, <1>13, <1>14, <1>15, <2>1 DEF CallShape
<1>18. Opens(k)
    <2>1. \A i \in 1..k - 1 : calls'[i] = calls[i]
        BY <1>3, <1>10
    <2> QED
        BY <1>3, <1>10, <1>11, <1>13, <1>14, <1>15, <1>16, <1>17, <2>1 DEF Opens, CallPlace
<1>19. Start(k)' = Start(k)
    <2>1. \A i \in Depths : CallShape(i)
        BY <1>1 DEF Stack
    <2> QED
        BY <1>1, <1>12, <1>13, <1>18, <2>1, OpensStarts
<1>20. /\ Nodes' = Nodes
       /\ \A m \in Nodes :
             /\ Bare(m)' <=> Bare(m)
             /\ HasRight(m)' <=> HasRight(m)
             /\ InfixOf(m)' <=> InfixOf(m)
             /\ LeftOf(m)' = LeftOf(m)
             /\ RightOf(m)' = RightOf(m)
    BY <1>11, TreeKept
<1>21. LeftKept(k)'
    <2>1. LeftKept(k)
        BY <1>1, <1>3 DEF PowersKept
    <2> QED
        BY <1>11, <1>13, <1>15, <1>19, <1>20, <2>1 DEF LeftKept
<1>22. OnlyRoot(k)'
    <2>1. OnlyRoot(k)
        BY <1>1, <1>3 DEF PowersKept
    <2> QED
        BY <1>4, <1>11, <1>13, <1>19, <1>20, <2>1 DEF OnlyRoot
<1>23. Stack' /\ PowersKept'
    BY <1>1, <1>12, <1>18, <1>21, <1>22, OpensStack, OpensPowers
<1> QED
    BY <1>1, <1>11, <1>12, <1>23, TreeKept DEF Inv
-----------------------------------------------------------------------------
(* The steps that make a node. *)

\* The innermost call has parsed the operand to the right of the operator, and
\* the next token ends it.
RightOperand(k, x) ==
    /\ k + 1 = Len(calls)
    /\ Stage(k + 1) = "loop"
    /\ x.rhs = calls[k + 1].lhs
    /\ Ends
    /\ UNCHANGED <<token, read>>

\* Call k gets the new node x.
Completes(k, x) ==
    /\ k \in Depths
    /\ Running
    /\ status' = status
    /\ calls' = SubSeq(calls, 1, k - 1) \o <<[calls[k] EXCEPT !.stage = "loop", !.lhs = NewNode]>>
    /\ ast' = Append(ast, x)
    /\ x \in Node
    /\ x.first = Start(k)
    /\ x.last = read'
    /\ x.paren = FALSE
    /\ x.lhs = IF Extends(k) THEN calls[k].lhs ELSE NoNode
    /\ token' \in Token
    /\ \/ Stage(k) = "start" /\ x.kind = "operand" /\ x.rhs = NoNode /\ read' = read + 1
       \/ Stage(k) = "prefix" /\ x.kind = "prefix" /\ x.op = calls[k].op /\ RightOperand(k, x)
       \/ /\ Stage(k) = "infix" /\ x.kind = "binary" /\ x.op = calls[k].op /\ RightOperand(k, x)
          /\ ~Clash(calls[k].op, x.rhs)
       \/ /\ Stage(k) = "subscript" /\ x.kind = "binary" /\ x.op = calls[k].op
          /\ k + 1 = Len(calls) /\ Stage(k + 1) = "loop" /\ x.rhs = calls[k + 1].lhs
          /\ read' = read + 1
       \/ /\ Stage(k) = "args" /\ x.kind = "call" /\ x.op = calls[k].op
          /\ k + 1 = Len(calls)
          /\ x.rhs = NoNode \/ (Stage(k + 1) = "loop" /\ x.rhs = calls[k + 1].lhs)
          /\ read' = read + 1

\* The calls below k stay, and call k has node r for its left-hand side.
LEMMA ResumedCalls ==
    ASSUME TypeOK, NEW k \in Depths, NEW r \in Nat,
           calls' = SubSeq(calls, 1, k - 1) \o <<[calls[k] EXCEPT !.stage = "loop", !.lhs = r]>>
    PROVE  /\ calls' \in Seq(CallType)
           /\ Len(calls') = k
           /\ \A i \in 1..k - 1 : calls'[i] = calls[i]
           /\ calls'[k].min = calls[k].min
           /\ calls'[k].lhs = r
           /\ calls'[k].stage = "loop"
           /\ k \in Nat \ {0}
<1>1. /\ calls \in Seq(CallType) /\ Len(calls) \in Nat /\ calls[k] \in CallType
    BY CallsTyped DEF TypeOK
<1>2. k \in Nat \ {0} /\ k <= Len(calls)
    BY <1>1 DEF Depths
<1>3. PICK n \in Nat : k = n + 1 /\ n <= Len(calls) /\ n = k - 1
    BY <1>1, <1>2
<1>4. PICK c \in CallType : c = calls[k]
    BY <1>1
<1>5. PICK x : x = [calls[k] EXCEPT !.stage = "loop", !.lhs = r]
    OBVIOUS
<1>6. x \in CallType /\ x.min = c.min /\ x.lhs = r /\ x.stage = "loop"
    <2>1. x = [c EXCEPT !.stage = "loop", !.lhs = r]
        BY <1>4, <1>5
    <2> QED
        BY <2>1 DEF CallType, Stages
<1>7. PICK u : u = SubSeq(calls, 1, n)
    OBVIOUS
<1>8. u \in Seq(CallType) /\ Len(u) = n /\ \A i \in 1..n : u[i] = calls[i]
    BY <1>1, <1>3, <1>7, FirstOnes
<1>9. calls' = u \o <<x>>
    <2>1. SubSeq(calls, 1, k - 1) = u
        BY <1>3, <1>7
    <2> QED
        BY <1>5, <2>1, Zenon
<1>10. /\ calls' \in Seq(CallType) /\ Len(calls') = n + 1
       /\ \A i \in 1..n : calls'[i] = calls[i]
       /\ calls'[n + 1] = x
    <2>1. /\ u \o <<x>> \in Seq(CallType)
          /\ Len(u \o <<x>>) = Len(u) + 1
          /\ (u \o <<x>>)[Len(u) + 1] = x
          /\ \A i \in 1..Len(u) : (u \o <<x>>)[i] = u[i]
        BY <1>6, <1>8, AndOne
    <2> QED
        BY <1>8, <1>9, <2>1
<1>11. n + 1 = k /\ k - 1 = n
    BY <1>3
<1> QED
    BY <1>2, <1>4, <1>6, <1>10, <1>11

LEMMA CreatedNode ==
    ASSUME TypeOK, NEW x \in Node, ast' = Append(ast, x), NEW r, r = NewNode
    PROVE  /\ ast' \in Seq(Node)
           /\ r \in Nat \ {0} /\ r \notin Nodes
           /\ Nodes' = Nodes \cup {r}
           /\ \A m \in Nodes : ast'[m] = ast[m]
           /\ ast'[r] = x
<1>1. ast \in Seq(Node) /\ Len(ast) \in Nat
    BY NodesTyped DEF TypeOK
<1>2. /\ Append(ast, x) \in Seq(Node)
      /\ Len(Append(ast, x)) = Len(ast) + 1
      /\ \A i \in 1..Len(ast) : Append(ast, x)[i] = ast[i]
      /\ Append(ast, x)[Len(ast) + 1] = x
    BY <1>1, AppendProperties
<1> QED
    BY <1>1, <1>2 DEF Nodes, NewNode

\* What the new node is made of.
LEMMA CompletesNode ==
    ASSUME TypeOK, Stack, NEW k, NEW x, Completes(k, x), NEW r, r = NewNode
    PROVE  /\ TypeOK'
           /\ Len(calls') = k
           /\ \A i \in 1..k - 1 : calls'[i] = calls[i]
           /\ calls'[k].min = calls[k].min
           /\ calls'[k].lhs = r
           /\ calls'[k].stage = "loop"
           /\ r \in Nat \ {0} /\ r \notin Nodes
           /\ Nodes' = Nodes \cup {r}
           /\ \A m \in Nodes : ast'[m] = ast[m]
           /\ ast'[r] = x
           /\ k \in Nat \ {0} /\ k <= Len(calls) /\ Len(calls) \in Nat
           /\ read \in Nat /\ read' \in {read, read + 1}
           /\ Stage(k) # "loop" /\ Stage(k) # "paren"
<1>1. Len(ast) \in Nat /\ Len(calls) \in Nat /\ read \in Nat
    BY NodesTyped, CallsTyped DEF TypeOK
<1>2. /\ ast' \in Seq(Node)
      /\ r \in Nat \ {0} /\ r \notin Nodes
      /\ Nodes' = Nodes \cup {r}
      /\ \A m \in Nodes : ast'[m] = ast[m]
      /\ ast'[r] = x
    BY CreatedNode DEF Completes
<1>3. k \in Depths
    BY DEF Completes
<1>4. calls' = SubSeq(calls, 1, k - 1) \o <<[calls[k] EXCEPT !.stage = "loop", !.lhs = r]>>
    BY DEF Completes
<1>5. /\ calls' \in Seq(CallType)
      /\ Len(calls') = k
      /\ \A i \in 1..k - 1 : calls'[i] = calls[i]
      /\ calls'[k].min = calls[k].min
      /\ calls'[k].lhs = r
      /\ calls'[k].stage = "loop"
      /\ k \in Nat \ {0}
    BY <1>2, <1>3, <1>4, ResumedCalls
<1>6. read' \in {read, read + 1} /\ status' = status /\ token' \in Token
      /\ Stage(k) # "loop" /\ Stage(k) # "paren"
    BY DEF Completes, RightOperand
<1>7. TypeOK'
    BY <1>1, <1>2, <1>5, <1>6 DEF TypeOK
<1>8. k <= Len(calls)
    BY <1>1, <1>3 DEF Depths
<1> QED
    BY <1>1, <1>2, <1>5, <1>6, <1>7, <1>8
LEMMA CompletesMakes ==
    ASSUME TypeOK, Stack, NEW k, NEW x, Completes(k, x), NEW r, r = NewNode
    PROVE  Makes(k, r)
<1>1. /\ Len(calls') = k
      /\ \A i \in 1..k - 1 : calls'[i] = calls[i]
      /\ calls'[k].min = calls[k].min
      /\ calls'[k].lhs = r
      /\ calls'[k].stage = "loop"
      /\ r \in Nat \ {0} /\ r \notin Nodes
      /\ Nodes' = Nodes \cup {r}
      /\ \A m \in Nodes : ast'[m] = ast[m]
      /\ ast'[r] = x
      /\ k \in Nat \ {0} /\ k <= Len(calls) /\ Len(calls) \in Nat
      /\ read \in Nat /\ read' \in {read, read + 1}
      /\ Stage(k) # "loop" /\ Stage(k) # "paren"
    BY CompletesNode
<1>2. /\ k \in Depths /\ CallShape(k) /\ CallPlace(k) /\ CallNodes(k)
      /\ calls[k].at \in Nat /\ Stage(k) \in Stages /\ Start(k) \in Nat
    <2>1. k \in Depths /\ \A i \in Depths : CallShape(i)
        BY DEF Completes, Stack
    <2> QED
        BY <2>1, CallsTyped, StartTyped DEF Stack, Stage
<1>3. x.first = Start(k) /\ x.last = read' /\ x.lhs = IF Extends(k) THEN calls[k].lhs ELSE NoNode
    BY DEF Completes
<1>4. Extends(k) => /\ HasLhs(k) /\ calls[k].lhs \in Nodes
                    /\ ast[calls[k].lhs].last < read /\ ast[calls[k].lhs].last \in Nat
    <2>1. Extends(k) => HasLhs(k) /\ calls[k].lhs \in Nodes
        BY <1>2 DEF Extends, HasLhs, CallShape
    <2>2. Extends(k) => ast[calls[k].lhs].last + 1 = calls[k].at /\ calls[k].at <= read
        BY <1>2 DEF CallPlace, Waiting
    <2> QED
        BY <1>1, <1>2, <2>1, <2>2, NodesTyped
<1>5. Start(k) <= read'
    <2>1. CASE Stage(k) = "start"
        <3>1. Start(k) = read + 1 /\ read' = read + 1
            BY <2>1 DEF Completes, Start
        <3> QED
            BY <1>2, <3>1
    <2>2. CASE Stage(k) # "start"
        <3>1. Waiting(k)
            BY <1>1, <1>2, <2>2 DEF Waiting, Extends, Stages
        <3>2. Start(k) <= calls[k].at /\ calls[k].at <= read
            BY <1>2, <3>1 DEF CallPlace
        <3> QED
            BY <1>1, <1>2, <3>2
    <2> QED
        BY <2>1, <2>2
<1>6. ASSUME NEW m \in Nodes, ast[m].first = Start(k)
      PROVE  ast[m].last < read'
    <2>1. HasLhs(k) /\ ast[m].last <= ast[calls[k].lhs].last
        BY <1>2, <1>6 DEF CallNodes
    <2>2. Extends(k)
        BY <1>1, <2>1 DEF HasLhs, Extends
    <2>3. ast[m].last \in Nat
        BY NodesTyped
    <2> QED
        BY <1>1, <1>4, <2>1, <2>2, <2>3
<1>7. x.rhs = NoNode \/ (k + 1 \in Depths /\ Stage(k + 1) = "loop" /\ x.rhs = calls[k + 1].lhs
                           /\ k + 1 = Len(calls))
    BY <1>1 DEF Completes, RightOperand, Depths
<1>8. \/ x.rhs = NoNode
      \/ /\ x.rhs \in Nodes
         /\ \A i \in 1..k : HasLhs(i) => calls[i].lhs # x.rhs
    <2>1. CASE x.rhs = NoNode
        BY <2>1
    <2>2. CASE x.rhs # NoNode
        <3>1. PICK j \in Depths : j = k + 1 /\ Stage(j) = "loop" /\ x.rhs = calls[j].lhs
            BY <1>7, <2>2
        <3>2. HasLhs(j) /\ x.rhs \in Nodes
            BY <3>1 DEF HasLhs, Stack, CallShape
        <3>3. ASSUME NEW i \in 1..k, HasLhs(i)
              PROVE  calls[i].lhs # x.rhs
            <4>1. i \in Depths /\ i # j
                BY <1>1, <3>1 DEF Depths
            <4> QED
                BY <3>1, <3>2, <3>3, <4>1 DEF Stack, Roots
        <3> QED
            BY <3>2, <3>3
    <2> QED
        BY <2>1, <2>2
<1>9. ASSUME NEW i \in 1..k - 1, HasLhs(i)
      PROVE  calls[i].lhs \in Nodes /\ calls[i].lhs # r /\ x.lhs # calls[i].lhs /\ x.rhs # calls[i].lhs
    <2>1. i \in Depths /\ i # k /\ i \in 1..k
        BY <1>1 DEF Depths
    <2>2. calls[i].lhs \in Nodes
        BY <1>9, <2>1 DEF Stack, CallShape
    <2>3. calls[i].lhs # NoNode
        BY <2>2, NodesTyped DEF Nodes, NoNode
    <2>4. Extends(k) => calls[i].lhs # calls[k].lhs
        BY <1>2, <1>4, <1>9, <2>1 DEF Stack, Roots
    <2> QED
        BY <1>1, <1>3, <1>8, <1>9, <2>1, <2>2, <2>3, <2>4
<1>10. \A m \in Nodes : ast[m].lhs # r /\ ast[m].rhs # r
    <2>1. \A m \in Nodes : ast[m].lhs \in Nodes \cup {NoNode} /\ ast[m].rhs \in Nodes \cup {NoNode}
        BY DEF Stack, NodeShape
    <2> QED
        BY <1>1, <2>1 DEF NoNode
<1>11. x.lhs \in Nodes \cup {NoNode} /\ x.rhs \in Nodes \cup {NoNode}
    BY <1>3, <1>4, <1>8
<1>12. x.lhs # r /\ x.rhs # r
    BY <1>1, <1>11 DEF NoNode
<1>13. HasLeft(r)' => x.lhs \in Nodes /\ ast[x.lhs].last < read'
    <2>1. HasLeft(r)' => Extends(k)
        BY <1>1 DEF Completes, HasLeft, Extends
    <2> QED
        BY <1>1, <1>3, <1>4, <2>1
<1>14. HasRight(r)' => x.rhs \in Nodes
    <2>1. HasRight(r)' => x.kind \in {"binary", "prefix"}
        BY <1>1 DEF HasRight, InfixOf
    <2>2. x.kind \in {"binary", "prefix"} => k + 1 = Len(calls) /\ Stage(k + 1) = "loop" /\ x.rhs = calls[k + 1].lhs
        BY DEF Completes, RightOperand
    <2>3. k + 1 = Len(calls) /\ Stage(k + 1) = "loop" => calls[k + 1].lhs \in Nodes
        <3>1. SUFFICES ASSUME k + 1 = Len(calls), Stage(k + 1) = "loop"
                       PROVE  calls[k + 1].lhs \in Nodes
            OBVIOUS
        <3>2. PICK j \in Depths : j = k + 1
            BY <1>1, <3>1 DEF Depths
        <3>3. CallShape(j) /\ HasLhs(j)
            BY <3>1, <3>2 DEF Stack, HasLhs, Stage
        <3> QED
            BY <3>2, <3>3 DEF CallShape
    <2> QED
        BY <2>1, <2>2, <2>3
<1> QED
    BY <1>1, <1>2, <1>3, <1>5, <1>6, <1>9, <1>10, <1>11, <1>12, <1>13, <1>14 DEF Makes
\* On which sides the new node has operands, and with which powers.
LEMMA CompletesSides ==
    ASSUME TypeOK, Stack, NEW k, NEW x, Completes(k, x), NEW r, r = NewNode
    PROVE  /\ HasLeft(r)' <=> Extends(k)
           /\ HasRight(r)' <=> Stage(k) \in {"prefix", "infix"}
           /\ InfixOf(r)' <=> Stage(k) = "infix"
           /\ ast'[r].kind = "prefix" <=> Stage(k) = "prefix"
           /\ Bare(r)'
           /\ Extends(k) => LeftOf(r)' = LeftPower(k) /\ LeftOf(r)' >= calls[k].min
           /\ HasRight(r)' => RightOperand(k, x) /\ RightOf(r)' = calls[k + 1].min
           /\ ~HasRight(r)' => read' = read + 1
<1>1. ast'[r] = x /\ k \in Depths /\ CallShape(k) /\ x.paren = FALSE
    <2>1. ast'[r] = x
        BY CompletesNode
    <2> QED
        BY <2>1 DEF Completes, Stack
<1>2. "call" \notin DOMAIN Infix /\ "subscript" \notin DOMAIN Infix
    BY Domains
<1>3. CASE Stage(k) = "start"
    BY <1>1, <1>3 DEF Completes, HasLeft, HasRight, InfixOf, Extends, Bare
<1>4. CASE Stage(k) = "prefix"
    <2>1. x.kind = "prefix" /\ x.op = calls[k].op /\ RightOperand(k, x)
        BY <1>4 DEF Completes
    <2>2. calls[k + 1].min = Prefix[calls[k].op]
        BY <1>1, <1>4 DEF CallShape
    <2> QED
        BY <1>1, <1>4, <2>1, <2>2 DEF HasLeft, HasRight, InfixOf, Extends, Bare, RightOf
<1>5. CASE Stage(k) = "infix"
    <2>1. x.kind = "binary" /\ x.op = calls[k].op /\ RightOperand(k, x)
        BY <1>5 DEF Completes
    <2>2. /\ calls[k].op \in DOMAIN Infix /\ calls[k + 1].min = Infix[calls[k].op].rhs
          /\ Extends(k) => LeftPower(k) >= calls[k].min
        BY <1>1, <1>5 DEF CallShape
    <2> QED
        BY <1>1, <1>5, <2>1, <2>2 DEF HasLeft, HasRight, InfixOf, Extends, Bare, RightOf, LeftOf, LeftPower
<1>6. CASE Stage(k) = "subscript"
    <2>1. x.kind = "binary" /\ x.op = calls[k].op /\ read' = read + 1
        BY <1>6 DEF Completes
    <2>2. calls[k].op = "subscript" /\ (Extends(k) => LeftPower(k) >= calls[k].min)
        BY <1>1, <1>6 DEF CallShape
    <2> QED
        BY <1>1, <1>2, <1>6, <2>1, <2>2 DEF HasLeft, HasRight, InfixOf, Extends, Bare, LeftOf, LeftPower
<1>7. CASE Stage(k) = "args"
    <2>1. x.kind = "call" /\ x.op = calls[k].op /\ read' = read + 1
        BY <1>7 DEF Completes
    <2>2. calls[k].op = "call" /\ (Extends(k) => LeftPower(k) >= calls[k].min)
        BY <1>1, <1>7 DEF CallShape
    <2> QED
        BY <1>1, <1>2, <1>7, <2>1, <2>2 DEF HasLeft, HasRight, InfixOf, Extends, Bare, LeftOf, LeftPower
<1> QED
    BY <1>3, <1>4, <1>5, <1>6, <1>7 DEF Completes

\* The operand to the right is what the call above has parsed, all of it, and
\* the next token is too weak for that call.
LEMMA OperandPlace ==
    ASSUME TypeOK, Stack, NEW k \in Depths, NEW x, RightOperand(k, x),
           Stage(k) \in {"prefix", "infix"}
    PROVE  /\ k + 1 \in Depths
           /\ x.rhs \in Nodes
           /\ ast[x.rhs].first = Start(k + 1) /\ Start(k + 1) \in Nat
           /\ ast[x.rhs].last = read
           /\ Start(k + 1) <= read
           /\ Start(k + 1) = calls[k].at + 1
           /\ Start(k) <= calls[k].at /\ calls[k].at \in Nat /\ Start(k) \in Nat
           /\ calls[k + 1].min \in Nat
           /\ token \in DOMAIN Infix => Infix[token].lhs < calls[k + 1].min
           /\ token \in DOMAIN Postfix => Postfix[token] < calls[k + 1].min
<1>1. Len(calls) \in Nat /\ k + 1 = Len(calls) /\ k \in Nat /\ Stage(k + 1) = "loop"
        /\ x.rhs = calls[k + 1].lhs
    BY CallsTyped DEF RightOperand, Depths
<1>2. PICK j \in Depths : j = k + 1 /\ j = Len(calls)
    BY <1>1 DEF Depths
<1>3. CallShape(j) /\ CallPlace(j) /\ CallPlace(k)
    BY <1>2 DEF Stack
<1>4. Stage(j) = "loop" /\ HasLhs(j) /\ x.rhs = calls[j].lhs /\ x.rhs \in Nodes
    BY <1>1, <1>2, <1>3 DEF HasLhs, CallShape
<1>5. ast[x.rhs].first = Start(j) /\ ast[x.rhs].last = read
    BY <1>3, <1>4 DEF Start, CallPlace
<1>6. Start(j) \in Nat /\ Start(j) <= read
    BY <1>4, <1>5, NodesTyped DEF Stack, NodeShape
<1>7. Start(j) = calls[k].at + 1 /\ Start(k) <= calls[k].at
    BY <1>2, <1>3 DEF CallPlace, Waiting, Extends
<1>8. calls[k].at \in Nat /\ Start(k) \in Nat /\ calls[j].min \in Nat
    <2>1. \A i \in Depths : CallShape(i)
        BY DEF Stack
    <2> QED
        BY <2>1, CallsTyped, StartTyped
<1>9. /\ token \in DOMAIN Infix => Infix[token].lhs < calls[j].min
      /\ token \in DOMAIN Postfix => Postfix[token] < calls[j].min
    <2>1. Top = calls[j]
        BY <1>2 DEF Top
    <2>2. Ends
        BY DEF RightOperand
    <2> QED
        BY <2>1, <2>2, Domains DEF Ends, TooWeak
<1> QED
    BY <1>2, <1>4, <1>5, <1>6, <1>7, <1>8, <1>9

LEMMA CompletesPowers ==
    ASSUME TypeOK, Stack, PowersKept, NEW k, NEW x, Completes(k, x), NEW r, r = NewNode
    PROVE  /\ Bare(r)' /\ HasLeft(r)' => LeftOf(r)' >= calls[k].min
           /\ LeftNext(k)'
<1>1. Bare(r)' /\ HasLeft(r)' => LeftOf(r)' >= calls[k].min
    BY CompletesSides
<1>2. TypeOK' /\ Makes(k, r) /\ k \in Depths
    BY CompletesNode, CompletesMakes DEF Completes
<1>3. /\ HasRight(r)' <=> Stage(k) \in {"prefix", "infix"}
      /\ HasRight(r)' => RightOperand(k, x) /\ RightOf(r)' = calls[k + 1].min
      /\ ~HasRight(r)' => read' = read + 1
    BY CompletesSides
<1>4. /\ read \in Nat
      /\ k \in Nat \ {0} /\ \A i \in 1..k : Start(i)' = Start(i)
      /\ \A m \in Nodes' : m # r =>
            /\ m \in Nodes /\ ast'[m] = ast[m]
            /\ ast[m].first \in Nat /\ ast[m].last \in Nat
            /\ ast[m].first <= read /\ ast[m].last <= read
            /\ Bare(m)' <=> Bare(m)
            /\ HasRight(m)' <=> HasRight(m)
            /\ RightOf(m)' = RightOf(m)
    BY <1>2, MakesOthers
<1>5. Start(k)' = Start(k)
    BY <1>4
<1>6. ASSUME NEW m \in Nodes', Bare(m)', HasRight(m)', ast'[m].last = read', ast'[m].first >= Start(k)'
      PROVE  /\ token' \in DOMAIN Infix => RightOf(m)' > Infix[token'].lhs
             /\ token' \in DOMAIN Postfix => RightOf(m)' > Postfix[token']
    <2>1. CASE ~HasRight(r)'
        <3>1. m # r /\ read' = read + 1
            BY <1>3, <1>6, <2>1
        <3> QED
            BY <1>4, <1>6, <3>1
    <2>2. CASE HasRight(r)'
        <3>1. /\ Stage(k) \in {"prefix", "infix"} /\ RightOperand(k, x)
              /\ RightOf(r)' = calls[k + 1].min
              /\ token' = token /\ read' = read
            BY <1>3, <2>2 DEF RightOperand
        <3>2. /\ Start(k + 1) \in Nat /\ Start(k + 1) <= read
              /\ calls[k + 1].min \in Nat
              /\ token \in DOMAIN Infix => Infix[token].lhs < calls[k + 1].min
              /\ token \in DOMAIN Postfix => Postfix[token] < calls[k + 1].min
            BY <1>2, <3>1, OperandPlace
        <3>3. PICK j \in Depths : j = k + 1 /\ Stage(j) = "loop" /\ LeftNext(j) /\ CallNodes(j)
            <4>1. k + 1 \in Depths /\ Stage(k + 1) = "loop"
                BY <1>2, <3>1, OperandPlace DEF RightOperand
            <4>2. \A i \in Depths : LeftNext(i) /\ CallNodes(i)
                BY DEF PowersKept, Stack
            <4> QED
                BY <4>1, <4>2
        <3>4. CASE m = r
            BY <3>1, <3>2, <3>4, InfixPower, PostfixPower
        <3>5. CASE m # r
            <4>1. /\ m \in Nodes /\ Bare(m) /\ HasRight(m) /\ RightOf(m)' = RightOf(m)
                  /\ ast[m].last = read /\ ast[m].first \in Nat
                BY <1>4, <1>6, <3>1, <3>5
            <4>2. ast[m].first >= Start(j)
                <5>1. Start(j) \in Nat /\ Start(j) <= read
                    BY <3>2, <3>3
                <5>2. ast[m].first < Start(j) => ast[m].last < Start(j)
                    BY <3>3, <4>1 DEF CallNodes
                <5> QED
                    BY <1>4, <4>1, <5>1, <5>2
            <4> QED
                BY <3>1, <3>3, <4>1, <4>2 DEF LeftNext
        <3> QED
            BY <3>4, <3>5
    <2> QED
        BY <2>1, <2>2
<1> QED
    BY <1>1, <1>6 DEF LeftNext

LEMMA NoDescent ==
    ASSUME NEW n, ~IsAnd(n)
    PROVE  Descend(n) = n
BY DEF Descend

\* A comparison that is all of the operand clashes with the one before it.
LEMMA ComparisonClashes ==
    ASSUME TypeOK, NEW m \in Nodes, InfixOf(m), NonAssociative(ast[m].op),
           NEW op, NonAssociative(op)
    PROVE  Clash(op, m)
<1>1. /\ ast[m].kind = "binary" /\ ast[m].op \in DOMAIN Infix /\ op \in DOMAIN Infix
      /\ Infix[ast[m].op].lhs = 120 /\ Infix[op].rhs = 120
      /\ ast[m].op \in Comparisons
    BY InfixPower DEF InfixOf, NonAssociative
<1>2. m # NoNode
    BY NodesTyped DEF Nodes, NoNode
<1>3. ~IsAnd(m)
    BY <1>1 DEF IsAnd, Comparisons
<1>4. Descend(m) = m
    BY <1>3, NoDescent
<1> QED
    BY <1>1, <1>2, <1>4 DEF Clash, IsBinary

LEMMA CompletesTree ==
    ASSUME TypeOK, Stack, PowersKept, SourceOrder, TighterOperator,
           NEW k, NEW x, Completes(k, x), NEW r, r = NewNode
    PROVE  SourceOrder' /\ TighterOperator'
<1>1. TypeOK' /\ Makes(k, r) /\ k \in Depths /\ ast'[r] = x /\ r \notin Nodes
      /\ (\A m \in Nodes : ast'[m] = ast[m])
    BY CompletesNode, CompletesMakes DEF Makes
<1>2. /\ HasLeft(r)' <=> Extends(k)
      /\ HasRight(r)' <=> Stage(k) \in {"prefix", "infix"}
      /\ InfixOf(r)' <=> Stage(k) = "infix"
      /\ ast'[r].kind = "prefix" <=> Stage(k) = "prefix"
      /\ Bare(r)'
      /\ Extends(k) => LeftOf(r)' = LeftPower(k)
      /\ HasRight(r)' => RightOperand(k, x) /\ RightOf(r)' = calls[k + 1].min
    BY CompletesSides
<1>3. CallShape(k) /\ CallPlace(k) /\ LeftKept(k)
    BY <1>1 DEF Stack, PowersKept
<1>4. status' # "done"
    BY DEF Completes, Running
<1>5. SUFFICES
      /\ InfixOf(r)' => ast'[ast'[r].lhs].last + 2 = ast'[ast'[r].rhs].first
      /\ ast'[r].kind = "prefix" /\ Bare(r)' => Start(k) + 1 = ast'[ast'[r].rhs].first
      /\ Bare(r)' /\ HasRight(r)' => ast'[ast'[r].rhs].first # Start(k)
      /\ (HasRight(r)' => \A m \in Nodes : Bare(m) /\ ast[m].first = ast[ast'[r].rhs].first
            /\ ast[m].last <= ast[ast'[r].rhs].last /\ HasLeft(m) /\ m # r
            => LeftOf(m) >= RightOf(r)')
      /\ (HasLeft(r)' => \A m \in Nodes : Bare(m) /\ ast[m].last = ast[ast'[r].lhs].last
            /\ ast[m].first >= ast[ast'[r].lhs].first /\ HasRight(m) /\ m # r
            => RightOf(m) > LeftOf(r)')
      /\ (InfixOf(r)' /\ NonAssociative(ast'[r].op) => \A m \in Nodes : Bare(m) /\ m # r
            /\ ast[m].first = ast[ast'[r].rhs].first /\ ast[m].last <= ast[ast'[r].rhs].last
            /\ InfixOf(m) => ~NonAssociative(ast[m].op))
      /\ (InfixOf(r)' /\ NonAssociative(ast'[r].op) => \A m \in Nodes : Bare(m) /\ m # r
            /\ ast[m].last = ast[ast'[r].lhs].last /\ ast[m].first >= ast[ast'[r].lhs].first
            /\ InfixOf(m) => ~NonAssociative(ast[m].op))
    BY <1>1, <1>4, MakesTree
\* On the right.
<1>6. ASSUME HasRight(r)'
      PROVE  /\ Stage(k) \in {"prefix", "infix"}
             /\ x.rhs \in Nodes /\ ast'[x.rhs] = ast[x.rhs]
             /\ ast[x.rhs].first = calls[k].at + 1
             /\ calls[k].at \in Nat /\ Start(k) \in Nat /\ Start(k) <= calls[k].at
             /\ calls[k + 1].min \in Nat
             /\ \E j \in Depths : j = k + 1 /\ Start(j) = ast[x.rhs].first
                                   /\ AtLeastMin(j) /\ OnlyRoot(j) /\ x.rhs = calls[j].lhs
    <2>1. Stage(k) \in {"prefix", "infix"} /\ RightOperand(k, x)
        BY <1>2, <1>6
    <2>2. /\ k + 1 \in Depths
          /\ x.rhs \in Nodes
          /\ ast[x.rhs].first = Start(k + 1) /\ Start(k + 1) \in Nat
          /\ Start(k + 1) = calls[k].at + 1
          /\ Start(k) <= calls[k].at /\ calls[k].at \in Nat /\ Start(k) \in Nat
          /\ calls[k + 1].min \in Nat
        BY <1>1, <2>1, OperandPlace
    <2>3. AtLeastMin(k + 1) /\ OnlyRoot(k + 1)
        <3>1. \A i \in Depths : AtLeastMin(i) /\ OnlyRoot(i)
            BY DEF PowersKept
        <3> QED
            BY <2>2, <3>1
    <2>4. x.rhs = calls[k + 1].lhs
        BY <2>1 DEF RightOperand
    <2> QED
        BY <1>1, <2>1, <2>2, <2>3, <2>4
\* On the left.
<1>7. ASSUME HasLeft(r)'
      PROVE  /\ Extends(k)
             /\ x.lhs = calls[k].lhs /\ x.lhs \in Nodes /\ ast'[x.lhs] = ast[x.lhs]
             /\ ast[x.lhs].first = Start(k)
             /\ ast[x.lhs].last + 1 = calls[k].at /\ ast[x.lhs].last \in Nat
    <2>1. Extends(k) /\ HasLhs(k) /\ Stage(k) # "start"
        BY <1>2, <1>7 DEF Extends, HasLhs
    <2>2. x.lhs = calls[k].lhs /\ x.lhs \in Nodes
        BY <1>3, <2>1 DEF Completes, CallShape
    <2>3. ast[x.lhs].first = Start(k) /\ ast[x.lhs].last + 1 = calls[k].at
        BY <1>3, <2>1, <2>2 DEF Start, CallPlace
    <2> QED
        BY <1>1, <2>1, <2>2, <2>3, NodesTyped
<1>8. ASSUME HasRight(r)', NEW m \in Nodes, Bare(m), ast[m].first = ast[x.rhs].first, HasLeft(m)
      PROVE  LeftOf(m) >= RightOf(r)'
    BY <1>2, <1>6, <1>8 DEF AtLeastMin
<1>9. ASSUME HasLeft(r)', NEW m \in Nodes, Bare(m), HasRight(m), ast[m].last = ast[x.lhs].last,
             ast[m].first >= ast[x.lhs].first
      PROVE  RightOf(m) > LeftOf(r)'
    BY <1>2, <1>3, <1>7, <1>9 DEF LeftKept
<1>10. InfixOf(r)' => HasLeft(r)' /\ HasRight(r)'
    BY DEF InfixOf, HasLeft, HasRight
<1>11. ASSUME InfixOf(r)', NonAssociative(x.op), NEW m \in Nodes, Bare(m), InfixOf(m),
              ast[m].first = ast[x.rhs].first
       PROVE  ~NonAssociative(ast[m].op)
    <2>1. SUFFICES ASSUME NonAssociative(ast[m].op)
                   PROVE  FALSE
        OBVIOUS
    <2>2. Stage(k) = "infix" /\ HasRight(r)' /\ x.op = calls[k].op /\ ~Clash(calls[k].op, x.rhs)
        BY <1>2, <1>10, <1>11 DEF Completes
    <2>3. PICK j \in Depths : j = k + 1 /\ Start(j) = ast[x.rhs].first /\ OnlyRoot(j) /\ x.rhs = calls[j].lhs
        BY <1>6, <2>2
    <2>4. calls[j].min = Infix[x.op].rhs
        BY <1>3, <2>2, <2>3 DEF CallShape
    <2>5. calls[j].min = 120 /\ LeftOf(m) = 120
        BY <1>11, <2>1, <2>4, InfixPower DEF NonAssociative, LeftOf
    <2>6. m = x.rhs
        BY <1>11, <2>1, <2>3, <2>5 DEF OnlyRoot
    <2>7. Clash(x.op, m)
        BY <1>11, <2>1, ComparisonClashes
    <2> QED
        BY <2>2, <2>6, <2>7
<1>12. ASSUME InfixOf(r)', NonAssociative(x.op), NEW m \in Nodes, Bare(m), InfixOf(m),
              ast[m].last = ast[x.lhs].last, ast[m].first >= ast[x.lhs].first
       PROVE  ~NonAssociative(ast[m].op)
    <2>1. SUFFICES ASSUME NonAssociative(ast[m].op)
                   PROVE  FALSE
        OBVIOUS
    <2>2. RightOf(m) > LeftOf(r)'
        BY <1>9, <1>10, <1>12 DEF HasRight
    <2>3. LeftOf(r)' = 120
        BY <1>1, <1>12, InfixPower DEF LeftOf, NonAssociative
    <2>4. RightOf(m) = 120
        BY <1>12, <2>1, InfixPower DEF RightOf, NonAssociative
    <2> QED
        BY <2>2, <2>3, <2>4
<1>13. InfixOf(r)' => ast'[x.lhs].last + 2 = ast'[x.rhs].first
    BY <1>6, <1>7, <1>10
<1>14. ast'[r].kind = "prefix" /\ Bare(r)' => Start(k) + 1 = ast'[x.rhs].first
    <2>1. SUFFICES ASSUME Stage(k) = "prefix"
                   PROVE  Start(k) + 1 = ast'[x.rhs].first
        BY <1>2
    <2>2. Start(k) = calls[k].at
        BY <2>1 DEF Start, HasLhs
    <2> QED
        BY <1>2, <1>6, <2>1, <2>2
<1>15. HasRight(r)' => ast'[x.rhs].first # Start(k)
    BY <1>6
<1> QED
    BY <1>1, <1>8, <1>9, <1>11, <1>12, <1>13, <1>14, <1>15

LEMMA CompletesKeeps ==
    ASSUME Inv, NEW k, NEW x, Completes(k, x)
    PROVE  Inv'
<1>1. TypeOK /\ Stack /\ PowersKept /\ SourceOrder /\ TighterOperator
    BY DEF Inv
<1>2. PICK r : r = NewNode
    OBVIOUS
<1>3. TypeOK' /\ Makes(k, r)
    BY <1>1, <1>2, CompletesNode, CompletesMakes
<1>4. Stack'
    BY <1>1, <1>3, MakesStack
<1>5. PowersKept'
    BY <1>1, <1>2, <1>3, CompletesPowers, MakesPowers
<1>6. SourceOrder' /\ TighterOperator'
    BY <1>1, <1>2, CompletesTree
<1> QED
    BY <1>3, <1>4, <1>5, <1>6 DEF Inv
-----------------------------------------------------------------------------
(* The steps of the parser. *)

LEMMA TopPlace ==
    ASSUME TypeOK, Stack, NEW s, At(s)
    PROVE  \E k \in Depths : k = Len(calls) /\ k # 0 /\ Stage(k) = s /\ Top = calls[k]
                              /\ Under = SubSeq(calls, 1, k - 1)
<1>1. Len(calls) \in Nat /\ Len(calls) # 0
    BY CallsTyped DEF Stack
<1>2. Len(calls) \in Depths
    BY <1>1 DEF Depths
<1> QED
    BY <1>1, <1>2 DEF At, Top, Stage, Under

\* The call that has ended and the one that waits for it.
LEMMA EndingPlace ==
    ASSUME TypeOK, Stack, NEW s, Ending(s)
    PROVE  \E k \in Depths :
              /\ k + 1 = Len(calls) /\ k + 1 \in Depths /\ k # Len(calls)
              /\ Stage(k) = s /\ Stage(k + 1) = "loop"
              /\ Caller = calls[k] /\ Returned = calls[k + 1].lhs
              /\ SubSeq(calls, 1, Len(calls) - 2) = SubSeq(calls, 1, k - 1)
              /\ Returned \in Nodes
              /\ ast[Returned].last = read
              /\ ast[Returned].first = Start(k + 1)
<1>1. Len(calls) \in Nat /\ Len(calls) > 1
    BY CallsTyped DEF Ending
<1>2. \A l \in Nat : l > 1 => /\ l - 1 \in 1..l /\ (l - 1) + 1 = l /\ l \in 1..l /\ l - 1 # l
                             /\ l - 2 = (l - 1) - 1
    OBVIOUS
<1>3. PICK k : k = Len(calls) - 1
    OBVIOUS
<1>4. k \in Depths /\ k + 1 = Len(calls) /\ Len(calls) \in Depths /\ Len(calls) - 2 = k - 1 /\ k # Len(calls)
    BY <1>1, <1>2, <1>3 DEF Depths
<1>5. PICK j \in Depths : j = Len(calls)
    BY <1>4
<1>6. Caller = calls[k] /\ Top = calls[j] /\ Stage(k) = s /\ Stage(j) = "loop" /\ Returned = calls[j].lhs
    BY <1>3, <1>5 DEF Ending, At, Caller, Top, Stage, Returned
<1>7. CallShape(j) /\ CallPlace(j) /\ HasLhs(j)
    BY <1>6 DEF Stack, HasLhs
<1>8. Returned \in Nodes /\ ast[Returned].last = read /\ ast[Returned].first = Start(j)
    BY <1>6, <1>7 DEF CallShape, CallPlace, Start
<1> QED
    BY <1>4, <1>5, <1>6, <1>8

LEMMA ReadOperandKeeps ==
    ASSUME Inv, ReadOperand
    PROVE  Inv'
<1>1. TypeOK /\ Stack
    BY DEF Inv
<1>2. PICK k \in Depths : k = Len(calls) /\ Stage(k) = "start" /\ Top = calls[k]
                            /\ Under = SubSeq(calls, 1, k - 1)
    BY <1>1, TopPlace DEF ReadOperand
<1>3. PICK x : x = [kind |-> "operand", op |-> "operand", lhs |-> NoNode, rhs |-> NoNode,
                    first |-> read + 1, last |-> read + 1, paren |-> FALSE]
    OBVIOUS
<1>4. /\ x.kind = "operand" /\ x.lhs = NoNode /\ x.rhs = NoNode
      /\ x.first = read + 1 /\ x.last = read + 1 /\ x.paren = FALSE
    BY <1>3
<1>5. x \in Node
    <2>1. read \in Nat
        BY <1>1 DEF TypeOK
    <2> QED
        BY <1>3, <2>1 DEF Node, Kinds, NoNode
<1>6. ast' = Append(ast, x)
    BY <1>3 DEF ReadOperand, Create
<1>7. calls' = SubSeq(calls, 1, k - 1) \o <<[calls[k] EXCEPT !.stage = "loop", !.lhs = NewNode]>>
    BY <1>2 DEF ReadOperand, Loop
<1>8. token' \in Token /\ read' = read + 1 /\ status' = status /\ Running
    BY <1>1, AdvanceTyped DEF ReadOperand, At
<1>9. Start(k) = read + 1 /\ ~Extends(k)
    BY <1>2 DEF Start, Extends
<1>10. Completes(k, x)
    BY <1>2, <1>4, <1>5, <1>6, <1>7, <1>8, <1>9 DEF Completes
<1> QED
    BY <1>10, CompletesKeeps

LEMMA CompletePrefixKeeps ==
    ASSUME Inv, CompletePrefix
    PROVE  Inv'
<1>1. TypeOK /\ Stack
    BY DEF Inv
<1>2. PICK k \in Depths :
          /\ k + 1 = Len(calls) /\ k + 1 \in Depths
          /\ Stage(k) = "prefix" /\ Stage(k + 1) = "loop"
          /\ Caller = calls[k] /\ Returned = calls[k + 1].lhs
          /\ SubSeq(calls, 1, Len(calls) - 2) = SubSeq(calls, 1, k - 1)
          /\ Returned \in Nodes
          /\ ast[Returned].last = read
    BY <1>1, EndingPlace DEF CompletePrefix
<1>3. PICK x : x = [kind |-> "prefix", op |-> Caller.op, lhs |-> NoNode, rhs |-> Returned,
                    first |-> Caller.at, last |-> ast[Returned].last, paren |-> FALSE]
    OBVIOUS
<1>4. /\ x.kind = "prefix" /\ x.lhs = NoNode /\ x.rhs = Returned /\ x.op = calls[k].op
      /\ x.first = calls[k].at /\ x.last = read /\ x.paren = FALSE
    BY <1>2, <1>3
<1>5. x \in Node
    <2>1. CallShape(k) /\ calls[k].at \in Nat /\ read \in Nat
        BY <1>1, <1>2, CallsTyped DEF Stack, TypeOK
    <2>2. calls[k].op \in Operators
        BY <1>2, <2>1, Domains DEF CallShape
    <2>3. Returned \in Nat
        BY <1>1, <1>2, NodesTyped DEF Nodes
    <2> QED
        BY <1>2, <1>3, <2>1, <2>2, <2>3 DEF Node, Kinds, NoNode
<1>6. ast' = Append(ast, x)
    BY <1>3 DEF CompletePrefix, Create
<1>7. calls' = SubSeq(calls, 1, k - 1) \o <<[calls[k] EXCEPT !.stage = "loop", !.lhs = NewNode]>>
    BY <1>2 DEF CompletePrefix, Resume
<1>8. token' = token /\ token' \in Token /\ read' = read /\ status' = status /\ Running /\ Ends
    BY <1>1 DEF CompletePrefix, Keep, Ending, At, TypeOK
<1>9. Start(k) = calls[k].at /\ ~Extends(k)
    BY <1>2 DEF Start, Extends, HasLhs
<1>10. RightOperand(k, x)
    BY <1>2, <1>4, <1>8 DEF RightOperand
<1>11. Completes(k, x)
    BY <1>2, <1>4, <1>5, <1>6, <1>7, <1>8, <1>9, <1>10 DEF Completes
<1> QED
    BY <1>11, CompletesKeeps

\* A call that extends its left-hand side.
LEMMA ExtendsPlace ==
    ASSUME TypeOK, Stack, NEW k \in Depths, Extends(k)
    PROVE  /\ calls[k].lhs \in Nodes /\ calls[k].lhs \in Nat
           /\ ast[calls[k].lhs].first = Start(k) /\ Start(k) \in Nat
           /\ calls[k].op \in Operators
           /\ read \in Nat
<1>1. CallShape(k) /\ HasLhs(k) /\ Stage(k) # "start"
    BY DEF Stack, Extends, HasLhs
<1>2. calls[k].lhs \in Nodes /\ calls[k].lhs \in Nat
    BY <1>1, CallsTyped DEF CallShape
<1>3. ast[calls[k].lhs].first = Start(k)
    BY <1>1 DEF Start
<1>4. calls[k].op \in Operators
    BY <1>1, Domains DEF CallShape, Extends
<1> QED
    BY <1>2, <1>3, <1>4, NodesTyped DEF TypeOK

LEMMA CompleteInfixKeeps ==
    ASSUME Inv, CompleteInfix
    PROVE  Inv'
<1>1. TypeOK /\ Stack
    BY DEF Inv
<1>2. PICK k \in Depths :
          /\ k + 1 = Len(calls) /\ k + 1 \in Depths
          /\ Stage(k) = "infix" /\ Stage(k + 1) = "loop"
          /\ Caller = calls[k] /\ Returned = calls[k + 1].lhs
          /\ SubSeq(calls, 1, Len(calls) - 2) = SubSeq(calls, 1, k - 1)
          /\ Returned \in Nodes
          /\ ast[Returned].last = read
    BY <1>1, EndingPlace DEF CompleteInfix
<1>3. PICK x : x = [kind |-> "binary", op |-> Caller.op, lhs |-> Caller.lhs, rhs |-> Returned,
                    first |-> ast[Caller.lhs].first, last |-> ast[Returned].last, paren |-> FALSE]
    OBVIOUS
<1>4. Extends(k)
    BY <1>2 DEF Extends
<1>5. /\ calls[k].lhs \in Nodes /\ calls[k].lhs \in Nat
      /\ ast[calls[k].lhs].first = Start(k) /\ Start(k) \in Nat
      /\ calls[k].op \in Operators
      /\ read \in Nat
    BY <1>1, <1>4, ExtendsPlace
<1>6. /\ x.kind = "binary" /\ x.lhs = calls[k].lhs /\ x.rhs = Returned /\ x.op = calls[k].op
      /\ x.first = Start(k) /\ x.last = read /\ x.paren = FALSE
    BY <1>2, <1>3, <1>5
<1>7. x \in Node
    <2>1. Returned \in Nat
        BY <1>1, <1>2, NodesTyped DEF Nodes
    <2> QED
        BY <1>2, <1>3, <1>5, <2>1 DEF Node, Kinds
<1>8. ast' = Append(ast, x)
    BY <1>3 DEF CompleteInfix, Create, Binary
<1>9. calls' = SubSeq(calls, 1, k - 1) \o <<[calls[k] EXCEPT !.stage = "loop", !.lhs = NewNode]>>
    BY <1>2 DEF CompleteInfix, Resume
<1>10. token' = token /\ token' \in Token /\ read' = read /\ status' = status /\ Running /\ Ends
    BY <1>1 DEF CompleteInfix, Keep, Ending, At, TypeOK
<1>11. RightOperand(k, x)
    BY <1>2, <1>6, <1>10 DEF RightOperand
<1>12. ~Clash(calls[k].op, x.rhs)
    <2>1. ~Clash(Caller.op, Returned)
        BY DEF CompleteInfix
    <2> QED
        BY <1>2, <1>6, <2>1 DEF Clash
<1>13. Completes(k, x)
    BY <1>2, <1>4, <1>6, <1>7, <1>8, <1>9, <1>10, <1>11, <1>12 DEF Completes
<1> QED
    BY <1>13, CompletesKeeps
LEMMA CloseSubscriptKeeps ==
    ASSUME Inv, CloseSubscript
    PROVE  Inv'
<1>1. TypeOK /\ Stack
    BY DEF Inv
<1>2. PICK k \in Depths :
          /\ k + 1 = Len(calls) /\ k + 1 \in Depths
          /\ Stage(k) = "subscript" /\ Stage(k + 1) = "loop"
          /\ Caller = calls[k] /\ Returned = calls[k + 1].lhs
          /\ SubSeq(calls, 1, Len(calls) - 2) = SubSeq(calls, 1, k - 1)
          /\ Returned \in Nodes
    BY <1>1, EndingPlace DEF CloseSubscript
<1>3. PICK x : x = [kind |-> "binary", op |-> "subscript", lhs |-> Caller.lhs, rhs |-> Returned,
                    first |-> ast[Caller.lhs].first, last |-> read + 1, paren |-> FALSE]
    OBVIOUS
<1>4. Extends(k)
    BY <1>2 DEF Extends
<1>5. /\ calls[k].lhs \in Nodes /\ calls[k].lhs \in Nat
      /\ ast[calls[k].lhs].first = Start(k) /\ Start(k) \in Nat
      /\ calls[k].op \in Operators
      /\ read \in Nat
      /\ calls[k].op = "subscript"
    BY <1>1, <1>2, <1>4, ExtendsPlace DEF Stack, CallShape
<1>6. /\ x.kind = "binary" /\ x.lhs = calls[k].lhs /\ x.rhs = Returned /\ x.op = calls[k].op
      /\ x.first = Start(k) /\ x.last = read + 1 /\ x.paren = FALSE
    BY <1>2, <1>3, <1>5
<1>7. x \in Node
    <2>1. Returned \in Nat
        BY <1>1, <1>2, NodesTyped DEF Nodes
    <2> QED
        BY <1>2, <1>3, <1>5, <2>1 DEF Node, Kinds
<1>8. ast' = Append(ast, x)
    BY <1>3 DEF CloseSubscript, Create, Binary
<1>9. calls' = SubSeq(calls, 1, k - 1) \o <<[calls[k] EXCEPT !.stage = "loop", !.lhs = NewNode]>>
    BY <1>2 DEF CloseSubscript, Resume
<1>10. token' \in Token /\ read' = read + 1 /\ status' = status /\ Running
    BY <1>1, AdvanceTyped DEF CloseSubscript, Ending, At
<1>11. Completes(k, x)
    BY <1>2, <1>4, <1>6, <1>7, <1>8, <1>9, <1>10 DEF Completes
<1> QED
    BY <1>11, CompletesKeeps

\* The call expression that call k waits with, with or without arguments.
LEMMA CallMade ==
    ASSUME Inv, NEW k \in Depths, Stage(k) = "args", Caller = calls[k],
           NEW g \in Nodes \cup {NoNode}, ast' = Append(ast, CallOf(Caller.lhs, g)),
           k + 1 = Len(calls),
           g = NoNode \/ (Stage(k + 1) = "loop" /\ g = calls[k + 1].lhs),
           SubSeq(calls, 1, Len(calls) - 2) = SubSeq(calls, 1, k - 1),
           Resume(NewNode), Advance, status' = status, Running
    PROVE  Inv'
<1>1. TypeOK /\ Stack
    BY DEF Inv
<1>2. PICK x : x = [kind |-> "call", op |-> "call", lhs |-> Caller.lhs, rhs |-> g,
                    first |-> ast[Caller.lhs].first, last |-> read + 1, paren |-> FALSE]
    OBVIOUS
<1>3. Extends(k)
    BY DEF Extends
<1>4. /\ calls[k].lhs \in Nodes /\ calls[k].lhs \in Nat
      /\ ast[calls[k].lhs].first = Start(k) /\ Start(k) \in Nat
      /\ calls[k].op \in Operators
      /\ read \in Nat
      /\ calls[k].op = "call"
    BY <1>1, <1>3, ExtendsPlace DEF Stack, CallShape
<1>5. /\ x.kind = "call" /\ x.lhs = calls[k].lhs /\ x.rhs = g /\ x.op = calls[k].op
      /\ x.first = Start(k) /\ x.last = read + 1 /\ x.paren = FALSE
    BY <1>2, <1>4
<1>6. x \in Node
    <2>1. g \in Nat
        BY <1>1, NodesTyped DEF Nodes, NoNode
    <2> QED
        BY <1>2, <1>4, <2>1 DEF Node, Kinds
<1>7. ast' = Append(ast, x)
    BY <1>2 DEF CallOf
<1>8. calls' = SubSeq(calls, 1, k - 1) \o <<[calls[k] EXCEPT !.stage = "loop", !.lhs = NewNode]>>
    BY DEF Resume
<1>9. token' \in Token /\ read' = read + 1
    BY <1>1, AdvanceTyped
<1>10. Completes(k, x)
    BY <1>3, <1>5, <1>6, <1>7, <1>8, <1>9 DEF Completes
<1> QED
    BY <1>10, CompletesKeeps

LEMMA CloseCallKeeps ==
    ASSUME Inv, CloseCall
    PROVE  Inv'
<1>1. TypeOK /\ Stack
    BY DEF Inv
<1>2. PICK k \in Depths :
          /\ k + 1 = Len(calls)
          /\ Stage(k) = "args" /\ Stage(k + 1) = "loop"
          /\ Caller = calls[k] /\ Returned = calls[k + 1].lhs
          /\ SubSeq(calls, 1, Len(calls) - 2) = SubSeq(calls, 1, k - 1)
          /\ Returned \in Nodes
    BY <1>1, EndingPlace DEF CloseCall
<1>3. PICK g \in Nodes \cup {NoNode} : g = Returned
    BY <1>2
<1>4. ast' = Append(ast, CallOf(Caller.lhs, g))
    BY <1>3 DEF CloseCall, Create, CallOf
<1>5. Resume(NewNode) /\ Advance /\ status' = status /\ Running
    BY DEF CloseCall, Ending, At
<1> QED
    BY <1>2, <1>3, <1>4, <1>5, CallMade

LEMMA CloseEmptyCallKeeps ==
    ASSUME Inv, CloseEmptyCall
    PROVE  Inv'
<1>1. TypeOK /\ Stack
    BY DEF Inv
<1>2. Len(calls) \in Nat /\ Len(calls) > 1 /\ Caller.stage = "args"
    BY <1>1, CallsTyped DEF CloseEmptyCall, EmptyCall
<1>3. \A l \in Nat : l > 1 => l - 1 \in 1..l /\ (l - 1) + 1 = l /\ l - 2 = (l - 1) - 1
    OBVIOUS
<1>4. PICK k : k = Len(calls) - 1
    OBVIOUS
<1>5. k \in Depths /\ k + 1 = Len(calls) /\ Len(calls) - 2 = k - 1
    BY <1>2, <1>3, <1>4 DEF Depths
<1>6. Caller = calls[k] /\ Stage(k) = "args"
    BY <1>2, <1>4 DEF Caller, Stage
<1>7. PICK g \in Nodes \cup {NoNode} : g = NoNode
    OBVIOUS
<1>8. ast' = Append(ast, CallOf(Caller.lhs, g))
    BY <1>7 DEF CloseEmptyCall, Create, CallOf
<1>9. Resume(NewNode) /\ Advance /\ status' = status /\ Running
    BY DEF CloseEmptyCall, At
<1>10. SubSeq(calls, 1, Len(calls) - 2) = SubSeq(calls, 1, k - 1)
    BY <1>5
<1> QED
    BY <1>5, <1>6, <1>7, <1>8, <1>9, <1>10, CallMade

LEMMA AwaitingSteps ==
    ASSUME Inv, OpenParen \/ ReadPrefix \/ ReadPostfix \/ ReadInfix
    PROVE  Inv'
<1>1. TypeOK /\ Stack
    BY DEF Inv
<1>2. CASE OpenParen
    <2>1. PICK k \in Depths : k = Len(calls) /\ Stage(k) = "start"
        BY <1>1, <1>2, TopPlace DEF OpenParen
    <2>2. Awaits(k, "paren", 0)
        BY <1>2, <2>1 DEF OpenParen, Awaits, Wait, At
    <2> QED
        BY <2>2, AwaitsKeeps
<1>3. CASE ReadPrefix
    <2>1. PICK k \in Depths : k = Len(calls) /\ Stage(k) = "start"
        BY <1>1, <1>3, TopPlace DEF ReadPrefix
    <2>2. token \in DOMAIN Prefix /\ Prefix[token] \in Nat
        BY <1>3, PrefixPower DEF ReadPrefix
    <2>3. PICK p \in Nat : p = Prefix[token]
        BY <2>2
    <2>4. Awaits(k, "prefix", p)
        BY <1>3, <2>1, <2>2, <2>3 DEF ReadPrefix, Awaits, Wait, At
    <2> QED
        BY <2>4, AwaitsKeeps
<1>4. CASE ReadPostfix
    <2>1. PICK k \in Depths : k = Len(calls) /\ Stage(k) = "loop" /\ Top = calls[k]
        BY <1>1, <1>4, TopPlace DEF ReadPostfix
    <2>2. /\ token \in DOMAIN Postfix /\ Postfix[token] \in Nat /\ token \in {"call", "subscript"}
          /\ calls[k].min \in Nat
          /\ Postfix[token] >= calls[k].min
        BY <1>1, <1>4, <2>1, CallsTyped, PostfixPower, Domains DEF ReadPostfix, TooWeak
    <2>3. CASE token = "call"
        <3>1. Awaits(k, "args", 0)
            BY <1>4, <2>1, <2>2, <2>3 DEF ReadPostfix, Awaits, Wait, At
        <3> QED
            BY <3>1, AwaitsKeeps
    <2>4. CASE token = "subscript"
        <3>1. Awaits(k, "subscript", 0)
            BY <1>4, <2>1, <2>2, <2>4 DEF ReadPostfix, Awaits, Wait, At
        <3> QED
            BY <3>1, AwaitsKeeps
    <2> QED
        BY <2>2, <2>3, <2>4
<1>5. CASE ReadInfix
    <2>1. PICK k \in Depths : k = Len(calls) /\ Stage(k) = "loop" /\ Top = calls[k]
        BY <1>1, <1>5, TopPlace DEF ReadInfix
    <2>2. /\ token \in DOMAIN Infix /\ Infix[token].lhs \in Nat /\ Infix[token].rhs \in Nat
          /\ calls[k].min \in Nat
          /\ Infix[token].lhs >= calls[k].min
        BY <1>1, <1>5, <2>1, CallsTyped, InfixPower DEF ReadInfix, TooWeak
    <2>3. PICK p \in Nat : p = Infix[token].rhs
        BY <2>2
    <2>4. Awaits(k, "infix", p)
        BY <1>5, <2>1, <2>2, <2>3 DEF ReadInfix, Awaits, Wait, At, RightPower
    <2> QED
        BY <2>4, AwaitsKeeps
<1> QED
    BY <1>2, <1>3, <1>4, <1>5
\* What was in parentheses is a node of another place, and no longer bare.
LEMMA CloseParenKeeps ==
    ASSUME Inv, CloseParen
    PROVE  Inv'
<1>1. TypeOK /\ Stack /\ PowersKept /\ SourceOrder /\ TighterOperator
    BY DEF Inv
<1>2. PICK k \in Depths :
          /\ k + 1 = Len(calls) /\ k + 1 \in Depths /\ k # Len(calls)
          /\ Stage(k) = "paren" /\ Stage(k + 1) = "loop"
          /\ Caller = calls[k] /\ Returned = calls[k + 1].lhs
          /\ SubSeq(calls, 1, Len(calls) - 2) = SubSeq(calls, 1, k - 1)
          /\ Returned \in Nodes
          /\ ast[Returned].last = read
    BY <1>1, EndingPlace DEF CloseParen
<1>3. PICK r \in Nodes : r = Returned
    BY <1>2
<1>4. PICK j \in Depths : j = k + 1 /\ j # k /\ Stage(j) = "loop" /\ HasLhs(j) /\ r = calls[j].lhs
    <2>1. k \in Nat
        BY <1>1, CallsTyped DEF Depths
    <2> QED
        BY <1>2, <1>3, <2>1 DEF HasLhs
<1>5. /\ calls[k].at \in Nat /\ read \in Nat /\ r \in Nat /\ Len(ast) \in Nat /\ ast \in Seq(Node)
      /\ ast[r] \in Node /\ ast[r].last = read
    BY <1>1, <1>2, <1>3, CallsTyped, NodesTyped DEF TypeOK, Nodes
<1>6. PICK a \in Nat, b \in Nat : a = calls[k].at /\ b = read + 1
    BY <1>5
<1>7. PICK e \in Node : e = ast[r]
    BY <1>5
<1>8. PICK x : x = [ast[r] EXCEPT !.first = calls[k].at, !.last = read + 1, !.paren = TRUE]
    OBVIOUS
<1>9. /\ x \in Node /\ x.first = a /\ x.last = b /\ x.paren = TRUE
      /\ x.kind = e.kind /\ x.op = e.op /\ x.lhs = e.lhs /\ x.rhs = e.rhs
    <2>1. x = [e EXCEPT !.first = a, !.last = b, !.paren = TRUE]
        BY <1>6, <1>7, <1>8
    <2> QED
        BY <2>1 DEF Node
<1>10. ast' = [ast EXCEPT ![r] = x]
    <2>1. ast' = [ast EXCEPT ![r] =
                    [ast[r] EXCEPT !.first = calls[k].at, !.last = read + 1, !.paren = TRUE]]
        BY <1>2, <1>3 DEF CloseParen
    <2> QED
        BY <1>8, <2>1, Zenon
<1>11. /\ ast' \in Seq(Node) /\ Len(ast') = Len(ast)
       /\ ast'[r] = x
       /\ \A m \in Nodes : m # r => ast'[m] = ast[m]
    <2>1. r \in 1..Len(ast)
        BY DEF Nodes
    <2>2. [ast EXCEPT ![r] = x] \in Seq(Node) /\ Len([ast EXCEPT ![r] = x]) = Len(ast)
        BY <1>5, <1>9, <2>1, ExceptSeq
    <2>3. DOMAIN ast = Nodes
        BY <1>5, LenProperties DEF Nodes
    <2> QED
        BY <1>10, <2>2, <2>3
<1>12. Nodes' = Nodes \cup {r} /\ Nodes' = Nodes
    BY <1>11 DEF Nodes
<1>13. calls' = SubSeq(calls, 1, k - 1) \o <<[calls[k] EXCEPT !.stage = "loop", !.lhs = r]>>
    BY <1>2, <1>3 DEF CloseParen, Resume
<1>14. /\ calls' \in Seq(CallType)
       /\ Len(calls') = k
       /\ \A i \in 1..k - 1 : calls'[i] = calls[i]
       /\ calls'[k].min = calls[k].min
       /\ calls'[k].lhs = r
       /\ calls'[k].stage = "loop"
       /\ k \in Nat \ {0}
    BY <1>1, <1>5, <1>13, ResumedCalls
<1>15. token' \in Token /\ read' \in Nat /\ read' = read + 1 /\ status' = status /\ Running
    BY <1>1, AdvanceTyped DEF CloseParen, Ending, At
<1>16. TypeOK'
    BY <1>1, <1>11, <1>14, <1>15 DEF TypeOK
<1>17. Start(k) = a /\ a <= read /\ ~HasLhs(k) /\ ~Extends(k)
    BY <1>1, <1>2, <1>6 DEF Start, HasLhs, Extends, Stack, CallPlace, Waiting
<1>18. ASSUME NEW i \in 1..k - 1, HasLhs(i)
       PROVE  calls[i].lhs # r /\ x.lhs # calls[i].lhs /\ x.rhs # calls[i].lhs
    <2>1. i \in Depths /\ i # j
        BY <1>1, <1>2, <1>4, <1>14, CallsTyped DEF Depths
    <2> QED
        BY <1>1, <1>4, <1>7, <1>9, <1>18, <2>1 DEF Stack, Roots
<1>19. \A m \in Nodes : ast[m].lhs # r /\ ast[m].rhs # r
    BY <1>1, <1>4 DEF Stack, Roots
<1>20. x.lhs # r /\ x.rhs # r
    BY <1>7, <1>9, <1>19
<1>21. \A m \in Nodes : ast[m].first # Start(k)
    BY <1>1, <1>17 DEF Stack, CallNodes
<1>22. /\ HasLeft(r)' <=> HasLeft(r)
       /\ HasRight(r)' <=> HasRight(r)
       /\ InfixOf(r)' <=> InfixOf(r)
       /\ LeftOf(r)' = LeftOf(r)
       /\ RightOf(r)' = RightOf(r)
       /\ ~Bare(r)'
    BY <1>7, <1>9, <1>11 DEF HasLeft, HasRight, InfixOf, LeftOf, RightOf, Bare
<1>23. /\ HasLeft(r) => x.lhs \in Nodes /\ ast[x.lhs].last < read'
       /\ HasRight(r) => x.rhs \in Nodes
       /\ x.lhs \in Nodes \cup {NoNode} /\ x.rhs \in Nodes \cup {NoNode}
    <2>1. /\ HasLeft(r) => ast[r].lhs \in Nodes /\ ast[ast[r].lhs].last < ast[r].last
          /\ HasRight(r) => ast[r].rhs \in Nodes
          /\ ast[r].lhs \in Nodes \cup {NoNode} /\ ast[r].rhs \in Nodes \cup {NoNode}
        BY <1>1 DEF Stack, NodeShape
    <2>2. x.lhs = ast[r].lhs /\ x.rhs = ast[r].rhs
        BY <1>7, <1>9
    <2>3. x.lhs \in Nodes => ast[x.lhs].last \in Nat
        BY <1>1, NodesTyped
    <2> QED
        BY <1>5, <1>15, <2>1, <2>2, <2>3
<1>24. Makes(k, r)
    <2>1. /\ k \in Depths /\ Stage(k) # "loop"
        BY <1>2
    <2>2. /\ Len(calls') = k /\ (\A i \in 1..k - 1 : calls'[i] = calls[i])
          /\ calls'[k].min = calls[k].min /\ calls'[k].lhs = r /\ calls'[k].stage = "loop"
        BY <1>14
    <2>3. /\ read' \in {read, read + 1} /\ Nodes' = Nodes \cup {r}
          /\ (\A m \in Nodes : m # r => ast'[m] = ast[m])
        BY <1>11, <1>12, <1>15
    <2>4. ast'[r].first = Start(k) /\ ast'[r].last = read' /\ Start(k) <= read'
        BY <1>5, <1>6, <1>9, <1>11, <1>15, <1>17
    <2>5. \A m \in Nodes : m # r /\ ast[m].first = Start(k) => ast[m].last < read'
        BY <1>21
    <2>6. \A i \in 1..k - 1 : HasLhs(i) => calls[i].lhs # r /\ ast'[r].lhs # calls[i].lhs
                                                          /\ ast'[r].rhs # calls[i].lhs
        BY <1>11, <1>18
    <2>7. /\ (\A m \in Nodes : ast[m].lhs # r /\ ast[m].rhs # r)
          /\ ast'[r].lhs # r /\ ast'[r].rhs # r
        BY <1>11, <1>19, <1>20
    <2>8. /\ (HasLeft(r)' => ast'[r].lhs \in Nodes /\ ast[ast'[r].lhs].last < read')
          /\ (HasRight(r)' => ast'[r].rhs \in Nodes)
          /\ ast'[r].lhs \in Nodes \cup {NoNode} /\ ast'[r].rhs \in Nodes \cup {NoNode}
        BY <1>11, <1>22, <1>23
    <2> QED
        BY <2>1, <2>2, <2>3, <2>4, <2>5, <2>6, <2>7, <2>8 DEF Makes
<1>25. Stack'
    BY <1>1, <1>16, <1>24, MakesStack
<1>26. LeftNext(k)'
    <2>1. ASSUME NEW m \in Nodes', Bare(m)', HasRight(m)', ast'[m].last = read'
          PROVE  FALSE
        <3>1. m \in Nodes /\ m # r /\ ast'[m] = ast[m]
            BY <1>11, <1>12, <1>22, <2>1
        <3>2. ast[m].last \in Nat /\ ast[m].last <= read
            BY <1>1, <3>1, NodesTyped DEF Stack, NodeShape
        <3> QED
            BY <1>5, <1>15, <2>1, <3>1, <3>2
    <2> QED
        BY <2>1 DEF LeftNext
<1>27. PowersKept'
    BY <1>1, <1>16, <1>22, <1>24, <1>26, MakesPowers
<1>28. SourceOrder' /\ TighterOperator'
    <2>1. ast'[r].lhs = ast[r].lhs /\ ast'[r].rhs = ast[r].rhs /\ ast'[r].op = ast[r].op
        BY <1>7, <1>9, <1>11
    <2>2. InfixOf(r) => HasLeft(r) /\ HasRight(r)
        BY DEF InfixOf, HasLeft, HasRight
    <2>3. InfixOf(r)' => ast'[ast'[r].lhs].last + 2 = ast'[ast'[r].rhs].first
        <3>1. InfixOf(r) => ast[ast[r].lhs].last + 2 = ast[ast[r].rhs].first
            BY <1>1 DEF SourceOrder
        <3>2. InfixOf(r) => ast'[ast[r].lhs] = ast[ast[r].lhs] /\ ast'[ast[r].rhs] = ast[ast[r].rhs]
            BY <1>11, <1>19, <1>23, <2>1, <2>2
        <3> QED
            BY <1>22, <2>1, <3>1, <3>2
    <2>4. HasRight(r) => \A m \in Nodes : Bare(m) /\ ast[m].first = ast[ast[r].rhs].first
            /\ ast[m].last <= ast[ast[r].rhs].last /\ HasLeft(m) => LeftOf(m) >= RightOf(r)
        BY <1>1 DEF TighterOperator, RightOperands, Opening
    <2>5. HasLeft(r) => \A m \in Nodes : Bare(m) /\ ast[m].last = ast[ast[r].lhs].last
            /\ ast[m].first >= ast[ast[r].lhs].first /\ HasRight(m) => RightOf(m) > LeftOf(r)
        BY <1>1 DEF TighterOperator, LeftOperands, Closing
    <2>6. InfixOf(r) /\ NonAssociative(ast[r].op) => \A m \in Nodes : Bare(m)
            /\ ast[m].first = ast[ast[r].rhs].first /\ ast[m].last <= ast[ast[r].rhs].last
            /\ InfixOf(m) => ~NonAssociative(ast[m].op)
        BY <1>1 DEF TighterOperator, NoComparisonChain, Opening
    <2>7. InfixOf(r) /\ NonAssociative(ast[r].op) => \A m \in Nodes : Bare(m)
            /\ ast[m].last = ast[ast[r].lhs].last /\ ast[m].first >= ast[ast[r].lhs].first
            /\ InfixOf(m) => ~NonAssociative(ast[m].op)
        BY <1>1 DEF TighterOperator, NoComparisonChain, Closing
    <2>8. status' # "done"
        BY <1>15 DEF Running
    <2> QED
        BY <1>1, <1>16, <1>22, <1>24, <2>1, <2>3, <2>4, <2>5, <2>6, <2>7, <2>8, MakesTree
<1> QED
    BY <1>16, <1>25, <1>27, <1>28 DEF Inv

\* Nothing but the status changes when the input is rejected or read.
LEMMA StatusKeeps ==
    ASSUME Inv, UNCHANGED <<token, read, calls, ast>>,
           status' \in {"running", "done", "unexpected", "same_power", "no_power"},
           status' = "done" => status = "done" \/ (Len(calls) = 1 /\ Stage(1) = "loop")
    PROVE  Inv'
<1>1. TypeOK' /\ Stack' /\ PowersKept' /\ TighterOperator'
    <2>1. TypeOK'
        BY DEF Inv, TypeOK
    <2>2. Stack'
        BY DEF Inv, Stack, CallShape, CallPlace, CallNodes, InTurn, Roots, NodeShape, Start, HasLhs,
            Waiting, Extends, LeftPower, Stage, Depths, Nodes, HasLeft, HasRight, InfixOf
    <2>3. PowersKept'
        BY DEF Inv, PowersKept, AtLeastMin, LeftKept, LeftNext, OnlyRoot, Start, HasLhs,
            Extends, LeftPower, Stage, Depths, Nodes, HasLeft, HasRight, InfixOf, Bare, LeftOf, RightOf
    <2>4. TighterOperator'
        BY TreeKept DEF Inv
    <2> QED
        BY <2>1, <2>2, <2>3, <2>4
<1>2. SourceOrder'
    <2>1. SourceOrder /\ Nodes' = Nodes /\ \A n \in Nodes : (InfixOf(n)' <=> InfixOf(n)) /\ (Bare(n)' <=> Bare(n))
        BY DEF Inv, Nodes, InfixOf, Bare
    <2>2. status' = "done" => ast'[Top'.lhs].first = 1 /\ ast'[Top'.lhs].last = read'
        <3>1. CASE status = "done"
            BY <2>1, <3>1 DEF SourceOrder, Top
        <3>2. CASE Len(calls) = 1 /\ Stage(1) = "loop"
            <4>1. PICK i \in Depths : i = 1 /\ i = Len(calls) /\ Stage(i) = "loop" /\ HasLhs(i)
                BY <3>2 DEF Depths, HasLhs
            <4>2. CallPlace(i) /\ Start(i) = 1
                BY <4>1 DEF Inv, Stack, InTurn
            <4>3. ast[calls[i].lhs].last = read /\ ast[calls[i].lhs].first = 1
                BY <4>1, <4>2 DEF CallPlace, Start
            <4> QED
                BY <4>1, <4>3 DEF Top
        <3> QED
            BY <3>1, <3>2
    <2> QED
        BY <2>1, <2>2 DEF SourceOrder
<1> QED
    BY <1>1, <1>2 DEF Inv

LEMMA InitInv ==
    ASSUME Init
    PROVE  Inv
<1>1. PICK y : y = Call(0)
    OBVIOUS
<1>2. y \in CallType /\ y.stage = "start" /\ y.min = 0 /\ y.at = 0
    BY <1>1, BeginsTyped DEF Call
<1>3. calls = <<y>>
    BY <1>1 DEF Init
<1>4. calls \in Seq(CallType) /\ Len(calls) = 1 /\ calls[1] = y
    BY <1>2, <1>3
<1>5. read = 0 /\ ast = <<>> /\ status = "running" /\ token \in Token
    BY DEF Init, Token
<1>6. TypeOK
    BY <1>4, <1>5 DEF TypeOK
<1>7. Depths = {1} /\ Nodes = {}
    BY <1>4, <1>5 DEF Depths, Nodes
<1>8. /\ Stage(1) = "start" /\ ~HasLhs(1) /\ ~Extends(1) /\ ~Waiting(1) /\ Start(1) = 1
    BY <1>2, <1>4, <1>5 DEF Stage, HasLhs, Extends, Waiting, Start
<1>9. Stack
    BY <1>4, <1>7, <1>8 DEF Stack, CallShape, CallPlace, CallNodes, InTurn, Roots, NodeShape
<1>10. PowersKept
    BY <1>7 DEF PowersKept, AtLeastMin, LeftKept, LeftNext, OnlyRoot
<1>11. SourceOrder /\ TighterOperator
    BY <1>5, <1>7 DEF SourceOrder, TighterOperator, RightOperands, LeftOperands, NoComparisonChain
<1> QED
    BY <1>6, <1>9, <1>10, <1>11 DEF Inv

LEMMA NextInv ==
    ASSUME Inv, [Next]_vars
    PROVE  Inv'
<1>1. TypeOK /\ Stack
    BY DEF Inv
<1>2. status \in {"running", "done", "unexpected", "same_power", "no_power"}
    BY <1>1 DEF TypeOK
<1>3. CASE Begin
    <2>1. CASE ReadOperand
        BY <2>1, ReadOperandKeeps
    <2>2. CASE OpenParen \/ ReadPrefix
        BY <2>2, AwaitingSteps
    <2>3. CASE RejectStart
        BY <2>3, StatusKeeps DEF RejectStart, Reject
    <2>4. CASE CloseEmptyCall
        BY <2>4, CloseEmptyCallKeeps
    <2> QED
        BY <1>3, <2>1, <2>2, <2>3, <2>4 DEF Begin
<1>4. CASE Continue
    <2>1. CASE ReadPostfix \/ ReadInfix
        BY <2>1, AwaitingSteps
    <2>2. CASE Finish
        <3>1. Len(calls) = 1 /\ Stage(1) = "loop"
            BY <2>2 DEF Finish, At, Top, Stage
        <3> QED
            BY <2>2, <3>1, StatusKeeps DEF Finish
    <2> QED
        BY <1>4, <2>1, <2>2 DEF Continue
<1>5. CASE Complete
    <2>1. CASE CloseParen
        BY <2>1, CloseParenKeeps
    <2>2. CASE CompletePrefix
        BY <2>2, CompletePrefixKeeps
    <2>3. CASE CloseSubscript
        BY <2>3, CloseSubscriptKeeps
    <2>4. CASE NextArgument
        BY <2>4, NextArgumentKeeps
    <2>5. CASE CloseCall
        BY <2>5, CloseCallKeeps
    <2>6. CASE RejectBracket \/ RejectClash \/ RejectSubscript
        BY <2>6, StatusKeeps DEF RejectBracket, RejectClash, RejectSubscript, Reject
    <2>7. CASE CompleteInfix
        BY <2>7, CompleteInfixKeeps
    <2> QED
        BY <1>5, <2>1, <2>2, <2>3, <2>4, <2>5, <2>6, <2>7 DEF Complete
<1>6. CASE Stopped \/ UNCHANGED vars
    BY <1>2, <1>6, StatusKeeps DEF Stopped, vars
<1> QED
    BY <1>3, <1>4, <1>5, <1>6 DEF Next

\* Calls, nodes and tokens are well formed, whatever the input and the
\* operators it may have.
THEOREM TypeCorrect == Spec => []TypeOK
<1>1. Init => Inv
    BY InitInv
<1>2. Inv /\ [Next]_vars => Inv'
    BY NextInv
<1>3. Inv => TypeOK
    BY DEF Inv
<1> QED
    BY <1>1, <1>2, <1>3, PTL DEF Spec

\* The tree has all that was read, in its order (pratt_parser.cpp:255).
THEOREM TokensInOrder == Spec => []SourceOrder
<1>1. Init => Inv
    BY InitInv
<1>2. Inv /\ [Next]_vars => Inv'
    BY NextInv
<1>3. Inv => SourceOrder
    BY DEF Inv
<1> QED
    BY <1>1, <1>2, <1>3, PTL DEF Spec

\* An operand goes to the operator that binds it tighter, at any depth of the
\* tree, and comparisons do not associate (pratt_parser.cpp:265, :293, :302).
THEOREM TighterBinds == Spec => []TighterOperator
<1>1. Init => Inv
    BY InitInv
<1>2. Inv /\ [Next]_vars => Inv'
    BY NextInv
<1>3. Inv => TighterOperator
    BY DEF Inv
<1> QED
    BY <1>1, <1>2, <1>3, PTL DEF Spec
=============================================================================
