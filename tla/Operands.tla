------------------------------ MODULE Operands ------------------------------
(***************************************************************************)
(* How znoc generates the operands of an expression.  Every AST node has   *)
(* codegen(), for its value, and codegen_to_ptr(), for the address of what *)
(* it names; nodes call those of their operands, several times if they     *)
(* need the value and the address.  An expression is built from its        *)
(* operands up, as the parser does, and then generated.                    *)
(*                                                                         *)
(* Types are abstracted: an operand has the type its operator asks for.    *)
(***************************************************************************)
EXTENDS Naturals, Sequences, FiniteSets, SequencesExt

CONSTANTS
    Functions,   \* the functions that may be called
    Members,     \* those whose first parameter is `self`
    Variadic,    \* those with a `name: ...` parameter
    Externs,     \* those declared with the attribute `extern`
    Parameters,  \* the number of parameters each declares, without `...`
    IntBits,     \* the lengths an integer may have (1, 8, ..., 128)
    FloatBits,   \* those of other numbers
    Short, Long, \* the lengths of i32 and i64
    Precision,   \* the bits of a double that hold its digits
    Values,      \* the numbers a program writes, all of them whole
    Modifiers,   \* what a program writes after a number
    MaxNodes,    \* bound on the nodes of the expression
    MaxLiterals, \* bound on the numbers in it
    MaxArgs      \* bound on the arguments of a call

Letters == {"none", "u", "i", "f", "other"}

ASSUME OperandsAssumption ==
    /\ Members \subseteq Functions
    /\ Variadic \subseteq Functions
    /\ Externs \subseteq Functions
    /\ Parameters \in [Functions -> Nat]
    /\ \A f \in Members : Parameters[f] > 0
    /\ IntBits \subseteq Nat \ {0} /\ FloatBits \subseteq Nat \ {0}
    /\ Short \in IntBits /\ Long \in IntBits
    /\ Precision \in Short..(Long - 1)
    /\ {2^Precision, 2^Long} \cup {2^(bits - 1) : bits \in IntBits} \subseteq Nat
    /\ 2^Precision <= 2^(Long - 1) /\ 2^(Long - 1) < 2^Long
    /\ Values \subseteq Nat
    /\ Modifiers \subseteq [letter : Letters, len : Nat]
    /\ {MaxNodes, MaxLiterals, MaxArgs} \subseteq Nat

VARIABLES
    tree,   \* the nodes of the expression, every node after its operands
    roots,  \* the nodes that are no operand yet
    code,   \* the instructions generated
    status  \* "parsing", or how that ended

vars == <<tree, roots, code, status>>

Kinds == {"literal", "variable", "function", "plus", "assign", "subscript", "dot",
          "method", "star", "ampersand", "let", "call"}
Node  == [kind : Kinds, operands : Seq(Nat), fn : Functions \cup {""},
          written : Nat, value : Nat, bits : {0} \cup IntBits \cup FloatBits,
          suffix : Letters]

\* A value: the instruction of the code that computes it, and a number or 0 else.
Value  == [at : Nat, count : Nat]
Inst   == [op : {"load", "store", "gep", "op", "call", "spill"}, node : Nat,
           uses : Seq(Value)]
-----------------------------------------------------------------------------
(* Pieces of code: the positions in a piece are its own. *)

Constant(n) == [code |-> <<>>, vals |-> <<[at |-> 0, count |-> n]>>, fails |-> ""]
Slot        == Constant(0)
Nothing     == [code |-> <<>>, vals |-> <<>>, fails |-> ""]
Throws      == [Nothing EXCEPT !.fails = "throws"]

Moved(vals, k) == [i \in DOMAIN vals |->
                      IF vals[i].at = 0 THEN vals[i] ELSE [vals[i] EXCEPT !.at = @ + k]]

\* Piece p and then piece q, which is not generated if p throws.
Then(p, q) ==
    LET k == Len(p.code)
    IN  IF p.fails # "" THEN p
        ELSE [code  |-> p.code \o [i \in DOMAIN q.code |->
                                      [q.code[i] EXCEPT !.uses = Moved(@, k)]],
              vals  |-> p.vals \o Moved(q.vals, k),
              fails |-> q.fails]
InTurn(ps) ==
    LET Upto[i \in 0..Len(ps)] == IF i = 0 THEN Nothing ELSE Then(Upto[i - 1], ps[i])
    IN  Upto[Len(ps)]

LastVal(p)  == IF p.fails # "" THEN p ELSE [p EXCEPT !.vals = <<Last(@)>>]

\* One more instruction, of node n, that uses the values of p.
Emit(p, op, n) ==
    IF p.fails # "" THEN p
    ELSE [p EXCEPT !.code = Append(@, [op |-> op, node |-> n, uses |-> p.vals]),
                   !.vals = <<[at |-> Len(p.code) + 1, count |-> 0]>>]
-----------------------------------------------------------------------------
(* codegen() and codegen_to_ptr() *)

\* The values of a call: the function, `self`, the arguments, and before those of
\* the `...` how many they are.
\* Mutant: all arguments are counted.
Mut_CountsAll(f, vals) == Len(vals) - 1
VarArgsCount(f, vals)  == Len(vals) - 1 - Parameters[f]

NormalArgs(f)      == Parameters[f]

\* With fewer arguments the count wraps around, and an iterator behind the end of
\* fargs is no place to insert at.
WithCount(f, p) ==
    LET normal == NormalArgs(f) + 1
    IN  IF p.fails # "" \/ f \notin Variadic \ Externs THEN p
        ELSE IF Len(p.vals) < normal THEN [p EXCEPT !.fails = "undefined"]
        ELSE [p EXCEPT !.vals = InsertAt(@, normal + 1,
                                    [at |-> 0, count |-> VarArgsCount(f, p.vals)])]

\* Mutant: the arguments come before what is called.
Mut_CalleeLast(callee, self, args) == Then(InTurn(args), Then(callee, self))
CallParts(callee, self, args)      == Then(Then(callee, self), InTurn(args))

\* The last two of the values of an assignment are what is stored, and where.
\* Mutant: the address comes before the value.
Mut_AddressFirst(place, lhs, rhs) == Then(Then(lhs, place), rhs)
AssignParts(place, lhs, rhs)      == Then(Then(lhs, rhs), place)

\* G[<<"value", n>>] and G[<<"ptr", n>>] are what the two generate for node n: those
\* of its operands are known.
V(G, n, i) == G[<<"value", tree[n].operands[i]>>]
P(G, n, i) == G[<<"ptr", tree[n].operands[i]>>]

GEP(G, n)      == Emit(P(G, n, 1), "gep", n)
FieldRef(G, n) == Emit(LastVal(Then(GEP(G, n), GEP(G, n))), "load", n)
Element(G, n)  == Emit(Then(V(G, n, 2), P(G, n, 1)), "gep", n)

Assign(G, n) ==
    LET p == AssignParts(P(G, n, 1), V(G, n, 1), V(G, n, 2))
        k == Len(p.vals)
    IN  Emit(IF p.fails = "" THEN [p EXCEPT !.vals = SubSeq(@, k - 1, k)] ELSE p, "store", n)

\* The address of what a method is called on is its first argument.
Self(G, n) ==
    LET callee == tree[n].operands[1]
    IN  IF tree[callee].kind = "method" /\ tree[n].fn \in Members
        THEN P(G, callee, 1) ELSE Nothing
CallCode(G, n) ==
    LET args == [i \in 1..(Len(tree[n].operands) - 1) |-> V(G, n, i + 1)]
    IN  Emit(WithCount(tree[n].fn, CallParts(V(G, n, 1), Self(G, n), args)), "call", n)

ValueCode(G, n) ==
    LET kind == tree[n].kind
    IN  CASE kind = "literal"   -> Constant(0)
          [] kind = "function"  -> Slot
          [] kind = "variable"  -> Emit(Slot, "load", n)
          [] kind = "plus"      -> Emit(Then(V(G, n, 1), V(G, n, 2)), "op", n)
          [] kind = "assign"    -> Assign(G, n)
          [] kind = "subscript" ->
                Emit(LastVal(Then(Then(V(G, n, 1), V(G, n, 2)), Element(G, n))), "load", n)
          [] kind = "dot"       ->
                LastVal(Then(Then(V(G, n, 1), FieldRef(G, n)), FieldRef(G, n)))
          [] kind = "method"    -> LastVal(Then(Then(V(G, n, 1), Slot), Slot))
          [] kind = "star"      -> Emit(V(G, n, 1), "load", n)
          [] kind = "ampersand" -> LastVal(Then(V(G, n, 1), P(G, n, 1)))
          [] kind = "let"       -> Emit(Emit(V(G, n, 1), "store", n), "load", n)
          [] kind = "call"      -> CallCode(G, n)

PtrCode(G, n) ==
    LET kind == tree[n].kind
    IN  CASE kind \in {"literal", "ampersand", "let"}     -> Throws
          [] kind \in {"variable", "function", "method"} -> Slot
          [] kind \in {"plus", "assign"} -> P(G, n, 2)
          [] kind = "subscript" -> Element(G, n)
          [] kind = "dot"       -> GEP(G, n)
          [] kind = "star"      -> V(G, n, 1)
          [] kind = "call"      -> Emit(CallCode(G, n), "spill", n)

Gen[x \in {"value", "ptr"} \X DOMAIN tree] ==
    IF x[1] = "value" THEN ValueCode(Gen, x[2]) ELSE PtrCode(Gen, x[2])
-----------------------------------------------------------------------------
(* The nodes *)

Parsing == status = "parsing"
Kind(n) == tree[n].kind

\* Operators have operands of their own, which are values.
Operand(n) == Kind(n) \notin {"function", "method", "assign"}

\* The k youngest roots become the operands of a new node.
New(kind, k, fn) ==
    /\ Parsing
    /\ Len(tree) < MaxNodes
    /\ Len(roots) >= k
    /\ LET left == Len(roots) - k
       IN  /\ tree' = Append(tree, [kind |-> kind, fn |-> fn, written |-> 0, value |-> 0,
                                    operands |-> SubSeq(roots, left + 1, Len(roots)),
                                    bits |-> 0, suffix |-> "none"])
           /\ roots' = Append(SubSeq(roots, 1, left), Len(tree) + 1)
    /\ UNCHANGED <<code, status>>

Youngest(k) == roots[Len(roots) - k + 1]
Operands(k) == Len(roots) >= k /\ \A i \in 1..k : Operand(Youngest(i))

Variable == New("variable", 0, "")
Function == \E f \in Functions : New("function", 0, f)
Prefix   == Operands(1) /\ \E op \in {"star", "ampersand", "let"} : New(op, 1, "")
Binary   == Operands(2) /\ \E op \in {"plus", "subscript"} : New(op, 2, "")

\* A store has no value: that of an assignment is not used.
Assignment == Len(roots) = 2 /\ Operands(2) /\ New("assign", 2, "")

\* The name after the dot is a field, or a function of the type.
Dot ==
    /\ Operands(1)
    /\ New("dot", 1, "") \/ \E f \in Functions : New("method", 1, f)

Call ==
    \E k \in 0..MaxArgs :
        /\ Operands(k)
        /\ Len(roots) > k
        /\ Kind(Youngest(k + 1)) \in {"function", "method"}
        /\ New("call", k + 1, tree[Youngest(k + 1)].fn)

\* A double holds every number of Precision bits, followed by any number of zeros.
IsDouble(d) == \/ d < 2^Precision
               \/ \E e \in 1..d : d % 2^e = 0 /\ d \div 2^e < 2^Precision

\* Every number that is written is read as a double, the nearest one, or one of two.
Distance(m, n) == IF m < n THEN n - m ELSE m - n
ToDouble ==
    [v \in Values |-> {d \in 0..(2 * v) :
        /\ IsDouble(d)
        /\ \A c \in 0..(2 * v) : IsDouble(c) => Distance(d, v) <= Distance(c, v)}]

\* The uint64_t that a double becomes, which is undefined if there is none.
ToUnsigned(d) == IF d < 2^Long THEN {d} ELSE 0..(2^Long - 1)

\* Mutant: what fits i32 without a sign is an i32.
Mut_AsUnsigned(d) == IF d >= 2^Short THEN Long ELSE Short
DefaultBits(d)    == IF d > 2^(Short - 1) - 1 THEN Long ELSE Short

\* The lengths of the type that a literal is given, none if there is no such type.
\* Mutant: there is one of any length.
Mut_AnyLength(d, contains_dp, s) ==
    CASE s.letter = "none"  -> IF contains_dp THEN {Long} ELSE {DefaultBits(d)}
      [] s.letter = "other" -> {}
      [] OTHER              -> {s.len}
LiteralBits(d, contains_dp, s) ==
    CASE s.letter = "none"       -> IF contains_dp THEN {Long} ELSE {DefaultBits(d)}
      [] s.letter \in {"u", "i"} -> IntBits \cap {s.len}
      [] s.letter = "f"          -> FloatBits \cap {s.len}
      [] s.letter = "other"      -> {}

\* A number with a decimal point is a double, as if an `f` followed it.
SuffixOf(contains_dp, s)   == IF s.letter = "none" /\ contains_dp THEN "f" ELSE s.letter
StoredNumber(d, suffix)    == IF suffix = "f" THEN {d} ELSE ToUnsigned(d)

Numbers == Cardinality({n \in DOMAIN tree : Kind(n) = "literal"})

Number(v, value, bits, suffix) ==
    [kind |-> "literal", fn |-> "", operands |-> <<>>, written |-> v, value |-> value,
     bits |-> bits, suffix |-> suffix]

NumericLiteral ==
    /\ Parsing
    /\ Len(tree) < MaxNodes
    /\ Numbers < MaxLiterals
    /\ \E v \in Values, contains_dp \in BOOLEAN, s \in Modifiers :
       \E d \in ToDouble[v] :
        LET suffix == SuffixOf(contains_dp, s)
        IN  \/ /\ LiteralBits(d, contains_dp, s) = {}
               /\ status' = "rejected" /\ UNCHANGED <<tree, roots, code>>
            \/ /\ \E bits \in LiteralBits(d, contains_dp, s) :
                  \E value \in StoredNumber(d, suffix) :
                     tree' = Append(tree, Number(v, value, bits, suffix))
               /\ roots' = Append(roots, Len(tree) + 1)
               /\ UNCHANGED <<code, status>>

Generate ==
    /\ Parsing
    /\ Len(roots) = 1
    /\ Kind(roots[1]) \notin {"function", "method"}
    /\ LET p == Gen[<<"value", roots[1]>>]
       IN  /\ code' = p.code
           /\ status' = IF p.fails = "" THEN "generated" ELSE p.fails
    /\ UNCHANGED <<tree, roots>>

Init ==
    /\ tree = <<>>
    /\ roots = <<>>
    /\ code = <<>>
    /\ status = "parsing"

Next == \/ Variable \/ Function \/ Prefix \/ Binary \/ Assignment \/ Dot \/ Call
        \/ NumericLiteral \/ Generate

Spec == Init /\ [][Next]_vars
-----------------------------------------------------------------------------
(* What the generated code does *)

TypeOK ==
    /\ tree \in Seq(Node)
    /\ roots \in Seq(DOMAIN tree)
    /\ code \in Seq(Inst)
    /\ status \in {"parsing", "rejected", "generated", "throws", "undefined"}

Subtree[n \in DOMAIN tree] ==
    {n} \cup UNION {Subtree[tree[n].operands[i]] : i \in DOMAIN tree[n].operands}

Generated     == status = "generated"
CallNodes     == {n \in DOMAIN tree : Kind(n) = "call"}
CallsOf(n)    == {i \in DOMAIN code : code[i].op = "call" /\ code[i].node = n}
FirstCall(n)  == CHOOSE i \in CallsOf(n) : \A j \in CallsOf(n) : i <= j

\* The operands that are generated for their value and for their address.
Repeated(n) ==
    CASE Kind(n) \in {"dot", "method", "ampersand", "assign"} -> {1}
      [] Kind(n) = "subscript" -> {1, 2}
      [] OTHER -> {}
Exposed == UNION {UNION {Subtree[tree[n].operands[i]] : i \in Repeated(n)} : n \in DOMAIN tree}

\* A call of the program runs once: outside of what has an address taken or is
\* assigned to, indexed or followed by a dot, where it is repeated
\* (pratt_parser.cpp:389-403, :448, :464, :484, pratt_parser.hpp:140-144,
\* reference.hpp:56-58).
CallsOnce ==
    Generated => \A n \in CallNodes \ Exposed : Cardinality(CallsOf(n)) = 1

\* However often an operand is generated, every call is, and for the first time in
\* the order of the source: what is called, the arguments, the call itself
\* (pratt_parser.cpp:389, :479-490).
CallsInOrder ==
    Generated =>
        /\ \A n \in CallNodes : CallsOf(n) # {}
        /\ \A m, n \in CallNodes : m < n => FirstCall(m) < FirstCall(n)

\* Calls run when the source says, and no more often than it has to be expected.
CallsAsWritten == CallsOnce /\ CallsInOrder

\* The instructions that instruction i needs, itself among them.
Needs[i \in DOMAIN code] ==
    {i} \cup UNION {Needs[v.at] : v \in {u \in ToSet(code[i].uses) : u.at # 0}}

\* An assignment stores the value of its right side, and finds the address anew
\* after it: nothing that the address needs is older than the value, whose calls may
\* change where the address leads (pratt_parser.cpp:402-404).
AddressAfterValue ==
    Generated =>
        \A s \in DOMAIN code : Kind(code[s].node) = "assign" =>
            LET value == code[s].uses[1].at
                place == code[s].uses[2].at
                sides == tree[code[s].node].operands
            IN  /\ value # 0 => code[value].node \in Subtree[sides[2]]
                /\ place # 0 => /\ code[place].node \in Subtree[sides[1]]
                                /\ \A i \in Needs[place] : value < i

IsVariadic(f) == f \in Variadic \ Externs

\* A variadic function is told how many arguments follow its own, `self` being one of
\* its own (pratt_parser.cpp:493-497, with the count of function_def.cpp:136).
CountTells ==
    \A i \in DOMAIN code : code[i].op = "call" /\ IsVariadic(tree[code[i].node].fn) =>
        LET uses == code[i].uses
            own  == Parameters[tree[code[i].node].fn]
        IN  /\ Len(uses) >= own + 2
            /\ uses[own + 2].count = Len(uses) - own - 2

Given(n) == LET callee == tree[n].operands[1]
            IN  Len(tree[n].operands) - 1
                    + (IF Kind(callee) = "method" /\ tree[n].fn \in Members THEN 1 ELSE 0)

\* The difference of the sizes wraps around only in a call that leaves out an
\* argument, which nothing checks (pratt_parser.cpp:494-496).
UndefinedIfMissing ==
    LET missing == \E n \in CallNodes : IsVariadic(tree[n].fn)
                                            /\ Given(n) < Parameters[tree[n].fn]
    IN  /\ status = "undefined" => missing
        /\ Generated => ~missing

\* The hidden argument of a variadic call is right, or one is missing and the call is
\* undefined.
VariadicCount == CountTells /\ UndefinedIfMissing

\* Node x has the value v, which its type holds with a sign.
HasValue(x, v) == x.value = v /\ v < 2^(x.bits - 1)

\* A number without a suffix keeps its value, read with a sign, if it is below 2^53,
\* and is rounded to the nearest double if i64 has that: 9223372036854775807 is read
\* as 2^63 (numeric_literal.hpp:64-74, parsing.cpp:128).
LiteralKept ==
    \A n \in DOMAIN tree : Kind(n) = "literal" /\ tree[n].suffix = "none" =>
        LET x == tree[n]
        IN  /\ x.written < 2^Precision => HasValue(x, x.written)
            /\ (\A d \in ToDouble[x.written] : d < 2^(Long - 1))
                   => \E d \in ToDouble[x.written] : HasValue(x, d)
=============================================================================
