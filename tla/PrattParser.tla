----------------------------- MODULE PrattParser -----------------------------
(***************************************************************************)
(* Operator precedence in znoc: parse_pratt_expression() reads an operand  *)
(* and then, in a loop, every operator whose left binding power is not     *)
(* below the min_bp it was called with; it calls itself, with the right    *)
(* binding power of the operator, for what follows it.                     *)
(*                                                                         *)
(* The calls in progress are a stack.  The input is chosen token by token, *)
(* when get_next_token() asks for the next one.  AST nodes are numbered in *)
(* the order they are created; besides its fields a node remembers which   *)
(* tokens it was made of, in order to say what the tree should have been.  *)
(***************************************************************************)
EXTENDS Naturals, Sequences

CONSTANTS
    Operators, \* the operators the input may have
    MaxTokens  \* bound on the length of the input

Assignments == {"assign", "assign_add", "assign_sub", "assign_mul", "assign_div",
                "assign_mod", "assign_bitwise_and", "assign_bitwise_or",
                "assign_bitwise_xor", "assign_shift_left", "assign_shift_right"}
Comparisons == {"compare_eq", "compare_neq", "compare_lt", "compare_lte",
                "compare_gt", "compare_gte"}
InfixOperators ==
    {"dot", "double_colon", "shift_left", "shift_right", "star", "divide", "mod",
     "plus", "minus", "ampersand", "bitwise_or", "bitwise_xor", "logical_and",
     "logical_or"} \cup Comparisons \cup Assignments
PrefixOperators  == {"star", "ampersand", "minus", "plus", "bitwise_not", "logical_not"}
PostfixOperators == {"call", "subscript"}

ASSUME PrattAssumption ==
    /\ Operators \subseteq InfixOperators \cup PrefixOperators \cup PostfixOperators
    /\ MaxTokens \in Nat

\* Mutant: the power to the right is one too low, for assignments below zero.
Mut_RightOffByOne(l, r) == [lhs |-> l, rhs |-> r - 1]
\* The binding powers; a pair has the power to the left and to the right.
Powers(l, r) == [lhs |-> l, rhs |-> r]

Infix ==
    [op \in Operators \cap InfixOperators |->
        CASE op \in {"dot", "double_colon"}                     -> Powers(200, 201)
          [] op \in {"shift_left", "shift_right"}               -> Powers(160, 161)
          [] op \in {"star", "divide", "mod"}                   -> Powers(150, 151)
          [] op \in {"plus", "minus"}                           -> Powers(140, 141)
          [] op \in {"ampersand", "bitwise_or", "bitwise_xor"}  -> Powers(130, 131)
          [] op \in Comparisons                                 -> Powers(120, 120)
          [] op = "logical_and"                                 -> Powers(100, 101)
          [] op = "logical_or"                                  -> Powers(90, 91)
          [] op \in Assignments                                 -> Powers(1, 0)]

Prefix ==
    [op \in Operators \cap PrefixOperators |->
        CASE op = "bitwise_not" -> 170
          [] op = "logical_not" -> 110
          [] OTHER              -> 180]

Postfix == [op \in Operators \cap PostfixOperators |-> 190]

VARIABLES
    token,  \* currentToken
    read,   \* the number of tokens before it
    calls,  \* the parse_pratt_expression() calls in progress, innermost last
    ast,    \* the nodes created so far
    status  \* "running", "done", or why the input was rejected

vars == <<token, read, calls, ast, status>>

\* The token `(` is "call", also where it only groups; `[` is "subscript".
Token == Operators \cup {")", "]", ",", "operand", "end"}

Kinds  == {"operand", "prefix", "binary", "call"}
NoNode == 0
Node == [kind : Kinds, op : Operators \cup {"operand"}, lhs : Nat, rhs : Nat,
         first : Nat, last : Nat, paren : BOOLEAN]

Stages   == {"start", "loop", "paren", "prefix", "infix", "subscript", "args"}
CallType == [min : Nat, stage : Stages, op : Token, at : Nat, lhs : Nat]
-----------------------------------------------------------------------------
Running == status = "running"
Top     == calls[Len(calls)]
Under   == SubSeq(calls, 1, Len(calls) - 1)
At(s)   == Running /\ Top.stage = s

Call(min) == [min |-> min, stage |-> "start", op |-> "operand", at |-> 0, lhs |-> NoNode]

\* get_next_token(): any token follows, and the input has an end.
Advance ==
    /\ read' = read + 1
    /\ token' \in IF read + 1 < MaxTokens THEN Token ELSE {"end"}
Keep == UNCHANGED <<token, read>>

Create(n)     == ast' = Append(ast, n)
NewNode       == Len(ast) + 1
\* This call waits at stage s, for a call with the given min_bp.
Wait(s, min)  == calls' = Under \o <<[Top EXCEPT !.stage = s, !.op = token, !.at = read + 1],
                                     Call(min)>>
\* This call has node n for its left-hand side.
Loop(n)       == calls' = Under \o <<[Top EXCEPT !.stage = "loop", !.lhs = n]>>
Reject(why)   == status' = why /\ UNCHANGED <<token, read, calls, ast>>

\* The node a call returned, to the call that now is the innermost one.
Returned == Top.lhs
Caller   == calls[Len(calls) - 1]
Resume(n) == calls' = SubSeq(calls, 1, Len(calls) - 2)
                        \o <<[Caller EXCEPT !.stage = "loop", !.lhs = n]>>
-----------------------------------------------------------------------------
(* The operand at the start of an expression *)

\* A call without arguments: the `)` is where the first would start.
EmptyCall == token = ")" /\ Len(calls) > 1 /\ Caller.stage = "args" /\ read = Caller.at

ReadOperand ==
    /\ At("start")
    /\ token = "operand"
    /\ Create([kind |-> "operand", op |-> "operand", lhs |-> NoNode, rhs |-> NoNode,
               first |-> read + 1, last |-> read + 1, paren |-> FALSE])
    /\ Loop(NewNode)
    /\ Advance
    /\ UNCHANGED status

OpenParen ==
    /\ At("start")
    /\ token = "call"
    /\ Wait("paren", 0)
    /\ Advance
    /\ UNCHANGED <<ast, status>>

ReadPrefix ==
    /\ At("start")
    /\ token \in DOMAIN Prefix
    /\ Wait("prefix", Prefix[token])
    /\ Advance
    /\ UNCHANGED <<ast, status>>

\* parse_r_value() or get_binding_power_prefix() throws.
RejectStart ==
    /\ At("start")
    /\ token \notin DOMAIN Prefix \cup {"operand", "call"}
    /\ ~EmptyCall
    /\ Reject("unexpected")
-----------------------------------------------------------------------------
(* The loop over the operators *)

TooWeak(bp) == bp < Top.min

ReadPostfix ==
    /\ At("loop")
    /\ token \in DOMAIN Postfix
    /\ ~TooWeak(Postfix[token])
    /\ Wait(IF token = "call" THEN "args" ELSE "subscript", 0)
    /\ Advance
    /\ UNCHANGED <<ast, status>>

\* Mutant: the operand on the right is read with the power on the left.
Mut_LeftPower(op) == Infix[op].lhs
RightPower(op)    == Infix[op].rhs

ReadInfix ==
    /\ At("loop")
    /\ token \in DOMAIN Infix
    /\ ~TooWeak(Infix[token].lhs)
    /\ Wait("infix", RightPower(token))
    /\ Advance
    /\ UNCHANGED <<ast, status>>

\* The operator is for a caller, or is none.
Ends ==
    \/ token \notin DOMAIN Infix \cup DOMAIN Postfix
    \/ token \in DOMAIN Postfix /\ TooWeak(Postfix[token])
    \/ token \in DOMAIN Infix /\ TooWeak(Infix[token].lhs)

Ending(s) == At("loop") /\ Ends /\ Len(calls) > 1 /\ Caller.stage = s

\* Mutant: the loop does not end at what is no operator.
Mut_NoBreak ==
    /\ At("loop")
    /\ Ends
    /\ Len(calls) = 1
    /\ UNCHANGED vars

\* The outermost call returns.
Finish ==
    /\ At("loop")
    /\ Ends
    /\ Len(calls) = 1
    /\ status' = "done"
    /\ UNCHANGED <<token, read, calls, ast>>
-----------------------------------------------------------------------------
(* What a caller does with the expression returned to it *)

CloseParen ==
    /\ Ending("paren")
    /\ token = ")"
    /\ ast' = [ast EXCEPT ![Returned] =
                 [@ EXCEPT !.first = Caller.at, !.last = read + 1, !.paren = TRUE]]
    /\ Resume(Returned)
    /\ Advance
    /\ UNCHANGED status

CompletePrefix ==
    /\ Ending("prefix")
    /\ Create([kind |-> "prefix", op |-> Caller.op, lhs |-> NoNode, rhs |-> Returned,
               first |-> Caller.at, last |-> ast[Returned].last, paren |-> FALSE])
    /\ Resume(NewNode)
    /\ Keep
    /\ UNCHANGED status

Mut_Swapped(l, op, r, last) ==
    [kind |-> "binary", op |-> op, lhs |-> r, rhs |-> l,
     first |-> ast[l].first, last |-> last, paren |-> FALSE]

Binary(l, op, r, last) ==
    [kind |-> "binary", op |-> op, lhs |-> l, rhs |-> r,
     first |-> ast[l].first, last |-> last, paren |-> FALSE]

CloseSubscript ==
    /\ Ending("subscript")
    /\ token = "]"
    /\ Create(Binary(Caller.lhs, "subscript", Returned, read + 1))
    /\ Resume(NewNode)
    /\ Advance
    /\ UNCHANGED status

NextArgument ==
    /\ Ending("args")
    /\ token = ","
    /\ calls' = Under \o <<Call(0)>>
    /\ Advance
    /\ UNCHANGED <<ast, status>>

CallOf(f, r) == [kind |-> "call", op |-> "call", lhs |-> f, rhs |-> r,
                 first |-> ast[f].first, last |-> read + 1, paren |-> FALSE]

CloseCall ==
    /\ Ending("args")
    /\ token = ")"
    /\ Create(CallOf(Caller.lhs, Returned))
    /\ Resume(NewNode)
    /\ Advance
    /\ UNCHANGED status

CloseEmptyCall ==
    /\ At("start")
    /\ EmptyCall
    /\ Create(CallOf(Caller.lhs, NoNode))
    /\ Resume(NewNode)
    /\ Advance
    /\ UNCHANGED status

\* EXPECT() throws for a missing bracket.
RejectBracket ==
    /\ \/ Ending("paren") /\ token # ")"
       \/ Ending("subscript") /\ token # "]"
       \/ Ending("args") /\ token \notin {")", ","}
    /\ Reject("unexpected")

\* The first node, from n along the operands on the left of binary ones, that
\* is not a logical_and: the node that decides whether the operator clashes.
IsBinary(n) == n # NoNode /\ ast[n].kind = "binary"
IsAnd(n)    == IsBinary(n) /\ ast[n].op = "logical_and"
Descend(n) ==
    LET f[i \in 0..Len(ast)] == IF IsAnd(i) THEN f[ast[i].lhs] ELSE i
    IN  IF IsAnd(n) THEN f[ast[n].lhs] ELSE n

\* Two operators of one power that is the same on both sides.
Clash(op, n) ==
    /\ IsBinary(Descend(n))
    /\ ast[Descend(n)].op \in DOMAIN Infix
    /\ Infix[ast[Descend(n)].op].lhs = Infix[op].rhs

\* value() of no binding power: the operator is a subscript.
NoPower(n) == IsBinary(Descend(n)) /\ ast[Descend(n)].op \notin DOMAIN Infix

CompleteInfix ==
    /\ Ending("infix")
    /\ ~Clash(Caller.op, Returned)
    /\ ~NoPower(Returned)
    /\ Create(Binary(Caller.lhs, Caller.op, Returned, ast[Returned].last))
    /\ Resume(NewNode)
    /\ Keep
    /\ UNCHANGED status

RejectClash ==
    /\ Ending("infix")
    /\ Clash(Caller.op, Returned)
    /\ Reject("same_power")

RejectSubscript ==
    /\ Ending("infix")
    /\ NoPower(Returned)
    /\ Reject("no_power")

Stopped == ~Running /\ UNCHANGED vars
-----------------------------------------------------------------------------
Init ==
    /\ token \in IF MaxTokens > 0 THEN Token ELSE {"end"}
    /\ read = 0
    /\ calls = <<Call(0)>>
    /\ ast = <<>>
    /\ status = "running"

Begin    == ReadOperand \/ OpenParen \/ ReadPrefix \/ RejectStart \/ CloseEmptyCall
Continue == ReadPostfix \/ ReadInfix \/ Finish
Complete == CloseParen \/ CompletePrefix \/ CloseSubscript \/ NextArgument \/ CloseCall
              \/ RejectBracket \/ CompleteInfix \/ RejectClash \/ RejectSubscript

Next == Begin \/ Continue \/ Complete \/ Stopped

Spec == Init /\ [][Next]_vars /\ WF_vars(Next)
-----------------------------------------------------------------------------
(* Properties *)

\* The type invariant.
TypeOK ==
    /\ token \in Token
    /\ read \in Nat
    /\ calls \in Seq(CallType)
    /\ ast \in Seq(Node)
    /\ status \in {"running", "done", "unexpected", "same_power", "no_power"}

Nodes    == 1..Len(ast)
InfixOf(n) == ast[n].kind = "binary" /\ ast[n].op \in DOMAIN Infix
Bare(n)  == ~ast[n].paren

\* The tree lists the tokens in their order and loses none: the operands of an
\* infix operator reach up to it from both sides, and the finished expression
\* is all that has been read.
SourceOrder ==
    /\ \A n \in Nodes : InfixOf(n) => ast[ast[n].lhs].last + 2 = ast[ast[n].rhs].first
    /\ \A n \in Nodes : ast[n].kind = "prefix" /\ Bare(n)
                           => ast[n].first + 1 = ast[ast[n].rhs].first
    /\ status = "done" => ast[Top.lhs].first = 1 /\ ast[Top.lhs].last = read

\* Bare nodes that begin, or end, where node n does, and are part of it.  No
\* bracket separates them from what is before, or behind, n.
Opening(n) == {m \in Nodes : Bare(m) /\ ast[m].first = ast[n].first /\ ast[m].last <= ast[n].last}
Closing(n) == {m \in Nodes : Bare(m) /\ ast[m].last = ast[n].last /\ ast[m].first >= ast[n].first}

LeftOf(m)  == IF InfixOf(m) THEN Infix[ast[m].op].lhs ELSE Postfix[ast[m].op]
RightOf(m) == IF InfixOf(m) THEN Infix[ast[m].op].rhs ELSE Prefix[ast[m].op]
HasLeft(m)  == ast[m].kind \in {"binary", "call"}
HasRight(m) == InfixOf(m) \/ ast[m].kind = "prefix"

\* The operand between two operators goes to the one that binds it tighter, at
\* any distance in the tree and whatever prefix operators stand between: on the
\* right of an operator no weaker one is part of its operand, ...
RightOperands ==
    \A n \in Nodes : HasRight(n) =>
        \A m \in Opening(ast[n].rhs) : HasLeft(m) => LeftOf(m) >= RightOf(n)

\* ... and on its left none that would have taken it.
LeftOperands ==
    \A n \in Nodes : HasLeft(n) =>
        \A m \in Closing(ast[n].lhs) : HasRight(m) => RightOf(m) > LeftOf(n)

NonAssociative(op) == op \in DOMAIN Infix /\ Infix[op].lhs = Infix[op].rhs

\* Comparisons do not associate (test PrattParser.Duplicativity): none is the
\* operand of another unless it is in parentheses, wherever it begins in it.
NoComparisonChain ==
    \A n \in Nodes : InfixOf(n) /\ NonAssociative(ast[n].op) =>
        \A m \in Opening(ast[n].rhs) \cup Closing(ast[n].lhs) :
            InfixOf(m) => ~NonAssociative(ast[m].op)

\* Every operand has the operator that its binding powers give it to
\* (pratt_parser.cpp:265, :293 and :302).
TighterOperator == RightOperands /\ LeftOperands /\ NoComparisonChain

\* Every input is accepted or rejected in the end.
Terminates == <>(~Running)

\* What is in parentheses is never rejected for the operators in it: it is an
\* operand like any other (lang.ebnf:18, parenthesis_expr).
ParenthesesSeparate ==
    status \in {"same_power", "no_power"} => Bare(Returned)
=============================================================================
