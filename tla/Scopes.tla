------------------------------- MODULE Scopes -------------------------------
(***************************************************************************)
(* The scopes of local variables while znoc parses.  stack_allocations is  *)
(* a global deque of maps; the recursive descent parser pushes a map when  *)
(* a construct with variables of its own begins and pops it when that      *)
(* construct has been read, and get_var() searches the deque from the      *)
(* front.  Here the front is the end of the sequence.                      *)
(*                                                                         *)
(* As in ControlFlow the calls in progress are a stack of records, and the *)
(* program is chosen while it is read: a call of kind "expr" is the parser *)
(* about to read an expression or a statement.                             *)
(***************************************************************************)
EXTENDS Naturals, Sequences

CONSTANTS
    Name,         \* names of arguments and local variables
    MaxFunctions, \* bound on the functions of the program
    MaxNodes,     \* bound on the optional constructs of the program
    Arms          \* the numbers of arms a switch of the program may have

ASSUME ScopesAssumption ==
    /\ MaxFunctions \in Nat
    /\ MaxNodes \in Nat
    /\ Arms \subseteq Nat

VARIABLES
    scopes,   \* stack_allocations
    calls,    \* the parse_* calls in progress, innermost last
    function, \* number of the function being read, or last read
    decls,    \* number of variables declared so far
    resolved, \* the result of the last get_var()
    nodes,    \* the optional constructs read so far
    status    \* "running", "rejected" by an exception, or why the C++ has no
              \* meaning: the deque of scopes, or a code block, was empty

vars == <<scopes, calls, function, decls, resolved, nodes, status>>

\* A variable remembers the function it was declared in; id tells variables
\* apart, and a later one has the larger id.
Variable == [fn : Nat, id : Nat]
NoVar    == [fn |-> 0, id |-> 0]
Scope    == [Name -> Variable]
NewScope == [n \in Name |-> NoVar]

Kinds  == {"expr", "operator", "let", "block", "if", "while", "switch", "func"}
Stages == {"start", "args", "default", "cond", "then", "body", "else", "arms", "arm", "end"}
CallType == [kind : Kinds, stage : Stages, name : Name \cup {""}, arms : Nat,
             outer : Seq(Scope)]
-----------------------------------------------------------------------------
Running == status = "running"
Top     == calls[Len(calls)]
Under   == SubSeq(calls, 1, Len(calls) - 1)

At(k, s) == Running /\ calls # <<>> /\ Top.kind = k /\ Top.stage = s
Choosing == At("expr", "start")

\* A call that finds the scopes s; outer remembers them.
Call(k, st, s) == [kind |-> k, stage |-> st, name |-> "", arms |-> 0, outer |-> s]
Expr(s)        == Call("expr", "start", s)

\* The current call goes on, or returns, or is replaced, as the calls cs.
Go(cs)   == calls' = Under \o cs
Return   == Go(<<>>)
Resume(st, cs) == Go(<<[Top EXCEPT !.stage = st]>> \o cs)
Optional == nodes < MaxNodes /\ nodes' = nodes + 1

\* push_new_scope()
Pushed    == Append(scopes, NewScope)
PushScope == scopes' = Pushed

\* pop_scope(); front() and pop_front() of an empty deque are undefined.
PopScope ==
    /\ scopes' = IF scopes = <<>> THEN scopes ELSE SubSeq(scopes, 1, Len(scopes) - 1)
    /\ status' = IF scopes = <<>> THEN "no_scope" ELSE status

\* Variable::create_in_scope(n), into the front scope.
Declare(n) ==
    /\ decls' = decls + 1
    /\ scopes' = IF scopes = <<>> THEN scopes
                 ELSE [scopes EXCEPT ![Len(scopes)] =
                         [@ EXCEPT ![n] = [fn |-> function, id |-> decls + 1]]]
    /\ status' = IF scopes = <<>> THEN "no_scope" ELSE status

\* Mutant: the deque is searched from the back.
Mut_OutermostFirst(n) ==
    LET having == {i \in 1..Len(scopes) : scopes[i][n] # NoVar}
    IN  IF having = {} THEN NoVar
        ELSE scopes[CHOOSE i \in having : \A j \in having : i <= j][n]

\* get_var(n): the first scope from the front that has the name.
GetVar(n) ==
    LET having == {i \in 1..Len(scopes) : scopes[i][n] # NoVar}
    IN  IF having = {} THEN NoVar
        ELSE scopes[CHOOSE i \in having : \A j \in having : j <= i][n]
-----------------------------------------------------------------------------
(* Expressions *)

ParseLiteral ==
    /\ Choosing
    /\ Return
    /\ UNCHANGED <<scopes, function, decls, resolved, nodes, status>>

ParseIdentifier ==
    /\ Choosing
    /\ \E n \in Name : resolved' = GetVar(n)
    /\ Return
    /\ UNCHANGED <<scopes, function, decls, nodes, status>>

\* An operator or a call, or a return or break with a value: the operands are
\* read one after the other.
ParseOperator ==
    /\ Choosing
    /\ Optional
    /\ Go(<<Call("operator", "cond", scopes), Expr(scopes)>>)
    /\ UNCHANGED <<scopes, function, decls, resolved, status>>

NextOperand ==
    /\ At("operator", "cond")
    /\ Optional
    /\ Resume("cond", <<Expr(scopes)>>)
    /\ UNCHANGED <<scopes, function, decls, resolved, status>>

EndOperator ==
    /\ At("operator", "cond")
    /\ Return
    /\ UNCHANGED <<scopes, function, decls, resolved, nodes, status>>

\* `let n: type` creates the variable at once.
ParseLet ==
    /\ Choosing
    /\ Optional
    /\ \E n \in Name : Declare(n)
    /\ Return
    /\ UNCHANGED <<function, resolved>>

\* `let n = value` creates it when the value has been read.
ParseLetValue ==
    /\ Choosing
    /\ Optional
    /\ \E n \in Name :
          Go(<<[Call("let", "cond", scopes) EXCEPT !.name = n], Expr(scopes)>>)
    /\ UNCHANGED <<scopes, function, decls, resolved, status>>

EndLet ==
    /\ At("let", "cond")
    /\ Declare(Top.name)
    /\ Return
    /\ UNCHANGED <<function, resolved, nodes>>
-----------------------------------------------------------------------------
(* Code blocks *)

\* parse_code_block(), called last by a step that leaves the calls cs behind.
\* It pushes a scope and reads the statements; a block without any reaches
\* body.back() of an empty vector.
CodeBlock(cs) ==
    /\ PushScope
    /\ \/ /\ Go(cs \o <<Call("block", "body", scopes), Expr(Pushed)>>)
          /\ UNCHANGED status
       \/ /\ Go(cs)
          /\ status' = "empty_block"

ParseBlock ==
    /\ Choosing
    /\ Optional
    /\ CodeBlock(<<>>)
    /\ UNCHANGED <<function, decls, resolved>>

NextStatement ==
    /\ At("block", "body")
    /\ Optional
    /\ Resume("body", <<Expr(scopes)>>)
    /\ UNCHANGED <<scopes, function, decls, resolved, status>>

EndBlock ==
    /\ At("block", "body")
    /\ PopScope
    /\ Return
    /\ UNCHANGED <<function, decls, resolved, nodes>>
-----------------------------------------------------------------------------
(* if, while *)

\* The scope of an if holds what its condition declares.
ParseIf ==
    /\ Choosing
    /\ Optional
    /\ PushScope
    /\ Go(<<Call("if", "cond", scopes), Expr(Pushed)>>)
    /\ UNCHANGED <<function, decls, resolved, status>>

IfCondDone ==
    /\ At("if", "cond")
    /\ CodeBlock(<<[Top EXCEPT !.stage = "then"]>>)
    /\ UNCHANGED <<function, decls, resolved, nodes>>

\* Mutant: the scope of the condition is left open for the else clause.
Mut_ConditionLeftOpen ==
    /\ At("if", "then")
    /\ Resume("end", <<>>)
    /\ UNCHANGED <<scopes, function, decls, resolved, nodes, status>>

\* The scope is popped before the else clause is read.
IfThenDone ==
    /\ At("if", "then")
    /\ PopScope
    /\ Resume("end", <<>>)
    /\ UNCHANGED <<function, decls, resolved, nodes>>

ParseElse ==
    /\ At("if", "end")
    /\ Optional
    /\ CodeBlock(<<[Top EXCEPT !.stage = "else"]>>)
    /\ UNCHANGED <<function, decls, resolved>>

\* `else if`: both keywords are skipped, and parse_if_def() then throws because
\* it expects the `if` itself.
RejectElseIf ==
    /\ At("if", "end")
    /\ Optional
    /\ status' = "rejected"
    /\ UNCHANGED <<scopes, calls, function, decls, resolved>>

\* It does find one in `else if if`.
ParseElseIf ==
    /\ At("if", "end")
    /\ Optional
    /\ PushScope
    /\ Resume("else", <<Call("if", "cond", scopes), Expr(Pushed)>>)
    /\ UNCHANGED <<function, decls, resolved, status>>

\* Mutant: the scope of the if is popped again when there is an else clause.
Mut_ElsePops ==
    /\ At("if", "end") \/ At("if", "else")
    /\ IF Top.stage = "else" THEN PopScope ELSE UNCHANGED <<scopes, status>>
    /\ Return
    /\ UNCHANGED <<function, decls, resolved, nodes>>

EndIf ==
    /\ At("if", "end") \/ At("if", "else")
    /\ Return
    /\ UNCHANGED <<scopes, function, decls, resolved, nodes, status>>

ParseWhile ==
    /\ Choosing
    /\ Optional
    /\ PushScope
    /\ Go(<<Call("while", "cond", scopes), Expr(Pushed)>>)
    /\ UNCHANGED <<function, decls, resolved, status>>

WhileCondDone ==
    /\ At("while", "cond")
    /\ CodeBlock(<<[Top EXCEPT !.stage = "body"]>>)
    /\ UNCHANGED <<function, decls, resolved, nodes>>

EndWhile ==
    /\ At("while", "body")
    /\ PopScope
    /\ Return
    /\ UNCHANGED <<function, decls, resolved, nodes>>
-----------------------------------------------------------------------------
(* switch: one scope is pushed for the whole of it, one is popped after each *)
(* arm, be it a case or the default.                                        *)

ParseSwitch ==
    /\ Choosing
    /\ Optional
    /\ PushScope
    /\ Go(<<Call("switch", "cond", scopes), Expr(Pushed)>>)
    /\ UNCHANGED <<function, decls, resolved, status>>

SwitchCondDone ==
    /\ At("switch", "cond")
    /\ \E n \in Arms : Go(<<[Top EXCEPT !.stage = "arms", !.arms = n]>>)
    /\ UNCHANGED <<scopes, function, decls, resolved, nodes, status>>

\* Mutant: the loop over the arms does not look for the closing brace.
Mut_NoClosingBrace ==
    /\ At("switch", "arms")
    /\ CodeBlock(<<[Top EXCEPT !.stage = "arm", !.arms = @ - 1]>>)
    /\ UNCHANGED <<function, decls, resolved, nodes>>

ParseArm ==
    /\ At("switch", "arms")
    /\ Top.arms > 0
    /\ CodeBlock(<<[Top EXCEPT !.stage = "arm", !.arms = @ - 1]>>)
    /\ UNCHANGED <<function, decls, resolved, nodes>>

ArmDone ==
    /\ At("switch", "arm")
    /\ PopScope
    /\ Resume("arms", <<>>)
    /\ UNCHANGED <<function, decls, resolved, nodes>>

EndSwitch ==
    /\ At("switch", "arms")
    /\ Top.arms = 0
    /\ Return
    /\ UNCHANGED <<scopes, function, decls, resolved, nodes, status>>
-----------------------------------------------------------------------------
(* Functions *)

ParseFunction ==
    /\ Running
    /\ calls = <<>>
    /\ function < MaxFunctions
    /\ function' = function + 1
    /\ PushScope
    /\ calls' = <<Call("func", "args", scopes)>>
    /\ UNCHANGED <<decls, resolved, nodes, status>>

\* An argument, self, or the variadic list and its count.
ParseArgument ==
    /\ At("func", "args")
    /\ Optional
    /\ \E n \in Name : Declare(n)
    /\ Resume("args", <<>>)
    /\ UNCHANGED <<function, resolved>>

\* An argument whose default value is read before the argument is declared.
ParseDefault ==
    /\ At("func", "args")
    /\ Optional
    /\ \E n \in Name :
          Go(<<[Top EXCEPT !.stage = "default", !.name = n], Expr(scopes)>>)
    /\ UNCHANGED <<scopes, function, decls, resolved, status>>

DefaultDone ==
    /\ At("func", "default")
    /\ Declare(Top.name)
    /\ Resume("args", <<>>)
    /\ UNCHANGED <<function, resolved, nodes>>

ParseFunctionBody ==
    /\ At("func", "args")
    /\ CodeBlock(<<[Top EXCEPT !.stage = "body"]>>)
    /\ UNCHANGED <<function, decls, resolved, nodes>>

\* A prototype ends at once, a function with a body after it.
EndFunction ==
    /\ At("func", "args") \/ At("func", "body")
    /\ PopScope
    /\ Return
    /\ UNCHANGED <<function, decls, resolved, nodes>>

\* The end of the file, or the end of the compiler before it.
Stopped ==
    /\ ~Running \/ (calls = <<>> /\ function = MaxFunctions)
    /\ UNCHANGED vars
-----------------------------------------------------------------------------
\* main() pushes the root scope.
Init ==
    /\ scopes = <<NewScope>>
    /\ calls = <<>>
    /\ function = 0
    /\ decls = 0
    /\ resolved = NoVar
    /\ nodes = 0
    /\ status = "running"

Expression == ParseLiteral \/ ParseIdentifier \/ ParseOperator \/ NextOperand
                \/ EndOperator \/ ParseLet \/ ParseLetValue \/ EndLet
Block      == ParseBlock \/ NextStatement \/ EndBlock
If         == ParseIf \/ IfCondDone \/ IfThenDone \/ ParseElse \/ RejectElseIf
                \/ ParseElseIf \/ EndIf
While      == ParseWhile \/ WhileCondDone \/ EndWhile
Switch     == ParseSwitch \/ SwitchCondDone \/ ParseArm \/ ArmDone \/ EndSwitch
Function   == ParseFunction \/ ParseArgument \/ ParseDefault \/ DefaultDone
                \/ ParseFunctionBody \/ EndFunction

Next == Expression \/ Block \/ If \/ While \/ Switch \/ Function \/ Stopped

Spec == Init /\ [][Next]_vars
-----------------------------------------------------------------------------
(* Properties *)

\* The type invariant.
TypeOK ==
    /\ scopes \in Seq(Scope)
    /\ calls \in Seq(CallType)
    /\ function \in Nat
    /\ decls \in Nat
    /\ resolved \in Variable
    /\ nodes \in Nat
    /\ status \in {"running", "rejected", "no_scope", "empty_block"}

\* The constructs that have a scope of their own.
Scoped == {"block", "if", "while", "switch", "func"}

\* While a construct is being read, the scopes that were open when it began are
\* below its own, with the variables they had: whatever is nested in it, it
\* neither closes nor writes to the scope of a construct around it.
OuterScopesKept ==
    Running => \A i \in 1..Len(calls) : calls[i].kind \in Scoped =>
        /\ Len(calls[i].outer) <= Len(scopes)
        /\ SubSeq(scopes, 1, Len(calls[i].outer)) = calls[i].outer

\* When a construct has been read, the scopes are those it found.
ScopesRestored ==
    [][status' = "running" /\ Len(calls') < Len(calls) /\ Top.kind \in Scoped
         => scopes' = Top.outer]_vars

\* A local variable is visible in no other function than its own, and between
\* functions only the root scope is open, with nothing in it.
LocalToFunction ==
    Running =>
        /\ \A i \in 1..Len(scopes) : \A n \in Name :
              scopes[i][n] # NoVar => scopes[i][n].fn = function /\ calls # <<>>
        /\ calls = <<>> => Len(scopes) = 1

\* A name means its most recent declaration among the open ones, although an
\* inner `let` may be read before the outer one it is the value of is declared.
MostRecentDeclaration ==
    Running => \A n \in Name : \A i \in 1..Len(scopes) : scopes[i][n].id <= GetVar(n).id

\* What a name means is decided by the deque alone (variable.cpp:82): it is the most
\* recent declaration, and of the same function.
NamesResolved == LocalToFunction /\ MostRecentDeclaration
=============================================================================
