---------------------------- MODULE ControlFlow ----------------------------
(***************************************************************************)
(* Code generation of znoc: how the AST nodes of src/constructions turn    *)
(* functions into LLVM basic blocks.                                       *)
(*                                                                         *)
(* The C++ is a set of mutually recursive codegen() methods.  Their call   *)
(* stack is the variable frames: one record per call in progress, whose    *)
(* stage says which part of the node its callee is generating.  A frame of *)
(* kind "expr" or "stmt" is a call whose node is still to be chosen, so    *)
(* that the compiled program is picked while it is being compiled; the     *)
(* bounds MaxNodes and MaxArms make it finite.  Types, names and the text  *)
(* of instructions are abstracted: an instruction is its opcode and the    *)
(* blocks it names, and a run of ordinary instructions is a single "op".   *)
(***************************************************************************)
EXTENDS Naturals, Sequences

CONSTANTS
    Function,      \* the functions of the program
    Externs,       \* the functions declared without a body
    Variadic,      \* the functions with a `name: ...` argument
    VaInit,        \* VariadicIterator::init, called on entry to a variadic one
    Globals,       \* the functions a namespace holds (the others are members)
    Constructs,    \* the constructs the program uses
    MaxNodes,      \* bound on the optional AST nodes of the program
    MaxArms,       \* bound on the `case` arms of one switch
    LexicalBreaks, \* break and continue occur inside a loop of their function
    NestedLoops    \* a loop may be generated while another one is

AllConstructs == {"use", "call", "block", "if", "while", "switch",
                  "return", "break", "continue", "fallthrough"}

ASSUME FunctionAssumption ==
    /\ Externs \subseteq Function
    /\ Globals \subseteq Function
    /\ Variadic \subseteq Function \ Externs
    /\ VaInit \in Function \ (Externs \cup Variadic)

ASSUME BoundAssumption ==
    /\ MaxNodes \in Nat
    /\ MaxArms \in Nat
    /\ LexicalBreaks \in BOOLEAN
    /\ NestedLoops \in BOOLEAN
    /\ Constructs \subseteq AllConstructs

VARIABLES
    code,      \* the instructions of every basic block, by block number
    layout,    \* the block list of every llvm::Function
    insert,    \* the insertion point of every function's IRBuilder
    mergeBB,   \* the global mergeBB: where a break jumps to
    condBB,    \* the global condBB: where a continue jumps to
    frames,    \* the codegen() calls in progress, innermost last
    ret,       \* whether the value last returned was a null pointer
    allocated, \* the functions whose allocaV is set
    nodes,     \* the optional AST nodes generated so far
    status     \* whether the compiler runs, is done or broke an LLVM contract

vars == <<code, layout, insert, mergeBB, condBB, frames, ret, allocated,
          nodes, status>>

NoBlock == 0
BlockId == Nat \ {NoBlock}

Jumps       == {"br", "break", "continue", "fallthrough"}
Terminators == Jumps \cup {"condbr", "switch", "ret"}
Inst == [op : Terminators \cup {"op", "phi"}, to : SUBSET Nat]

Kinds  == {"expr", "stmt", "use", "block", "if", "while", "switch",
           "return", "break", "func"}
Stages == {"start", "init", "body", "cond", "then", "else", "arms", "arm",
           "default"}
FrameType == [kind : Kinds, stage : Stages, fn : Function,
              cond : Nat, body : Nat, alt : Nat, merge : Nat, post : Nat,
              val : {"value", "null"}, arms : Seq(Nat)]
-----------------------------------------------------------------------------
(* The call stack. *)

Mut_ValueUnset(k, s, f) ==
    [kind |-> k, stage |-> s, fn |-> f, cond |-> NoBlock, body |-> NoBlock,
     alt |-> NoBlock, merge |-> NoBlock, post |-> NoBlock,
     val |-> "unset", arms |-> <<>>]

Frame(k, s, f) ==
    [kind |-> k, stage |-> s, fn |-> f, cond |-> NoBlock, body |-> NoBlock,
     alt |-> NoBlock, merge |-> NoBlock, post |-> NoBlock,
     val |-> "value", arms |-> <<>>]

Running == status = "running"
Top     == frames[Len(frames)]
Under   == SubSeq(frames, 1, Len(frames) - 1)

At(k, s) == Running /\ frames # <<>> /\ Top.kind = k /\ Top.stage = s

\* A call whose node is still to be chosen.
Choosing == Running /\ frames # <<>> /\ Top.kind \in {"expr", "stmt"}
Stating  == Running /\ frames # <<>> /\ Top.kind = "stmt"

\* The node c is one the program uses and the bound still allows.
Optional(c) == c \in Constructs /\ nodes < MaxNodes /\ nodes' = nodes + 1

\* The calls codegen() makes on a code block: its first statement is never
\* missing, the parser having read at least one.
Block(f) == <<Frame("block", "body", f), Frame("stmt", "start", f)>>
Expr(f)  == <<Frame("expr", "start", f)>>

\* The current call goes on as frame fr while the calls cs are made.
Call(fr, cs) == frames' = Under \o <<fr>> \o cs
Return(v)    == frames' = Under /\ ret' = v
-----------------------------------------------------------------------------
(* Blocks and the IRBuilder. *)

OpInst == [op |-> "op", to |-> {}]
Empty  == <<>>

IP == insert[Top.fn]
New(i) == Len(code) + i

\* BasicBlock::getTerminator(): the last instruction, when it is one.
Terminated(c, b) == c[b] # <<>> /\ c[b][Len(c[b])].op \in Terminators

Emit(c, b, i) == [c EXCEPT ![b] = Append(@, i)]
EmitOp(c, b)  ==
    IF c[b] # <<>> /\ c[b][Len(c[b])].op = "op" THEN c ELSE Emit(c, b, OpInst)

\* if (!GetInsertBlock()->getTerminator()) CreateBr(t)
Branch(c, b, tag, t) ==
    IF Terminated(c, b) \/ t = NoBlock
    THEN c
    ELSE Emit(c, b, [op |-> tag, to |-> {t}])

NullBranch(t) == t = NoBlock /\ ~Terminated(code, IP)

\* getBasicBlockList().push_back(b), for every b of the sequence bs.
Attach(bs)      == layout' = [layout EXCEPT ![Top.fn] = @ \o bs]
SetInsertPoint(b) == insert' = [insert EXCEPT ![Top.fn] = b]

BlocksOf(f) == {layout[f][i] : i \in 1..Len(layout[f])}

UseValue == status' = IF ret = "null" THEN "null_value" ELSE status
-----------------------------------------------------------------------------
(* Leaves, operands and code blocks. *)

\* A literal, or the slot of a variable: its load is a use of that.
GenLeaf ==
    /\ Choosing
    /\ Return("value")
    /\ UNCHANGED <<code, layout, insert, mergeBB, condBB, allocated, nodes, status>>

\* An instruction with operands: a load, a call, an operator, `let x = e`.
BeginUse ==
    /\ Choosing
    /\ Optional("use")
    /\ Call(Frame("use", "cond", Top.fn), Expr(Top.fn))
    /\ UNCHANGED <<code, layout, insert, mergeBB, condBB, ret, allocated, status>>

Operand == IF ret = "null" THEN "null" ELSE Top.val

NextOperand ==
    /\ At("use", "cond")
    /\ Optional("use")
    /\ Call([Top EXCEPT !.val = Operand], Expr(Top.fn))
    /\ UNCHANGED <<code, layout, insert, mergeBB, condBB, ret, allocated, status>>

EndUse ==
    /\ At("use", "cond")
    /\ code' = EmitOp(code, IP)
    /\ status' = IF Operand = "null" THEN "null_value" ELSE status
    /\ Return("value")
    /\ UNCHANGED <<layout, insert, mergeBB, condBB, allocated, nodes>>

BeginBlock ==
    /\ Choosing
    /\ Optional("block")
    /\ frames' = Under \o Block(Top.fn)
    /\ UNCHANGED <<code, layout, insert, mergeBB, condBB, ret, allocated, status>>

NextStatement ==
    /\ At("block", "body")
    /\ nodes < MaxNodes
    /\ nodes' = nodes + 1
    /\ frames' = Append(frames, Frame("stmt", "start", Top.fn))
    /\ UNCHANGED <<code, layout, insert, mergeBB, condBB, ret, allocated, status>>

\* The block's value is that of its last statement.
EndBlock ==
    /\ At("block", "body")
    /\ Return(ret)
    /\ UNCHANGED <<code, layout, insert, mergeBB, condBB, allocated, nodes, status>>
-----------------------------------------------------------------------------
(* if *)

BeginIf ==
    /\ Choosing
    /\ Optional("if")
    /\ Call(Frame("if", "cond", Top.fn), Expr(Top.fn))
    /\ UNCHANGED <<code, layout, insert, mergeBB, condBB, ret, allocated, status>>

\* ThenBB, ElseBB and MergeBB are created; only ThenBB is attached.
IfCondDone ==
    /\ At("if", "cond")
    /\ UseValue
    /\ code' = Emit(code, IP, [op |-> "condbr", to |-> {New(1), New(2)}])
                 \o <<Empty, Empty, Empty>>
    /\ Attach(<<New(1)>>)
    /\ SetInsertPoint(New(1))
    /\ Call([Top EXCEPT !.stage = "then", !.alt = New(2), !.merge = New(3)],
            Block(Top.fn))
    /\ UNCHANGED <<mergeBB, condBB, ret, allocated, nodes>>

\* The else clause is a code block or another if (parse_if_def reads that one
\* when the keyword is written twice, `else if if`).
ElseClause(f) ==
    {Block(f), <<Frame("if", "cond", f)>> \o Expr(f)}

IfThenDoneElse ==
    /\ At("if", "then")
    /\ Optional("if")
    /\ code' = Branch(code, IP, "br", Top.merge)
    /\ Attach(<<Top.alt>>)
    /\ SetInsertPoint(Top.alt)
    /\ \E cs \in ElseClause(Top.fn) :
          Call([Top EXCEPT !.stage = "else", !.post = IP, !.val = ret], cs)
    /\ UNCHANGED <<mergeBB, condBB, ret, allocated, status>>

IfThenDone ==
    /\ At("if", "then")
    /\ code' = Branch(Branch(code, IP, "br", Top.merge), Top.alt, "br", Top.merge)
    /\ Attach(<<Top.alt, Top.merge>>)
    /\ SetInsertPoint(Top.merge)
    /\ Return(ret)
    /\ UNCHANGED <<mergeBB, condBB, allocated, nodes, status>>

\* The incoming blocks of the phi: where the two clauses ended.
Mut_ElseStart == {Top.post, Top.alt}
Incoming      == {Top.post, IP}

IfElseDone ==
    /\ At("if", "else")
    /\ code' = Emit(Branch(code, IP, "br", Top.merge), Top.merge,
                    [op |-> "phi", to |-> Incoming])
    /\ status' = IF "null" \in {Top.val, ret} THEN "null_value" ELSE status
    /\ Attach(<<Top.merge>>)
    /\ SetInsertPoint(Top.merge)
    /\ Return("value")
    /\ UNCHANGED <<mergeBB, condBB, allocated, nodes>>
-----------------------------------------------------------------------------
(* while: its targets are published in the globals condBB and mergeBB.  The *)
(* fields cond and merge of the frame only remember which they were.       *)

InLoop(f)  == \E i \in 1..Len(frames) : frames[i].kind = "while" /\ frames[i].fn = f
AnyLoop    == \E i \in 1..Len(frames) : frames[i].kind = "while"

\* Mutant: the targets of a loop around this one stay.
Mut_OuterTargets(c, m) ==
    IF AnyLoop THEN UNCHANGED <<condBB, mergeBB>> ELSE condBB' = c /\ mergeBB' = m
SetTargets(c, m) == condBB' = c /\ mergeBB' = m

LoopBlocks == <<New(1), New(2), New(3)>>

BeginWhile ==
    /\ Choosing
    /\ NestedLoops \/ ~AnyLoop
    /\ Optional("while")
    /\ SetTargets(New(1), New(3))
    /\ code' = Branch(code, IP, "br", New(1)) \o <<Empty, Empty, Empty>>
    /\ Attach(LoopBlocks)
    /\ SetInsertPoint(New(1))
    /\ Call([Frame("while", "cond", Top.fn) EXCEPT
               !.cond = New(1), !.body = New(2), !.merge = New(3)],
            Expr(Top.fn))
    /\ UNCHANGED <<ret, allocated, status>>

\* CreateCondBr reads the global mergeBB again, with no guard.
WhileCondDone ==
    /\ At("while", "cond")
    /\ code' = Emit(code, IP, [op |-> "condbr", to |-> {Top.body, mergeBB}])
    /\ status' = CASE mergeBB = NoBlock -> "null_block"
                   [] mergeBB # NoBlock /\ ret = "null" -> "null_value"
                   [] OTHER -> status
    /\ SetInsertPoint(Top.body)
    /\ Call([Top EXCEPT !.stage = "body"], Block(Top.fn))
    /\ UNCHANGED <<layout, mergeBB, condBB, ret, allocated, nodes>>

Mut_TargetsKept == UNCHANGED <<condBB, mergeBB>>
ClearTargets    == condBB' = NoBlock /\ mergeBB' = NoBlock

WhileBodyDone ==
    /\ At("while", "body")
    /\ code' = Branch(code, IP, "br", condBB)
    /\ status' = IF NullBranch(condBB) \/ mergeBB = NoBlock
                 THEN "null_block" ELSE status
    /\ insert' = IF mergeBB = NoBlock
                 THEN insert ELSE [insert EXCEPT ![Top.fn] = mergeBB]
    /\ ClearTargets
    /\ Return(ret)
    /\ UNCHANGED <<layout, allocated, nodes>>
-----------------------------------------------------------------------------
(* switch *)

\* DefaultBB and MergeBB are created before the expression is generated.
BeginSwitch ==
    /\ Choosing
    /\ Optional("switch")
    /\ code' = code \o <<Empty, Empty>>
    /\ Call([Frame("switch", "cond", Top.fn) EXCEPT
               !.alt = New(1), !.merge = New(2)],
            Expr(Top.fn))
    /\ UNCHANGED <<layout, insert, mergeBB, condBB, ret, allocated, status>>

\* The n body blocks are attached together, before any arm is generated.
SwitchCondDone ==
    /\ At("switch", "cond")
    /\ UseValue
    /\ \E n \in 0..MaxArms :
          LET arms == [i \in 1..n |-> New(i)]
          IN  /\ nodes + n <= MaxNodes
              /\ nodes' = nodes + n
              /\ code' = Emit(code, IP, [op |-> "switch",
                               to |-> {Top.alt} \cup {New(i) : i \in 1..n}])
                           \o [i \in 1..n |-> Empty]
              /\ Attach(arms)
              /\ Call([Top EXCEPT !.stage = "arms", !.arms = arms], <<>>)
    /\ UNCHANGED <<insert, mergeBB, condBB, ret, allocated>>

Mut_ArmInPlace ==
    /\ At("switch", "arms")
    /\ Top.arms # <<>>
    /\ Call([Top EXCEPT !.stage = "arm", !.arms = Tail(@)], Block(Top.fn))
    /\ UNCHANGED <<code, layout, insert, mergeBB, condBB, ret, allocated, nodes, status>>

SwitchArm ==
    /\ At("switch", "arms")
    /\ Top.arms # <<>>
    /\ SetInsertPoint(Head(Top.arms))
    /\ Call([Top EXCEPT !.stage = "arm", !.arms = Tail(@)], Block(Top.fn))
    /\ UNCHANGED <<code, layout, mergeBB, condBB, ret, allocated, nodes, status>>

Mut_ArmLeftOpen ==
    /\ At("switch", "arm")
    /\ Call([Top EXCEPT !.stage = "arms"], <<>>)
    /\ UNCHANGED <<code, layout, insert, mergeBB, condBB, ret, allocated, nodes, status>>

SwitchArmDone ==
    /\ At("switch", "arm")
    /\ code' = Branch(code, IP, "br", Top.merge)
    /\ Call([Top EXCEPT !.stage = "arms"], <<>>)
    /\ UNCHANGED <<layout, insert, mergeBB, condBB, ret, allocated, nodes, status>>

\* DefaultBB is attached after the arms, whether or not there is a body for it.
SwitchDefault ==
    /\ At("switch", "arms")
    /\ Top.arms = <<>>
    /\ Attach(<<Top.alt>>)
    /\ SetInsertPoint(Top.alt)
    /\ \E body \in {<<>>, Block(Top.fn)} :
          Call([Top EXCEPT !.stage = "default"], body)
    /\ UNCHANGED <<code, mergeBB, condBB, ret, allocated, nodes, status>>

EndSwitch ==
    /\ At("switch", "default")
    /\ code' = Branch(code, IP, "br", Top.merge)
    /\ Attach(<<Top.merge>>)
    /\ SetInsertPoint(Top.merge)
    /\ Return("value")
    /\ UNCHANGED <<mergeBB, condBB, allocated, nodes, status>>
-----------------------------------------------------------------------------
(* return, break, continue, fallthrough *)

\* No value, or a value that is skipped because the block has a terminator.
GenReturn ==
    /\ Stating
    /\ "return" \in Constructs
    /\ code' = IF Terminated(code, IP)
               THEN code ELSE Emit(code, IP, [op |-> "ret", to |-> {}])
    /\ Return("value")
    /\ UNCHANGED <<layout, insert, mergeBB, condBB, allocated, nodes, status>>

BeginReturn ==
    /\ Stating
    /\ "return" \in Constructs
    /\ ~Terminated(code, IP)
    /\ Call(Frame("return", "cond", Top.fn), Expr(Top.fn))
    /\ UNCHANGED <<code, layout, insert, mergeBB, condBB, ret, allocated, nodes, status>>

\* CreateRet follows the value, wherever its code ended; a null value is
\* accepted and makes a `ret void`.
EndReturn ==
    /\ At("return", "cond")
    /\ code' = Emit(code, IP, [op |-> "ret", to |-> {}])
    /\ Return("value")
    /\ UNCHANGED <<layout, insert, mergeBB, condBB, allocated, nodes, status>>

MayLeaveLoop == LexicalBreaks => InLoop(Top.fn)

Jump(tag, t) ==
    /\ code' = Branch(code, IP, tag, t)
    /\ status' = IF NullBranch(t) THEN "null_block" ELSE status

GenBreak ==
    /\ Stating
    /\ "break" \in Constructs
    /\ MayLeaveLoop
    /\ Jump("break", mergeBB)
    /\ Return("null")
    /\ UNCHANGED <<layout, insert, mergeBB, condBB, allocated, nodes>>

BeginBreak ==
    /\ Stating
    /\ "break" \in Constructs
    /\ MayLeaveLoop
    /\ Call(Frame("break", "cond", Top.fn), Expr(Top.fn))
    /\ UNCHANGED <<code, layout, insert, mergeBB, condBB, ret, allocated, nodes, status>>

\* The target is read after the value has been generated.
EndBreak ==
    /\ At("break", "cond")
    /\ Jump("break", mergeBB)
    /\ Return(ret)
    /\ UNCHANGED <<layout, insert, mergeBB, condBB, allocated, nodes>>

GenContinue ==
    /\ Stating
    /\ "continue" \in Constructs
    /\ MayLeaveLoop
    /\ Jump("continue", condBB)
    /\ Return("value")
    /\ UNCHANGED <<layout, insert, mergeBB, condBB, allocated, nodes>>

\* The block after b in the block list, or b itself when b is the last.
NextBlock(f, b) ==
    LET before == {i \in 1..(Len(layout[f]) - 1) : layout[f][i] = b}
    IN  IF before = {} THEN b ELSE layout[f][1 + CHOOSE i \in before : TRUE]

GenFallthrough ==
    /\ Stating
    /\ "fallthrough" \in Constructs
    /\ Jump("fallthrough", NextBlock(Top.fn, IP))
    /\ Return("value")
    /\ UNCHANGED <<layout, insert, mergeBB, condBB, allocated, nodes>>
-----------------------------------------------------------------------------
(* Functions *)

Mut_AllocatedLate(f, rest) ==
    /\ code' = code \o <<Empty>>
    /\ layout' = [layout EXCEPT ![f] = @ \o <<New(1)>>]
    /\ insert' = [insert EXCEPT ![f] = New(1)]
    /\ frames' = rest \o <<Frame("func", "body", f)>> \o Block(f)
    /\ UNCHANGED <<mergeBB, condBB, ret, allocated, nodes, status>>

\* codegen_prototype() and, with a body, the entry block and the IRBuilder of
\* the function; rest is the stack its codegen() returns to.
EnterFunction(f, rest) ==
    /\ allocated' = allocated \cup {f}
    /\ code' = code \o <<Empty>>
    /\ layout' = [layout EXCEPT ![f] = @ \o <<New(1)>>]
    /\ insert' = [insert EXCEPT ![f] = New(1)]
    /\ frames' = rest \o IF f \in Variadic
                         THEN <<Frame("func", "init", f)>>
                         ELSE <<Frame("func", "body", f)>> \o Block(f)
    /\ UNCHANGED <<mergeBB, condBB, ret, nodes, status>>

DeclareExtern(f, rest) ==
    /\ allocated' = allocated \cup {f}
    /\ frames' = rest
    /\ ret' = "value"
    /\ UNCHANGED <<code, layout, insert, mergeBB, condBB, nodes, status>>

\* if (allocaV) return allocaV
Memo(f, rest) ==
    /\ f \in allocated
    /\ frames' = rest
    /\ ret' = "value"
    /\ UNCHANGED <<code, layout, insert, mergeBB, condBB, allocated, nodes, status>>

Mut_NoMemo(f, rest) ==
    \/ f \in Externs /\ DeclareExtern(f, rest)
    \/ f \notin Externs /\ EnterFunction(f, rest)

GenFunction(f, rest) ==
    \/ Memo(f, rest)
    \/ f \notin allocated /\ f \in Externs /\ DeclareExtern(f, rest)
    \/ f \notin allocated /\ f \notin Externs /\ EnterFunction(f, rest)

\* A reference to a function generates it first.
GenReference ==
    /\ Choosing
    /\ "call" \in Constructs
    /\ \E f \in Function : GenFunction(f, Under)

\* The entry of a variadic function calls VariadicIterator::init, generating
\* it if need be.
EnterVaInit ==
    /\ At("func", "init")
    /\ VaInit \notin allocated
    /\ EnterFunction(VaInit, frames)

EndVaInit ==
    /\ At("func", "init")
    /\ VaInit \in allocated
    /\ code' = EmitOp(code, IP)
    /\ Call([Top EXCEPT !.stage = "body"], Block(Top.fn))
    /\ UNCHANGED <<layout, insert, mergeBB, condBB, ret, allocated, nodes, status>>

\* The calls of vaend come before the `ret void` of a body that has no return.
Epilogue == IF Top.fn \in Variadic THEN EmitOp(code, IP) ELSE code

EndFunction ==
    /\ At("func", "body")
    /\ code' = IF Terminated(Epilogue, IP)
               THEN Epilogue ELSE Emit(Epilogue, IP, [op |-> "ret", to |-> {}])
    /\ Return("value")
    /\ UNCHANGED <<layout, insert, mergeBB, condBB, allocated, nodes, status>>

\* Namespace::codegen() visits the functions of the namespaces.
CodegenRoot ==
    /\ Running
    /\ frames = <<>>
    /\ \E f \in Globals \ allocated : GenFunction(f, <<>>)

Finish ==
    /\ Running
    /\ frames = <<>>
    /\ Globals \subseteq allocated
    /\ status' = "done"
    /\ UNCHANGED <<code, layout, insert, mergeBB, condBB, frames, ret, allocated, nodes>>

Stopped == ~Running /\ UNCHANGED vars
-----------------------------------------------------------------------------
Init ==
    /\ code = <<>>
    /\ layout = [f \in Function |-> <<>>]
    /\ insert = [f \in Function |-> NoBlock]
    /\ mergeBB = NoBlock
    /\ condBB = NoBlock
    /\ frames = <<>>
    /\ ret = "value"
    /\ allocated = {}
    /\ nodes = 0
    /\ status = "running"

Expression == GenLeaf \/ BeginUse \/ NextOperand \/ EndUse \/ GenReference
CodeBlock  == BeginBlock \/ NextStatement \/ EndBlock
IfDef      == BeginIf \/ IfCondDone \/ IfThenDoneElse \/ IfThenDone \/ IfElseDone
WhileDef   == BeginWhile \/ WhileCondDone \/ WhileBodyDone
SwitchDef  == BeginSwitch \/ SwitchCondDone \/ SwitchArm \/ SwitchArmDone
                \/ SwitchDefault \/ EndSwitch
Leaving    == GenReturn \/ BeginReturn \/ EndReturn \/ GenBreak \/ BeginBreak
                \/ EndBreak \/ GenContinue \/ GenFallthrough
Functions  == EnterVaInit \/ EndVaInit \/ EndFunction \/ CodegenRoot

Next == Expression \/ CodeBlock \/ IfDef \/ WhileDef \/ SwitchDef \/ Leaving
          \/ Functions \/ Finish \/ Stopped

Spec == Init /\ [][Next]_vars
-----------------------------------------------------------------------------
(* Properties *)

\* The type invariant: the shape of every variable.
TypeOK ==
    /\ code \in Seq(Seq(Inst))
    /\ layout \in [Function -> Seq(Nat)]
    /\ insert \in [Function -> Nat]
    /\ mergeBB \in Nat
    /\ condBB \in Nat
    /\ frames \in Seq(FrameType)
    /\ ret \in {"value", "null"}
    /\ allocated \in SUBSET Function
    /\ nodes \in Nat
    /\ status \in {"running", "done", "null_block", "null_value"}

Innermost(i) ==
    /\ frames[i].kind = "while"
    /\ \A j \in (i + 1)..Len(frames) : frames[j].kind # "while"

Targets(i) == condBB = frames[i].cond /\ mergeBB = frames[i].merge

\* Whatever loops, functions and other constructs are generated inside one
\* another, the two global targets (expression.cpp) are either both null or the
\* blocks of one and the same loop, the innermost still being generated: a
\* break never lands in an outer loop, or behind a loop that is finished.
LoopTargets ==
    \/ condBB = NoBlock /\ mergeBB = NoBlock
    \/ \E i \in 1..Len(frames) : Innermost(i) /\ Targets(i)

\* The globals name the loop that is being generated, as their comment
\* (expression.hpp:15, "Merge block of current control flow codegen") says:
\* true as long as no loop is generated while another one is.
CurrentLoop ==
    status = "running" =>
        \A i \in 1..Len(frames) : Innermost(i) => Targets(i)

\* Every function being generated emits into a block of its own: an IRBuilder
\* is never left in another function, although the targets it is moved to pass
\* through globals and through the calls made for nested functions.
OwnInsertionPoint ==
    \A i \in 1..Len(frames) : insert[frames[i].fn] \in BlocksOf(frames[i].fn)

InProgress(f) == \E i \in 1..Len(frames) : frames[i].kind = "func" /\ frames[i].fn = f
Finished(f)   == f \in allocated \ Externs /\ ~InProgress(f)

\* The blocks that the terminators of block b name.
Successors(b) ==
    UNION {code[b][i].to : i \in {j \in 1..Len(code[b]) : code[b][j].op \in Terminators}}

\* A finished function is closed: every block of it ends in a terminator and
\* branches to blocks of the same function only.  Every block that some
\* construct creates has to be attached, filled and ended on every path.
SealedFunctions ==
    \A f \in Function : Finished(f) =>
        \A b \in BlocksOf(f) : Terminated(code, b) /\ Successors(b) \subseteq BlocksOf(f)

\* A recursive reference does not start a function twice: allocaV is set
\* before the body is generated (codegen_prototype).
GeneratedOnce ==
    \A i, j \in 1..Len(frames) :
        frames[i].kind = "func" /\ frames[j].kind = "func" /\ frames[i].fn = frames[j].fn
            => i = j

\* A block is in one place of one block list: no construct attaches a block
\* twice or to two functions, which would corrupt LLVM's intrusive lists, and
\* fallthrough finds the block it looks for.
AttachedOnce ==
    \A f, g \in Function : \A i \in 1..Len(layout[f]), j \in 1..Len(layout[g]) :
        layout[f][i] = layout[g][j] => f = g /\ i = j

\* Functions that are generated inside one another (reference.hpp:56) are kept apart:
\* each emits into its own blocks, has its blocks for itself and is begun once.
FunctionsApart == OwnInsertionPoint /\ AttachedOnce /\ GeneratedOnce

\* The instruction a step appends to block b.
Appended(b) == code'[b][Len(code'[b])]
Grows(b)    == Len(code'[b]) > Len(code[b])

\* A break leaves, and a continue repeats, the innermost loop, and this is one of its
\* own function if it stands in one there: whatever loops are around that one, in the
\* same function or in those it is generated in the middle of, and whatever has been
\* generated in between, the value of the break (break_continue.cpp:16) included.
BreakLeavesInnermostLoop ==
    [][\A b \in 1..Len(code) : \A i \in 1..Len(frames) :
          Grows(b) /\ Innermost(i) /\ InLoop(Top.fn)
          /\ Appended(b).op \in {"break", "continue"} =>
              /\ frames[i].fn = Top.fn
              /\ Appended(b).to = {IF Appended(b).op = "break"
                                   THEN frames[i].merge ELSE frames[i].cond}]_vars

\* The blocks that branch to block b.
Predecessors(b) == {p \in 1..Len(code) : b \in Successors(p)}

\* Block b has a statement that leaves it: what follows is never run.
LeavesOps  == {"ret", "break", "continue", "fallthrough"}
Leaves(b)  == \E i \in 1..Len(code[b]) : code[b][i].op \in LeavesOps

\* The phi of a finished function has an incoming value for every block that
\* branches to it (LLVM's rule), when nothing falls through.  The rule in full,
\* that it has no other, holds but for the end of a clause that has left
\* (if.cpp:45-50), and that is a block of the clause.
PhiMatchesPredecessors ==
    \A f \in Function : Finished(f) =>
        \A b \in BlocksOf(f) : \A i \in 1..Len(code[b]) :
            code[b][i].op = "phi" =>
                /\ Predecessors(b) \subseteq code[b][i].to
                /\ \A p \in code[b][i].to \ Predecessors(b) : Leaves(p)

\* In a finished function the branch that closes a construct is the last
\* instruction of its block: nothing is generated where no one goes on, except
\* behind a statement that leaves (verifyFunction() rejects that).
NothingAfterBranch ==
    \A f \in Function : Finished(f) =>
        \A b \in BlocksOf(f) : \A i \in 1..(Len(code[b]) - 1) :
            code[b][i].op \in Terminators => code[b][i].op \in LeavesOps

\* The abstract specification of function generation, and what its variables
\* stand for here.
PhaseOf(f) ==
    CASE InProgress(f) -> "open"
      [] Finished(f) \/ f \in allocated \cap Externs -> "generated"
      [] OTHER -> "untouched"
ContentsOf(f) ==
    [i \in 1..Len(layout[f]) |-> <<layout[f][i], code[layout[f][i]]>>]

Lazy == INSTANCE LazyFunctions WITH
    phase    <- [f \in Function |-> PhaseOf(f)],
    contents <- [f \in Function |-> ContentsOf(f)]

\* Code generation implements it: every function body is generated once, on
\* its first use or when its namespace is visited, and the functions that are
\* half generated at that moment are not disturbed.
GeneratesLazily == Lazy!Spec
=============================================================================
