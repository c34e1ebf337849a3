------------------------- MODULE ControlFlowProofs -------------------------
(* Theorems about ControlFlow, for every program and every bound. *)
EXTENDS ControlFlow, SequenceTheorems, TLAPS

(* What the helpers of the call stack return. *)

LEMMA FrameTyped ==
    ASSUME NEW k \in Kinds, NEW s \in Stages, NEW f \in Function
    PROVE  Frame(k, s, f) \in FrameType
BY DEF Frame, FrameType, NoBlock

LEMMA TopTyped ==
    ASSUME frames \in Seq(FrameType), frames # <<>>
    PROVE  /\ Len(frames) \in 1..Len(frames)
           /\ Top \in FrameType
           /\ Top.fn \in Function
<1>1. Len(frames) \in 1..Len(frames)
    BY EmptySeq, LenProperties
<1>2. frames[Len(frames)] \in FrameType
    BY <1>1
<1> QED
    BY <1>1, <1>2 DEF Top, FrameType

LEMMA UnderTyped ==
    ASSUME frames \in Seq(FrameType), frames # <<>>
    PROVE  /\ Under \in Seq(FrameType)
           /\ Len(Under) = Len(frames) - 1
           /\ \A i \in 1..Len(Under) : Under[i] = frames[i]
<1>1. Len(frames) \in Nat \ {0}
    BY EmptySeq, LenProperties
<1> DEFINE n == Len(frames) - 1
<1>2. n \in Nat /\ \A i \in 1..n : frames[i] \in FrameType
    BY <1>1
<1>3. Under = SubSeq(frames, 1, n)
    BY DEF Under
<1> HIDE DEF n
<1>4. /\ Under \in Seq(FrameType)
      /\ Len(Under) = IF 1 <= n THEN n - 1 + 1 ELSE 0
      /\ \A i \in 1..(n - 1 + 1) : Under[i] = frames[1 + i - 1]
    BY <1>2, <1>3, SubSeqProperties
<1>5. Len(Under) = n
    BY <1>2, <1>4
<1>6. ASSUME NEW i \in 1..n PROVE Under[i] = frames[i]
    <2>1. i \in 1..(n - 1 + 1) /\ 1 + i - 1 = i
        BY <1>2
    <2> QED
        BY <2>1, <1>4
<1> QED
    BY <1>4, <1>5, <1>6 DEF n

LEMMA BlockTyped ==
    ASSUME NEW f \in Function
    PROVE  Block(f) \in Seq(FrameType) /\ Expr(f) \in Seq(FrameType)
BY FrameTyped DEF Block, Expr, Kinds, Stages

LEMMA ConcatTyped ==
    ASSUME NEW S, NEW s \in Seq(S), NEW t \in Seq(S)
    PROVE  s \o t \in Seq(S)
OBVIOUS

LEMMA CallTyped ==
    ASSUME frames \in Seq(FrameType), frames # <<>>,
           NEW fr \in FrameType, NEW cs \in Seq(FrameType), Call(fr, cs)
    PROVE  frames' \in Seq(FrameType)
<1>1. <<fr>> \in Seq(FrameType)
    OBVIOUS
<1>2. Under \o <<fr>> \in Seq(FrameType)
    BY <1>1, UnderTyped, ConcatTyped
<1> QED
    BY <1>2, ConcatTyped DEF Call

(* What the helpers of the instruction stream return. *)

LEMMA EmitTyped ==
    ASSUME NEW c \in Seq(Seq(Inst)), NEW b, NEW i \in Inst
    PROVE  /\ Emit(c, b, i) \in Seq(Seq(Inst))
           /\ Len(Emit(c, b, i)) = Len(c)
<1>1. CASE b \in 1..Len(c)
    <2>1. Append(c[b], i) \in Seq(Inst)
        BY <1>1
    <2> QED
        BY <1>1, <2>1, ExceptSeq DEF Emit
<1>2. CASE b \notin 1..Len(c)
    <2>1. Emit(c, b, i) = c
        BY <1>2, LenProperties DEF Emit
    <2> QED
        BY <2>1
<1> QED
    BY <1>1, <1>2

LEMMA EmitOpTyped ==
    ASSUME NEW c \in Seq(Seq(Inst)), NEW b
    PROVE  /\ EmitOp(c, b) \in Seq(Seq(Inst))
           /\ Len(EmitOp(c, b)) = Len(c)
<1>1. OpInst \in Inst
    BY DEF OpInst, Inst
<1> QED
    BY <1>1, EmitTyped DEF EmitOp

LEMMA BranchTyped ==
    ASSUME NEW c \in Seq(Seq(Inst)), NEW b, NEW tag \in Jumps, NEW t \in Nat
    PROVE  /\ Branch(c, b, tag, t) \in Seq(Seq(Inst))
           /\ Len(Branch(c, b, tag, t)) = Len(c)
<1>1. [op |-> tag, to |-> {t}] \in Inst
    BY DEF Inst, Jumps, Terminators
<1> QED
    BY <1>1, EmitTyped DEF Branch
LEMMA AttachTyped ==
    ASSUME layout \in [Function -> Seq(Nat)], Top.fn \in Function,
           NEW bs \in Seq(Nat), Attach(bs)
    PROVE  layout' \in [Function -> Seq(Nat)]
<1>1. layout[Top.fn] \o bs \in Seq(Nat)
    BY ConcatTyped
<1> QED
    BY <1>1 DEF Attach

LEMMA InsertTyped ==
    ASSUME insert \in [Function -> Nat], NEW b \in Nat, SetInsertPoint(b)
    PROVE  insert' \in [Function -> Nat]
BY DEF SetInsertPoint

LEMMA NewTyped ==
    ASSUME code \in Seq(Seq(Inst)), NEW i \in Nat \ {0}
    PROVE  New(i) \in Nat \ {0}
BY LenProperties DEF New

LEMMA EmptyTyped ==
    /\ <<Empty>> \in Seq(Seq(Inst))
    /\ <<Empty, Empty>> \in Seq(Seq(Inst))
    /\ <<Empty, Empty, Empty>> \in Seq(Seq(Inst))
BY EmptySeq DEF Empty

\* The frames that the actions leave on the stack in place of the top one.
LEMMA TopUpdates ==
    ASSUME Top \in FrameType, NEW a \in Nat, NEW b \in Nat, NEW s \in Stages,
           NEW v \in {"value", "null"}, NEW arms \in Seq(Nat)
    PROVE  /\ [Top EXCEPT !.stage = s] \in FrameType
           /\ [Top EXCEPT !.val = v] \in FrameType
           /\ [Top EXCEPT !.stage = s, !.arms = arms] \in FrameType
           /\ [Top EXCEPT !.stage = s, !.alt = a, !.merge = b] \in FrameType
           /\ [Top EXCEPT !.stage = s, !.post = a, !.val = v] \in FrameType
BY DEF FrameType

\* How the stack looks after a call, the calls below it first.
LEMMA CallConcat ==
    ASSUME frames \in Seq(FrameType), frames # <<>>,
           NEW fr \in FrameType, NEW cs \in Seq(FrameType), Call(fr, cs)
    PROVE  frames' = Under \o (<<fr>> \o cs)
<1> DEFINE u == Under
           v == <<fr>>
<1>1. u \in Seq(FrameType) /\ v \in Seq(FrameType)
    BY UnderTyped
<1>2. frames' = (u \o v) \o cs
    BY DEF Call
<1> HIDE DEF u, v
<1>3. (u \o v) \o cs = u \o (v \o cs)
    BY <1>1, ConcatAssociative, SMTT(20)
<1> QED
    BY <1>2, <1>3 DEF u, v

\* The parts of the type invariant, each shown for itself.
LEMMA TypedAfter ==
    ASSUME code' \in Seq(Seq(Inst)), layout' \in [Function -> Seq(Nat)],
           insert' \in [Function -> Nat], mergeBB' \in Nat, condBB' \in Nat,
           frames' \in Seq(FrameType), ret' \in {"value", "null"},
           allocated' \in SUBSET Function, nodes' \in Nat,
           status' \in {"running", "done", "null_block", "null_value"}
    PROVE  TypeOK'
BY DEF TypeOK

\* What an action that acts on the innermost call knows of it.
LEMMA InCall ==
    ASSUME TypeOK, frames # <<>>
    PROVE  /\ Top \in FrameType /\ Top.fn \in Function /\ Under \in Seq(FrameType)
           /\ Top.alt \in Nat /\ Top.merge \in Nat /\ Top.body \in Nat
           /\ Top.post \in Nat /\ Top.val \in {"value", "null"}
           /\ Top.arms \in Seq(Nat)
           /\ IP \in Nat
           /\ Block(Top.fn) \in Seq(FrameType) /\ Expr(Top.fn) \in Seq(FrameType)
<1>1. Top \in FrameType /\ Top.fn \in Function
    BY TopTyped DEF TypeOK
<1>2. Under \in Seq(FrameType)
    BY UnderTyped DEF TypeOK
<1>3. Block(Top.fn) \in Seq(FrameType) /\ Expr(Top.fn) \in Seq(FrameType)
    BY <1>1, BlockTyped
<1> QED
    BY <1>1, <1>2, <1>3 DEF FrameType, TypeOK, IP

-----------------------------------------------------------------------------
(* Type correctness, one lemma for each group of actions. *)

LEMMA EnterFunctionTyped ==
    ASSUME TypeOK, NEW f \in Function, NEW rest \in Seq(FrameType), EnterFunction(f, rest)
    PROVE  TypeOK'
<1>1. code' \in Seq(Seq(Inst))
    BY EmptyTyped, ConcatTyped DEF EnterFunction, TypeOK
<1>2. New(1) \in Nat
    BY NewTyped DEF TypeOK
<1>3. layout' \in [Function -> Seq(Nat)] /\ insert' \in [Function -> Nat]
    <2>1. layout[f] \o <<New(1)>> \in Seq(Nat)
        BY <1>2, ConcatTyped DEF TypeOK
    <2> QED
        BY <1>2, <2>1 DEF EnterFunction, TypeOK
<1>4. frames' \in Seq(FrameType)
    <2>1. Frame("func", "init", f) \in FrameType /\ Frame("func", "body", f) \in FrameType
        BY FrameTyped DEF Kinds, Stages
    <2>2. /\ <<Frame("func", "init", f)>> \in Seq(FrameType)
          /\ <<Frame("func", "body", f)>> \in Seq(FrameType)
        BY <2>1
    <2>3. <<Frame("func", "body", f)>> \o Block(f) \in Seq(FrameType)
        BY <2>2, BlockTyped, ConcatTyped
    <2> QED
        BY <2>2, <2>3, ConcatTyped DEF EnterFunction
<1> QED
    BY <1>1, <1>3, <1>4 DEF EnterFunction, TypeOK

LEMMA GenFunctionTyped ==
    ASSUME TypeOK, NEW f \in Function, NEW rest \in Seq(FrameType), GenFunction(f, rest)
    PROVE  TypeOK'
<1>1. CASE Memo(f, rest)
    BY <1>1 DEF Memo, TypeOK
<1>2. CASE DeclareExtern(f, rest)
    BY <1>2 DEF DeclareExtern, TypeOK
<1>3. CASE EnterFunction(f, rest)
    BY <1>3, EnterFunctionTyped
<1> QED
    BY <1>1, <1>2, <1>3 DEF GenFunction

LEMMA FunctionsTyped ==
    ASSUME TypeOK, Functions
    PROVE  TypeOK'
<1>1. CASE EnterVaInit
    BY <1>1, EnterFunctionTyped, FunctionAssumption DEF EnterVaInit, TypeOK
<1>2. CASE EndVaInit
    <2>1. code' \in Seq(Seq(Inst))
        BY <1>2, EmitOpTyped DEF EndVaInit, TypeOK
    <2>2. [Top EXCEPT !.stage = "body"] \in FrameType
        <3>1. frames # <<>>
            BY <1>2 DEF EndVaInit, At
        <3> QED
            BY <3>1, InCall, TopUpdates DEF Stages
    <2>3. frames' \in Seq(FrameType)
        BY <1>2, <2>2, InCall, CallTyped DEF EndVaInit, At, TypeOK
    <2>4. /\ layout' \in [Function -> Seq(Nat)] /\ insert' \in [Function -> Nat]
          /\ mergeBB' \in Nat /\ condBB' \in Nat
        BY <1>2 DEF EndVaInit, TypeOK
    <2>5. /\ ret' \in {"value", "null"} /\ allocated' \in SUBSET Function /\ nodes' \in Nat
          /\ status' \in {"running", "done", "null_block", "null_value"}
        BY <1>2 DEF EndVaInit, TypeOK
    <2> QED
        BY <2>1, <2>3, <2>4, <2>5, TypedAfter
<1>3. CASE EndFunction
    <2>1. Epilogue \in Seq(Seq(Inst))
        BY EmitOpTyped DEF Epilogue, TypeOK
    <2>2. [op |-> "ret", to |-> {}] \in Inst
        BY DEF Inst, Terminators
    <2>3. code' \in Seq(Seq(Inst))
        BY <1>3, <2>1, <2>2, EmitTyped DEF EndFunction
    <2> QED
        BY <1>3, <2>3, InCall DEF EndFunction, At, Return, TypeOK
<1>4. CASE CodegenRoot
    <2>1. PICK f \in Globals \ allocated : GenFunction(f, <<>>)
        BY <1>4 DEF CodegenRoot
    <2>2. f \in Function /\ <<>> \in Seq(FrameType)
        BY FunctionAssumption
    <2> QED
        BY <2>1, <2>2, GenFunctionTyped
<1> QED
    BY <1>1, <1>2, <1>3, <1>4 DEF Functions

LEMMA ExpressionTyped ==
    ASSUME TypeOK, Expression \/ CodeBlock
    PROVE  TypeOK'
<1>1. CASE GenLeaf
    <2>1. code' \in Seq(Seq(Inst))
        BY <1>1, EmitOpTyped DEF GenLeaf, TypeOK
    <2> QED
        BY <1>1, <2>1, InCall DEF GenLeaf, Choosing, Return, TypeOK
<1>2. CASE BeginUse
    <2>1. Frame("use", "cond", Top.fn) \in FrameType
        BY <1>2, InCall, FrameTyped DEF BeginUse, Choosing, Kinds, Stages
    <2>2. frames' \in Seq(FrameType)
        BY <1>2, <2>1, InCall, CallTyped DEF BeginUse, Choosing, TypeOK
    <2> QED
        BY <1>2, <2>2 DEF BeginUse, Optional, TypeOK
<1>3. CASE NextOperand
    <2>1. Operand \in {"value", "null"}
        BY <1>3, InCall DEF NextOperand, At, Operand
    <2>2. [Top EXCEPT !.val = Operand] \in FrameType
        BY <1>3, <2>1, InCall DEF NextOperand, At, FrameType
    <2>3. frames' \in Seq(FrameType)
        BY <1>3, <2>2, InCall, CallTyped DEF NextOperand, At, TypeOK
    <2> QED
        BY <1>3, <2>3 DEF NextOperand, Optional, TypeOK
<1>4. CASE EndUse
    <2>1. code' \in Seq(Seq(Inst))
        BY <1>4, EmitOpTyped DEF EndUse, TypeOK
    <2> QED
        BY <1>4, <2>1, InCall DEF EndUse, At, Return, TypeOK
<1>5. CASE GenReference
    <2>1. PICK f \in Function : GenFunction(f, Under)
        BY <1>5 DEF GenReference
    <2> QED
        BY <1>5, <2>1, InCall, GenFunctionTyped DEF GenReference, Choosing
<1>6. CASE BeginBlock
    <2>1. frames' \in Seq(FrameType)
        BY <1>6, InCall, ConcatTyped DEF BeginBlock, Choosing
    <2>2. nodes' \in Nat
        BY <1>6 DEF BeginBlock, Optional, TypeOK
    <2>3. /\ code' \in Seq(Seq(Inst)) /\ layout' \in [Function -> Seq(Nat)]
          /\ insert' \in [Function -> Nat] /\ mergeBB' \in Nat /\ condBB' \in Nat
        BY <1>6 DEF BeginBlock, TypeOK
    <2>4. /\ ret' \in {"value", "null"} /\ allocated' \in SUBSET Function
          /\ status' \in {"running", "done", "null_block", "null_value"}
        BY <1>6 DEF BeginBlock, TypeOK
    <2> QED
        BY <2>1, <2>2, <2>3, <2>4, TypedAfter
<1>7. CASE NextStatement
    <2>1. Frame("stmt", "start", Top.fn) \in FrameType
        BY <1>7, InCall, FrameTyped DEF NextStatement, At, Kinds, Stages
    <2> QED
        BY <1>7, <2>1 DEF NextStatement, TypeOK
<1>8. CASE EndBlock
    BY <1>8, InCall DEF EndBlock, At, Return, TypeOK
<1> QED
    BY <1>1, <1>2, <1>3, <1>4, <1>5, <1>6, <1>7, <1>8 DEF Expression, CodeBlock

LEMMA ElseClauseTyped ==
    ASSUME NEW f \in Function, NEW cs \in ElseClause(f)
    PROVE  cs \in Seq(FrameType)
<1>1. <<Frame("if", "cond", f)>> \in Seq(FrameType)
    BY FrameTyped DEF Kinds, Stages
<1>2. <<Frame("if", "cond", f)>> \o Expr(f) \in Seq(FrameType)
    BY <1>1, BlockTyped, ConcatTyped
<1> QED
    BY <1>2, BlockTyped DEF ElseClause

LEMMA IfTyped ==
    ASSUME TypeOK, IfDef
    PROVE  TypeOK'
<1> USE DEF At
<1>1. CASE BeginIf
    <2>1. Frame("if", "cond", Top.fn) \in FrameType
        BY <1>1, InCall, FrameTyped DEF BeginIf, Choosing, Kinds, Stages
    <2>2. frames' \in Seq(FrameType)
        BY <1>1, <2>1, InCall, CallTyped DEF BeginIf, Choosing, TypeOK
    <2> QED
        BY <1>1, <2>2 DEF BeginIf, Optional, TypeOK
<1>2. CASE IfCondDone
    <2>1. New(1) \in Nat /\ New(2) \in Nat /\ New(3) \in Nat
        BY NewTyped DEF TypeOK
    <2>2. [op |-> "condbr", to |-> {New(1), New(2)}] \in Inst
        BY <2>1 DEF Inst, Terminators
    <2>3. code' \in Seq(Seq(Inst))
        BY <1>2, <2>2, EmitTyped, EmptyTyped, ConcatTyped DEF IfCondDone, TypeOK
    <2>4. [Top EXCEPT !.stage = "then", !.alt = New(2), !.merge = New(3)] \in FrameType
        BY <1>2, <2>1, InCall DEF IfCondDone, Stages, FrameType
    <2>5. frames' \in Seq(FrameType)
        BY <1>2, <2>4, InCall, CallTyped DEF IfCondDone, TypeOK
    <2>6. layout' \in [Function -> Seq(Nat)]
        <3>1. <<New(1)>> \in Seq(Nat)
            BY <2>1
        <3> QED
            BY <1>2, <3>1, InCall, AttachTyped DEF IfCondDone, TypeOK
    <2>7. insert' \in [Function -> Nat]
        BY <1>2, <2>1, InsertTyped DEF IfCondDone, TypeOK
    <2> QED
        BY <1>2, <2>3, <2>5, <2>6, <2>7 DEF IfCondDone, UseValue, TypeOK
<1>3. CASE IfThenDoneElse
    <2>1. code' \in Seq(Seq(Inst))
        BY <1>3, InCall, BranchTyped DEF IfThenDoneElse, TypeOK, Jumps
    <2>2. layout' \in [Function -> Seq(Nat)]
        <3>1. <<Top.alt>> \in Seq(Nat)
            BY <1>3, InCall DEF IfThenDoneElse
        <3> QED
            BY <1>3, <3>1, InCall, AttachTyped DEF IfThenDoneElse, TypeOK
    <2>3. insert' \in [Function -> Nat]
        BY <1>3, InCall, InsertTyped DEF IfThenDoneElse, TypeOK
    <2>4. PICK cs \in ElseClause(Top.fn) :
             Call([Top EXCEPT !.stage = "else", !.post = IP, !.val = ret], cs)
        BY <1>3 DEF IfThenDoneElse
    <2>6. cs \in Seq(FrameType)
        BY <1>3, <2>4, InCall, ElseClauseTyped DEF IfThenDoneElse
    <2>7. [Top EXCEPT !.stage = "else", !.post = IP, !.val = ret] \in FrameType
        BY <1>3, InCall DEF IfThenDoneElse, Stages, FrameType, TypeOK
    <2>8. frames' \in Seq(FrameType)
        BY <1>3, <2>4, <2>6, <2>7, CallTyped DEF IfThenDoneElse, TypeOK
    <2> QED
        BY <1>3, <2>1, <2>2, <2>3, <2>8 DEF IfThenDoneElse, Optional, TypeOK
<1>4. CASE IfThenDone
    <2>1. code' \in Seq(Seq(Inst))
        BY <1>4, InCall, BranchTyped DEF IfThenDone, TypeOK, Jumps
    <2>2. layout' \in [Function -> Seq(Nat)]
        <3>1. <<Top.alt, Top.merge>> \in Seq(Nat)
            BY <1>4, InCall DEF IfThenDone
        <3> QED
            BY <1>4, <3>1, InCall, AttachTyped DEF IfThenDone, TypeOK
    <2>3. insert' \in [Function -> Nat]
        BY <1>4, InCall, InsertTyped DEF IfThenDone, TypeOK
    <2> QED
        BY <1>4, <2>1, <2>2, <2>3, InCall DEF IfThenDone, Return, TypeOK
<1>5. CASE IfElseDone
    <2>1. [op |-> "phi", to |-> Incoming] \in Inst
        BY <1>5, InCall DEF IfElseDone, Incoming, Inst
    <2>2. code' \in Seq(Seq(Inst))
        BY <1>5, <2>1, InCall, BranchTyped, EmitTyped DEF IfElseDone, TypeOK, Jumps
    <2>3. layout' \in [Function -> Seq(Nat)]
        <3>1. <<Top.merge>> \in Seq(Nat)
            BY <1>5, InCall DEF IfElseDone
        <3> QED
            BY <1>5, <3>1, InCall, AttachTyped DEF IfElseDone, TypeOK
    <2>4. insert' \in [Function -> Nat]
        BY <1>5, InCall, InsertTyped DEF IfElseDone, TypeOK
    <2> QED
        BY <1>5, <2>2, <2>3, <2>4, InCall DEF IfElseDone, Return, TypeOK
<1> QED
    BY <1>1, <1>2, <1>3, <1>4, <1>5 DEF IfDef

LEMMA WhileTyped ==
    ASSUME TypeOK, WhileDef
    PROVE  TypeOK'
<1> USE DEF At
<1>1. CASE BeginWhile
    <2>1. New(1) \in Nat /\ New(2) \in Nat /\ New(3) \in Nat
        BY NewTyped DEF TypeOK
    <2>2. Branch(code, IP, "br", New(1)) \in Seq(Seq(Inst))
        BY <2>1, BranchTyped DEF TypeOK, Jumps
    <2>3. code' \in Seq(Seq(Inst))
        BY <1>1, <2>2, EmptyTyped, ConcatTyped DEF BeginWhile
    <2>4. layout' \in [Function -> Seq(Nat)]
        <3>1. LoopBlocks \in Seq(Nat)
            BY <2>1 DEF LoopBlocks
        <3> QED
            BY <1>1, <3>1, InCall, AttachTyped DEF BeginWhile, Choosing, TypeOK
    <2>5. insert' \in [Function -> Nat]
        BY <1>1, <2>1, InsertTyped DEF BeginWhile, TypeOK
    <2>6. Frame("while", "cond", Top.fn) \in FrameType
        BY <1>1, InCall, FrameTyped DEF BeginWhile, Choosing, Kinds, Stages
    <2>7. [Frame("while", "cond", Top.fn) EXCEPT
              !.cond = New(1), !.body = New(2), !.merge = New(3)] \in FrameType
        BY <2>1, <2>6 DEF FrameType
    <2>8. frames' \in Seq(FrameType)
        BY <1>1, <2>7, InCall, CallTyped DEF BeginWhile, Choosing, TypeOK
    <2>9. mergeBB' = New(3) /\ condBB' = New(1)
        BY <1>1 DEF BeginWhile, SetTargets
    <2>10. mergeBB' \in Nat /\ condBB' \in Nat
        BY <2>1, <2>9
    <2>11. nodes \in Nat /\ nodes' = nodes + 1
        BY <1>1 DEF BeginWhile, Optional, TypeOK
    <2>12. /\ ret' \in {"value", "null"} /\ allocated' \in SUBSET Function /\ nodes' \in Nat
           /\ status' \in {"running", "done", "null_block", "null_value"}
        BY <1>1, <2>11 DEF BeginWhile, TypeOK
    <2> QED
        BY <2>3, <2>4, <2>5, <2>8, <2>10, <2>12, TypedAfter
<1>2. CASE WhileCondDone
    <2>1. [op |-> "condbr", to |-> {Top.body, mergeBB}] \in Inst
        BY <1>2, InCall DEF WhileCondDone, Inst, Terminators, TypeOK
    <2>2. code' \in Seq(Seq(Inst))
        BY <1>2, <2>1, EmitTyped DEF WhileCondDone, TypeOK
    <2>3. insert' \in [Function -> Nat]
        BY <1>2, InCall, InsertTyped DEF WhileCondDone, TypeOK
    <2>4. [Top EXCEPT !.stage = "body"] \in FrameType
        BY <1>2, InCall DEF WhileCondDone, Stages, FrameType
    <2>5. frames' \in Seq(FrameType)
        BY <1>2, <2>4, InCall, CallTyped DEF WhileCondDone, TypeOK
    <2>6. status' \in {"null_block", "null_value", status}
        BY <1>2 DEF WhileCondDone
    <2> QED
        BY <1>2, <2>2, <2>3, <2>5, <2>6 DEF WhileCondDone, TypeOK
<1>3. CASE WhileBodyDone
    <2>1. code' \in Seq(Seq(Inst))
        BY <1>3, BranchTyped DEF WhileBodyDone, TypeOK, Jumps
    <2>2. insert' \in [Function -> Nat]
        BY <1>3 DEF WhileBodyDone, TypeOK
    <2> QED
        BY <1>3, <2>1, <2>2, InCall
        DEF WhileBodyDone, ClearTargets, Return, NoBlock, TypeOK
<1> QED
    BY <1>1, <1>2, <1>3 DEF WhileDef

LEMMA ArmsTyped ==
    ASSUME code \in Seq(Seq(Inst)), NEW n \in Nat
    PROVE  /\ [i \in 1..n |-> New(i)] \in Seq(Nat)
           /\ [i \in 1..n |-> Empty] \in Seq(Seq(Inst))
           /\ {New(i) : i \in 1..n} \subseteq Nat
<1>1. \A i \in 1..n : New(i) \in Nat
    BY NewTyped
<1>2. Empty \in Seq(Inst)
    BY DEF Empty
<1> QED
    BY <1>1, <1>2, IsASeq

LEMMA SwitchTyped ==
    ASSUME TypeOK, SwitchDef
    PROVE  TypeOK'
<1> USE DEF At
<1>1. CASE BeginSwitch
    <2>1. New(1) \in Nat /\ New(2) \in Nat
        BY NewTyped DEF TypeOK
    <2>2. code' \in Seq(Seq(Inst))
        BY <1>1, EmptyTyped, ConcatTyped DEF BeginSwitch, TypeOK
    <2>3. Frame("switch", "cond", Top.fn) \in FrameType
        BY <1>1, InCall, FrameTyped DEF BeginSwitch, Choosing, Kinds, Stages
    <2>4. [Frame("switch", "cond", Top.fn) EXCEPT !.alt = New(1), !.merge = New(2)]
             \in FrameType
        BY <2>1, <2>3 DEF FrameType
    <2>5. frames' \in Seq(FrameType)
        BY <1>1, <2>4, InCall, CallTyped DEF BeginSwitch, Choosing, TypeOK
    <2> QED
        BY <1>1, <2>2, <2>5 DEF BeginSwitch, Optional, TypeOK
<1>2. CASE SwitchCondDone
    <2> DEFINE arms(n) == [i \in 1..n |-> New(i)]
               inst(n) == [op |-> "switch", to |-> {Top.alt} \cup {New(i) : i \in 1..n}]
    <2>1. PICK n \in 0..MaxArms :
             /\ nodes' = nodes + n
             /\ code' = Emit(code, IP, inst(n)) \o [i \in 1..n |-> Empty]
             /\ Attach(arms(n))
             /\ Call([Top EXCEPT !.stage = "arms", !.arms = arms(n)], <<>>)
        BY <1>2 DEF SwitchCondDone
    <2>2. n \in Nat
        BY BoundAssumption
    <2>3. inst(n) \in Inst
        BY <1>2, <2>2, InCall, ArmsTyped DEF SwitchCondDone, Inst, Terminators, TypeOK
    <2>4. code' \in Seq(Seq(Inst))
        <3>1. Emit(code, IP, inst(n)) \in Seq(Seq(Inst))
            BY <2>3, EmitTyped DEF TypeOK
        <3>2. [i \in 1..n |-> Empty] \in Seq(Seq(Inst))
            BY <2>2, ArmsTyped DEF TypeOK
        <3> QED
            BY <2>1, <3>1, <3>2, ConcatTyped
    <2>5. arms(n) \in Seq(Nat)
        BY <2>2, ArmsTyped DEF TypeOK
    <2>6. layout' \in [Function -> Seq(Nat)]
        BY <1>2, <2>1, <2>5, InCall, AttachTyped DEF SwitchCondDone, TypeOK
    <2>7. [Top EXCEPT !.stage = "arms", !.arms = arms(n)] \in FrameType
        BY <1>2, <2>5, InCall DEF SwitchCondDone, Stages, FrameType
    <2>8. frames' \in Seq(FrameType)
        BY <1>2, <2>1, <2>7, CallTyped, EmptySeq DEF SwitchCondDone, TypeOK
    <2>9. nodes \in Nat /\ n \in Nat /\ nodes' = nodes + n
        BY <2>1, <2>2 DEF TypeOK
    <2>10. /\ insert' \in [Function -> Nat] /\ mergeBB' \in Nat /\ condBB' \in Nat
           /\ ret' \in {"value", "null"} /\ allocated' \in SUBSET Function
           /\ nodes' \in Nat
        BY <1>2, <2>9 DEF SwitchCondDone, TypeOK
    <2>11. status' \in {"running", "done", "null_block", "null_value"}
        BY <1>2 DEF SwitchCondDone, UseValue, TypeOK
    <2> QED
        BY <2>4, <2>6, <2>8, <2>10, <2>11, TypedAfter
<1>3. CASE SwitchArm
    <2>1. Head(Top.arms) \in Nat /\ Tail(Top.arms) \in Seq(Nat)
        BY <1>3, InCall DEF SwitchArm
    <2>2. insert' \in [Function -> Nat]
        BY <1>3, <2>1, InsertTyped DEF SwitchArm, TypeOK
    <2>3. [Top EXCEPT !.stage = "arm", !.arms = Tail(@)] \in FrameType
        BY <1>3, <2>1, InCall DEF SwitchArm, Stages, FrameType
    <2>4. frames' \in Seq(FrameType)
        BY <1>3, <2>3, InCall, CallTyped DEF SwitchArm, TypeOK
    <2> QED
        BY <1>3, <2>2, <2>4 DEF SwitchArm, TypeOK
<1>4. CASE SwitchArmDone
    <2>1. code' \in Seq(Seq(Inst))
        BY <1>4, InCall, BranchTyped DEF SwitchArmDone, TypeOK, Jumps
    <2>2. [Top EXCEPT !.stage = "arms"] \in FrameType
        BY <1>4, InCall DEF SwitchArmDone, Stages, FrameType
    <2>3. frames' \in Seq(FrameType)
        BY <1>4, <2>2, CallTyped, EmptySeq DEF SwitchArmDone, TypeOK
    <2> QED
        BY <1>4, <2>1, <2>3 DEF SwitchArmDone, TypeOK
<1>5. CASE SwitchDefault
    <2>1. layout' \in [Function -> Seq(Nat)]
        <3>1. <<Top.alt>> \in Seq(Nat)
            BY <1>5, InCall DEF SwitchDefault
        <3> QED
            BY <1>5, <3>1, InCall, AttachTyped DEF SwitchDefault, TypeOK
    <2>2. insert' \in [Function -> Nat]
        BY <1>5, InCall, InsertTyped DEF SwitchDefault, TypeOK
    <2>3. PICK body \in {<<>>, Block(Top.fn)} : Call([Top EXCEPT !.stage = "default"], body)
        BY <1>5 DEF SwitchDefault
    <2>4. [Top EXCEPT !.stage = "default"] \in FrameType
        BY <1>5, InCall DEF SwitchDefault, Stages, FrameType
    <2>5. body \in Seq(FrameType)
        BY <1>5, InCall, EmptySeq DEF SwitchDefault
    <2>6. frames' \in Seq(FrameType)
        BY <1>5, <2>3, <2>4, <2>5, CallTyped DEF SwitchDefault, TypeOK
    <2> QED
        BY <1>5, <2>1, <2>2, <2>6 DEF SwitchDefault, TypeOK
<1>6. CASE EndSwitch
    <2>1. code' \in Seq(Seq(Inst))
        BY <1>6, InCall, BranchTyped DEF EndSwitch, TypeOK, Jumps
    <2>2. layout' \in [Function -> Seq(Nat)]
        <3>1. <<Top.merge>> \in Seq(Nat)
            BY <1>6, InCall DEF EndSwitch
        <3> QED
            BY <1>6, <3>1, InCall, AttachTyped DEF EndSwitch, TypeOK
    <2>3. insert' \in [Function -> Nat]
        BY <1>6, InCall, InsertTyped DEF EndSwitch, TypeOK
    <2> QED
        BY <1>6, <2>1, <2>2, <2>3, InCall DEF EndSwitch, Return, TypeOK
<1> QED
    BY <1>1, <1>2, <1>3, <1>4, <1>5, <1>6 DEF SwitchDef

\* The block after an attached one is a block number again.
LEMMA NextBlockTyped ==
    ASSUME TypeOK, frames # <<>>
    PROVE  NextBlock(Top.fn, IP) \in Nat
<1> DEFINE l == layout[Top.fn]
           before == {i \in 1..(Len(l) - 1) : l[i] = IP}
<1>1. l \in Seq(Nat) /\ IP \in Nat
    BY InCall DEF TypeOK
<1>2. CASE before = {}
    BY <1>1, <1>2 DEF NextBlock
<1>3. CASE before # {}
    <2>1. (CHOOSE i \in before : TRUE) \in before
        BY <1>3
    <2>2. \A i \in before : l[1 + i] \in Nat
        <3> DEFINE n == Len(l)
        <3>1. n \in Nat /\ \A j \in 1..n : l[j] \in Nat
            BY <1>1
        <3> HIDE DEF n
        <3>2. \A i \in 1..(n - 1) : 1 + i \in 1..n
            BY <3>1
        <3> QED
            BY <3>1, <3>2 DEF n
    <2> QED
        BY <1>3, <2>1, <2>2 DEF NextBlock
<1> QED
    BY <1>2, <1>3

LEMMA JumpTyped ==
    ASSUME TypeOK, NEW tag \in Jumps, NEW t \in Nat, Jump(tag, t)
    PROVE  code' \in Seq(Seq(Inst)) /\ status' \in {"null_block", status}
BY BranchTyped DEF Jump, TypeOK

LEMMA LeavingTyped ==
    ASSUME TypeOK, Leaving
    PROVE  TypeOK'
<1> USE DEF At, Stating
<1>1. [op |-> "ret", to |-> {}] \in Inst
    BY DEF Inst, Terminators
<1>2. CASE GenReturn
    <2>1. code' \in Seq(Seq(Inst))
        BY <1>1, <1>2, EmitTyped DEF GenReturn, TypeOK
    <2> QED
        BY <1>2, <2>1, InCall DEF GenReturn, Return, TypeOK
<1>3. CASE BeginReturn
    <2>1. Frame("return", "cond", Top.fn) \in FrameType
        BY <1>3, InCall, FrameTyped DEF BeginReturn, Kinds, Stages
    <2>2. frames' \in Seq(FrameType)
        BY <1>3, <2>1, InCall, CallTyped DEF BeginReturn, TypeOK
    <2> QED
        BY <1>3, <2>2 DEF BeginReturn, TypeOK
<1>4. CASE EndReturn
    <2>1. code' \in Seq(Seq(Inst))
        BY <1>1, <1>4, EmitTyped DEF EndReturn, TypeOK
    <2> QED
        BY <1>4, <2>1, InCall DEF EndReturn, Return, TypeOK
<1>5. CASE GenBreak
    <2>1. code' \in Seq(Seq(Inst)) /\ status' \in {"null_block", status}
        BY <1>5, JumpTyped DEF GenBreak, Jumps, TypeOK
    <2> QED
        BY <1>5, <2>1, InCall DEF GenBreak, Return, TypeOK
<1>6. CASE BeginBreak
    <2>1. Frame("break", "cond", Top.fn) \in FrameType
        BY <1>6, InCall, FrameTyped DEF BeginBreak, Kinds, Stages
    <2>2. frames' \in Seq(FrameType)
        BY <1>6, <2>1, InCall, CallTyped DEF BeginBreak, TypeOK
    <2> QED
        BY <1>6, <2>2 DEF BeginBreak, TypeOK
<1>7. CASE EndBreak
    <2>1. code' \in Seq(Seq(Inst)) /\ status' \in {"null_block", status}
        BY <1>7, JumpTyped DEF EndBreak, Jumps, TypeOK
    <2> QED
        BY <1>7, <2>1, InCall DEF EndBreak, Return, TypeOK
<1>8. CASE GenContinue
    <2>1. code' \in Seq(Seq(Inst)) /\ status' \in {"null_block", status}
        BY <1>8, JumpTyped DEF GenContinue, Jumps, TypeOK
    <2> QED
        BY <1>8, <2>1, InCall DEF GenContinue, Return, TypeOK
<1>9. CASE GenFallthrough
    <2>1. code' \in Seq(Seq(Inst)) /\ status' \in {"null_block", status}
        BY <1>9, NextBlockTyped, JumpTyped DEF GenFallthrough, Jumps, TypeOK
    <2> QED
        BY <1>9, <2>1, InCall DEF GenFallthrough, Return, TypeOK
<1> QED
    BY <1>2, <1>3, <1>4, <1>5, <1>6, <1>7, <1>8, <1>9 DEF Leaving

LEMMA InitTyped == Init => TypeOK
BY DEF Init, TypeOK, NoBlock

LEMMA StepTyped == TypeOK /\ [Next]_vars => TypeOK'
<1> SUFFICES ASSUME TypeOK, [Next]_vars PROVE TypeOK'
    OBVIOUS
<1>1. CASE Finish
    BY <1>1 DEF Finish, TypeOK
<1>2. CASE UNCHANGED vars
    BY <1>2 DEF vars, TypeOK
<1> QED
    BY <1>1, <1>2, ExpressionTyped, IfTyped, WhileTyped, SwitchTyped, LeavingTyped,
       FunctionsTyped DEF Next, Stopped

\* Every variable keeps its type: in particular the call stack and the block
\* lists stay sequences whatever the nesting of the compiled program.
THEOREM TypeCorrect == Spec => []TypeOK
BY InitTyped, StepTyped, PTL DEF Spec
-----------------------------------------------------------------------------
(* The targets of break and continue.  All actions but those that begin and *)
(* end a loop leave the two globals and the loops on the stack alone.       *)

NoLoop(s) == \A i \in 1..Len(s) : s[i].kind # "while"

SameLoop(fr, gr) ==
    fr.kind = "while" => gr.kind = "while" /\ gr.cond = fr.cond /\ gr.merge = fr.merge

\* The loops of the stack s are at the same depths of the stack t.
Within(s, t) == \A i \in 1..Len(s) :
                   s[i].kind = "while" => i \in 1..Len(t) /\ SameLoop(s[i], t[i])

LoopsKept == Within(frames, frames') /\ Within(frames', frames)

\* What the stack holds after its top has been replaced.
LEMMA Replaced ==
    ASSUME frames \in Seq(FrameType), frames # <<>>, NEW new \in Seq(FrameType),
           frames' = Under \o new
    PROVE  /\ Len(frames) \in Nat \ {0}
           /\ Len(new) \in Nat
           /\ Len(frames') = Len(frames) - 1 + Len(new)
           /\ \A i \in 1..(Len(frames) - 1) : frames'[i] = frames[i]
           /\ \A i \in Len(frames)..Len(frames') :
                 /\ i - Len(frames) + 1 \in 1..Len(new)
                 /\ frames'[i] = new[i - Len(frames) + 1]
<1>1. Len(frames) \in Nat \ {0} /\ Len(new) \in Nat
    BY EmptySeq, LenProperties
<1>2. Len(frames') = Len(frames) - 1 + Len(new)
    BY UnderTyped, ConcatProperties
<1>3. ASSUME NEW i \in 1..(Len(frames) - 1) PROVE frames'[i] = frames[i]
    BY <1>1, UnderTyped, ConcatProperties
<1>4. ASSUME NEW i \in Len(frames)..Len(frames')
      PROVE  /\ i - Len(frames) + 1 \in 1..Len(new)
             /\ frames'[i] = new[i - Len(frames) + 1]
    <2> DEFINE m == Len(frames)
               k == Len(new)
    <2>0. Len(Under) = m - 1 /\ m \in Nat \ {0} /\ k \in Nat /\ i \in m..(m - 1 + k)
        BY <1>1, <1>2, UnderTyped
    <2>1. /\ i \in 1..(Len(Under) + k) /\ ~(i <= Len(Under))
          /\ i - Len(Under) = i - m + 1
          /\ i - m + 1 \in 1..k
        <3> HIDE DEF m, k
        <3> QED BY <2>0
    <2>2. (Under \o new)[i] = new[i - Len(Under)]
        BY <2>1, UnderTyped, ConcatProperties
    <2> QED
        BY <2>1, <2>2
<1> QED
    BY <1>1, <1>2, <1>3, <1>4

LEMMA ReplaceKeepsLoops ==
    ASSUME frames \in Seq(FrameType), frames # <<>>, NEW new \in Seq(FrameType),
           frames' = Under \o new, NoLoop(new), Top.kind # "while"
    PROVE  LoopsKept
<1>1. ASSUME NEW i \in 1..Len(frames), frames[i].kind = "while"
      PROVE  i \in 1..Len(frames') /\ SameLoop(frames[i], frames'[i])
    <2>1. i \in 1..(Len(frames) - 1)
        BY <1>1, Replaced DEF Top
    <2>2. frames'[i] = frames[i] /\ i \in 1..Len(frames')
        <3> DEFINE n == Len(frames)
                   m == Len(new)
                   k == Len(frames')
        <3>1. n \in Nat \ {0} /\ m \in Nat /\ k = n - 1 + m /\ frames'[i] = frames[i]
            BY <2>1, Replaced
        <3> HIDE DEF n, m, k
        <3>2. i \in 1..(n - 1)
            BY <2>1 DEF n
        <3>3. i \in 1..k
            BY <3>1, <3>2
        <3> QED
            BY <3>1, <3>3 DEF k
    <2> QED
        BY <2>2 DEF SameLoop
<1>2. ASSUME NEW i \in 1..Len(frames'), frames'[i].kind = "while"
      PROVE  i \in 1..Len(frames) /\ SameLoop(frames'[i], frames[i])
    <2>1. ~(i \in Len(frames)..Len(frames'))
        BY <1>2, Replaced DEF NoLoop
    <2>2. i \in 1..(Len(frames) - 1)
        BY <2>1, Replaced
    <2>3. frames'[i] = frames[i] /\ i \in 1..Len(frames)
        BY <2>2, Replaced
    <2> QED
        BY <2>3 DEF SameLoop
<1> QED
    BY <1>1, <1>2 DEF LoopsKept, Within

LEMMA PushKeepsLoops ==
    ASSUME frames \in Seq(FrameType), NEW new \in Seq(FrameType),
           frames' = frames \o new, NoLoop(new)
    PROVE  LoopsKept
<1> DEFINE m == Len(frames)
           k == Len(new)
<1>1. m \in Nat /\ k \in Nat /\ Len(frames') = m + k
    BY LenProperties, ConcatProperties
<1>2. \A i \in 1..m : frames'[i] = frames[i] /\ i \in 1..Len(frames')
    BY <1>1, ConcatProperties
<1>3. ASSUME NEW i \in 1..Len(frames'), i \notin 1..m
      PROVE  frames'[i].kind # "while"
    <2>1. i \in 1..(m + k) /\ ~(i <= m) /\ i - m \in 1..k
        <3> HIDE DEF m, k
        <3> QED BY <1>1, <1>3
    <2>2. frames'[i] = new[i - m]
        BY <2>1, ConcatProperties
    <2> QED
        BY <2>1, <2>2 DEF NoLoop
<1> QED
    BY <1>2, <1>3 DEF LoopsKept, Within, SameLoop

LEMMA ReturnKeepsLoops ==
    ASSUME frames \in Seq(FrameType), frames # <<>>, Top.kind # "while",
           frames' = Under
    PROVE  LoopsKept
<1>1. <<>> \in Seq(FrameType) /\ NoLoop(<<>>)
    BY EmptySeq DEF NoLoop
<1>2. frames' = Under \o <<>>
    BY UnderTyped, ConcatEmptySeq
<1> QED
    BY <1>1, <1>2, ReplaceKeepsLoops

\* The calls an action makes are not loops yet.
LEMMA CalledNoLoop ==
    ASSUME NEW f \in Function
    PROVE  /\ NoLoop(Block(f)) /\ NoLoop(Expr(f)) /\ NoLoop(<<>>)
           /\ \A cs \in ElseClause(f) : NoLoop(cs)
           /\ NoLoop(<<Frame("func", "init", f)>>)
           /\ NoLoop(<<Frame("func", "body", f)>> \o Block(f))
BY DEF NoLoop, Block, Expr, ElseClause, Frame

LEMMA CallKeepsLoops ==
    ASSUME frames \in Seq(FrameType), frames # <<>>, Top.kind # "while",
           NEW fr \in FrameType, fr.kind # "while",
           NEW cs \in Seq(FrameType), NoLoop(cs), Call(fr, cs)
    PROVE  LoopsKept
<1>1. <<fr>> \o cs \in Seq(FrameType) /\ <<fr>> \in Seq(FrameType)
    BY ConcatTyped
<1>2. frames' = Under \o (<<fr>> \o cs)
    BY UnderTyped, <1>1, ConcatAssociative DEF Call
<1>3. NoLoop(<<fr>> \o cs)
    BY <1>1, ConcatProperties DEF NoLoop
<1> QED
    BY <1>1, <1>2, <1>3, ReplaceKeepsLoops

LEMMA KeptTargets ==
    ASSUME TypeOK, TypeOK', LoopTargets, LoopsKept, UNCHANGED <<condBB, mergeBB>>
    PROVE  LoopTargets'
<1>1. CASE condBB = NoBlock /\ mergeBB = NoBlock
    BY <1>1 DEF LoopTargets
<1>2. CASE \E i \in 1..Len(frames) : Innermost(i) /\ Targets(i)
    <2>1. PICK i \in 1..Len(frames) : Innermost(i) /\ Targets(i)
        BY <1>2
    <2>2. i \in 1..Len(frames') /\ SameLoop(frames[i], frames'[i])
        BY <2>1 DEF LoopsKept, Within, Innermost
    <2>3. Targets(i)'
        BY <2>1, <2>2 DEF SameLoop, Targets, Innermost
    <2>4. ASSUME NEW j \in (i + 1)..Len(frames'), frames'[j].kind = "while"
          PROVE  FALSE
        <3>1. j \in 1..Len(frames') /\ Len(frames') \in Nat /\ Len(frames) \in Nat
            BY <2>2, LenProperties DEF TypeOK
        <3>2. j \in 1..Len(frames) /\ frames[j].kind = "while"
            BY <2>4, <3>1 DEF LoopsKept, Within, SameLoop
        <3>3. j \in (i + 1)..Len(frames)
            BY <3>1, <3>2
        <3> QED
            BY <2>1, <3>2, <3>3 DEF Innermost
    <2>5. Innermost(i)'
        BY <2>1, <2>2, <2>4 DEF SameLoop, Innermost
    <2> QED
        BY <2>2, <2>3, <2>5 DEF LoopTargets
<1> QED
    BY <1>1, <1>2 DEF LoopTargets

LEMMA FunctionKeepsLoops ==
    ASSUME NEW f \in Function, NEW rest \in Seq(FrameType), EnterFunction(f, rest)
    PROVE  \E new \in Seq(FrameType) : frames' = rest \o new /\ NoLoop(new)
<1>1. Frame("func", "init", f) \in FrameType /\ Frame("func", "body", f) \in FrameType
    BY FrameTyped DEF Kinds, Stages
<1>2. <<Frame("func", "init", f)>> \in Seq(FrameType)
    BY <1>1
<1>3. <<Frame("func", "body", f)>> \o Block(f) \in Seq(FrameType)
    BY <1>1, BlockTyped, ConcatTyped
<1> QED
    BY <1>2, <1>3, CalledNoLoop DEF EnterFunction

LEMMA GenFunctionKeepsLoops ==
    ASSUME TypeOK, NEW f \in Function, frames # <<>>, Top.kind # "while",
           GenFunction(f, Under)
    PROVE  LoopsKept
<1>1. Under \in Seq(FrameType)
    BY InCall
<1>2. CASE EnterFunction(f, Under)
    BY <1>1, <1>2, FunctionKeepsLoops, ReplaceKeepsLoops DEF TypeOK
<1>3. CASE frames' = Under
    BY <1>3, ReturnKeepsLoops DEF TypeOK
<1> QED
    BY <1>2, <1>3 DEF GenFunction, Memo, DeclareExtern

LEMMA ExpressionKeepsLoops ==
    ASSUME TypeOK, Expression \/ CodeBlock
    PROVE  LoopsKept
<1> USE DEF TypeOK
<1>1. CASE GenLeaf
    BY <1>1, ReturnKeepsLoops DEF GenLeaf, Choosing, Stating, At, Return
<1>2. CASE BeginUse
    <2>1. Frame("use", "cond", Top.fn) \in FrameType
        BY <1>2, InCall, FrameTyped DEF BeginUse, Choosing, Stating, Kinds, Stages
    <2>2. Frame("use", "cond", Top.fn).kind # "while" /\ Top.kind # "while"
        BY <1>2 DEF BeginUse, Choosing, Stating, Frame
    <2> QED
        BY <1>2, <2>1, <2>2, InCall, CalledNoLoop, CallKeepsLoops DEF BeginUse, Choosing, Stating
<1>3. CASE NextOperand
    <2>1. Operand \in {"value", "null"}
        BY <1>3, InCall DEF NextOperand, At, Operand
    <2>2. [Top EXCEPT !.val = Operand] \in FrameType
        BY <1>3, <2>1, InCall DEF NextOperand, At, FrameType
    <2>3. [Top EXCEPT !.val = Operand].kind # "while" /\ Top.kind # "while"
        BY <1>3, InCall DEF NextOperand, At, FrameType
    <2> QED
        BY <1>3, <2>2, <2>3, InCall, CalledNoLoop, CallKeepsLoops DEF NextOperand, At
<1>4. CASE EndUse
    BY <1>4, ReturnKeepsLoops DEF EndUse, Choosing, Stating, At, Return
<1>5. CASE GenReference
    BY <1>5, GenFunctionKeepsLoops DEF GenReference, Choosing
<1>6. CASE BeginBlock
    BY <1>6, InCall, CalledNoLoop, ReplaceKeepsLoops DEF BeginBlock, Choosing
<1>7. CASE NextStatement
    <2>1. Frame("stmt", "start", Top.fn) \in FrameType
        BY <1>7, InCall, FrameTyped DEF NextStatement, At, Kinds, Stages
    <2>2. <<Frame("stmt", "start", Top.fn)>> \in Seq(FrameType)
        BY <2>1
    <2>3. NoLoop(<<Frame("stmt", "start", Top.fn)>>)
        BY DEF NoLoop, Frame
    <2>4. frames' = frames \o <<Frame("stmt", "start", Top.fn)>>
        BY <1>7, <2>1, AppendIsConcat DEF NextStatement
    <2> QED
        BY <2>2, <2>3, <2>4, PushKeepsLoops
<1>8. CASE EndBlock
    BY <1>8, ReturnKeepsLoops DEF EndBlock, Choosing, Stating, At, Return
<1> QED
    BY <1>1, <1>2, <1>3, <1>4, <1>5, <1>6, <1>7, <1>8 DEF Expression, CodeBlock

LEMMA IfKeepsLoops ==
    ASSUME TypeOK, IfDef
    PROVE  LoopsKept
<1> USE DEF TypeOK
<1>1. CASE BeginIf
    <2>1. Frame("if", "cond", Top.fn) \in FrameType
        BY <1>1, InCall, FrameTyped DEF BeginIf, Choosing, Stating, Kinds, Stages
    <2>2. Frame("if", "cond", Top.fn).kind # "while" /\ Top.kind # "while"
        BY <1>1 DEF BeginIf, Choosing, Stating, Frame
    <2> QED
        BY <1>1, <2>1, <2>2, InCall, CalledNoLoop, CallKeepsLoops DEF BeginIf, Choosing, Stating
<1>2. CASE IfCondDone
    <2> DEFINE fr == [Top EXCEPT !.stage = "then", !.alt = New(2), !.merge = New(3)]
    <2>1. New(2) \in Nat /\ New(3) \in Nat
        BY NewTyped
    <2>2. fr \in FrameType /\ fr.kind # "while" /\ Top.kind # "while"
        BY <1>2, <2>1, InCall DEF IfCondDone, At, FrameType, Stages
    <2> QED
        BY <1>2, <2>2, InCall, CalledNoLoop, CallKeepsLoops DEF IfCondDone, At
<1>3. CASE IfThenDoneElse
    <2> DEFINE fr == [Top EXCEPT !.stage = "else", !.post = IP, !.val = ret]
    <2>1. PICK cs \in ElseClause(Top.fn) : Call(fr, cs)
        BY <1>3 DEF IfThenDoneElse
    <2>2. fr \in FrameType /\ fr.kind # "while" /\ Top.kind # "while"
        BY <1>3, InCall DEF IfThenDoneElse, At, FrameType, Stages
    <2>3. cs \in Seq(FrameType)
        BY <1>3, InCall, ElseClauseTyped DEF IfThenDoneElse, At
    <2> QED
        BY <1>3, <2>1, <2>2, <2>3, InCall, CalledNoLoop, CallKeepsLoops DEF IfThenDoneElse, At
<1>4. CASE IfThenDone
    BY <1>4, ReturnKeepsLoops DEF IfThenDone, Choosing, Stating, At, Return
<1>5. CASE IfElseDone
    BY <1>5, ReturnKeepsLoops DEF IfElseDone, Choosing, Stating, At, Return
<1> QED
    BY <1>1, <1>2, <1>3, <1>4, <1>5 DEF IfDef

LEMMA SwitchKeepsLoops ==
    ASSUME TypeOK, SwitchDef
    PROVE  LoopsKept
<1> USE DEF TypeOK
<1>1. CASE BeginSwitch
    <2> DEFINE fr == [Frame("switch", "cond", Top.fn) EXCEPT !.alt = New(1), !.merge = New(2)]
    <2>1. Frame("switch", "cond", Top.fn) \in FrameType
        BY <1>1, InCall, FrameTyped DEF BeginSwitch, Choosing, Kinds, Stages
    <2>2. New(1) \in Nat /\ New(2) \in Nat
        BY NewTyped
    <2>3. fr \in FrameType
        BY <2>1, <2>2 DEF FrameType
    <2>4. fr.kind # "while" /\ Top.kind # "while"
        BY <1>1 DEF BeginSwitch, Choosing, Frame
    <2> QED
        BY <1>1, <2>3, <2>4, InCall, CalledNoLoop, CallKeepsLoops DEF BeginSwitch, Choosing
<1>2. CASE SwitchCondDone
    <2> DEFINE arms(n) == [i \in 1..n |-> New(i)]
               fr(n)   == [Top EXCEPT !.stage = "arms", !.arms = arms(n)]
    <2>1. PICK n \in 0..MaxArms : Call(fr(n), <<>>)
        BY <1>2 DEF SwitchCondDone
    <2>2. arms(n) \in Seq(Nat)
        <3>1. n \in Nat
            BY BoundAssumption
        <3> QED
            BY <3>1, ArmsTyped
    <2>3. fr(n) \in FrameType /\ fr(n).kind # "while" /\ Top.kind # "while"
        BY <1>2, <2>2, InCall DEF SwitchCondDone, At, FrameType, Stages
    <2> QED
        BY <1>2, <2>1, <2>3, InCall, CalledNoLoop, CallKeepsLoops, EmptySeq DEF SwitchCondDone, At
<1>3. CASE SwitchArm
    <2> DEFINE fr == [Top EXCEPT !.stage = "arm", !.arms = Tail(@)]
    <2>1. Tail(Top.arms) \in Seq(Nat)
        BY <1>3, InCall DEF SwitchArm, At
    <2>2. fr \in FrameType /\ fr.kind # "while" /\ Top.kind # "while"
        BY <1>3, <2>1, InCall DEF SwitchArm, At, FrameType, Stages
    <2> QED
        BY <1>3, <2>2, InCall, CalledNoLoop, CallKeepsLoops DEF SwitchArm, At
<1>4. CASE SwitchArmDone
    <2> DEFINE fr == [Top EXCEPT !.stage = "arms"]
    <2>1. fr \in FrameType /\ fr.kind # "while" /\ Top.kind # "while"
        BY <1>4, InCall DEF SwitchArmDone, At, FrameType, Stages
    <2> QED
        BY <1>4, <2>1, InCall, CalledNoLoop, CallKeepsLoops, EmptySeq DEF SwitchArmDone, At
<1>5. CASE SwitchDefault
    <2> DEFINE fr == [Top EXCEPT !.stage = "default"]
    <2>1. PICK body \in {<<>>, Block(Top.fn)} : Call(fr, body)
        BY <1>5 DEF SwitchDefault
    <2>2. fr \in FrameType /\ fr.kind # "while" /\ Top.kind # "while"
        BY <1>5, InCall DEF SwitchDefault, At, FrameType, Stages
    <2>3. body \in Seq(FrameType) /\ NoLoop(body)
        BY <1>5, InCall, CalledNoLoop, EmptySeq DEF SwitchDefault, At
    <2> QED
        BY <1>5, <2>1, <2>2, <2>3, CallKeepsLoops DEF SwitchDefault, At
<1>6. CASE EndSwitch
    BY <1>6, ReturnKeepsLoops DEF EndSwitch, Choosing, Stating, At, Return
<1> QED
    BY <1>1, <1>2, <1>3, <1>4, <1>5, <1>6 DEF SwitchDef

LEMMA LeavingKeepsLoops ==
    ASSUME TypeOK, Leaving
    PROVE  LoopsKept
<1> USE DEF TypeOK
<1>1. CASE GenReturn
    BY <1>1, ReturnKeepsLoops DEF GenReturn, Choosing, Stating, At, Return
<1>2. CASE BeginReturn
    <2>1. Frame("return", "cond", Top.fn) \in FrameType
        BY <1>2, InCall, FrameTyped DEF BeginReturn, Choosing, Stating, Kinds, Stages
    <2>2. Frame("return", "cond", Top.fn).kind # "while" /\ Top.kind # "while"
        BY <1>2 DEF BeginReturn, Choosing, Stating, Frame
    <2> QED
        BY <1>2, <2>1, <2>2, InCall, CalledNoLoop, CallKeepsLoops DEF BeginReturn, Choosing, Stating
<1>3. CASE EndReturn
    BY <1>3, ReturnKeepsLoops DEF EndReturn, Choosing, Stating, At, Return
<1>4. CASE GenBreak
    BY <1>4, ReturnKeepsLoops DEF GenBreak, Choosing, Stating, At, Return
<1>5. CASE BeginBreak
    <2>1. Frame("break", "cond", Top.fn) \in FrameType
        BY <1>5, InCall, FrameTyped DEF BeginBreak, Choosing, Stating, Kinds, Stages
    <2>2. Frame("break", "cond", Top.fn).kind # "while" /\ Top.kind # "while"
        BY <1>5 DEF BeginBreak, Choosing, Stating, Frame
    <2> QED
        BY <1>5, <2>1, <2>2, InCall, CalledNoLoop, CallKeepsLoops DEF BeginBreak, Choosing, Stating
<1>6. CASE EndBreak
    BY <1>6, ReturnKeepsLoops DEF EndBreak, Choosing, Stating, At, Return
<1>7. CASE GenContinue
    BY <1>7, ReturnKeepsLoops DEF GenContinue, Choosing, Stating, At, Return
<1>8. CASE GenFallthrough
    BY <1>8, ReturnKeepsLoops DEF GenFallthrough, Choosing, Stating, At, Return
<1> QED
    BY <1>1, <1>2, <1>3, <1>4, <1>5, <1>6, <1>7, <1>8 DEF Leaving

LEMMA FunctionsKeepLoops ==
    ASSUME TypeOK, Functions
    PROVE  LoopsKept
<1> USE DEF TypeOK
<1>1. CASE EnterVaInit
    <2>1. VaInit \in Function
        BY FunctionAssumption
    <2>2. PICK new \in Seq(FrameType) : frames' = frames \o new /\ NoLoop(new)
        BY <1>1, <2>1, FunctionKeepsLoops DEF EnterVaInit
    <2> QED
        BY <2>2, PushKeepsLoops
<1>2. CASE EndVaInit
    <2> DEFINE fr == [Top EXCEPT !.stage = "body"]
    <2>1. fr \in FrameType /\ fr.kind # "while" /\ Top.kind # "while"
        BY <1>2, InCall DEF EndVaInit, At, FrameType, Stages
    <2> QED
        BY <1>2, <2>1, InCall, CalledNoLoop, CallKeepsLoops DEF EndVaInit, At
<1>3. CASE EndFunction
    BY <1>3, ReturnKeepsLoops DEF EndFunction, Choosing, Stating, At, Return
<1>4. CASE CodegenRoot
    <2>1. PICK f \in Globals \ allocated : GenFunction(f, <<>>)
        BY <1>4 DEF CodegenRoot
    <2>2. f \in Function /\ <<>> \in Seq(FrameType) /\ frames = <<>> /\ NoLoop(<<>>)
        BY <1>4, FunctionAssumption DEF CodegenRoot, NoLoop
    <2>3. PICK new \in Seq(FrameType) : frames' = frames \o new /\ NoLoop(new)
        <3>1. CASE EnterFunction(f, <<>>)
            BY <3>1, <2>2, FunctionKeepsLoops
        <3>2. CASE frames' = <<>>
            BY <3>2, <2>2, ConcatEmptySeq
        <3> QED
            BY <2>1, <3>1, <3>2 DEF GenFunction, Memo, DeclareExtern
    <2> QED
        BY <2>3, PushKeepsLoops
<1> QED
    BY <1>1, <1>2, <1>3, <1>4 DEF Functions

-----------------------------------------------------------------------------
(* The two actions that set the targets. *)

LEMMA BeginWhileTargets ==
    ASSUME TypeOK, BeginWhile
    PROVE  LoopTargets'
<1> DEFINE fr == [Frame("while", "cond", Top.fn) EXCEPT
                    !.cond = New(1), !.body = New(2), !.merge = New(3)]
<1>0. PICK m \in Nat : m = Len(frames)
    BY InCall, LenProperties DEF BeginWhile, Choosing, TypeOK
<1>1. frames # <<>> /\ frames \in Seq(FrameType) /\ Top.fn \in Function
    BY InCall DEF BeginWhile, Choosing, TypeOK
<1>2. fr \in FrameType /\ fr.kind = "while" /\ fr.cond = New(1) /\ fr.merge = New(3)
    <2>1. New(1) \in Nat /\ New(2) \in Nat /\ New(3) \in Nat
        BY NewTyped DEF TypeOK
    <2>2. Frame("while", "cond", Top.fn) \in FrameType
        BY <1>1, FrameTyped DEF Kinds, Stages
    <2>3. fr \in FrameType
        BY <2>1, <2>2 DEF FrameType
    <2> QED
        BY <2>3 DEF Frame
<1> DEFINE new == <<fr>> \o Expr(Top.fn)
<1> HIDE DEF fr
<1>3. new \in Seq(FrameType) /\ Len(new) = 2 /\ new[1] = fr /\ new[2].kind = "expr"
    <2>1. Frame("expr", "start", Top.fn).kind = "expr"
        BY DEF Frame
    <2> QED
        BY <1>1, <1>2, <2>1, BlockTyped, ConcatProperties DEF Expr
<1>4. frames' = Under \o new
    <2>1. Call(fr, Expr(Top.fn))
        BY DEF BeginWhile, fr
    <2>2. <<fr>> \in Seq(FrameType) /\ Expr(Top.fn) \in Seq(FrameType)
        BY <1>1, <1>2, BlockTyped
    <2> QED
        BY <1>1, <1>2, <2>1, <2>2, CallConcat
<1> HIDE DEF new
<1>5. /\ m \in Nat /\ Len(frames') = m + 1 /\ m \in 1..Len(frames')
      /\ frames'[m] = fr /\ frames'[m + 1].kind = "expr"
    <2>1. m \in Nat \ {0} /\ Len(frames') = m - 1 + 2
        BY <1>0, <1>1, <1>3, <1>4, Replaced
    <2>2. m \in m..Len(frames') /\ m + 1 \in m..Len(frames')
        BY <2>1
    <2>3. \A j \in m..Len(frames') : frames'[j] = new[j - m + 1]
        BY <1>0, <1>1, <1>3, <1>4, Replaced
    <2>4. frames'[m] = new[1]
        <3>1. m - m + 1 = 1
            BY <2>1
        <3> QED BY <2>2, <2>3, <3>1
    <2>5. frames'[m + 1] = new[2]
        <3>1. (m + 1) - m + 1 = 2
            BY <2>1
        <3> QED BY <2>2, <2>3, <3>1
    <2> QED
        BY <1>3, <2>1, <2>2, <2>4, <2>5
<1>6. Innermost(m)'
    <2>1. \A j \in (m + 1)..Len(frames') : j = m + 1
        BY <1>5
    <2> QED
        BY <1>2, <1>5, <2>1 DEF Innermost
<1>7. Targets(m)'
    <2>1. condBB' = New(1) /\ mergeBB' = New(3)
        BY DEF BeginWhile, SetTargets
    <2> QED
        BY <1>2, <1>5, <2>1 DEF Targets
<1> QED
    BY <1>5, <1>6, <1>7 DEF LoopTargets

LEMMA WhileCondTargets ==
    ASSUME TypeOK, LoopTargets, TypeOK', WhileCondDone
    PROVE  LoopTargets'
<1> DEFINE fr == [Top EXCEPT !.stage = "body"]
           m  == Len(frames)
           new == <<fr>> \o Block(Top.fn)
<1>1. frames # <<>> /\ frames \in Seq(FrameType) /\ Top.fn \in Function /\ Top \in FrameType
    BY InCall DEF WhileCondDone, At, TypeOK
<1>2. fr \in FrameType /\ SameLoop(fr, Top) /\ SameLoop(Top, fr)
    BY <1>1 DEF FrameType, Stages, SameLoop
<1> HIDE DEF fr
<1>3. /\ new \in Seq(FrameType) /\ new[1] = fr /\ Len(new) \in Nat \ {0}
      /\ \A i \in 2..Len(new) : new[i].kind # "while"
    BY <1>1, <1>2, BlockTyped, ConcatProperties DEF Block, Frame
<1>4. frames' = Under \o new
    <2>1. Call(fr, Block(Top.fn))
        BY DEF WhileCondDone, fr
    <2>2. <<fr>> \in Seq(FrameType) /\ Block(Top.fn) \in Seq(FrameType)
        BY <1>1, <1>2, BlockTyped
    <2> QED
        BY <1>1, <1>2, <2>1, <2>2, CallConcat
<1> HIDE DEF new
<1>5. /\ m \in Nat \ {0} /\ Len(frames') \in Nat /\ m <= Len(frames')
      /\ frames'[m] = fr /\ frames[m] = Top
      /\ \A i \in 1..(m - 1) : frames'[i] = frames[i]
    <2>1. m \in Nat \ {0} /\ Len(frames') = m - 1 + Len(new)
        BY <1>1, <1>3, <1>4, Replaced
    <2>2. m \in m..Len(frames') /\ m - m + 1 = 1
        BY <1>3, <2>1
    <2>3. frames'[m] = new[m - m + 1]
        BY <1>1, <1>3, <1>4, <2>2, Replaced
    <2>4. \A i \in 1..(m - 1) : frames'[i] = frames[i]
        BY <1>1, <1>3, <1>4, Replaced
    <2>5. frames[m] = Top
        BY DEF Top
    <2> QED
        BY <1>3, <2>1, <2>2, <2>3, <2>4, <2>5
<1>6. ASSUME NEW i \in (m + 1)..Len(frames') PROVE frames'[i].kind # "while"
    <2>1. i \in m..Len(frames') /\ i - m + 1 # 1
        BY <1>5
    <2>2. i - m + 1 \in 1..Len(new) /\ frames'[i] = new[i - m + 1]
        BY <1>1, <1>3, <1>4, <2>1, Replaced
    <2>3. i - m + 1 \in 2..Len(new)
        BY <1>3, <1>5, <2>1, <2>2
    <2> QED
        BY <1>3, <2>2, <2>3
<1>7. ASSUME NEW i \in 1..m PROVE SameLoop(frames[i], frames'[i]) /\ SameLoop(frames'[i], frames[i])
    <2>1. CASE i = m
        BY <1>2, <1>5, <2>1
    <2>2. CASE i # m
        <3>1. i \in 1..(m - 1)
            BY <1>5, <2>2
        <3> QED
            BY <1>5, <3>1 DEF SameLoop
    <2> QED
        BY <2>1, <2>2
<1>8. LoopsKept
    <2>1. \A i \in 1..m : i \in 1..Len(frames')
        BY <1>5
    <2>2. \A i \in 1..Len(frames') : i \in 1..m \/ i \in (m + 1)..Len(frames')
        BY <1>5
    <2> QED
        BY <1>6, <1>7, <2>1, <2>2 DEF LoopsKept, Within
<1> QED
    BY <1>8, KeptTargets DEF WhileCondDone

LEMMA StepTargets == TypeOK /\ LoopTargets /\ [Next]_vars => LoopTargets'
<1> SUFFICES ASSUME TypeOK, LoopTargets, [Next]_vars PROVE LoopTargets'
    OBVIOUS
<1>1. TypeOK'
    BY StepTyped
<1>2. ASSUME LoopsKept, UNCHANGED <<condBB, mergeBB>> PROVE LoopTargets'
    BY <1>1, <1>2, KeptTargets
<1>3. CASE Expression \/ CodeBlock
    <2>1. UNCHANGED <<condBB, mergeBB>>
        BY <1>3 DEF Expression, GenLeaf, BeginUse, NextOperand, EndUse, GenReference,
                    GenFunction, Memo, DeclareExtern, EnterFunction,
                    CodeBlock, BeginBlock, NextStatement, EndBlock
    <2> QED
        BY <1>2, <1>3, <2>1, ExpressionKeepsLoops
<1>4. CASE IfDef
    <2>1. UNCHANGED <<condBB, mergeBB>>
        BY <1>4 DEF IfDef, BeginIf, IfCondDone, IfThenDoneElse, IfThenDone, IfElseDone
    <2> QED
        BY <1>2, <1>4, <2>1, IfKeepsLoops
<1>5. CASE WhileDef
    <2>1. CASE WhileBodyDone
        BY <2>1 DEF WhileBodyDone, ClearTargets, LoopTargets
    <2> QED
        BY <1>1, <1>5, <2>1, BeginWhileTargets, WhileCondTargets DEF WhileDef
<1>6. CASE SwitchDef
    <2>1. UNCHANGED <<condBB, mergeBB>>
        BY <1>6 DEF SwitchDef, BeginSwitch, SwitchCondDone, SwitchArm, SwitchArmDone,
                    SwitchDefault, EndSwitch
    <2> QED
        BY <1>2, <1>6, <2>1, SwitchKeepsLoops
<1>7. CASE Leaving
    <2>1. UNCHANGED <<condBB, mergeBB>>
        BY <1>7 DEF Leaving, GenReturn, BeginReturn, EndReturn, GenBreak, BeginBreak,
                    EndBreak, GenContinue, GenFallthrough
    <2> QED
        BY <1>2, <1>7, <2>1, LeavingKeepsLoops
<1>8. CASE Functions
    <2>1. UNCHANGED <<condBB, mergeBB>>
        BY <1>8 DEF Functions, EnterVaInit, EndVaInit, EndFunction, CodegenRoot,
                    GenFunction, Memo, DeclareExtern, EnterFunction
    <2> QED
        BY <1>2, <1>8, <2>1, FunctionsKeepLoops
<1>9. CASE Finish \/ UNCHANGED vars
    BY <1>9 DEF Finish, vars, LoopTargets, Innermost, Targets
<1> QED
    BY <1>3, <1>4, <1>5, <1>6, <1>7, <1>8, <1>9 DEF Next, Stopped

\* For every program, of any size and nesting: a break or continue that has a
\* target at all goes to the innermost loop that is still being generated.
THEOREM TargetsOfInnermostLoop == Spec => []LoopTargets
<1>1. Init => LoopTargets
    BY DEF Init, LoopTargets
<1> QED
    BY <1>1, InitTyped, StepTyped, StepTargets, PTL DEF Spec
-----------------------------------------------------------------------------
(***************************************************************************)
(* Functions are generated in the middle of one another, and each keeps    *)
(* its blocks and its insertion point to itself: FunctionsApart, and the   *)
(* refinement of LazyFunctions, for every program and every bound.  Then   *)
(* what the code of a finished function looks like: its blocks are closed  *)
(* and lead to each other (SealedFunctions), nothing follows a branch      *)
(* (NothingAfterBranch), a phi names the blocks it is reached from         *)
(* (PhiMatchesPredecessors); and where a break or continue goes            *)
(* (BreakLeavesInnermostLoop).                                             *)
(***************************************************************************)

Elems(s) == {s[i] : i \in 1..Len(s)}

\* The blocks that the construct of frame fr has created and not attached yet.
Pending(fr) ==
    CASE fr.kind = "if" /\ fr.stage = "then"        -> {fr.alt, fr.merge}
      [] fr.kind = "if" /\ fr.stage = "else"        -> {fr.merge}
      [] fr.kind = "switch" /\ fr.stage # "default" -> {fr.alt, fr.merge}
      [] fr.kind = "switch" /\ fr.stage = "default" -> {fr.merge}
      [] OTHER                                      -> {}

\* The attached blocks that it will move the insertion point to are in B.
HeldIn(fr, B) ==
    /\ fr.kind = "while" => {fr.body, fr.merge} \subseteq B
    /\ Elems(fr.arms) \subseteq B

Blocks == 1..Len(code)
Depths == 1..Len(frames)

LaidOut == \A f \in Function : BlocksOf(f) \subseteq Blocks

PendingApart ==
    /\ \A i \in Depths : Pending(frames[i]) \subseteq Blocks
    /\ \A i \in Depths : \A f \in Function : Pending(frames[i]) \cap BlocksOf(f) = {}
    /\ \A i \in Depths : Pending(frames[i]) # {} => frames[i].alt # frames[i].merge
    /\ \A i, j \in Depths : i # j => Pending(frames[i]) \cap Pending(frames[j]) = {}

Held == \A i \in Depths : HeldIn(frames[i], BlocksOf(frames[i].fn))

\* Every call stands in a call of codegen() for its function, and that function
\* has a body whose generation has begun.
Enclosed == \A i \in Depths :
    \E j \in 1..i : frames[j].kind = "func" /\ frames[j].fn = frames[i].fn
Begun == \A i \in Depths : frames[i].fn \in allocated \ Externs

\* The inductive invariant behind FunctionsApart.
Apart == /\ LaidOut /\ AttachedOnce /\ PendingApart /\ Held
         /\ OwnInsertionPoint /\ Enclosed /\ GeneratedOnce /\ Begun
-----------------------------------------------------------------------------
(* How far the blocks are filled. *)

Closed(s) == s # <<>> /\ s[Len(s)].op \in Terminators
\* Code may follow s: if it is closed, then by a statement that leaves.
Free(s) == Closed(s) => s[Len(s)].op \in LeavesOps
Tidy(s) == \A i \in 1..(Len(s) - 1) : s[i].op \in Terminators => s[i].op \in LeavesOps
\* The blocks that the terminators in s name.
Aims(s) == UNION {s[i].to : i \in {j \in 1..Len(s) : s[j].op \in Terminators}}

\* The attached blocks that the construct of frame fr has not come to yet.
Unfilled(fr) ==
    CASE fr.kind = "switch" /\ fr.stage \in {"arms", "arm"} -> Elems(fr.arms)
      [] fr.kind = "while" /\ fr.stage = "cond"             -> {fr.body, fr.merge}
      [] fr.kind = "while" /\ fr.stage # "cond"             -> {fr.merge}
      [] OTHER                                              -> {}

\* A switch between its arms: the code it has emitted goes nowhere but to them.
Between(fr) == fr.kind = "switch" /\ fr.stage = "arms"

\* The blocks that are pending in function f.
InHand(f) == UNION {Pending(frames[i]) : i \in {j \in Depths : frames[j].fn = f}}

\* The calls of a function are made one above the other, and a break with a value
\* has its loop below it.
Contiguous == \A i, k \in Depths : \A j \in i..k :
    frames[i].fn = frames[k].fn => frames[j].fn = frames[k].fn
LoopBelow(fr, n) ==
    LexicalBreaks /\ fr.kind = "break" =>
        \E j \in 1..n : frames[j].kind = "while" /\ frames[j].fn = fr.fn
OwnLoop == \A i \in Depths : LoopBelow(frames[i], i)

\* A block is closed, or someone still goes on in it.
Ends == \A f \in Function : \A b \in BlocksOf(f) :
    \/ Closed(code[b])
    \/ b = insert[f] /\ InProgress(f)
    \/ \E i \in Depths : frames[i].fn = f /\ b \in Unfilled(frames[i])

\* It leads to blocks of its function, or to those that will be attached to it.
Leads == LexicalBreaks =>
    \A f \in Function : \A b \in BlocksOf(f) : Aims(code[b]) \subseteq BlocksOf(f) \cup InHand(f)

\* What no one has come to is empty, and no one else is there.
Blank == \A i \in Depths : \A b \in Pending(frames[i]) \cup Unfilled(frames[i]) : code[b] = <<>>
UnfilledApart ==
    /\ \A i, j \in Depths : i # j => Unfilled(frames[i]) \cap Unfilled(frames[j]) = {}
    /\ \A i \in Depths : insert[frames[i].fn] \notin Unfilled(frames[i])
Separate(fr, B) ==
    /\ \A a, b \in 1..Len(fr.arms) : fr.arms[a] = fr.arms[b] => a = b
    /\ fr.kind = "while" => fr.body # fr.merge /\ fr.cond \in B
AllSeparate == \A i \in Depths : Separate(frames[i], BlocksOf(frames[i].fn))

\* Every call can go on where the insertion point is, but that of a switch between two
\* arms, which will move it before it does.
Ready ==
    /\ \A i \in Depths : Between(frames[i]) =>
          i = Len(frames) /\ Closed(code[insert[frames[i].fn]])
    /\ \A i \in Depths :
          \/ Free(code[insert[frames[i].fn]])
          \/ \E j \in Depths : Between(frames[j]) /\ frames[j].fn = frames[i].fn
AllTidy == \A b \in Blocks : Tidy(code[b])

\* The invariant, as long as the compiler runs, behind SealedFunctions and
\* NothingAfterBranch.
Sealing == /\ Contiguous /\ OwnLoop /\ Ends /\ Leads /\ Blank /\ UnfilledApart
           /\ AllSeparate /\ Ready /\ AllTidy
-----------------------------------------------------------------------------
(* What every step has in common that works on the function of the innermost *)
(* call: it replaces that call by the frames new, attaches the blocks bs and *)
(* moves the insertion point to p.                                           *)

Fresh == (Len(code) + 1)..Len(code')

\* The frame fr, that the step leaves at depth k above the calls underneath.
Resumes(fr, k, bs) ==
    /\ fr.fn = Top.fn
    /\ fr.kind = "func" => k = 1 /\ Top.kind = "func"
    /\ k = 1 /\ Top.kind = "func" => fr.kind = "func"
    /\ Pending(fr) \subseteq (Pending(Top) \cup Fresh) \ Elems(bs)
    /\ k # 1 => Pending(fr) = {}
    /\ Pending(fr) # {} => fr.alt # fr.merge
    /\ HeldIn(fr, BlocksOf(Top.fn) \cup Elems(bs))

\* It writes to the blocks of its own function only, attached or not.
WritesOwn ==
    /\ Len(code) <= Len(code')
    /\ \A b \in Blocks : b \notin BlocksOf(Top.fn) \cup Pending(Top) => code'[b] = code[b]

Works(new, bs, p) ==
    /\ frames # <<>>
    /\ new \in Seq(FrameType)
    /\ bs \in Seq(Nat)
    /\ frames' = Under \o new
    /\ \A k \in 1..Len(new) : Resumes(new[k], k, bs)
    /\ \A i, j \in 1..Len(bs) : bs[i] = bs[j] => i = j
    /\ Elems(bs) \subseteq Pending(Top) \cup Fresh
    /\ layout' = [layout EXCEPT ![Top.fn] = @ \o bs]
    /\ insert' = [insert EXCEPT ![Top.fn] = p]
    /\ p \in BlocksOf(Top.fn) \cup Elems(bs)
    /\ WritesOwn
    /\ allocated \subseteq allocated'

\* What it does to the code, if the blocks P are pending in the construct afterwards,
\* and the blocks O not filled.  It writes to the insertion point and to what was
\* pending, and closes what it leaves behind.
Fills(P, O, bs, p) ==
    /\ \A b \in Blocks : b \notin {IP} \cup Pending(Top) => code'[b] = code[b]
    /\ Pending(Top) \subseteq Elems(bs) \cup P
    /\ O \subseteq Unfilled(Top) \cup Elems(bs)
    /\ Unfilled(Top) \subseteq O \cup {p}
    /\ p \in {IP} \cup Unfilled(Top) \cup Elems(bs)
    /\ p \notin O
    /\ \A b \in P \cup O : code'[b] = <<>>
    /\ \A b \in {IP} \cup Elems(bs) : b = p \/ b \in O \/ Closed(code'[b])
    /\ \A b \in {IP} \cup Pending(Top) \cup Fresh : Tidy(code'[b])
    /\ LexicalBreaks => \A b \in {IP} \cup Elems(bs) :
          Aims(code'[b]) \subseteq BlocksOf(Top.fn) \cup InHand(Top.fn) \cup Elems(bs) \cup P

\* The frames it leaves can go on from there.
Seals(new, bs, p) ==
    /\ Fills(UNION {Pending(new[k]) : k \in 1..Len(new)},
             UNION {Unfilled(new[k]) : k \in 1..Len(new)}, bs, p)
    /\ \A k \in 1..Len(new) :
          /\ Separate(new[k], BlocksOf(Top.fn) \cup Elems(bs))
          /\ LoopBelow(new[k], Len(frames) - 1)
          /\ k # 1 => Unfilled(new[k]) = {}
          /\ Between(new[k]) => k = Len(new) /\ Closed(code'[p])
    /\ Free(code'[p]) \/ \E k \in 1..Len(new) : Between(new[k])
    /\ Top.kind = "func" /\ new = <<>> => Closed(code'[p])

\* Attaching blocks to one function leaves the others their own.
LEMMA Attached ==
    ASSUME layout \in [Function -> Seq(Nat)], NEW g \in Function, NEW bs \in Seq(Nat),
           layout' = [layout EXCEPT ![g] = @ \o bs]
    PROVE  /\ \A f \in Function \ {g} : layout'[f] = layout[f] /\ BlocksOf(f)' = BlocksOf(f)
           /\ Len(layout[g]) \in Nat /\ Len(bs) \in Nat
           /\ Len(layout'[g]) = Len(layout[g]) + Len(bs)
           /\ \A i \in 1..Len(layout'[g]) :
                 \/ i \in 1..Len(layout[g]) /\ layout'[g][i] = layout[g][i]
                 \/ /\ i \notin 1..Len(layout[g]) /\ i - Len(layout[g]) \in 1..Len(bs)
                    /\ layout'[g][i] = bs[i - Len(layout[g])]
           /\ BlocksOf(g)' = BlocksOf(g) \cup Elems(bs)
<1> DEFINE l == layout[g]
           m == Len(l)
           k == Len(bs)
<1>1. l \in Seq(Nat) /\ layout'[g] = l \o bs
    OBVIOUS
<1>2. m \in Nat /\ k \in Nat /\ Len(layout'[g]) = m + k
    BY <1>1, LenProperties, ConcatProperties
<1>3. ASSUME NEW i \in 1..m PROVE layout'[g][i] = l[i] /\ i \in 1..(m + k)
    <2>1. i \in 1..(m + k) /\ i <= m
        <3> HIDE DEF m, k
        <3> QED BY <1>2
    <2> QED
        BY <1>1, <2>1, ConcatProperties
<1>4. ASSUME NEW i \in 1..(m + k), i \notin 1..m
      PROVE  i - m \in 1..k /\ layout'[g][i] = bs[i - m]
    <2>1. ~(i <= m) /\ i - m \in 1..k
        <3> HIDE DEF m, k
        <3> QED BY <1>2, <1>4
    <2> QED
        BY <1>1, <2>1, ConcatProperties
<1>5. BlocksOf(g)' = BlocksOf(g) \cup Elems(bs)
    <2>1. BlocksOf(g)' = {layout'[g][i] : i \in 1..(m + k)}
        BY <1>2 DEF BlocksOf
    <2>2. ASSUME NEW i \in 1..k PROVE m + i \in 1..(m + k) /\ m + i \notin 1..m /\ (m + i) - m = i
        <3> HIDE DEF m, k
        <3> QED BY <1>2
    <2>3. ASSUME NEW i \in 1..k PROVE layout'[g][m + i] = bs[i]
        BY <1>4, <2>2
    <2>4. BlocksOf(g) \cup Elems(bs) \subseteq BlocksOf(g)'
        <3>1. \A i \in 1..m : l[i] \in BlocksOf(g)'
            BY <1>3, <2>1
        <3>2. \A i \in 1..k : bs[i] \in BlocksOf(g)'
            BY <2>1, <2>2, <2>3
        <3> QED
            BY <3>1, <3>2 DEF BlocksOf, Elems
    <2>5. BlocksOf(g)' \subseteq BlocksOf(g) \cup Elems(bs)
        <3>1. \A i \in 1..(m + k) : layout'[g][i] \in BlocksOf(g) \cup Elems(bs)
            BY <1>3, <1>4 DEF BlocksOf, Elems
        <3> QED
            BY <2>1, <3>1
    <2> QED
        BY <2>4, <2>5
<1>6. \A f \in Function \ {g} : layout'[f] = layout[f]
    OBVIOUS
<1>7. \A f \in Function \ {g} : BlocksOf(f)' = BlocksOf(f)
    BY <1>6 DEF BlocksOf
<1> QED
    BY <1>2, <1>3, <1>4, <1>5, <1>6, <1>7
\* What the stack is after such a step.
LEMMA WorksFrames ==
    ASSUME TypeOK, NEW new, NEW bs, NEW p, Works(new, bs, p)
    PROVE  /\ Top.fn \in Function /\ Len(frames) \in Depths /\ Top = frames[Len(frames)]
           /\ \A i \in Depths' :
                 \/ i \in 1..(Len(frames) - 1) /\ i \in Depths /\ frames'[i] = frames[i]
                 \/ /\ i \notin 1..(Len(frames) - 1)
                    /\ i = Len(frames) <=> i - Len(frames) + 1 = 1
                    /\ Resumes(frames'[i], i - Len(frames) + 1, bs)
           /\ Depths' # {} => 1..(Len(frames) - 1) \subseteq Depths'
<1> DEFINE m == Len(frames)
<1>1. /\ m \in Nat \ {0} /\ Len(new) \in Nat /\ Len(frames') = m - 1 + Len(new)
      /\ \A i \in 1..(m - 1) : frames'[i] = frames[i]
      /\ \A i \in m..Len(frames') :
            i - m + 1 \in 1..Len(new) /\ frames'[i] = new[i - m + 1]
    BY Replaced DEF Works, TypeOK
<1>2. Top.fn \in Function
    BY InCall DEF Works
<1>3. ASSUME NEW i \in 1..Len(frames')
      PROVE  \/ i \in 1..(m - 1) /\ i \in 1..m
             \/ /\ i \in m..Len(frames') /\ i \notin 1..(m - 1)
                /\ i = m <=> i - m + 1 = 1
    <2> HIDE DEF m
    <2> QED BY <1>1
<1>4. m \in 1..m /\ (1..Len(frames') # {} => 1..(m - 1) \subseteq 1..Len(frames'))
    <2> HIDE DEF m
    <2> QED BY <1>1
<1>5. ASSUME NEW i \in m..Len(frames') PROVE Resumes(frames'[i], i - m + 1, bs)
    BY <1>1, <1>5 DEF Works
<1> QED
    BY <1>1, <1>2, <1>3, <1>4, <1>5 DEF Top, Depths

\* The blocks that a step may attach or create are those of no one else.
LEMMA WorksUnattached ==
    ASSUME TypeOK, TypeOK', Apart, NEW new, NEW bs, NEW p, Works(new, bs, p)
    PROVE  /\ Blocks \subseteq Blocks'
           /\ Pending(Top) \cup Fresh \subseteq Blocks'
           /\ \A b \in Pending(Top) \cup Fresh : \A f \in Function : b \notin BlocksOf(f)
           /\ \A b \in Pending(Top) \cup Fresh : \A i \in 1..(Len(frames) - 1) :
                 b \notin Pending(frames[i])
<1>1. Len(code) \in Nat /\ Len(code') \in Nat /\ Len(code) <= Len(code')
    BY LenProperties DEF TypeOK, Works, WritesOwn
<1>2. Blocks \subseteq Blocks' /\ Fresh \subseteq Blocks' /\ Fresh \cap Blocks = {}
    BY <1>1 DEF Blocks, Fresh
<1>3. Len(frames) \in Depths /\ Top = frames[Len(frames)]
    BY WorksFrames
<1>4. Pending(Top) \subseteq Blocks /\ \A f \in Function : Pending(Top) \cap BlocksOf(f) = {}
    BY <1>3 DEF Apart, PendingApart
<1>5. \A f \in Function : Fresh \cap BlocksOf(f) = {}
    BY <1>2 DEF Apart, LaidOut
<1>6. \A i \in 1..(Len(frames) - 1) :
         /\ Pending(frames[i]) \cap Pending(Top) = {}
         /\ Pending(frames[i]) \cap Fresh = {}
    <2>1. \A i \in 1..(Len(frames) - 1) : i \in Depths /\ i # Len(frames)
        BY LenProperties DEF Depths, TypeOK
    <2> QED
        BY <1>2, <1>3, <2>1 DEF Apart, PendingApart
<1> QED
    BY <1>2, <1>4, <1>5, <1>6

LEMMA WorksLayout ==
    ASSUME TypeOK, NEW new, NEW bs, NEW p, Works(new, bs, p), NEW g \in Function, g = Top.fn
    PROVE  /\ \A f \in Function : BlocksOf(f) \subseteq BlocksOf(f)'
           /\ \A f \in Function \ {g} : layout'[f] = layout[f] /\ BlocksOf(f)' = BlocksOf(f)
           /\ BlocksOf(g)' = BlocksOf(g) \cup Elems(bs)
           /\ \A f \in Function : BlocksOf(f)' \subseteq BlocksOf(f) \cup Elems(bs)
<1>1. bs \in Seq(Nat) /\ layout' = [layout EXCEPT ![g] = @ \o bs]
    BY DEF Works
<1>2. /\ \A f \in Function \ {g} : layout'[f] = layout[f] /\ BlocksOf(f)' = BlocksOf(f)
      /\ BlocksOf(g)' = BlocksOf(g) \cup Elems(bs)
    BY <1>1, Attached DEF TypeOK
<1> QED
    BY <1>2

LEMMA AttachKeepsOnce ==
    ASSUME TypeOK, TypeOK', AttachedOnce, NEW g \in Function, NEW bs \in Seq(Nat),
           layout' = [layout EXCEPT ![g] = @ \o bs],
           \A i, j \in 1..Len(bs) : bs[i] = bs[j] => i = j,
           \A b \in Elems(bs) : \A f \in Function : b \notin BlocksOf(f)
    PROVE  AttachedOnce'
<1>1. bs \in Seq(Nat) /\ layout' = [layout EXCEPT ![g] = @ \o bs]
    OBVIOUS
<1>3. \A i \in 1..Len(bs) : \A f \in Function : \A j \in 1..Len(layout[f]) : layout[f][j] # bs[i]
    <2>1. \A i \in 1..Len(bs) : bs[i] \in Elems(bs)
        BY DEF Elems
    <2>2. \A f \in Function : \A j \in 1..Len(layout[f]) : layout[f][j] \in BlocksOf(f)
        BY DEF BlocksOf
    <2> QED
        BY <2>1, <2>2
<1>4. ASSUME NEW f \in Function, NEW h \in Function,
             NEW i \in 1..Len(layout'[f]), NEW j \in 1..Len(layout'[h]),
             layout'[f][i] = layout'[h][j]
      PROVE  f = h /\ i = j
    <2>1. Len(layout[g]) \in Nat
        BY <1>1 DEF TypeOK
    <2>2. ASSUME NEW e \in Function, NEW k \in 1..Len(layout'[e])
          PROVE  \/ k \in 1..Len(layout[e]) /\ layout'[e][k] = layout[e][k]
                 \/ /\ e = g /\ k - Len(layout[g]) \in 1..Len(bs)
                    /\ layout'[e][k] = bs[k - Len(layout[g])]
        <3>1. layout \in [Function -> Seq(Nat)]
            BY DEF TypeOK
        <3>2. CASE e = g
            BY <1>1, <3>1, <3>2, Attached
        <3>3. CASE e # g
            <4>1. layout'[e] = layout[e]
                BY <1>1, <3>1, <3>3
            <4> QED
                BY <4>1
        <3> QED
            BY <3>2, <3>3
    <2>3. CASE i \in 1..Len(layout[f]) /\ layout'[f][i] = layout[f][i]
        <3>1. CASE j \in 1..Len(layout[h]) /\ layout'[h][j] = layout[h][j]
            <4>1. layout[f][i] = layout[h][j]
                BY <1>4, <2>3, <3>1
            <4> QED
                BY <2>3, <3>1, <4>1 DEF AttachedOnce
        <3>2. CASE j - Len(layout[g]) \in 1..Len(bs) /\ layout'[h][j] = bs[j - Len(layout[g])]
            BY <1>3, <1>4, <2>3, <3>2
        <3> QED
            BY <2>2, <3>1, <3>2
    <2>4. CASE f = g /\ i - Len(layout[g]) \in 1..Len(bs) /\ layout'[f][i] = bs[i - Len(layout[g])]
        <3>1. CASE j \in 1..Len(layout[h]) /\ layout'[h][j] = layout[h][j]
            BY <1>3, <1>4, <2>4, <3>1
        <3>2. CASE h = g /\ j - Len(layout[g]) \in 1..Len(bs) /\ layout'[h][j] = bs[j - Len(layout[g])]
            <4>1. i - Len(layout[g]) = j - Len(layout[g])
                BY <1>4, <2>4, <3>2
            <4>2. Len(layout'[g]) \in Nat
                BY <1>1 DEF TypeOK
            <4>3. i \in Int /\ j \in Int
                BY <2>4, <3>2, <4>2
            <4> QED
                BY <2>1, <2>4, <3>2, <4>1, <4>3
        <3> QED
            BY <2>2, <3>1, <3>2
    <2> QED
        BY <2>2, <2>3, <2>4
<1> QED
    BY <1>4 DEF AttachedOnce

LEMMA WorksAttachedOnce ==
    ASSUME TypeOK, TypeOK', Apart, NEW new, NEW bs, NEW p, Works(new, bs, p)
    PROVE  AttachedOnce'
<1>1. PICK g \in Function : g = Top.fn
    BY WorksFrames
<1>2. \A b \in Elems(bs) : \A f \in Function : b \notin BlocksOf(f)
    BY WorksUnattached DEF Works
<1>3. /\ bs \in Seq(Nat) /\ layout' = [layout EXCEPT ![g] = @ \o bs]
      /\ \A i, j \in 1..Len(bs) : bs[i] = bs[j] => i = j
    BY <1>1 DEF Works
<1>4. AttachedOnce
    BY DEF Apart
<1> QED
    BY <1>2, <1>3, <1>4, AttachKeepsOnce

LEMMA WorksPendingApart ==
    ASSUME TypeOK, TypeOK', Apart, NEW new, NEW bs, NEW p, Works(new, bs, p)
    PROVE  PendingApart'
<1> DEFINE m == Len(frames)
           Old(i) == i \in 1..(m - 1) /\ i \in Depths /\ frames'[i] = frames[i]
           Mine(i) == /\ i \notin 1..(m - 1) /\ (i = m <=> i - m + 1 = 1)
                      /\ Resumes(frames'[i], i - m + 1, bs)
<1>0. PICK g \in Function : g = Top.fn
    BY WorksFrames
<1>1. \A i \in Depths' : Old(i) \/ Mine(i)
    BY WorksFrames
<1> HIDE DEF m
<1>2. \A i \in Depths' : Mine(i) =>
         /\ Pending(frames'[i]) \subseteq (Pending(Top) \cup Fresh) \ Elems(bs)
         /\ i # m => Pending(frames'[i]) = {}
         /\ Pending(frames'[i]) # {} => frames'[i].alt # frames'[i].merge
    BY DEF Resumes
<1>3. \A f \in Function : BlocksOf(f)' \subseteq BlocksOf(f) \cup Elems(bs)
    BY <1>0, WorksLayout
<1>4. \A i \in 1..(m - 1) : Pending(frames[i]) \cap Elems(bs) = {}
    BY WorksUnattached DEF Works, m
<1>5. ASSUME NEW i \in Depths'
      PROVE  /\ Pending(frames'[i]) \subseteq Blocks'
             /\ \A f \in Function : Pending(frames'[i]) \cap BlocksOf(f)' = {}
             /\ Pending(frames'[i]) # {} => frames'[i].alt # frames'[i].merge
    <2>1. CASE Old(i)
        BY <1>3, <1>4, <2>1, WorksUnattached DEF Apart, PendingApart
    <2>2. CASE Mine(i)
        BY <1>2, <1>3, <2>2, WorksUnattached
    <2> QED
        BY <1>1, <2>1, <2>2
<1>6. ASSUME NEW i \in Depths', NEW j \in Depths', i # j
      PROVE  Pending(frames'[i]) \cap Pending(frames'[j]) = {}
    <2>1. CASE Old(i) /\ Old(j)
        BY <1>6, <2>1 DEF Apart, PendingApart
    <2>2. CASE Old(i) /\ Mine(j)
        BY <1>2, <2>2, WorksUnattached DEF m
    <2>3. CASE Mine(i) /\ Old(j)
        BY <1>2, <2>3, WorksUnattached DEF m
    <2>4. CASE Mine(i) /\ Mine(j)
        BY <1>2, <1>6, <2>4
    <2> QED
        BY <1>1, <2>1, <2>2, <2>3, <2>4
<1> QED
    BY <1>5, <1>6 DEF PendingApart, Pending

LEMMA FunctionOfFrame ==
    ASSUME NEW s \in Seq(FrameType), NEW i \in 1..Len(s)
    PROVE  s[i] \in FrameType /\ s[i].fn \in Function
<1>1. s[i] \in FrameType
    OBVIOUS
<1> QED
    BY <1>1 DEF FrameType

LEMMA WorksKeepsApart ==
    ASSUME TypeOK, TypeOK', Apart, NEW new, NEW bs, NEW p, Works(new, bs, p)
    PROVE  Apart'
<1> DEFINE m == Len(frames)
           Old(i) == i \in 1..(m - 1) /\ i \in Depths /\ frames'[i] = frames[i]
           Mine(i) == /\ i \notin 1..(m - 1) /\ (i = m <=> i - m + 1 = 1)
                      /\ Resumes(frames'[i], i - m + 1, bs)
<1>1. \A i \in Depths' : Old(i) \/ Mine(i)
    BY WorksFrames
<1>0. PICK g \in Function : g = Top.fn
    BY WorksFrames
<1>2. Top.fn \in Function /\ m \in Depths /\ Top = frames[m]
    BY WorksFrames
<1>3. m \in Nat /\ Len(frames') \in Nat
    BY DEF TypeOK
<1> HIDE DEF m
<1>4. \A i \in Depths : frames[i].fn \in Function
    BY FunctionOfFrame DEF TypeOK, Depths
<1>5. LaidOut'
    <2>1. \A f \in Function : BlocksOf(f)' \subseteq BlocksOf(f) \cup Elems(bs)
        BY <1>0, WorksLayout
    <2> QED
        BY <2>1, WorksUnattached DEF LaidOut, Apart, Works
<1>6. Held' /\ OwnInsertionPoint'
    <2>1. BlocksOf(g)' = BlocksOf(g) \cup Elems(bs)
        BY <1>0, WorksLayout
    <2>2. insert'[g] \in BlocksOf(g)'
        BY <1>0, <2>1 DEF Works, TypeOK
    <2>3. \A f \in Function \ {g} : insert'[f] = insert[f]
        BY <1>0 DEF Works, TypeOK
    <2>4. ASSUME NEW i \in Depths', NEW f \in Function, f = frames'[i].fn
          PROVE  HeldIn(frames'[i], BlocksOf(f)') /\ insert'[f] \in BlocksOf(f)'
        <3>1. CASE Old(i)
            <4>1. f = frames[i].fn
                BY <2>4, <3>1
            <4>2. BlocksOf(f) \subseteq BlocksOf(f)'
                BY <1>0, WorksLayout
            <4>3. HeldIn(frames[i], BlocksOf(f)) /\ insert[f] \in BlocksOf(f)
                BY <3>1, <4>1 DEF Apart, Held, OwnInsertionPoint, Depths
            <4>4. HeldIn(frames'[i], BlocksOf(f)')
                BY <3>1, <4>2, <4>3 DEF HeldIn
            <4>5. insert'[f] \in BlocksOf(f)'
                BY <2>2, <2>3, <4>2, <4>3
            <4> QED
                BY <4>4, <4>5
        <3>2. CASE Mine(i)
            <4>1. f = g /\ HeldIn(frames'[i], BlocksOf(g) \cup Elems(bs))
                BY <1>0, <2>4, <3>2 DEF Resumes
            <4> QED
                BY <2>1, <2>2, <4>1
        <3> QED
            BY <1>1, <3>1, <3>2
    <2>5. \A i \in Depths' : frames'[i].fn \in Function
        BY FunctionOfFrame DEF TypeOK, Depths
    <2>6. Held'
        BY <2>4, <2>5 DEF Held, Depths, BlocksOf
    <2>7. OwnInsertionPoint'
        BY <2>4, <2>5 DEF OwnInsertionPoint, Depths, BlocksOf
    <2> QED
        BY <2>6, <2>7
<1>7. Begun'
    <2>1. \A i \in Depths : frames[i].fn \in allocated \ Externs
        BY DEF Apart, Begun
    <2>2. allocated \subseteq allocated'
        BY DEF Works
    <2>3. \A i \in Depths' : Mine(i) => frames'[i].fn = frames[m].fn
        BY <1>2 DEF Resumes
    <2>4. \A i \in Depths' : frames'[i].fn \in allocated' \ Externs
        BY <1>1, <1>2, <2>1, <2>2, <2>3
    <2> QED
        BY <2>4 DEF Begun
<1>8. Enclosed'
    <2>1. \A i \in 1..(m - 1) : Depths' # {} => i \in Depths' /\ Old(i)
        BY <1>1, <1>3, WorksFrames DEF m
    <2>2. ASSUME NEW i \in Depths'
          PROVE  \E j \in 1..i : frames'[j].kind = "func" /\ frames'[j].fn = frames'[i].fn
        <3>1. CASE Old(i)
            <4>1. PICK j \in 1..i : frames[j].kind = "func" /\ frames[j].fn = frames[i].fn
                BY <3>1 DEF Apart, Enclosed
            <4>2. j \in 1..(m - 1)
                BY <1>3, <3>1
            <4> QED
                BY <2>1, <3>1, <4>1, <4>2
        <3>2. CASE Mine(i)
            <4>1. m \in 1..i /\ i \in 1..Len(frames')
                BY <1>2, <1>3, <3>2 DEF Depths
            <4>2. m \in Depths'
                BY <1>2, <1>3, <4>1 DEF Depths
            <4>3. m \notin 1..(m - 1) /\ m - m + 1 = 1
                BY <1>3
            <4>4. Resumes(frames'[m], 1, bs)
                BY <1>1, <4>2, <4>3
            <4>5. frames'[m].fn = Top.fn /\ frames'[i].fn = Top.fn
                BY <3>2, <4>4 DEF Resumes
            <4>6. CASE Top.kind = "func"
                BY <4>1, <4>4, <4>5, <4>6 DEF Resumes
            <4>7. CASE Top.kind # "func"
                <5>1. PICK j \in 1..m : frames[j].kind = "func" /\ frames[j].fn = Top.fn
                    BY <1>2 DEF Apart, Enclosed
                <5>2. j \in 1..(m - 1) /\ j \in 1..i
                    BY <1>2, <1>3, <4>1, <4>7, <5>1
                <5> QED
                    BY <2>1, <4>5, <5>1, <5>2
            <4> QED
                BY <4>6, <4>7
        <3> QED
            BY <1>1, <3>1, <3>2
    <2> QED
        BY <2>2 DEF Enclosed
<1>9. GeneratedOnce'
    <2>1. ASSUME NEW i \in Depths', frames'[i].kind = "func"
          PROVE  i \in Depths /\ frames[i].kind = "func" /\ frames[i].fn = frames'[i].fn
        <3>1. CASE Old(i)
            BY <2>1, <3>1
        <3>2. CASE Mine(i)
            BY <1>2, <2>1, <3>2 DEF Resumes
        <3> QED
            BY <1>1, <3>1, <3>2
    <2>2. \A i, j \in Depths' :
             frames'[i].kind = "func" /\ frames'[j].kind = "func" /\ frames'[i].fn = frames'[j].fn => i = j
        BY <2>1 DEF Apart, GeneratedOnce, Depths
    <2> QED
        BY <2>2 DEF GeneratedOnce, Depths
<1> QED
    BY <1>5, <1>6, <1>7, <1>8, <1>9, WorksAttachedOnce, WorksPendingApart DEF Apart
-----------------------------------------------------------------------------
(* The code that a step makes of the old code: it differs in blocks of its  *)
(* own function, and then in new blocks.                                    *)

Writes(c) ==
    /\ c \in Seq(Seq(Inst))
    /\ Len(c) = Len(code)
    /\ \A b \in Blocks : b \notin BlocksOf(Top.fn) \cup Pending(Top) => c[b] = code[b]

LEMMA EmitWrites ==
    ASSUME NEW c, Writes(c), NEW b \in BlocksOf(Top.fn) \cup Pending(Top), NEW i \in Inst
    PROVE  Writes(Emit(c, b, i))
<1>1. Emit(c, b, i) \in Seq(Seq(Inst)) /\ Len(Emit(c, b, i)) = Len(code)
    BY EmitTyped DEF Writes
<1>2. \A x \in Blocks : x # b => Emit(c, b, i)[x] = c[x]
    BY DEF Emit, Writes, Blocks
<1> QED
    BY <1>1, <1>2 DEF Writes

LEMMA EmitOpWrites ==
    ASSUME NEW c, Writes(c), NEW b \in BlocksOf(Top.fn) \cup Pending(Top)
    PROVE  Writes(EmitOp(c, b))
<1>1. OpInst \in Inst
    BY DEF OpInst, Inst
<1> QED
    BY <1>1, EmitWrites DEF EmitOp

LEMMA BranchWrites ==
    ASSUME NEW c, Writes(c), NEW b \in BlocksOf(Top.fn) \cup Pending(Top),
           NEW tag \in Jumps, NEW t \in Nat
    PROVE  Writes(Branch(c, b, tag, t))
<1>1. [op |-> tag, to |-> {t}] \in Inst
    BY DEF Inst, Jumps, Terminators
<1> QED
    BY <1>1, EmitWrites DEF Branch

LEMMA RetWrites ==
    ASSUME NEW c, Writes(c), NEW b \in BlocksOf(Top.fn) \cup Pending(Top)
    PROVE  Writes(Emit(c, b, [op |-> "ret", to |-> {}]))
<1>1. [op |-> "ret", to |-> {}] \in Inst
    BY DEF Inst, Terminators
<1> QED
    BY <1>1, EmitWrites

LEMMA CodeWrites == ASSUME TypeOK PROVE Writes(code)
BY DEF Writes, TypeOK

LEMMA WrittenInPlace ==
    ASSUME TypeOK, Writes(code')
    PROVE  WritesOwn /\ Fresh = {}
BY LenProperties DEF Writes, WritesOwn, Fresh, TypeOK

LEMMA WrittenWithBlocks ==
    ASSUME TypeOK, NEW c, Writes(c), NEW k \in Seq(Seq(Inst)), code' = c \o k
    PROVE  WritesOwn /\ Fresh = (Len(code) + 1)..(Len(code) + Len(k)) /\ Len(k) \in Nat
<1>1. Len(code) \in Nat /\ Len(k) \in Nat /\ Len(c) = Len(code)
    BY LenProperties DEF TypeOK, Writes
<1>2. c \in Seq(Seq(Inst))
    BY DEF Writes
<1>3. Len(c \o k) = Len(c) + Len(k) /\ \A x \in 1..(Len(c) + Len(k)) :
         (c \o k)[x] = IF x <= Len(c) THEN c[x] ELSE k[x - Len(c)]
    BY <1>2, ConcatProperties
<1>4. Len(code') = Len(code) + Len(k) /\ \A x \in 1..Len(code) : code'[x] = c[x]
    BY <1>1, <1>3
<1> QED
    BY <1>1, <1>4 DEF Writes, WritesOwn, Fresh, Blocks

\* The insertion point of the innermost call, and the blocks New gives.
LEMMA HereIsOwn ==
    ASSUME TypeOK, Apart, frames # <<>>
    PROVE  /\ Len(frames) \in Depths /\ Top = frames[Len(frames)]
           /\ Top \in FrameType /\ Top.fn \in Function
           /\ IP \in BlocksOf(Top.fn)
           /\ HeldIn(Top, BlocksOf(Top.fn))
           /\ Pending(Top) # {} => Top.alt # Top.merge
<1>1. Len(frames) \in Depths /\ Top = frames[Len(frames)] /\ Top \in FrameType /\ Top.fn \in Function
    BY TopTyped DEF TypeOK, Depths, Top
<1>2. insert[frames[Len(frames)].fn] \in BlocksOf(frames[Len(frames)].fn)
    BY <1>1 DEF Apart, OwnInsertionPoint, Depths
<1>3. HeldIn(Top, BlocksOf(Top.fn))
    BY <1>1 DEF Apart, Held
<1>4. Pending(Top) # {} => Top.alt # Top.merge
    BY <1>1 DEF Apart, PendingApart
<1> QED
    BY <1>1, <1>2, <1>3, <1>4 DEF IP

-----------------------------------------------------------------------------
(* The calls a step makes. *)

Plain(cs) == \A k \in 1..Len(cs) :
    /\ cs[k].fn = Top.fn /\ cs[k].kind \in {"block", "stmt", "expr", "if"}
    /\ Pending(cs[k]) = {} /\ cs[k].arms = <<>>

LEMMA PlainResumes ==
    ASSUME NEW fr, NEW k \in Nat, NEW bs, fr.fn = Top.fn, fr.kind \notin {"func", "while"},
           Pending(fr) = {}, fr.arms = <<>>, k = 1 => Top.kind # "func"
    PROVE  Resumes(fr, k, bs)
<1>1. Elems(fr.arms) = {}
    BY DEF Elems
<1> QED
    BY <1>1 DEF Resumes, HeldIn

LEMMA PlainFrame ==
    ASSUME NEW k \in Kinds \ {"func", "while", "switch"}, NEW s \in Stages,
           k = "if" => s = "cond", NEW f
    PROVE  /\ Frame(k, s, f).fn = f /\ Frame(k, s, f).kind = k
           /\ Pending(Frame(k, s, f)) = {} /\ Frame(k, s, f).arms = <<>>
BY DEF Frame, Pending

LEMMA PlainCalls ==
    /\ Plain(Block(Top.fn)) /\ Plain(Expr(Top.fn)) /\ Plain(<<>>)
    /\ \A cs \in ElseClause(Top.fn) : Plain(cs)
<1> DEFINE f == Top.fn
           b == Frame("block", "body", f)
           s == Frame("stmt", "start", f)
           e == Frame("expr", "start", f)
           i == Frame("if", "cond", f)
           P(fr) == /\ fr.fn = f /\ fr.kind \in {"block", "stmt", "expr", "if"}
                    /\ Pending(fr) = {} /\ fr.arms = <<>>
<1>1. P(b) /\ P(s) /\ P(e) /\ P(i)
    BY PlainFrame DEF Kinds, Stages
<1>2. Block(f) = <<b, s>> /\ Expr(f) = <<e>> /\ ElseClause(f) = {<<b, s>>, <<i>> \o <<e>>}
    BY DEF Block, Expr, ElseClause
<1> HIDE DEF b, s, e, i
<1>3. <<i>> \o <<e>> = <<i, e>>
    <2>1. <<i>> \in Seq({i, e}) /\ <<e>> \in Seq({i, e}) /\ <<i, e>> \in Seq({i, e})
        OBVIOUS
    <2>2. Len(<<i>>) = 1 /\ Len(<<e>>) = 1 /\ Len(<<i, e>>) = 2
        OBVIOUS
    <2>3. /\ <<i>> \o <<e>> \in Seq({i, e}) /\ Len(<<i>> \o <<e>>) = 2
          /\ (<<i>> \o <<e>>)[1] = i /\ (<<i>> \o <<e>>)[2] = e
        BY <2>1, <2>2, ConcatProperties
    <2>4. \A k \in 1..Len(<<i>> \o <<e>>) : (<<i>> \o <<e>>)[k] = <<i, e>>[k]
        BY <2>3
    <2> QED
        BY <2>1, <2>2, <2>3, <2>4, SeqEqual
<1>4. \A k \in 1..2 : P(<<b, s>>[k]) /\ P(<<i, e>>[k])
    BY <1>1
<1>5. \A k \in 1..1 : P(<<e>>[k])
    BY <1>1
<1>6. Len(<<b, s>>) = 2 /\ Len(<<i, e>>) = 2 /\ Len(<<e>>) = 1 /\ Len(<<>>) = 0
    OBVIOUS
<1> QED
    BY <1>2, <1>3, <1>4, <1>5, <1>6 DEF Plain

LEMMA CallResumes ==
    ASSUME TypeOK, frames # <<>>, NEW fr \in FrameType, NEW cs \in Seq(FrameType),
           Call(fr, cs), Plain(cs), NEW bs, Resumes(fr, 1, bs)
    PROVE  /\ <<fr>> \o cs \in Seq(FrameType)
           /\ frames' = Under \o (<<fr>> \o cs)
           /\ \A k \in 1..Len(<<fr>> \o cs) : Resumes((<<fr>> \o cs)[k], k, bs)
<1>1. <<fr>> \in Seq(FrameType) /\ <<fr>> \o cs \in Seq(FrameType)
    BY ConcatTyped
<1>2. frames' = Under \o (<<fr>> \o cs)
    <2>1. frames' = (Under \o <<fr>>) \o cs
        BY DEF Call
    <2>2. PICK x, y : x = Under /\ y = <<fr>>
        OBVIOUS
    <2>3. x \in Seq(FrameType) /\ y \in Seq(FrameType)
        BY <1>1, <2>2, UnderTyped DEF TypeOK
    <2>4. (x \o y) \o cs = x \o (y \o cs)
        BY <2>3, ConcatAssociative
    <2> QED
        BY <2>1, <2>2, <2>4
<1>3. /\ Len(<<fr>> \o cs) = 1 + Len(cs) /\ Len(cs) \in Nat /\ (<<fr>> \o cs)[1] = fr
      /\ \A k \in 2..(1 + Len(cs)) : (<<fr>> \o cs)[k] = cs[k - 1]
    BY <1>1, ConcatProperties, LenProperties
<1>4. ASSUME NEW k \in 2..(1 + Len(cs)) PROVE Resumes((<<fr>> \o cs)[k], k, bs)
    <2>1. k \in Nat /\ k # 1 /\ k - 1 \in 1..Len(cs)
        BY <1>3
    <2>2. (<<fr>> \o cs)[k] = cs[k - 1]
        BY <1>3
    <2>3. PICK x : x = cs[k - 1]
        OBVIOUS
    <2>4. PICK j : j = k - 1
        OBVIOUS
    <2>5. Resumes(x, k, bs)
        BY <2>1, <2>3, <2>4, PlainResumes DEF Plain
    <2> QED
        BY <2>2, <2>3, <2>5
<1>5. \A k \in 1..(1 + Len(cs)) : k = 1 \/ k \in 2..(1 + Len(cs))
    BY <1>3
<1> QED
    BY <1>1, <1>2, <1>3, <1>4, <1>5

\* No block is attached, and the insertion point stays.
LEMMA InPlaceWorks ==
    ASSUME TypeOK, Apart, frames # <<>>, NEW new \in Seq(FrameType), frames' = Under \o new,
           \A k \in 1..Len(new) : Resumes(new[k], k, <<>>),
           UNCHANGED layout, UNCHANGED insert, WritesOwn, allocated \subseteq allocated'
    PROVE  Works(new, <<>>, IP)
<1>1. Top.fn \in Function /\ IP \in BlocksOf(Top.fn)
    BY HereIsOwn
<1>2. layout[Top.fn] \o <<>> = layout[Top.fn]
    BY <1>1, ConcatEmptySeq DEF TypeOK
<1>3. layout' = [layout EXCEPT ![Top.fn] = @ \o <<>>]
    BY <1>2 DEF TypeOK
<1>4. insert' = [insert EXCEPT ![Top.fn] = IP]
    BY DEF TypeOK, IP
<1>5. /\ <<>> \in Seq(Nat) /\ Elems(<<>>) = {}
      /\ \A i, j \in 1..Len(<<>>) : <<>>[i] = <<>>[j] => i = j
    BY DEF Elems
<1>6. /\ Elems(<<>>) \subseteq Pending(Top) \cup Fresh
      /\ IP \in BlocksOf(Top.fn) \cup Elems(<<>>)
    BY <1>1, <1>5
<1> QED
    BY <1>3, <1>4, <1>5, <1>6 DEF Works

\* The innermost call returns.
LEMMA ReturnWorks ==
    ASSUME TypeOK, Apart, frames # <<>>, frames' = Under,
           UNCHANGED layout, UNCHANGED insert, WritesOwn, allocated \subseteq allocated'
    PROVE  Works(<<>>, <<>>, IP)
<1>1. <<>> \in Seq(FrameType) /\ frames' = Under \o <<>> /\ Len(<<>>) = 0
    BY UnderTyped, ConcatEmptySeq, EmptySeq DEF TypeOK
<1>2. \A k \in 1..Len(<<>>) : Resumes(<<>>[k], k, <<>>)
    BY <1>1
<1> QED
    BY <1>1, <1>2, InPlaceWorks

\* It goes on as fr while others are made.
LEMMA CallWorks ==
    ASSUME TypeOK, Apart, frames # <<>>, NEW fr \in FrameType, NEW cs \in Seq(FrameType),
           Call(fr, cs), Plain(cs), Resumes(fr, 1, <<>>),
           UNCHANGED layout, UNCHANGED insert, WritesOwn, allocated \subseteq allocated'
    PROVE  Works(<<fr>> \o cs, <<>>, IP)
<1> DEFINE new == <<fr>> \o cs
<1>1. new \in Seq(FrameType) /\ frames' = Under \o new /\ \A k \in 1..Len(new) : Resumes(new[k], k, <<>>)
    BY CallResumes
<1> HIDE DEF new
<1>2. Works(new, <<>>, IP)
    BY <1>1, InPlaceWorks
<1> QED
    BY <1>2 DEF new

\* The same with one block attached, or several.
LEMMA CallMoves ==
    ASSUME TypeOK, Apart, frames # <<>>, NEW fr \in FrameType, NEW cs \in Seq(FrameType),
           Call(fr, cs), Plain(cs), NEW bs \in Seq(Nat), Resumes(fr, 1, bs),
           Attach(bs), Elems(bs) \subseteq Pending(Top) \cup Fresh,
           \A i, j \in 1..Len(bs) : bs[i] = bs[j] => i = j,
           NEW p \in BlocksOf(Top.fn) \cup Elems(bs), SetInsertPoint(p),
           WritesOwn, UNCHANGED allocated
    PROVE  Works(<<fr>> \o cs, bs, p)
<1> DEFINE new == <<fr>> \o cs
<1>1. new \in Seq(FrameType) /\ frames' = Under \o new /\ \A k \in 1..Len(new) : Resumes(new[k], k, bs)
    BY CallResumes
<1> HIDE DEF new
<1>2. Works(new, bs, p)
    BY <1>1 DEF Works, Attach, SetInsertPoint
<1> QED
    BY <1>2 DEF new

LEMMA ReturnMoves ==
    ASSUME TypeOK, Apart, frames # <<>>, frames' = Under, NEW bs \in Seq(Nat),
           Attach(bs), Elems(bs) \subseteq Pending(Top) \cup Fresh,
           \A i, j \in 1..Len(bs) : bs[i] = bs[j] => i = j,
           NEW p \in BlocksOf(Top.fn) \cup Elems(bs), SetInsertPoint(p),
           WritesOwn, UNCHANGED allocated
    PROVE  Works(<<>>, bs, p)
<1>1. <<>> \in Seq(FrameType) /\ frames' = Under \o <<>> /\ Len(<<>>) = 0
    BY UnderTyped, ConcatEmptySeq, EmptySeq DEF TypeOK
<1> QED
    BY <1>1 DEF Works, Attach, SetInsertPoint
-----------------------------------------------------------------------------
(* What an instruction does to a block. *)

LEMMA AppendOne ==
    ASSUME NEW s \in Seq(Inst), NEW i \in Inst, Tidy(s), Free(s)
    PROVE  /\ Tidy(Append(s, i))
           /\ i.op \in Terminators => Closed(Append(s, i))
           /\ i.op \notin Terminators \ LeavesOps => Free(Append(s, i))
           /\ Aims(Append(s, i)) \subseteq Aims(s) \cup IF i.op \in Terminators THEN i.to ELSE {}
<1> DEFINE n == Len(s)
           t == Append(s, i)
<1>1. n \in Nat /\ Len(t) = n + 1 /\ t[n + 1] = i /\ \A k \in 1..n : t[k] = s[k]
    BY AppendProperties, LenProperties
<1>2. t # <<>>
    BY <1>1
<1> HIDE DEF t
<1>3. Tidy(t)
    <2>1. ASSUME NEW k \in 1..(Len(t) - 1), t[k].op \in Terminators PROVE t[k].op \in LeavesOps
        <3>1. k \in 1..n /\ (k = n \/ k \in 1..(n - 1))
            BY <1>1
        <3>2. CASE k \in 1..(n - 1)
            BY <1>1, <2>1, <3>1, <3>2 DEF Tidy
        <3>3. CASE k = n
            <4>1. Closed(s)
                BY <1>1, <2>1, <3>1, <3>3 DEF Closed
            <4> QED
                BY <1>1, <3>1, <3>3, <4>1 DEF Free
        <3> QED
            BY <3>1, <3>2, <3>3
    <2> QED
        BY <2>1 DEF Tidy
<1>4. i.op \in Terminators => Closed(t)
    BY <1>1, <1>2 DEF Closed
<1>5. i.op \notin Terminators \ LeavesOps => Free(t)
    BY <1>1 DEF Closed, Free
<1>6. ASSUME NEW x \in Aims(t) PROVE x \in Aims(s) \cup IF i.op \in Terminators THEN i.to ELSE {}
    <2>1. PICK k \in 1..Len(t) : t[k].op \in Terminators /\ x \in t[k].to
        BY <1>6 DEF Aims
    <2>2. k = n + 1 \/ k \in 1..n
        BY <1>1
    <2>3. CASE k = n + 1
        BY <1>1, <2>1, <2>3
    <2>4. CASE k \in 1..n
        <3>1. s[k].op \in Terminators /\ x \in s[k].to
            BY <1>1, <2>1, <2>4
        <3> QED
            BY <2>4, <3>1 DEF Aims
    <2> QED
        BY <2>2, <2>3, <2>4
<1> QED
    BY <1>3, <1>4, <1>5, <1>6 DEF t

LEMMA NothingYet == Tidy(<<>>) /\ Free(<<>>) /\ Aims(<<>>) = {} /\ ~Closed(<<>>)
BY DEF Tidy, Free, Aims, Closed

\* Block b of the code c can be gone on with.
Open(c, b) == /\ c \in Seq(Seq(Inst)) /\ b \in 1..Len(c) /\ Tidy(c[b]) /\ Free(c[b])

LEMMA EmitOpen ==
    ASSUME NEW c, NEW b, Open(c, b), NEW i \in Inst
    PROVE  /\ Tidy(Emit(c, b, i)[b])
           /\ i.op \in Terminators => Closed(Emit(c, b, i)[b])
           /\ i.op \notin Terminators \ LeavesOps => Free(Emit(c, b, i)[b])
           /\ Aims(Emit(c, b, i)[b]) \subseteq Aims(c[b]) \cup IF i.op \in Terminators THEN i.to ELSE {}
           /\ \A x \in 1..Len(c) : x # b => Emit(c, b, i)[x] = c[x]
<1>1. c[b] \in Seq(Inst) /\ c \in Seq(Seq(Inst)) /\ b \in 1..Len(c) /\ Tidy(c[b]) /\ Free(c[b])
    BY ElementOfSeq DEF Open
<1>2. Emit(c, b, i)[b] = Append(c[b], i) /\ \A x \in 1..Len(c) : x # b => Emit(c, b, i)[x] = c[x]
    BY <1>1 DEF Emit
<1> QED
    BY <1>1, <1>2, AppendOne

LEMMA EmitOpens ==
    ASSUME NEW c, NEW b, Open(c, b), NEW i \in Inst, NEW d, d = Emit(c, b, i)
    PROVE  /\ Tidy(d[b])
           /\ i.op \in Terminators => Closed(d[b])
           /\ i.op \notin Terminators \ LeavesOps => Free(d[b])
           /\ i.op \notin Terminators \/ i.to = {} => Aims(d[b]) \subseteq Aims(c[b])
           /\ \A x \in 1..Len(c) : x # b => d[x] = c[x]
BY EmitOpen

LEMMA EmitOpOpen ==
    ASSUME NEW c, NEW b, Open(c, b)
    PROVE  /\ Tidy(EmitOp(c, b)[b]) /\ Free(EmitOp(c, b)[b])
           /\ Aims(EmitOp(c, b)[b]) \subseteq Aims(c[b])
           /\ \A x \in 1..Len(c) : x # b => EmitOp(c, b)[x] = c[x]
           /\ Open(EmitOp(c, b), b)
<1>1. OpInst \in Inst /\ OpInst.op \notin Terminators
    BY DEF OpInst, Inst, Terminators, Jumps
<1>2. CASE EmitOp(c, b) = c
    BY <1>2 DEF Open
<1>3. CASE EmitOp(c, b) = Emit(c, b, OpInst)
    <2>1. Emit(c, b, OpInst) \in Seq(Seq(Inst)) /\ Len(Emit(c, b, OpInst)) = Len(c)
        BY <1>1, EmitTyped DEF Open
    <2> DEFINE e == Emit(c, b, OpInst)
    <2>2. /\ Tidy(e[b]) /\ Free(e[b]) /\ Aims(e[b]) \subseteq Aims(c[b])
          /\ \A x \in 1..Len(c) : x # b => e[x] = c[x]
        BY <1>1, EmitOpen
    <2>3. EmitOp(c, b) = e /\ b \in 1..Len(c) /\ e \in Seq(Seq(Inst)) /\ Len(e) = Len(c)
        BY <1>3, <2>1 DEF Open
    <2> HIDE DEF e
    <2>4. Open(e, b)
        BY <2>2, <2>3 DEF Open
    <2> QED
        BY <2>2, <2>3, <2>4
<1> QED
    BY <1>2, <1>3 DEF EmitOp

LEMMA BranchOpen ==
    ASSUME NEW c, NEW b, Open(c, b), NEW tag \in Jumps, NEW t \in Nat
    PROVE  /\ Tidy(Branch(c, b, tag, t)[b])
           /\ t # NoBlock \/ Closed(c[b]) => Closed(Branch(c, b, tag, t)[b])
           /\ tag \in LeavesOps \/ t = NoBlock => Free(Branch(c, b, tag, t)[b])
           /\ Aims(Branch(c, b, tag, t)[b]) \subseteq Aims(c[b]) \cup {t}
           /\ t = NoBlock => Branch(c, b, tag, t) = c
           /\ \A x \in 1..Len(c) : x # b => Branch(c, b, tag, t)[x] = c[x]
<1> DEFINE i == [op |-> tag, to |-> {t}]
<1>1. i \in Inst /\ i.op \in Terminators /\ i.op = tag /\ i.to = {t}
    BY DEF Inst, Jumps, Terminators
<1> HIDE DEF i
<1>2. Terminated(c, b) <=> Closed(c[b])
    BY DEF Terminated, Closed
<1>3. Branch(c, b, tag, t) = IF Closed(c[b]) \/ t = NoBlock THEN c ELSE Emit(c, b, i)
    BY <1>2 DEF Branch, i
<1>4. CASE Closed(c[b]) \/ t = NoBlock
    <2>1. Branch(c, b, tag, t) = c
        BY <1>3, <1>4
    <2> QED
        BY <1>4, <2>1 DEF Open
<1>5. CASE ~(Closed(c[b]) \/ t = NoBlock)
    <2>1. Branch(c, b, tag, t) = Emit(c, b, i)
        BY <1>3, <1>5
    <2> QED
        BY <1>1, <1>5, <2>1, EmitOpen
<1> QED
    BY <1>4, <1>5

LEMMA EmitCloses ==
    ASSUME NEW c, NEW b, Open(c, b), NEW i \in Inst, i.op \in Terminators,
           NEW d, d = Emit(c, b, i)
    PROVE  /\ Tidy(d[b]) /\ Closed(d[b]) /\ Aims(d[b]) \subseteq Aims(c[b]) \cup i.to
           /\ \A x \in 1..Len(c) : x # b => d[x] = c[x]
<1>1. LET e == Emit(c, b, i)
      IN  /\ Tidy(e[b]) /\ Closed(e[b]) /\ Aims(e[b]) \subseteq Aims(c[b]) \cup i.to
          /\ \A x \in 1..Len(c) : x # b => e[x] = c[x]
    BY EmitOpen
<1> QED
    BY <1>1

LEMMA BranchCloses ==
    ASSUME NEW c, NEW b, Open(c, b), NEW t \in Nat, t # NoBlock,
           NEW d, d = Branch(c, b, "br", t)
    PROVE  /\ Tidy(d[b]) /\ Closed(d[b]) /\ Aims(d[b]) \subseteq Aims(c[b]) \cup {t}
           /\ \A x \in 1..Len(c) : x # b => d[x] = c[x]
<1>1. LET e == Branch(c, b, "br", t)
      IN  /\ Tidy(e[b]) /\ Closed(e[b]) /\ Aims(e[b]) \subseteq Aims(c[b]) \cup {t}
          /\ \A x \in 1..Len(c) : x # b => e[x] = c[x]
    <2>1. "br" \in Jumps
        BY DEF Jumps
    <2> QED
        BY <2>1, BranchOpen
<1> QED
    BY <1>1

\* The blocks created are empty.
LEMMA FreshEmpty ==
    ASSUME TypeOK, NEW c, Writes(c), NEW k \in Seq(Seq(Inst)), code' = c \o k,
           \A i \in 1..Len(k) : k[i] = <<>>
    PROVE  (\A b \in Fresh : code'[b] = <<>>) /\ (\A b \in Blocks : code'[b] = c[b])
<1>1. Len(code) \in Nat /\ Len(k) \in Nat /\ Len(c) = Len(code)
    BY LenProperties DEF TypeOK, Writes
<1>2. c \in Seq(Seq(Inst))
    BY DEF Writes
<1>3. /\ Len(c \o k) = Len(c) + Len(k)
      /\ \A x \in 1..(Len(c) + Len(k)) : (c \o k)[x] = IF x <= Len(c) THEN c[x] ELSE k[x - Len(c)]
    BY <1>2, ConcatProperties
<1>4. \A x \in Blocks : x \in 1..(Len(c) + Len(k)) /\ x <= Len(c)
    BY <1>1 DEF Blocks
<1>5. \A x \in Fresh : x \in 1..(Len(c) + Len(k)) /\ ~(x <= Len(c)) /\ x - Len(c) \in 1..Len(k)
    BY <1>1, <1>3 DEF Fresh
<1> QED
    BY <1>3, <1>4, <1>5

LEMMA FreshBlocks ==
    ASSUME TypeOK, NEW c, Writes(c),
           code' = c \o <<Empty, Empty>> \/ code' = c \o <<Empty, Empty, Empty>>
    PROVE  (\A b \in Fresh : code'[b] = <<>>) /\ (\A b \in Blocks : code'[b] = c[b])
<1> DEFINE k == <<Empty, Empty>>
           l == <<Empty, Empty, Empty>>
<1>1. k \in Seq(Seq(Inst)) /\ l \in Seq(Seq(Inst))
    BY EmptyTyped
<1>2. (\A i \in 1..Len(k) : k[i] = <<>>) /\ (\A i \in 1..Len(l) : l[i] = <<>>)
    BY DEF Empty
<1> HIDE DEF k, l
<1>3. code' = c \o k \/ code' = c \o l
    BY DEF k, l
<1> QED
    BY <1>1, <1>2, <1>3, FreshEmpty
-----------------------------------------------------------------------------
(* What the innermost call finds. *)

LEMMA UnfilledHeld ==
    ASSUME Apart, NEW i \in Depths
    PROVE  Unfilled(frames[i]) \subseteq BlocksOf(frames[i].fn)
BY DEF Apart, Held, HeldIn, Unfilled

LEMMA NoneBetween ==
    ASSUME TypeOK, Sealing, frames # <<>>, ~Between(Top)
    PROVE  \A i \in Depths : ~Between(frames[i])
BY DEF Sealing, Ready, Top

LEMMA HereIsReady ==
    ASSUME TypeOK, Apart, Sealing, frames # <<>>
    PROVE  /\ IP \in Blocks /\ IP \in BlocksOf(Top.fn) /\ Tidy(code[IP])
           /\ IP \notin Pending(Top) \cup Unfilled(Top)
           /\ ~Between(Top) => Open(code, IP)
           /\ Between(Top) => Closed(code[IP])
           /\ LexicalBreaks => Aims(code[IP]) \subseteq BlocksOf(Top.fn) \cup InHand(Top.fn)
           /\ Pending(Top) \subseteq InHand(Top.fn) /\ Pending(Top) \subseteq Blocks
           /\ Unfilled(Top) \subseteq BlocksOf(Top.fn) /\ Unfilled(Top) \subseteq Blocks
           /\ Pending(Top) \cap BlocksOf(Top.fn) = {}
           /\ \A b \in Pending(Top) \cup Unfilled(Top) : code[b] = <<>> /\ Open(code, b)
           /\ Separate(Top, BlocksOf(Top.fn)) /\ LoopBelow(Top, Len(frames))
<1>1. /\ Len(frames) \in Depths /\ Top = frames[Len(frames)] /\ Top.fn \in Function
      /\ IP \in BlocksOf(Top.fn)
    BY HereIsOwn
<1>2. BlocksOf(Top.fn) \subseteq Blocks
    BY <1>1 DEF Apart, LaidOut
<1>3. Pending(Top) \cap BlocksOf(Top.fn) = {} /\ Pending(Top) \subseteq Blocks
    BY <1>1 DEF Apart, PendingApart
<1>4. Unfilled(Top) \subseteq BlocksOf(Top.fn)
    BY <1>1, UnfilledHeld
<1>5. IP \notin Unfilled(Top)
    BY <1>1 DEF Sealing, UnfilledApart, IP
<1>6. Tidy(code[IP])
    BY <1>1, <1>2 DEF Sealing, AllTidy
<1>7. ~Between(Top) => Free(code[IP])
    BY <1>1, NoneBetween DEF Sealing, Ready, IP
<1>8. Between(Top) => Closed(code[IP])
    BY <1>1 DEF Sealing, Ready, IP
<1>9. LexicalBreaks => Aims(code[IP]) \subseteq BlocksOf(Top.fn) \cup InHand(Top.fn)
    BY <1>1 DEF Sealing, Leads
<1>10. Pending(Top) \subseteq InHand(Top.fn)
    BY <1>1 DEF InHand
<1>11. ASSUME NEW b \in Pending(Top) \cup Unfilled(Top) PROVE code[b] = <<>> /\ Open(code, b)
    <2>1. code[b] = <<>>
        BY <1>1 DEF Sealing, Blank
    <2>2. Tidy(<<>>) /\ Free(<<>>)
        BY DEF Tidy, Free, Closed
    <2> QED
        BY <1>2, <1>3, <1>4, <2>1, <2>2 DEF Open, TypeOK, Blocks
<1>12. Separate(Top, BlocksOf(Top.fn)) /\ LoopBelow(Top, Len(frames))
    BY <1>1 DEF Sealing, AllSeparate, OwnLoop
<1>13. ~Between(Top) => Open(code, IP)
    BY <1>1, <1>2, <1>6, <1>7 DEF Open, TypeOK, Blocks
<1> QED
    BY <1>1, <1>2, <1>3, <1>4, <1>5, <1>6, <1>8, <1>9, <1>10, <1>11, <1>12, <1>13

\* A frame that has only just been called.
LEMMA NewFrame ==
    ASSUME NEW fr, fr.arms = <<>>, fr.kind \notin {"while", "switch", "break"}
    PROVE  /\ Unfilled(fr) = {} /\ ~Between(fr)
           /\ \A B : Separate(fr, B)
           /\ \A n : LoopBelow(fr, n)
BY DEF Unfilled, Between, Separate, LoopBelow

\* The calls that a step makes have come to nothing yet.
LEMMA PlainFilled ==
    ASSUME NEW cs, Plain(cs), NEW k \in 1..Len(cs)
    PROVE  /\ Pending(cs[k]) = {} /\ Unfilled(cs[k]) = {} /\ ~Between(cs[k])
           /\ \A B : Separate(cs[k], B)
           /\ \A n : LoopBelow(cs[k], n)
<1>1. Pending(cs[k]) = {} /\ cs[k].arms = <<>> /\ cs[k].kind \in {"block", "stmt", "expr", "if"}
    BY DEF Plain
<1> QED
    BY <1>1, NewFrame

LEMMA PlainSeals ==
    ASSUME NEW new, Plain(new), NEW bs, NEW p, Fills({}, {}, bs, p), Free(code'[p]),
           Top.kind = "func" /\ new = <<>> => Closed(code'[p])
    PROVE  Seals(new, bs, p)
<1>1. /\ UNION {Pending(new[k]) : k \in 1..Len(new)} = {}
      /\ UNION {Unfilled(new[k]) : k \in 1..Len(new)} = {}
    BY PlainFilled
<1> QED
    BY <1>1, PlainFilled DEF Seals

LEMMA CallSeals ==
    ASSUME NEW fr \in FrameType, NEW cs \in Seq(FrameType), Plain(cs), NEW bs, NEW p,
           Fills(Pending(fr), Unfilled(fr), bs, p),
           Separate(fr, BlocksOf(Top.fn) \cup Elems(bs)), LoopBelow(fr, Len(frames) - 1),
           Between(fr) => cs = <<>> /\ Closed(code'[p]),
           Free(code'[p]) \/ Between(fr)
    PROVE  Seals(<<fr>> \o cs, bs, p)
<1> DEFINE new == <<fr>> \o cs
<1>1. <<fr>> \in Seq(FrameType) /\ Len(<<fr>>) = 1
    OBVIOUS
<1>2. /\ Len(new) = 1 + Len(cs) /\ Len(cs) \in Nat /\ new[1] = fr
      /\ \A k \in 2..(1 + Len(cs)) : new[k] = cs[k - 1]
    BY <1>1, ConcatProperties, LenProperties
<1> HIDE DEF new
<1>3. ASSUME NEW k \in 1..Len(new), k # 1
      PROVE  /\ Pending(new[k]) = {} /\ Unfilled(new[k]) = {} /\ ~Between(new[k])
             /\ \A B : Separate(new[k], B)
             /\ \A n : LoopBelow(new[k], n)
    <2>1. k \in 2..(1 + Len(cs)) /\ k - 1 \in 1..Len(cs)
        BY <1>2, <1>3
    <2>2. new[k] = cs[k - 1]
        BY <1>2, <2>1
    <2> QED
        BY <2>1, <2>2, PlainFilled
<1>4. 1 \in 1..Len(new)
    BY <1>2
<1>5. /\ UNION {Pending(new[k]) : k \in 1..Len(new)} = Pending(fr)
      /\ UNION {Unfilled(new[k]) : k \in 1..Len(new)} = Unfilled(fr)
    <2>1. \A k \in 1..Len(new) : Pending(new[k]) \subseteq Pending(fr) /\ Unfilled(new[k]) \subseteq Unfilled(fr)
        BY <1>2, <1>3
    <2> QED
        BY <1>2, <1>4, <2>1
<1>6. ASSUME NEW k \in 1..Len(new)
      PROVE  /\ Separate(new[k], BlocksOf(Top.fn) \cup Elems(bs))
             /\ LoopBelow(new[k], Len(frames) - 1)
             /\ k # 1 => Unfilled(new[k]) = {}
             /\ Between(new[k]) => k = Len(new) /\ Closed(code'[p])
    <2>1. CASE k = 1
        <3>1. cs = <<>> => Len(new) = 1
            BY <1>2
        <3> QED
            BY <1>2, <2>1, <3>1
    <2>2. CASE k # 1
        BY <1>3, <2>2
    <2> QED
        BY <2>1, <2>2
<1>7. Free(code'[p]) \/ \E k \in 1..Len(new) : Between(new[k])
    BY <1>2, <1>4
<1>8. new # <<>>
    BY <1>4
<1> QED
    BY <1>5, <1>6, <1>7, <1>8 DEF Seals, new

\* The code grows at the insertion point only.
GoesOn ==
    /\ \A b \in Blocks : b # IP => code'[b] = code[b]
    /\ Tidy(code'[IP])
    /\ LexicalBreaks => Aims(code'[IP]) \subseteq BlocksOf(Top.fn) \cup InHand(Top.fn)

LEMMA InPlaceFills ==
    ASSUME TypeOK, Apart, Sealing, frames # <<>>, Writes(code'), GoesOn
    PROVE  Fills(Pending(Top), Unfilled(Top), <<>>, IP)
<1>1. Elems(<<>>) = {} /\ Fresh = {}
    BY WrittenInPlace DEF Elems
<1>2. /\ IP \notin Pending(Top) \cup Unfilled(Top)
      /\ \A b \in Pending(Top) \cup Unfilled(Top) : b \in Blocks /\ code[b] = <<>>
    BY HereIsReady
<1>3. \A b \in Pending(Top) \cup Unfilled(Top) : code'[b] = <<>>
    BY <1>2 DEF GoesOn
<1>4. \A b \in Pending(Top) : Tidy(code'[b])
    BY <1>3 DEF Tidy
<1> QED
    BY <1>1, <1>2, <1>3, <1>4 DEF Fills, GoesOn

LEMMA Unchanged ==
    ASSUME TypeOK, Apart, Sealing, frames # <<>>, UNCHANGED code
    PROVE  GoesOn /\ (~Between(Top) => Free(code'[IP]))
BY HereIsReady DEF GoesOn, Open

LEMMA OpGoesOn ==
    ASSUME TypeOK, Apart, Sealing, frames # <<>>, ~Between(Top), code' = EmitOp(code, IP)
    PROVE  GoesOn /\ Free(code'[IP]) /\ Open(code', IP)
BY HereIsReady, EmitOpOpen DEF GoesOn, Blocks

LEMMA BranchGoesOn ==
    ASSUME TypeOK, Apart, Sealing, frames # <<>>, ~Between(Top), NEW tag \in Jumps, NEW t \in Nat,
           code' = Branch(code, IP, tag, t),
           LexicalBreaks /\ t # NoBlock => t \in BlocksOf(Top.fn) \cup InHand(Top.fn)
    PROVE  /\ GoesOn
           /\ tag \in LeavesOps \/ t = NoBlock => Free(code'[IP])
           /\ t # NoBlock \/ Closed(code[IP]) => Closed(code'[IP])
<1>1. /\ Tidy(code'[IP]) /\ Aims(code'[IP]) \subseteq Aims(code[IP]) \cup {t}
      /\ t = NoBlock => code' = code
      /\ \A x \in Blocks : x # IP => code'[x] = code[x]
      /\ tag \in LeavesOps \/ t = NoBlock => Free(code'[IP])
      /\ t # NoBlock \/ Closed(code[IP]) => Closed(code'[IP])
    <2>1. Open(code, IP)
        BY HereIsReady
    <2> DEFINE c == Branch(code, IP, tag, t)
    <2>2. /\ Tidy(c[IP]) /\ Aims(c[IP]) \subseteq Aims(code[IP]) \cup {t}
          /\ t = NoBlock => c = code
          /\ \A x \in 1..Len(code) : x # IP => c[x] = code[x]
          /\ tag \in LeavesOps \/ t = NoBlock => Free(c[IP])
          /\ t # NoBlock \/ Closed(code[IP]) => Closed(c[IP])
        BY <2>1, BranchOpen
    <2>3. code' = c
        OBVIOUS
    <2> HIDE DEF c
    <2> QED
        BY <2>2, <2>3 DEF Blocks
<1>2. LexicalBreaks => Aims(code'[IP]) \subseteq BlocksOf(Top.fn) \cup InHand(Top.fn)
    BY <1>1, HereIsReady
<1> QED
    BY <1>1, <1>2 DEF GoesOn

LEMMA RetGoesOn ==
    ASSUME TypeOK, Apart, Sealing, frames # <<>>, ~Between(Top),
           NEW c, Open(c, IP), Aims(c[IP]) \subseteq Aims(code[IP]), Len(c) = Len(code),
           \A x \in Blocks : x # IP => c[x] = code[x],
           code' = Emit(c, IP, [op |-> "ret", to |-> {}])
    PROVE  GoesOn /\ Free(code'[IP]) /\ Closed(code'[IP])
<1> DEFINE i == [op |-> "ret", to |-> {}]
<1>1. /\ i \in Inst /\ i.op \in Terminators /\ i.op \notin Terminators \ LeavesOps /\ i.to = {}
      /\ code' = Emit(c, IP, i)
    BY DEF Inst, Terminators, LeavesOps
<1> DEFINE u == IP
           d == code'
<1> HIDE DEF i, u, d
<1>2a. i \in Inst /\ Open(c, u) /\ d = Emit(c, u, i)
    BY <1>1 DEF u, d
<1>2b. /\ Tidy(d[u]) /\ Closed(d[u]) /\ Free(d[u]) /\ Aims(d[u]) \subseteq Aims(c[u])
       /\ \A x \in 1..Len(c) : x # u => d[x] = c[x]
    BY <1>1, <1>2a, EmitOpens
<1>2. /\ Tidy(code'[IP]) /\ Closed(code'[IP]) /\ Free(code'[IP])
      /\ Aims(code'[IP]) \subseteq Aims(c[IP])
      /\ \A x \in 1..Len(c) : x # IP => code'[x] = c[x]
    BY <1>2b DEF u, d
<1>3. LexicalBreaks => Aims(code'[IP]) \subseteq BlocksOf(Top.fn) \cup InHand(Top.fn)
    BY <1>2, HereIsReady
<1> QED
    BY <1>2, <1>3 DEF GoesOn, Blocks
-----------------------------------------------------------------------------
(* Every step that works on the innermost call does no more than that. *)

StepWorks == \E new, bs, p :
    Works(new, bs, p) /\ (Sealing /\ Running' => Seals(new, bs, p))

LEMMA LoopUnder ==
    ASSUME TypeOK, Choosing, LexicalBreaks, MayLeaveLoop
    PROVE  \E j \in 1..(Len(frames) - 1) : frames[j].kind = "while" /\ frames[j].fn = Top.fn
<1>1. PICK j \in 1..Len(frames) : frames[j].kind = "while" /\ frames[j].fn = Top.fn
    BY DEF MayLeaveLoop, InLoop
<1>2. j # Len(frames)
    BY <1>1 DEF Choosing, Top
<1>3. Len(frames) \in Nat
    BY LenProperties DEF TypeOK
<1>4. j \in 1..(Len(frames) - 1)
    BY <1>2, <1>3
<1> QED
    BY <1>1, <1>4

LEMMA BeginPlainWorks ==
    ASSUME TypeOK, Apart, Choosing, NEW k \in Kinds \ {"func", "while", "switch"},
           Call(Frame(k, "cond", Top.fn), Expr(Top.fn)),
           UNCHANGED <<code, layout, insert, allocated>>,
           k = "break" => MayLeaveLoop
    PROVE  StepWorks
<1> DEFINE fr == Frame(k, "cond", Top.fn)
<1>1. frames # <<>> /\ Top.kind # "func" /\ Top.fn \in Function /\ Expr(Top.fn) \in Seq(FrameType)
    BY InCall DEF Choosing
<1>2. fr \in FrameType
    BY <1>1, FrameTyped DEF Kinds, Stages
<1>3. fr.fn = Top.fn /\ fr.kind = k /\ Pending(fr) = {} /\ fr.arms = <<>> /\ Call(fr, Expr(Top.fn))
    BY PlainFrame DEF Stages
<1> HIDE DEF fr
<1>4. WritesOwn
    BY CodeWrites, WrittenInPlace
<1>5. Works(<<fr>> \o Expr(Top.fn), <<>>, IP)
    <2>1. Resumes(fr, 1, <<>>)
        BY <1>1, <1>3, PlainResumes
    <2> QED
        BY <1>1, <1>2, <1>3, <1>4, <2>1, PlainCalls, CallWorks
<1>6. ASSUME Sealing PROVE Seals(<<fr>> \o Expr(Top.fn), <<>>, IP)
    <2>1. Pending(Top) = {} /\ Unfilled(Top) = {} /\ ~Between(Top)
        BY DEF Choosing, Pending, Unfilled, Between
    <2>2. Fills({}, {}, <<>>, IP) /\ Free(code'[IP])
        BY <1>1, <1>6, <2>1, CodeWrites, Unchanged, InPlaceFills
    <2>3. Unfilled(fr) = {} /\ ~Between(fr)
        BY <1>3 DEF Unfilled, Between
    <2>4. Separate(fr, BlocksOf(Top.fn) \cup Elems(<<>>))
        BY <1>3 DEF Separate
    <2>5. LoopBelow(fr, Len(frames) - 1)
        BY <1>3, LoopUnder DEF LoopBelow
    <2> QED
        BY <1>1, <1>2, <1>3, <2>2, <2>3, <2>4, <2>5, PlainCalls, CallSeals
<1> QED
    BY <1>5, <1>6 DEF StepWorks

\* It leaves the insertion point where the caller can go on.
Returnable ==
    /\ Pending(Top) = {} /\ Unfilled(Top) = {}
    /\ GoesOn /\ Free(code'[IP])
    /\ Top.kind = "func" => Closed(code'[IP])

LEMMA ReturnInPlaceWorks ==
    ASSUME TypeOK, Apart, frames # <<>>, frames' = Under, Writes(code'),
           UNCHANGED <<layout, insert>>, allocated \subseteq allocated',
           Sealing /\ Running' => Returnable
    PROVE  StepWorks
<1>1. WritesOwn
    BY WrittenInPlace
<1>2. Works(<<>>, <<>>, IP)
    BY <1>1, ReturnWorks
<1>3. ASSUME Sealing, Running' PROVE Seals(<<>>, <<>>, IP)
    <2>1. Returnable
        BY <1>3
    <2>2. Fills({}, {}, <<>>, IP)
        BY <1>3, <2>1, InPlaceFills DEF Returnable
    <2> QED
        BY <2>1, <2>2, PlainCalls, PlainSeals DEF Returnable
<1> QED
    BY <1>2, <1>3 DEF StepWorks

\* A call of one of these kinds has no blocks of its own.
LEMMA NoBlocks ==
    ASSUME Top.kind \in {"expr", "stmt", "use", "block", "return", "break"}
    PROVE  /\ Pending(Top) = {} /\ Unfilled(Top) = {} /\ ~Between(Top)
           /\ Top.kind # "func"
BY DEF Pending, Unfilled, Between

LEMMA ExpressionWorks ==
    ASSUME TypeOK, Apart, GenLeaf \/ BeginUse \/ NextOperand \/ EndUse \/ CodeBlock
    PROVE  StepWorks
<1>1. CASE GenLeaf
    <2>1. /\ frames # <<>> /\ Top.kind \in {"expr", "stmt"} /\ frames' = Under
          /\ UNCHANGED <<code, layout, insert, allocated>>
        BY <1>1 DEF GenLeaf, Choosing, Return
    <2>2. Sealing => Returnable
        BY <2>1, NoBlocks, Unchanged DEF Returnable
    <2> QED
        BY <2>1, <2>2, CodeWrites, ReturnInPlaceWorks
<1>2. CASE BeginUse
    BY <1>2, BeginPlainWorks DEF BeginUse, Kinds
<1>3. CASE NextOperand
    <2> DEFINE fr == [Top EXCEPT !.val = Operand]
    <2>1. frames # <<>> /\ Top.kind = "use" /\ Call(fr, Expr(Top.fn))
        BY <1>3 DEF NextOperand, At
    <2>2. Top \in FrameType /\ Expr(Top.fn) \in Seq(FrameType) /\ HeldIn(Top, BlocksOf(Top.fn))
        BY <2>1, InCall, HereIsOwn
    <2>3. Operand \in {"value", "null"}
        BY <2>1, InCall DEF Operand
    <2>4. fr \in FrameType /\ fr.fn = Top.fn /\ fr.kind = "use" /\ fr.arms = Top.arms
        BY <2>1, <2>2, <2>3 DEF FrameType
    <2> HIDE DEF fr
    <2>5. Resumes(fr, 1, <<>>)
        BY <2>1, <2>2, <2>4 DEF Resumes, Pending, HeldIn, Elems
    <2>6. WritesOwn
        BY <1>3, CodeWrites, WrittenInPlace DEF NextOperand
    <2>7. Works(<<fr>> \o Expr(Top.fn), <<>>, IP)
        BY <1>3, <2>1, <2>2, <2>4, <2>5, <2>6, PlainCalls, CallWorks DEF NextOperand
    <2>8. ASSUME Sealing PROVE Seals(<<fr>> \o Expr(Top.fn), <<>>, IP)
        <3>1. Fills({}, {}, <<>>, IP) /\ Free(code'[IP])
            BY <1>3, <2>1, <2>8, NoBlocks, CodeWrites, Unchanged, InPlaceFills DEF NextOperand
        <3>2. Pending(fr) = {} /\ Unfilled(fr) = {} /\ ~Between(fr) /\ LoopBelow(fr, Len(frames) - 1)
            BY <2>1, <2>4 DEF Pending, Unfilled, Between, LoopBelow
        <3>3. Separate(Top, BlocksOf(Top.fn))
            BY <2>1, <2>8, HereIsReady
        <3>4. Separate(fr, BlocksOf(Top.fn) \cup Elems(<<>>))
            BY <2>1, <2>4, <3>3 DEF Separate
        <3> QED
            BY <2>2, <2>4, <3>1, <3>2, <3>4, PlainCalls, CallSeals
    <2> QED
        BY <2>7, <2>8 DEF StepWorks
<1>4. CASE EndUse
    <2>1. /\ frames # <<>> /\ Top.kind = "use" /\ frames' = Under /\ code' = EmitOp(code, IP)
          /\ UNCHANGED <<layout, insert, allocated>>
        BY <1>4 DEF EndUse, At, Return
    <2>2. Writes(EmitOp(code, IP))
        BY <2>1, CodeWrites, HereIsOwn, EmitOpWrites
    <2>3. Sealing => Returnable
        BY <2>1, NoBlocks, OpGoesOn DEF Returnable
    <2> QED
        BY <2>1, <2>2, <2>3, ReturnInPlaceWorks
<1>5. CASE BeginBlock
    <2>1. frames # <<>> /\ Top.kind # "func" /\ frames' = Under \o Block(Top.fn)
        BY <1>5 DEF BeginBlock, Choosing
    <2>2. Block(Top.fn) \in Seq(FrameType) /\ Len(Block(Top.fn)) = 2
        BY <2>1, InCall DEF Block
    <2>3. \A k \in 1..Len(Block(Top.fn)) : Resumes(Block(Top.fn)[k], k, <<>>)
        <3>1. ASSUME NEW k \in 1..Len(Block(Top.fn)) PROVE Resumes(Block(Top.fn)[k], k, <<>>)
            <4>1. k \in Nat
                BY <2>2
            <4> QED
                BY <2>1, <4>1, PlainCalls, PlainResumes DEF Plain
        <3> QED
            BY <3>1
    <2>4. WritesOwn
        BY <1>5, CodeWrites, WrittenInPlace DEF BeginBlock
    <2>5. Works(Block(Top.fn), <<>>, IP)
        BY <1>5, <2>1, <2>2, <2>3, <2>4, InPlaceWorks DEF BeginBlock
    <2>6. ASSUME Sealing PROVE Seals(Block(Top.fn), <<>>, IP)
        <3>1. Top.kind \in {"expr", "stmt"} /\ UNCHANGED code
            BY <1>5 DEF BeginBlock, Choosing
        <3>2. Fills({}, {}, <<>>, IP) /\ Free(code'[IP])
            BY <2>1, <2>6, <3>1, NoBlocks, CodeWrites, Unchanged, InPlaceFills
        <3> QED
            BY <2>1, <3>2, PlainCalls, PlainSeals
    <2> QED
        BY <2>5, <2>6 DEF StepWorks
<1>6. CASE NextStatement
    <2> DEFINE s == Frame("stmt", "start", Top.fn)
    <2>1. frames # <<>> /\ Top.kind = "block" /\ frames' = Append(frames, s)
        BY <1>6 DEF NextStatement, At
    <2>2. Top \in FrameType /\ Top.fn \in Function /\ HeldIn(Top, BlocksOf(Top.fn))
        BY <2>1, HereIsOwn
    <2>3. s \in FrameType
        BY <2>2, FrameTyped DEF Kinds, Stages
    <2>4. s.fn = Top.fn /\ s.kind = "stmt" /\ Pending(s) = {} /\ s.arms = <<>>
        BY PlainFrame DEF Kinds, Stages
    <2> HIDE DEF s
    <2>5. Call(Top, <<s>>)
        <3>1. /\ Under \in Seq(FrameType) /\ Len(Under) = Len(frames) - 1
              /\ \A i \in 1..Len(Under) : Under[i] = frames[i]
            BY <2>1, UnderTyped DEF TypeOK
        <3>2. frames \in Seq(FrameType) /\ Len(frames) \in Nat \ {0}
            BY <2>1, EmptySeq, LenProperties DEF TypeOK
        <3>3. Under \o <<Top>> = frames
            <4>1. <<Top>> \in Seq(FrameType) /\ Len(<<Top>>) = 1
                BY <2>2
            <4>2. /\ Under \o <<Top>> \in Seq(FrameType)
                  /\ Len(Under \o <<Top>>) = Len(Under) + 1
                  /\ \A i \in 1..(Len(Under) + 1) : (Under \o <<Top>>)[i] =
                        IF i <= Len(Under) THEN Under[i] ELSE <<Top>>[i - Len(Under)]
                BY <3>1, <4>1, ConcatProperties
            <4>3. ASSUME NEW i \in 1..Len(frames) PROVE (Under \o <<Top>>)[i] = frames[i]
                <5>1. CASE i = Len(frames)
                    <6>1. ~(i <= Len(Under)) /\ i - Len(Under) = 1 /\ i \in 1..(Len(Under) + 1)
                        BY <3>1, <3>2, <5>1
                    <6> QED
                        BY <4>2, <5>1, <6>1 DEF Top
                <5>2. CASE i # Len(frames)
                    <6>1. i <= Len(Under) /\ i \in 1..Len(Under) /\ i \in 1..(Len(Under) + 1)
                        BY <3>1, <3>2, <5>2
                    <6> QED
                        BY <3>1, <4>2, <6>1
                <5> QED
                    BY <5>1, <5>2
            <4>4. Len(Under \o <<Top>>) = Len(frames)
                BY <3>1, <3>2, <4>2
            <4> QED
                BY <3>2, <4>2, <4>3, <4>4, SeqEqual
        <3>4. Append(frames, s) = frames \o <<s>>
            BY <2>3, <3>2, AppendIsConcat
        <3> QED
            BY <2>1, <3>3, <3>4 DEF Call
    <2>6. Resumes(Top, 1, <<>>)
        BY <2>1, <2>2 DEF Resumes, Pending, HeldIn, Elems
    <2>7. Plain(<<s>>) /\ <<s>> \in Seq(FrameType)
        BY <2>3, <2>4 DEF Plain
    <2>8. WritesOwn
        BY <1>6, CodeWrites, WrittenInPlace DEF NextStatement
    <2>9. Works(<<Top>> \o <<s>>, <<>>, IP)
        BY <1>6, <2>1, <2>2, <2>5, <2>6, <2>7, <2>8, CallWorks DEF NextStatement
    <2>10. ASSUME Sealing PROVE Seals(<<Top>> \o <<s>>, <<>>, IP)
        <3>1. Fills(Pending(Top), Unfilled(Top), <<>>, IP) /\ Free(code'[IP])
            BY <1>6, <2>1, <2>10, NoBlocks, CodeWrites, Unchanged, InPlaceFills DEF NextStatement
        <3>2. ~Between(Top) /\ LoopBelow(Top, Len(frames) - 1)
            BY <2>1 DEF Between, LoopBelow
        <3>3. Separate(Top, BlocksOf(Top.fn)) /\ Elems(<<>>) = {}
            BY <2>1, <2>10, HereIsReady DEF Elems
        <3>4. Separate(Top, BlocksOf(Top.fn) \cup Elems(<<>>))
            BY <3>3 DEF Separate
        <3> QED
            BY <2>2, <2>7, <3>1, <3>2, <3>4, CallSeals
    <2> QED
        BY <2>9, <2>10 DEF StepWorks
<1>7. CASE EndBlock
    <2>1. /\ frames # <<>> /\ Top.kind = "block" /\ frames' = Under
          /\ UNCHANGED <<code, layout, insert, allocated>>
        BY <1>7 DEF EndBlock, At, Return
    <2>2. Sealing => Returnable
        BY <2>1, NoBlocks, Unchanged DEF Returnable
    <2> QED
        BY <2>1, <2>2, CodeWrites, ReturnInPlaceWorks
<1> QED
    BY <1>1, <1>2, <1>3, <1>4, <1>5, <1>6, <1>7 DEF CodeBlock

LEMMA IfWorks ==
    ASSUME TypeOK, TypeOK', Apart, IfDef
    PROVE  StepWorks
<1>0. Len(code) \in Nat
    BY LenProperties DEF TypeOK
<1>1. CASE BeginIf
    BY <1>1, BeginPlainWorks DEF BeginIf, Kinds
\* The blocks that are pending in this call are neither null nor where it is.
<1>2a. ASSUME Sealing, frames # <<>>, NEW b \in Pending(Top)
       PROVE  b # NoBlock /\ b # IP /\ b \in Blocks
    BY <1>2a, HereIsReady DEF Blocks, NoBlock
<1>2. CASE IfCondDone
    <2> DEFINE fr == [Top EXCEPT !.stage = "then", !.alt = New(2), !.merge = New(3)]
               c == Emit(code, IP, [op |-> "condbr", to |-> {New(1), New(2)}])
    <2>1. frames # <<>> /\ Top.kind = "if" /\ Call(fr, Block(Top.fn))
        BY <1>2 DEF IfCondDone, At
    <2>2. /\ Top \in FrameType /\ Block(Top.fn) \in Seq(FrameType)
          /\ HeldIn(Top, BlocksOf(Top.fn)) /\ IP \in BlocksOf(Top.fn)
        BY <2>1, InCall, HereIsOwn
    <2>3. New(1) = Len(code) + 1 /\ New(2) = Len(code) + 2 /\ New(3) = Len(code) + 3
        BY DEF New
    <2>4. Writes(c)
        <3>1. [op |-> "condbr", to |-> {New(1), New(2)}] \in Inst
            BY <1>0, <2>3 DEF Inst, Terminators
        <3> QED
            BY <2>2, <3>1, CodeWrites, EmitWrites
    <2>5. code' = c \o <<Empty, Empty, Empty>>
        BY <1>2 DEF IfCondDone
    <2> HIDE DEF c
    <2>6. WritesOwn /\ Fresh = (Len(code) + 1)..(Len(code) + 3)
        BY <2>4, <2>5, EmptyTyped, WrittenWithBlocks
    <2>7. New(1) \in Fresh /\ New(2) \in Fresh /\ New(3) \in Fresh /\ New(1) \in Nat
        BY <1>0, <2>3, <2>6
    <2>8. fr \in FrameType /\ fr.fn = Top.fn /\ fr.kind = "if" /\ fr.stage = "then"
          /\ fr.alt = New(2) /\ fr.merge = New(3) /\ fr.arms = Top.arms
        <3>1. New(2) \in Nat /\ New(3) \in Nat
            BY <1>0, <2>3
        <3> QED
            BY <2>1, <2>2, <3>1 DEF FrameType, Stages
    <2> HIDE DEF fr
    <2>9. /\ <<New(1)>> \in Seq(Nat) /\ Elems(<<New(1)>>) = {New(1)}
          /\ \A i, j \in 1..Len(<<New(1)>>) : <<New(1)>>[i] = <<New(1)>>[j] => i = j
        BY <2>7 DEF Elems
    <2>10. Resumes(fr, 1, <<New(1)>>)
        <3>1. Pending(fr) = {New(2), New(3)}
            BY <2>8 DEF Pending
        <3>2. New(1) # New(2) /\ New(1) # New(3) /\ New(2) # New(3)
            BY <1>0, <2>3
        <3> QED
            BY <2>1, <2>2, <2>7, <2>8, <2>9, <3>1, <3>2 DEF Resumes, HeldIn
    <2>11. Works(<<fr>> \o Block(Top.fn), <<New(1)>>, New(1))
        <3>1. Elems(<<New(1)>>) \subseteq Pending(Top) \cup Fresh /\ New(1) \in BlocksOf(Top.fn) \cup Elems(<<New(1)>>)
            BY <2>7, <2>9
        <3>2. Attach(<<New(1)>>) /\ SetInsertPoint(New(1)) /\ UNCHANGED allocated
            BY <1>2 DEF IfCondDone
        <3>3. Plain(Block(Top.fn))
            BY PlainCalls
        <3> QED
            BY <2>1, <2>2, <2>6, <2>8, <2>9, <2>10, <3>1, <3>2, <3>3, CallMoves
    <2>12. ASSUME Sealing PROVE Seals(<<fr>> \o Block(Top.fn), <<New(1)>>, New(1))
        <3>1. Pending(Top) = {} /\ Unfilled(Top) = {} /\ ~Between(Top)
            BY <1>2 DEF IfCondDone, At, Pending, Unfilled, Between
        <3>2. /\ Tidy(c[IP]) /\ Closed(c[IP])
              /\ Aims(c[IP]) \subseteq Aims(code[IP]) \cup {New(1), New(2)}
              /\ \A x \in Blocks : x # IP => c[x] = code[x]
            <4> DEFINE i == [op |-> "condbr", to |-> {New(1), New(2)}]
            <4>1. i \in Inst /\ i.op \in Terminators /\ i.to = {New(1), New(2)} /\ c = Emit(code, IP, i)
                BY <1>0, <2>3 DEF Inst, Terminators, c
            <4> HIDE DEF i
            <4>2. Open(code, IP)
                BY <2>1, <2>12, <3>1, HereIsReady
            <4> QED
                BY <4>1, <4>2, EmitCloses DEF Blocks
        <3>3. (\A b \in Fresh : code'[b] = <<>>) /\ (\A b \in Blocks : code'[b] = c[b])
            BY <2>4, <2>5, FreshBlocks
        <3>4. /\ IP \in Blocks
              /\ LexicalBreaks => Aims(code[IP]) \subseteq BlocksOf(Top.fn) \cup InHand(Top.fn)
            BY <2>1, <2>12, HereIsReady
        <3>5. New(1) \notin {New(2), New(3)} /\ Fresh = {New(1), New(2), New(3)}
            BY <1>0, <2>3, <2>6
        <3>6. Fills({New(2), New(3)}, {}, <<New(1)>>, New(1))
            BY <2>9, <3>1, <3>2, <3>3, <3>4, <3>5, NothingYet DEF Fills
        <3>7. Pending(fr) = {New(2), New(3)} /\ Unfilled(fr) = {} /\ ~Between(fr)
              /\ LoopBelow(fr, Len(frames) - 1)
            BY <2>8 DEF Pending, Unfilled, Between, LoopBelow
        <3>8. Separate(fr, BlocksOf(Top.fn) \cup Elems(<<New(1)>>))
            BY <2>1, <2>8, <2>12, HereIsReady DEF Separate
        <3>9. Free(code'[New(1)])
            BY <2>7, <3>3, NothingYet
        <3> QED
            BY <2>2, <2>8, <3>6, <3>7, <3>8, <3>9, PlainCalls, CallSeals
    <2> QED
        BY <2>11, <2>12 DEF StepWorks
<1>3. CASE IfThenDoneElse
    <2> DEFINE fr == [Top EXCEPT !.stage = "else", !.post = IP, !.val = ret]
    <2>1. PICK cs \in ElseClause(Top.fn) : Call(fr, cs)
        BY <1>3 DEF IfThenDoneElse
    <2>2. frames # <<>> /\ Top.kind = "if" /\ Top.stage = "then"
        BY <1>3 DEF IfThenDoneElse, At
    <2>3. /\ Top \in FrameType /\ cs \in Seq(FrameType) /\ Plain(cs) /\ Top.alt \in Nat /\ Top.merge \in Nat
          /\ HeldIn(Top, BlocksOf(Top.fn)) /\ IP \in BlocksOf(Top.fn) /\ IP \in Nat
        BY <2>2, InCall, HereIsOwn, ElseClauseTyped, PlainCalls
    <2>4. Pending(Top) = {Top.alt, Top.merge} /\ Top.alt # Top.merge
        <3>1. Pending(Top) = {Top.alt, Top.merge}
            BY <2>2 DEF Pending
        <3> QED
            BY <2>2, <3>1, HereIsOwn
    <2>5. WritesOwn
        <3>1. Writes(Branch(code, IP, "br", Top.merge))
            BY <2>3, CodeWrites, BranchWrites DEF Jumps
        <3> QED
            BY <1>3, <3>1, WrittenInPlace DEF IfThenDoneElse
    <2>6. fr \in FrameType /\ fr.fn = Top.fn /\ fr.kind = "if" /\ fr.stage = "else"
          /\ fr.alt = Top.alt /\ fr.merge = Top.merge /\ fr.arms = Top.arms
        BY <2>2, <2>3 DEF FrameType, Stages, TypeOK
    <2> HIDE DEF fr
    <2>7. /\ <<Top.alt>> \in Seq(Nat) /\ Elems(<<Top.alt>>) = {Top.alt}
          /\ \A i, j \in 1..Len(<<Top.alt>>) : <<Top.alt>>[i] = <<Top.alt>>[j] => i = j
        BY <2>3 DEF Elems
    <2>8. Resumes(fr, 1, <<Top.alt>>)
        <3>1. Pending(fr) = {Top.merge}
            BY <2>6 DEF Pending
        <3> QED
            BY <2>2, <2>3, <2>4, <2>6, <2>7, <3>1 DEF Resumes, HeldIn
    <2>9. Works(<<fr>> \o cs, <<Top.alt>>, Top.alt)
        <3>1. /\ Elems(<<Top.alt>>) \subseteq Pending(Top) \cup Fresh
              /\ Top.alt \in BlocksOf(Top.fn) \cup Elems(<<Top.alt>>)
            BY <2>4, <2>7
        <3>2. Attach(<<Top.alt>>) /\ SetInsertPoint(Top.alt) /\ UNCHANGED allocated
            BY <1>3 DEF IfThenDoneElse
        <3> QED
            BY <2>1, <2>2, <2>3, <2>5, <2>6, <2>7, <2>8, <3>1, <3>2, CallMoves
    <2>10. ASSUME Sealing PROVE Seals(<<fr>> \o cs, <<Top.alt>>, Top.alt)
        <3>1. Unfilled(Top) = {} /\ ~Between(Top)
            BY <2>2 DEF Unfilled, Between
        <3>2. code' = Branch(code, IP, "br", Top.merge) /\ Open(code, IP)
            BY <1>3, <2>2, <2>10, <3>1, HereIsReady DEF IfThenDoneElse
        <3>3. /\ Top.merge # NoBlock /\ Top.merge # IP /\ Top.merge \in Blocks
              /\ Top.alt # IP /\ Top.alt \in Blocks
            BY <1>2a, <2>2, <2>4, <2>10
        <3>4. /\ Tidy(code'[IP]) /\ Closed(code'[IP])
              /\ Aims(code'[IP]) \subseteq Aims(code[IP]) \cup {Top.merge}
              /\ \A x \in Blocks : x # IP => code'[x] = code[x]
            <4> DEFINE u == IP
                       m == Top.merge
                       c == code'
            <4>1. c = Branch(code, u, "br", m) /\ m \in Nat /\ m # NoBlock /\ Open(code, u)
                BY <2>3, <3>2, <3>3
            <4> HIDE DEF u, m, c
            <4>2. /\ Tidy(c[u]) /\ Closed(c[u]) /\ Aims(c[u]) \subseteq Aims(code[u]) \cup {m}
                  /\ \A x \in 1..Len(code) : x # u => c[x] = code[x]
                BY <4>1, BranchCloses
            <4> QED
                BY <4>2 DEF Blocks, u, m, c
        <3>5. /\ LexicalBreaks => Aims(code[IP]) \subseteq BlocksOf(Top.fn) \cup InHand(Top.fn)
              /\ code[Top.alt] = <<>> /\ code[Top.merge] = <<>>
            BY <2>2, <2>4, <2>10, HereIsReady
        <3>6. code'[Top.alt] = <<>> /\ code'[Top.merge] = <<>>
            BY <3>3, <3>4, <3>5
        <3>7. Fresh = {}
            <4>1. Writes(code')
                BY <2>3, <3>2, CodeWrites, BranchWrites DEF Jumps
            <4> QED
                BY <4>1, WrittenInPlace
        <3>8. Fills({Top.merge}, {}, <<Top.alt>>, Top.alt)
            BY <2>4, <2>7, <3>1, <3>4, <3>5, <3>6, <3>7, NothingYet DEF Fills
        <3>9. Pending(fr) = {Top.merge} /\ Unfilled(fr) = {} /\ ~Between(fr)
              /\ LoopBelow(fr, Len(frames) - 1)
            BY <2>6 DEF Pending, Unfilled, Between, LoopBelow
        <3>10. Separate(fr, BlocksOf(Top.fn) \cup Elems(<<Top.alt>>))
            BY <2>2, <2>6, <2>10, HereIsReady DEF Separate
        <3> QED
            BY <2>3, <2>6, <3>6, <3>8, <3>9, <3>10, NothingYet, CallSeals
    <2> QED
        BY <2>9, <2>10 DEF StepWorks
<1>4. CASE IfThenDone
    <2> DEFINE bs == <<Top.alt, Top.merge>>
    <2>1. frames # <<>> /\ Top.kind = "if" /\ Top.stage = "then" /\ frames' = Under
        BY <1>4 DEF IfThenDone, At, Return
    <2>2. Top.alt \in Nat /\ Top.merge \in Nat /\ IP \in BlocksOf(Top.fn) /\ Top \in FrameType
        BY <2>1, InCall, HereIsOwn
    <2>3. Pending(Top) = {Top.alt, Top.merge} /\ Top.alt # Top.merge
        <3>1. Pending(Top) = {Top.alt, Top.merge}
            BY <2>1 DEF Pending
        <3> QED
            BY <2>1, <3>1, HereIsOwn
    <2>4. WritesOwn
        <3>1. Writes(Branch(code, IP, "br", Top.merge))
            BY <2>2, CodeWrites, BranchWrites DEF Jumps
        <3>2. Writes(Branch(Branch(code, IP, "br", Top.merge), Top.alt, "br", Top.merge))
            BY <2>2, <2>3, <3>1, BranchWrites DEF Jumps
        <3> QED
            BY <1>4, <3>2, WrittenInPlace DEF IfThenDone
    <2>5. /\ bs \in Seq(Nat) /\ Elems(bs) = {Top.alt, Top.merge}
          /\ \A i, j \in 1..Len(bs) : bs[i] = bs[j] => i = j
        <3>1. bs \in Seq(Nat) /\ Len(bs) = 2 /\ bs[1] = Top.alt /\ bs[2] = Top.merge
            BY <2>2
        <3> HIDE DEF bs
        <3>2. \A i \in 1..2 : i = 1 \/ i = 2
            OBVIOUS
        <3> QED
            BY <2>3, <3>1, <3>2 DEF Elems
    <2>6. Attach(bs) /\ SetInsertPoint(Top.merge) /\ UNCHANGED allocated
        BY <1>4 DEF IfThenDone
    <2> HIDE DEF bs
    <2>7. Elems(bs) \subseteq Pending(Top) \cup Fresh /\ Top.merge \in BlocksOf(Top.fn) \cup Elems(bs)
        BY <2>3, <2>5
    <2>8. Works(<<>>, bs, Top.merge)
        BY <2>1, <2>4, <2>5, <2>6, <2>7, ReturnMoves
    <2>9. ASSUME Sealing PROVE Seals(<<>>, bs, Top.merge)
        <3> DEFINE c == Branch(code, IP, "br", Top.merge)
        <3>1. Unfilled(Top) = {} /\ ~Between(Top)
            BY <2>1 DEF Unfilled, Between
        <3>2. code' = Branch(c, Top.alt, "br", Top.merge) /\ Open(code, IP)
            BY <1>4, <2>1, <2>9, <3>1, HereIsReady DEF IfThenDone
        <3>3. /\ Top.merge # NoBlock /\ Top.merge # IP /\ Top.merge \in Blocks
              /\ Top.alt # IP /\ Top.alt \in Blocks
            BY <1>2a, <2>1, <2>3, <2>9
        <3>4. /\ Tidy(c[IP]) /\ Closed(c[IP])
              /\ Aims(c[IP]) \subseteq Aims(code[IP]) \cup {Top.merge}
              /\ \A x \in Blocks : x # IP => c[x] = code[x]
            <4> HIDE DEF c
            <4>1. c = Branch(code, IP, "br", Top.merge) /\ Top.merge \in Nat /\ Top.merge # NoBlock
                BY <2>2, <3>3 DEF c
            <4>2. Open(code, IP)
                BY <3>2
            <4> DEFINE u == IP
                       m == Top.merge
            <4>3. c = Branch(code, u, "br", m) /\ m \in Nat /\ m # NoBlock /\ Open(code, u)
                BY <4>1, <4>2
            <4> HIDE DEF u, m
            <4>4. /\ Tidy(c[u]) /\ Closed(c[u]) /\ Aims(c[u]) \subseteq Aims(code[u]) \cup {m}
                  /\ \A x \in 1..Len(code) : x # u => c[x] = code[x]
                BY <4>3, BranchCloses
            <4> QED
                BY <4>4 DEF Blocks, u, m
        <3>5. Writes(c)
            BY <2>2, CodeWrites, BranchWrites DEF Jumps
        <3> HIDE DEF c
        <3>6. /\ LexicalBreaks => Aims(code[IP]) \subseteq BlocksOf(Top.fn) \cup InHand(Top.fn)
              /\ code[Top.alt] = <<>> /\ code[Top.merge] = <<>> /\ IP \in Blocks
            BY <2>1, <2>3, <2>9, HereIsReady
        <3>7. Open(c, Top.alt) /\ Len(c) = Len(code) /\ c[Top.alt] = <<>>
            BY <3>3, <3>4, <3>5, <3>6, NothingYet DEF Open, Writes, Blocks
        <3>8. /\ Tidy(code'[Top.alt]) /\ Closed(code'[Top.alt])
              /\ Aims(code'[Top.alt]) \subseteq {Top.merge}
              /\ \A x \in Blocks : x # Top.alt => code'[x] = c[x]
            <4>1. /\ Tidy(code'[Top.alt]) /\ Closed(code'[Top.alt])
                  /\ Aims(code'[Top.alt]) \subseteq Aims(c[Top.alt]) \cup {Top.merge}
                  /\ \A x \in 1..Len(c) : x # Top.alt => code'[x] = c[x]
                <5>1. Open(c, Top.alt) /\ Top.merge \in Nat /\ Top.merge # NoBlock
                    BY <2>2, <3>3, <3>7
                <5>2. code' = Branch(c, Top.alt, "br", Top.merge)
                    BY <3>2
                <5> QED
                    BY <5>1, <5>2, BranchCloses
            <4>2. Aims(c[Top.alt]) = {}
                BY <3>7, NothingYet
            <4> QED
                BY <3>7, <4>1, <4>2 DEF Blocks
        <3>9. code'[Top.merge] = <<>> /\ code'[IP] = c[IP]
            BY <2>3, <3>3, <3>4, <3>6, <3>8
        <3>10. \A x \in Blocks : x \notin {IP, Top.alt} => code'[x] = code[x]
            BY <3>4, <3>8
        <3>11. Fresh = {}
            <4>1. Writes(code')
                BY <2>2, <2>3, <3>2, <3>5, BranchWrites DEF Jumps
            <4> QED
                BY <4>1, WrittenInPlace
        <3>12. Fills({}, {}, bs, Top.merge)
            BY <2>3, <2>5, <3>1, <3>4, <3>6, <3>8, <3>9, <3>10, <3>11, NothingYet DEF Fills
        <3> QED
            BY <2>1, <3>9, <3>12, NothingYet, PlainCalls, PlainSeals
    <2> QED
        BY <2>8, <2>9 DEF StepWorks
<1>5. CASE IfElseDone
    <2>1. frames # <<>> /\ Top.kind = "if" /\ Top.stage = "else" /\ frames' = Under
        BY <1>5 DEF IfElseDone, At, Return
    <2>2. Top.merge \in Nat /\ Top.post \in Nat /\ IP \in Nat /\ IP \in BlocksOf(Top.fn)
        BY <2>1, InCall, HereIsOwn
    <2>3. Pending(Top) = {Top.merge}
        BY <2>1 DEF Pending
    <2>4. WritesOwn
        <3>1. Writes(Branch(code, IP, "br", Top.merge))
            BY <2>2, CodeWrites, BranchWrites DEF Jumps
        <3>2. [op |-> "phi", to |-> Incoming] \in Inst
            BY <2>2 DEF Inst, Incoming
        <3>3. Writes(Emit(Branch(code, IP, "br", Top.merge), Top.merge, [op |-> "phi", to |-> Incoming]))
            BY <2>3, <3>1, <3>2, EmitWrites
        <3> QED
            BY <1>5, <3>3, WrittenInPlace DEF IfElseDone
    <2>5. /\ <<Top.merge>> \in Seq(Nat) /\ Elems(<<Top.merge>>) = {Top.merge}
          /\ \A i, j \in 1..Len(<<Top.merge>>) : <<Top.merge>>[i] = <<Top.merge>>[j] => i = j
        BY <2>2 DEF Elems
    <2>6. Attach(<<Top.merge>>) /\ SetInsertPoint(Top.merge) /\ UNCHANGED allocated
        BY <1>5 DEF IfElseDone
    <2>7. /\ Elems(<<Top.merge>>) \subseteq Pending(Top) \cup Fresh
          /\ Top.merge \in BlocksOf(Top.fn) \cup Elems(<<Top.merge>>)
        BY <2>3, <2>5
    <2>8. Works(<<>>, <<Top.merge>>, Top.merge)
        BY <2>1, <2>4, <2>5, <2>6, <2>7, ReturnMoves
    <2>9. ASSUME Sealing PROVE Seals(<<>>, <<Top.merge>>, Top.merge)
        <3> DEFINE c == Branch(code, IP, "br", Top.merge)
                   i == [op |-> "phi", to |-> Incoming]
        <3>1. Unfilled(Top) = {} /\ ~Between(Top)
            BY <2>1 DEF Unfilled, Between
        <3>2. code' = Emit(c, Top.merge, i) /\ Open(code, IP)
            BY <1>5, <2>1, <2>9, <3>1, HereIsReady DEF IfElseDone
        <3>3. Top.merge # NoBlock /\ Top.merge # IP /\ Top.merge \in Blocks
            BY <1>2a, <2>1, <2>3, <2>9
        <3>4. /\ Tidy(c[IP]) /\ Closed(c[IP])
              /\ Aims(c[IP]) \subseteq Aims(code[IP]) \cup {Top.merge}
              /\ \A x \in Blocks : x # IP => c[x] = code[x]
            <4> HIDE DEF c
            <4>1. c = Branch(code, IP, "br", Top.merge) /\ Top.merge \in Nat /\ Top.merge # NoBlock
                BY <2>2, <3>3 DEF c
            <4>2. Open(code, IP)
                BY <3>2
            <4> DEFINE u == IP
                       m == Top.merge
            <4>3. c = Branch(code, u, "br", m) /\ m \in Nat /\ m # NoBlock /\ Open(code, u)
                BY <4>1, <4>2
            <4> HIDE DEF u, m
            <4>4. /\ Tidy(c[u]) /\ Closed(c[u]) /\ Aims(c[u]) \subseteq Aims(code[u]) \cup {m}
                  /\ \A x \in 1..Len(code) : x # u => c[x] = code[x]
                BY <4>3, BranchCloses
            <4> QED
                BY <4>4 DEF Blocks, u, m
        <3>5. Writes(c)
            BY <2>2, CodeWrites, BranchWrites DEF Jumps
        <3>6. i \in Inst /\ i.op \notin Terminators
            BY <2>2 DEF Inst, Incoming, Terminators, Jumps
        <3> HIDE DEF c, i
        <3>7. /\ LexicalBreaks => Aims(code[IP]) \subseteq BlocksOf(Top.fn) \cup InHand(Top.fn)
              /\ code[Top.merge] = <<>> /\ IP \in Blocks
            BY <2>1, <2>3, <2>9, HereIsReady
        <3>8. Open(c, Top.merge) /\ Len(c) = Len(code) /\ c[Top.merge] = <<>>
            BY <3>3, <3>4, <3>5, <3>7, NothingYet DEF Open, Writes, Blocks
        <3>9. /\ Tidy(code'[Top.merge]) /\ Free(code'[Top.merge]) /\ Aims(code'[Top.merge]) = {}
              /\ \A x \in Blocks : x # Top.merge => code'[x] = c[x]
            <4> DEFINE m == Top.merge
                       d == code'
            <4>1. i \in Inst /\ i.op \notin Terminators /\ Open(c, m) /\ d = Emit(c, m, i)
                BY <3>2, <3>6, <3>8
            <4>2. c[m] = <<>> /\ Len(c) = Len(code)
                BY <3>8
            <4> HIDE DEF m, d
            <4>3. /\ Tidy(d[m]) /\ Free(d[m]) /\ Aims(d[m]) \subseteq Aims(c[m])
                  /\ \A x \in 1..Len(c) : x # m => d[x] = c[x]
                BY <4>1, EmitOpens
            <4>4. Aims(c[m]) = {}
                BY <4>2, NothingYet
            <4> QED
                BY <4>2, <4>3, <4>4 DEF m, d, Blocks
        <3>10. /\ code'[IP] = c[IP]
               /\ \A x \in Blocks : x \notin {IP, Top.merge} => code'[x] = code[x]
            BY <3>3, <3>4, <3>7, <3>9
        <3>11. Fresh = {}
            <4>1. Writes(code')
                BY <2>3, <3>2, <3>5, <3>6, EmitWrites
            <4> QED
                BY <4>1, WrittenInPlace
        <3>12. Fills({}, {}, <<Top.merge>>, Top.merge)
            BY <2>3, <2>5, <3>1, <3>4, <3>7, <3>9, <3>10, <3>11 DEF Fills
        <3> QED
            BY <2>1, <3>9, <3>12, PlainCalls, PlainSeals
    <2> QED
        BY <2>8, <2>9 DEF StepWorks
<1> QED
    BY <1>1, <1>2, <1>3, <1>4, <1>5 DEF IfDef
\* The globals, when they are set, name the loop of the innermost call.
LEMMA OwnTargets ==
    ASSUME TypeOK, LoopTargets, frames # <<>>, Top.kind = "while", mergeBB # NoBlock
    PROVE  mergeBB = Top.merge /\ condBB = Top.cond
<1>1. PICK i \in 1..Len(frames) : Innermost(i) /\ Targets(i)
    BY DEF LoopTargets
<1>2. i = Len(frames)
    <2>1. Len(frames) \in Nat
        BY LenProperties DEF TypeOK
    <2>2. i # Len(frames) => Len(frames) \in (i + 1)..Len(frames)
        BY <2>1
    <2> QED
        BY <1>1, <2>2 DEF Innermost, Top
<1> QED
    BY <1>1, <1>2 DEF Targets, Top

LEMMA WhileWorks ==
    ASSUME TypeOK, TypeOK', Apart, LoopTargets, WhileDef
    PROVE  StepWorks
<1>0. Len(code) \in Nat
    BY LenProperties DEF TypeOK
<1>1. CASE BeginWhile
    <2> DEFINE fr == [Frame("while", "cond", Top.fn) EXCEPT
                        !.cond = New(1), !.body = New(2), !.merge = New(3)]
               c == Branch(code, IP, "br", New(1))
    <2>1. frames # <<>> /\ Top.kind # "func" /\ Call(fr, Expr(Top.fn))
        BY <1>1 DEF BeginWhile, Choosing
    <2>2. /\ Top.fn \in Function /\ Expr(Top.fn) \in Seq(FrameType)
          /\ IP \in BlocksOf(Top.fn)
        BY <2>1, InCall, HereIsOwn
    <2>3. New(1) = Len(code) + 1 /\ New(2) = Len(code) + 2 /\ New(3) = Len(code) + 3
        BY DEF New
    <2>4. New(1) \in Nat /\ New(2) \in Nat /\ New(3) \in Nat
        BY <1>0, <2>3
    <2>5. Writes(c)
        BY <2>2, <2>4, CodeWrites, BranchWrites DEF Jumps
    <2>6. code' = c \o <<Empty, Empty, Empty>>
        BY <1>1 DEF BeginWhile
    <2> HIDE DEF c
    <2>7. WritesOwn /\ Fresh = (Len(code) + 1)..(Len(code) + 3)
        BY <2>5, <2>6, EmptyTyped, WrittenWithBlocks
    <2>8. New(1) \in Fresh /\ New(2) \in Fresh /\ New(3) \in Fresh
        BY <1>0, <2>3, <2>7
    <2>9. fr \in FrameType /\ fr.fn = Top.fn /\ fr.kind = "while"
          /\ fr.cond = New(1) /\ fr.body = New(2) /\ fr.merge = New(3) /\ fr.arms = <<>>
          /\ fr.stage = "cond"
        <3>1. Frame("while", "cond", Top.fn) \in FrameType
            BY <2>2, FrameTyped DEF Kinds, Stages
        <3>2. fr \in FrameType
            BY <2>4, <3>1 DEF FrameType
        <3> QED
            BY <3>2 DEF Frame
    <2> HIDE DEF fr
    <2>10. /\ LoopBlocks \in Seq(Nat) /\ Elems(LoopBlocks) = {New(1), New(2), New(3)}
           /\ \A i, j \in 1..Len(LoopBlocks) : LoopBlocks[i] = LoopBlocks[j] => i = j
        <3>1. /\ LoopBlocks \in Seq(Nat) /\ Len(LoopBlocks) = 3
              /\ LoopBlocks[1] = New(1) /\ LoopBlocks[2] = New(2) /\ LoopBlocks[3] = New(3)
            BY <2>4 DEF LoopBlocks
        <3>2. \A i \in 1..3 : i = 1 \/ i = 2 \/ i = 3
            OBVIOUS
        <3>3. New(1) # New(2) /\ New(1) # New(3) /\ New(2) # New(3)
            BY <1>0, <2>3
        <3> QED
            BY <3>1, <3>2, <3>3 DEF Elems
    <2>11. Resumes(fr, 1, LoopBlocks)
        <3>1. Pending(fr) = {} /\ Elems(fr.arms) = {}
            BY <2>9 DEF Pending, Elems
        <3> QED
            BY <2>1, <2>9, <2>10, <3>1 DEF Resumes, HeldIn
    <2>12. Works(<<fr>> \o Expr(Top.fn), LoopBlocks, New(1))
        <3>1. /\ Elems(LoopBlocks) \subseteq Pending(Top) \cup Fresh
              /\ New(1) \in BlocksOf(Top.fn) \cup Elems(LoopBlocks)
            BY <2>8, <2>10
        <3>2. Attach(LoopBlocks) /\ SetInsertPoint(New(1)) /\ UNCHANGED allocated
            BY <1>1 DEF BeginWhile
        <3> QED
            BY <2>1, <2>2, <2>7, <2>9, <2>10, <2>11, <3>1, <3>2, PlainCalls, CallMoves
    <2>13. ASSUME Sealing PROVE Seals(<<fr>> \o Expr(Top.fn), LoopBlocks, New(1))
        <3>1. Pending(Top) = {} /\ Unfilled(Top) = {} /\ ~Between(Top)
            BY <1>1 DEF BeginWhile, Choosing, Pending, Unfilled, Between
        <3>2. /\ Open(code, IP) /\ IP \in Blocks
              /\ LexicalBreaks => Aims(code[IP]) \subseteq BlocksOf(Top.fn) \cup InHand(Top.fn)
            BY <2>1, <2>13, <3>1, HereIsReady
        <3>3. /\ Tidy(c[IP]) /\ Closed(c[IP]) /\ Aims(c[IP]) \subseteq Aims(code[IP]) \cup {New(1)}
              /\ \A x \in Blocks : x # IP => c[x] = code[x]
            <4> DEFINE u == IP
                       m == New(1)
            <4>1. c = Branch(code, u, "br", m) /\ m \in Nat /\ m # NoBlock /\ Open(code, u)
                BY <1>0, <2>3, <2>4, <3>2 DEF c, NoBlock
            <4> HIDE DEF u, m
            <4>2. /\ Tidy(c[u]) /\ Closed(c[u]) /\ Aims(c[u]) \subseteq Aims(code[u]) \cup {m}
                  /\ \A x \in 1..Len(code) : x # u => c[x] = code[x]
                BY <4>1, BranchCloses
            <4> QED
                BY <4>2 DEF Blocks, u, m
        <3>4. (\A b \in Fresh : code'[b] = <<>>) /\ (\A b \in Blocks : code'[b] = c[b])
            BY <2>5, <2>6, FreshBlocks
        <3>5. New(1) # New(2) /\ New(1) # New(3) /\ New(2) # New(3)
            BY <1>0, <2>3
        <3>6. Fresh = {New(1), New(2), New(3)}
            BY <1>0, <2>3, <2>7
        <3>7. Fills({}, {New(2), New(3)}, LoopBlocks, New(1))
            <4>1. \A b \in Fresh : code'[b] = <<>> /\ Tidy(code'[b]) /\ Aims(code'[b]) = {}
                BY <3>4, NothingYet
            <4>2. code'[IP] = c[IP] /\ \A b \in Blocks : b # IP => code'[b] = code[b]
                BY <3>2, <3>3, <3>4
            <4> HIDE DEF c
            <4> QED
                BY <2>10, <3>1, <3>2, <3>3, <3>5, <3>6, <4>1, <4>2 DEF Fills
        <3>8. /\ Pending(fr) = {} /\ Unfilled(fr) = {New(2), New(3)} /\ ~Between(fr)
              /\ LoopBelow(fr, Len(frames) - 1)
            BY <2>9 DEF Pending, Unfilled, Between, LoopBelow
        <3>9. Separate(fr, BlocksOf(Top.fn) \cup Elems(LoopBlocks))
            BY <2>9, <2>10, <3>5 DEF Separate
        <3>10. Free(code'[New(1)])
            BY <2>8, <3>4, NothingYet
        <3> QED
            BY <2>2, <2>9, <3>7, <3>8, <3>9, <3>10, PlainCalls, CallSeals
    <2> QED
        BY <2>12, <2>13 DEF StepWorks
<1>2. CASE WhileCondDone
    <2> DEFINE fr == [Top EXCEPT !.stage = "body"]
    <2>1. /\ frames # <<>> /\ Top.kind = "while" /\ Top.stage = "cond"
          /\ Call(fr, Block(Top.fn))
        BY <1>2 DEF WhileCondDone, At
    <2>2. /\ Top \in FrameType /\ Block(Top.fn) \in Seq(FrameType)
          /\ HeldIn(Top, BlocksOf(Top.fn)) /\ IP \in BlocksOf(Top.fn) /\ Top.body \in Nat
        BY <2>1, InCall, HereIsOwn
    <2>3. WritesOwn
        <3>1. [op |-> "condbr", to |-> {Top.body, mergeBB}] \in Inst
            BY <2>2 DEF Inst, Terminators, TypeOK
        <3>2. Writes(Emit(code, IP, [op |-> "condbr", to |-> {Top.body, mergeBB}]))
            BY <2>2, <3>1, CodeWrites, EmitWrites
        <3> QED
            BY <1>2, <3>2, WrittenInPlace DEF WhileCondDone
    <2>4. fr \in FrameType /\ fr.fn = Top.fn /\ fr.kind = "while"
          /\ fr.cond = Top.cond /\ fr.body = Top.body /\ fr.merge = Top.merge
          /\ fr.arms = Top.arms /\ fr.stage = "body"
        BY <2>1, <2>2 DEF FrameType, Stages
    <2> HIDE DEF fr
    <2>5. <<>> \in Seq(Nat) /\ Elems(<<>>) = {} /\ \A i, j \in 1..Len(<<>>) : <<>>[i] = <<>>[j] => i = j
        BY DEF Elems
    <2>6. Resumes(fr, 1, <<>>)
        <3>1. Pending(fr) = {}
            BY <2>4 DEF Pending
        <3> QED
            BY <2>1, <2>2, <2>4, <2>5, <3>1 DEF Resumes, HeldIn
    <2>7. Attach(<<>>)
        <3>1. layout[Top.fn] \o <<>> = layout[Top.fn]
            BY <2>1, InCall, ConcatEmptySeq DEF TypeOK
        <3> QED
            BY <1>2, <3>1 DEF WhileCondDone, Attach, TypeOK
    <2>8. Works(<<fr>> \o Block(Top.fn), <<>>, Top.body)
        <3>1. /\ Elems(<<>>) \subseteq Pending(Top) \cup Fresh
              /\ Top.body \in BlocksOf(Top.fn) \cup Elems(<<>>)
            BY <2>1, <2>2, <2>5 DEF HeldIn
        <3>2. SetInsertPoint(Top.body) /\ UNCHANGED allocated
            BY <1>2 DEF WhileCondDone
        <3> QED
            BY <2>1, <2>2, <2>3, <2>4, <2>5, <2>6, <2>7, <3>1, <3>2, PlainCalls, CallMoves
    <2>9. ASSUME Sealing, Running' PROVE Seals(<<fr>> \o Block(Top.fn), <<>>, Top.body)
        <3> DEFINE i == [op |-> "condbr", to |-> {Top.body, mergeBB}]
        <3>1. /\ Pending(Top) = {} /\ Unfilled(Top) = {Top.body, Top.merge} /\ ~Between(Top)
              /\ Pending(fr) = {} /\ Unfilled(fr) = {Top.merge} /\ ~Between(fr)
              /\ LoopBelow(fr, Len(frames) - 1)
            BY <2>1, <2>4 DEF Pending, Unfilled, Between, LoopBelow
        <3>2. mergeBB = Top.merge
            <4>1. mergeBB # NoBlock
                BY <1>2, <2>9 DEF WhileCondDone, Running
            <4> QED
                BY <2>1, <4>1, OwnTargets
        <3>3. /\ i \in Inst /\ i.op \in Terminators /\ i.to = {Top.body, Top.merge}
              /\ code' = Emit(code, IP, i)
            BY <1>2, <2>2, <3>2 DEF WhileCondDone, Inst, Terminators, TypeOK
        <3> HIDE DEF i
        <3>4. /\ Open(code, IP) /\ IP \in Blocks /\ Top.body # IP /\ Top.merge # IP
              /\ Top.body \in Blocks /\ Top.merge \in Blocks
              /\ code[Top.body] = <<>> /\ code[Top.merge] = <<>>
              /\ Top.body \in BlocksOf(Top.fn) /\ Top.merge \in BlocksOf(Top.fn)
              /\ LexicalBreaks => Aims(code[IP]) \subseteq BlocksOf(Top.fn) \cup InHand(Top.fn)
            BY <2>1, <2>9, <3>1, HereIsReady
        <3>5. Separate(Top, BlocksOf(Top.fn))
            BY <2>1, <2>9, HereIsReady
        <3>6. /\ Tidy(code'[IP]) /\ Closed(code'[IP]) /\ Aims(code'[IP]) \subseteq Aims(code[IP]) \cup i.to
              /\ \A x \in 1..Len(code) : x # IP => code'[x] = code[x]
            <4> DEFINE u == IP
                       d == code'
            <4>1. i \in Inst /\ i.op \in Terminators /\ Open(code, u) /\ d = Emit(code, u, i)
                BY <3>3, <3>4
            <4> HIDE DEF u, d
            <4>2. /\ Tidy(d[u]) /\ Closed(d[u]) /\ Aims(d[u]) \subseteq Aims(code[u]) \cup i.to
                  /\ \A x \in 1..Len(code) : x # u => d[x] = code[x]
                BY <4>1, EmitCloses
            <4> QED
                BY <4>2 DEF u, d
        <3>7. \A x \in Blocks : x # IP => code'[x] = code[x]
            BY <3>6 DEF Blocks
        <3>8. code'[Top.body] = <<>> /\ code'[Top.merge] = <<>>
            BY <3>4, <3>7
        <3>9. Fresh = {}
            <4>1. Writes(code')
                BY <2>2, <3>3, CodeWrites, EmitWrites
            <4> QED
                BY <4>1, WrittenInPlace
        <3>10. Top.body # Top.merge
            BY <2>1, <3>5 DEF Separate
        <3>11. Fills({}, {Top.merge}, <<>>, Top.body)
            BY <2>5, <3>1, <3>3, <3>4, <3>6, <3>7, <3>8, <3>9, <3>10 DEF Fills
        <3>12. Separate(fr, BlocksOf(Top.fn) \cup Elems(<<>>))
            BY <2>1, <2>4, <3>5 DEF Separate
        <3>13. Free(code'[Top.body])
            BY <3>8, NothingYet
        <3> QED
            BY <2>2, <2>4, <3>1, <3>11, <3>12, <3>13, PlainCalls, CallSeals
    <2> QED
        BY <2>8, <2>9 DEF StepWorks
<1>3. CASE WhileBodyDone
    <2>1. frames # <<>> /\ Top.kind = "while" /\ Top.stage = "body" /\ frames' = Under
        BY <1>3 DEF WhileBodyDone, At, Return
    <2>2. IP \in BlocksOf(Top.fn) /\ HeldIn(Top, BlocksOf(Top.fn)) /\ Top = frames[Len(frames)]
        BY <2>1, HereIsOwn
    <2>3. Writes(code')
        <3>1. condBB \in Nat
            BY DEF TypeOK
        <3> QED
            BY <1>3, <2>2, <3>1, CodeWrites, BranchWrites DEF WhileBodyDone, Jumps
    <2>4. CASE mergeBB = NoBlock
        <3>1. ~Running'
            BY <1>3, <2>4 DEF WhileBodyDone, Running
        <3>2. UNCHANGED <<layout, insert>> /\ allocated \subseteq allocated'
            BY <1>3, <2>4 DEF WhileBodyDone
        <3> QED
            BY <2>1, <2>3, <3>1, <3>2, ReturnInPlaceWorks
    <2>5. CASE mergeBB # NoBlock
        <3>1. mergeBB = Top.merge /\ condBB = Top.cond
            BY <2>1, <2>5, OwnTargets
        <3>2. Top.merge \in BlocksOf(Top.fn)
            BY <2>1, <2>2 DEF HeldIn
        <3>3. <<>> \in Seq(Nat) /\ Elems(<<>>) = {} /\ \A i, j \in 1..Len(<<>>) : <<>>[i] = <<>>[j] => i = j
            BY DEF Elems
        <3>4. Attach(<<>>)
            <4>1. layout[Top.fn] \o <<>> = layout[Top.fn]
                BY <2>1, InCall, ConcatEmptySeq DEF TypeOK
            <4> QED
                BY <1>3, <4>1 DEF WhileBodyDone, Attach, TypeOK
        <3>5. SetInsertPoint(Top.merge) /\ UNCHANGED allocated
            BY <1>3, <2>5, <3>1 DEF WhileBodyDone, SetInsertPoint
        <3>6. /\ Elems(<<>>) \subseteq Pending(Top) \cup Fresh
              /\ Top.merge \in BlocksOf(Top.fn) \cup Elems(<<>>)
            BY <3>2, <3>3
        <3>7. WritesOwn
            BY <2>3, WrittenInPlace
        <3>8. Works(<<>>, <<>>, Top.merge)
            BY <2>1, <3>3, <3>4, <3>5, <3>6, <3>7, ReturnMoves
        <3>9. ASSUME Sealing PROVE Seals(<<>>, <<>>, Top.merge)
            <4>1. Pending(Top) = {} /\ Unfilled(Top) = {Top.merge} /\ ~Between(Top)
                BY <2>1 DEF Pending, Unfilled, Between
            <4>2. /\ Open(code, IP) /\ IP \in Blocks /\ Top.merge # IP /\ Top.merge \in Blocks
                  /\ code[Top.merge] = <<>> /\ BlocksOf(Top.fn) \subseteq Blocks
                  /\ LexicalBreaks => Aims(code[IP]) \subseteq BlocksOf(Top.fn) \cup InHand(Top.fn)
                <5>1. BlocksOf(Top.fn) \subseteq Blocks
                    BY <2>1, HereIsOwn DEF Apart, LaidOut
                <5> QED
                    BY <2>1, <3>9, <4>1, <5>1, HereIsReady
            <4>3. condBB \in BlocksOf(Top.fn) /\ condBB # NoBlock /\ condBB \in Nat
                <5>1. Separate(Top, BlocksOf(Top.fn))
                    BY <2>1, <3>9, HereIsReady
                <5>2. condBB \in BlocksOf(Top.fn)
                    BY <2>1, <3>1, <5>1 DEF Separate
                <5> QED
                    BY <4>2, <5>2 DEF Blocks, NoBlock
            <4>4. /\ Tidy(code'[IP]) /\ Closed(code'[IP]) /\ Aims(code'[IP]) \subseteq Aims(code[IP]) \cup {condBB}
                  /\ \A x \in 1..Len(code) : x # IP => code'[x] = code[x]
                <5>1. code' = Branch(code, IP, "br", condBB)
                    BY <1>3 DEF WhileBodyDone
                <5> QED
                    BY <4>2, <4>3, <5>1, BranchCloses
            <4>5. \A x \in Blocks : x # IP => code'[x] = code[x]
                BY <4>4 DEF Blocks
            <4>6. Fresh = {}
                BY <2>3, WrittenInPlace
            <4>7. Fills({}, {}, <<>>, Top.merge)
                BY <3>3, <4>1, <4>2, <4>3, <4>4, <4>5, <4>6 DEF Fills
            <4>8. Free(code'[Top.merge])
                BY <4>2, <4>5, NothingYet
            <4> QED
                BY <2>1, <4>7, <4>8, PlainCalls, PlainSeals
        <3> QED
            BY <3>8, <3>9 DEF StepWorks
    <2> QED
        BY <2>4, <2>5
<1> QED
    BY <1>1, <1>2, <1>3 DEF WhileDef

LEMMA SwitchWorks ==
    ASSUME TypeOK, TypeOK', Apart, SwitchDef
    PROVE  StepWorks
<1>0. Len(code) \in Nat
    BY LenProperties DEF TypeOK
<1>1. CASE BeginSwitch
    <2> DEFINE fr == [Frame("switch", "cond", Top.fn) EXCEPT !.alt = New(1), !.merge = New(2)]
    <2>1. frames # <<>> /\ Top.kind # "func" /\ Call(fr, Expr(Top.fn)) /\ code' = code \o <<Empty, Empty>>
        BY <1>1 DEF BeginSwitch, Choosing
    <2>2. Top.fn \in Function /\ Expr(Top.fn) \in Seq(FrameType)
        BY <2>1, InCall
    <2>3. New(1) = Len(code) + 1 /\ New(2) = Len(code) + 2
        BY DEF New
    <2>4. New(1) \in Nat /\ New(2) \in Nat /\ New(1) # New(2)
        BY <1>0, <2>3
    <2>5. WritesOwn /\ Fresh = (Len(code) + 1)..(Len(code) + 2)
        BY <2>1, CodeWrites, EmptyTyped, WrittenWithBlocks
    <2>6. New(1) \in Fresh /\ New(2) \in Fresh
        BY <1>0, <2>3, <2>5
    <2>7. fr \in FrameType /\ fr.fn = Top.fn /\ fr.kind = "switch" /\ fr.stage = "cond"
          /\ fr.alt = New(1) /\ fr.merge = New(2) /\ fr.arms = <<>>
        <3>1. Frame("switch", "cond", Top.fn) \in FrameType
            BY <2>2, FrameTyped DEF Kinds, Stages
        <3>2. fr \in FrameType
            BY <2>4, <3>1 DEF FrameType
        <3> QED
            BY <3>2 DEF Frame
    <2> HIDE DEF fr
    <2>8. Resumes(fr, 1, <<>>)
        <3>1. Pending(fr) = {New(1), New(2)} /\ Elems(fr.arms) = {} /\ Elems(<<>>) = {}
            BY <2>7 DEF Pending, Elems
        <3> QED
            BY <2>1, <2>4, <2>6, <2>7, <3>1 DEF Resumes, HeldIn
    <2>9. Works(<<fr>> \o Expr(Top.fn), <<>>, IP)
        BY <1>1, <2>1, <2>2, <2>5, <2>7, <2>8, PlainCalls, CallWorks DEF BeginSwitch
    <2>10. ASSUME Sealing PROVE Seals(<<fr>> \o Expr(Top.fn), <<>>, IP)
        <3>1. Pending(Top) = {} /\ Unfilled(Top) = {} /\ ~Between(Top)
            BY <1>1 DEF BeginSwitch, Choosing, Pending, Unfilled, Between
        <3>2. /\ Open(code, IP) /\ IP \in Blocks /\ Tidy(code[IP])
              /\ LexicalBreaks => Aims(code[IP]) \subseteq BlocksOf(Top.fn) \cup InHand(Top.fn)
            BY <2>1, <2>10, <3>1, HereIsReady
        <3>3. (\A b \in Fresh : code'[b] = <<>>) /\ (\A b \in Blocks : code'[b] = code[b])
            BY <2>1, CodeWrites, FreshBlocks
        <3>4. /\ Pending(fr) = {New(1), New(2)} /\ Unfilled(fr) = {} /\ ~Between(fr)
              /\ LoopBelow(fr, Len(frames) - 1)
            BY <2>7 DEF Pending, Unfilled, Between, LoopBelow
        <3>5. Elems(<<>>) = {} /\ Fresh = {New(1), New(2)}
            BY <1>0, <2>3, <2>5 DEF Elems
        <3>6. Fills({New(1), New(2)}, {}, <<>>, IP)
            <4>1. \A b \in Fresh : Tidy(code'[b])
                BY <3>3, NothingYet
            <4> QED
                BY <3>1, <3>2, <3>3, <3>5, <4>1 DEF Fills
        <3>7. Separate(fr, BlocksOf(Top.fn) \cup Elems(<<>>))
            BY <2>7 DEF Separate
        <3>8. Free(code'[IP])
            BY <3>2, <3>3 DEF Open
        <3> QED
            BY <2>2, <2>7, <3>4, <3>6, <3>7, <3>8, PlainCalls, CallSeals
    <2> QED
        BY <2>9, <2>10 DEF StepWorks
<1>2. CASE SwitchCondDone
    <2> DEFINE arms(n) == [i \in 1..n |-> New(i)]
               fr(n)   == [Top EXCEPT !.stage = "arms", !.arms = arms(n)]
               c(n)    == Emit(code, IP, [op |-> "switch",
                                 to |-> {Top.alt} \cup {New(i) : i \in 1..n}])
    <2>1. PICK n \in 0..MaxArms :
             /\ Call(fr(n), <<>>) /\ Attach(arms(n))
             /\ code' = c(n) \o [i \in 1..n |-> Empty]
        BY <1>2 DEF SwitchCondDone
    <2>2. n \in Nat
        BY BoundAssumption
    <2>3. frames # <<>> /\ Top.kind = "switch" /\ Top.stage = "cond"
        BY <1>2 DEF SwitchCondDone, At
    <2>4. /\ Top \in FrameType /\ HeldIn(Top, BlocksOf(Top.fn)) /\ IP \in BlocksOf(Top.fn)
          /\ Top.alt \in Nat /\ (Pending(Top) # {} => Top.alt # Top.merge)
        BY <2>3, InCall, HereIsOwn
    <2>5. /\ arms(n) \in Seq(Nat) /\ Len(arms(n)) = n
          /\ \A i \in 1..n : arms(n)[i] = Len(code) + i
          /\ [i \in 1..n |-> Empty] \in Seq(Seq(Inst)) /\ Len([i \in 1..n |-> Empty]) = n
          /\ {New(i) : i \in 1..n} \subseteq Nat
        <3>1. /\ arms(n) \in Seq(Nat) /\ [i \in 1..n |-> Empty] \in Seq(Seq(Inst))
              /\ {New(i) : i \in 1..n} \subseteq Nat
            BY <2>2, ArmsTyped DEF TypeOK
        <3>2. Len(arms(n)) = n /\ Len([i \in 1..n |-> Empty]) = n
            BY <2>2
        <3>3. \A i \in 1..n : arms(n)[i] = Len(code) + i
            BY DEF New
        <3> QED
            BY <3>1, <3>2, <3>3
    <2>6. Writes(c(n))
        <3>1. [op |-> "switch", to |-> {Top.alt} \cup {New(i) : i \in 1..n}] \in Inst
            <4> DEFINE to == {Top.alt} \cup {New(i) : i \in 1..n}
            <4>1. to \subseteq Nat
                BY <2>4, <2>5
            <4> HIDE DEF to
            <4>2. [op |-> "switch", to |-> to] \in Inst
                BY <4>1 DEF Inst, Terminators
            <4> QED
                BY <4>2 DEF to
        <3> QED
            BY <2>4, <3>1, CodeWrites, EmitWrites
    <2> DEFINE cn == c(n)
               bs == arms(n)
               new == fr(n)
    <2>7. new \in FrameType /\ new.fn = Top.fn /\ new.kind = "switch" /\ new.stage = "arms"
          /\ new.alt = Top.alt /\ new.merge = Top.merge /\ new.arms = bs
        BY <2>3, <2>4, <2>5 DEF FrameType, Stages
    <2>8. Call(new, <<>>) /\ Attach(bs) /\ code' = cn \o [i \in 1..n |-> Empty] /\ Writes(cn)
        BY <2>1, <2>6
    <2>9. /\ bs \in Seq(Nat) /\ Len(bs) = n /\ \A i \in 1..n : bs[i] = Len(code) + i
        BY <2>5
    <2> HIDE DEF arms, fr, c, cn, bs, new
    <2>10. WritesOwn /\ Fresh = (Len(code) + 1)..(Len(code) + n)
        BY <2>5, <2>8, WrittenWithBlocks
    <2>11. Elems(bs) = Fresh /\ \A i, j \in 1..Len(bs) : bs[i] = bs[j] => i = j
        <3>1. \A x \in Fresh : x - Len(code) \in 1..n /\ x = Len(code) + (x - Len(code))
            BY <1>0, <2>2, <2>10
        <3>2. \A i \in 1..n : Len(code) + i \in Fresh
            BY <1>0, <2>2, <2>10
        <3>3. \A i, j \in 1..n : Len(code) + i = Len(code) + j => i = j
            BY <1>0, <2>2
        <3>4. \A i, j \in 1..Len(bs) : bs[i] = bs[j] => i = j
            BY <2>9, <3>3
        <3>5. \A x \in Fresh : x = bs[x - Len(code)]
            BY <2>9, <3>1
        <3>6. Elems(bs) = Fresh
            <4>1. Elems(bs) = {bs[i] : i \in 1..n}
                BY <2>9 DEF Elems
            <4>2. \A i \in 1..n : bs[i] \in Fresh
                BY <2>9, <3>2
            <4>3. \A x \in Fresh : \E i \in 1..n : x = bs[i]
                BY <3>1, <3>5
            <4> QED
                BY <4>1, <4>2, <4>3
        <3> QED
            BY <3>4, <3>6
    <2>12. Resumes(new, 1, bs)
        <3>1. Pending(new) = {Top.alt, Top.merge} /\ Pending(Top) = {Top.alt, Top.merge}
            BY <2>3, <2>7 DEF Pending
        <3>2. Pending(Top) \cap Fresh = {}
            <4>1. Pending(Top) \subseteq Blocks
                BY <2>3, HereIsOwn DEF Apart, PendingApart
            <4> QED
                BY <1>0, <2>2, <2>10, <4>1 DEF Blocks
        <3> QED
            BY <2>3, <2>4, <2>7, <2>11, <3>1, <3>2 DEF Resumes, HeldIn
    <2>13. Works(<<new>> \o <<>>, bs, IP)
        <3>1. SetInsertPoint(IP) /\ UNCHANGED allocated
            BY <1>2, <2>3, InCall DEF SwitchCondDone, SetInsertPoint, IP, TypeOK
        <3>2. Elems(bs) \subseteq Pending(Top) \cup Fresh /\ IP \in BlocksOf(Top.fn) \cup Elems(bs)
            BY <2>4, <2>11
        <3>3. <<>> \in Seq(FrameType) /\ Plain(<<>>)
            BY PlainCalls, EmptySeq
        <3> QED
            BY <2>3, <2>7, <2>8, <2>9, <2>10, <2>11, <2>12, <3>1, <3>2, <3>3, CallMoves
    <2>14. ASSUME Sealing PROVE Seals(<<new>> \o <<>>, bs, IP)
        <3> DEFINE i == [op |-> "switch", to |-> {Top.alt} \cup {New(k) : k \in 1..n}]
        <3>1. /\ Pending(Top) = {Top.alt, Top.merge} /\ Unfilled(Top) = {} /\ ~Between(Top)
              /\ Pending(new) = {Top.alt, Top.merge} /\ Unfilled(new) = Fresh /\ Between(new)
              /\ LoopBelow(new, Len(frames) - 1)
            BY <2>3, <2>7, <2>11 DEF Pending, Unfilled, Between, LoopBelow
        <3>2. i \in Inst /\ i.op \in Terminators /\ cn = Emit(code, IP, i)
            <4> DEFINE to == {Top.alt} \cup {New(k) : k \in 1..n}
            <4>1. to \subseteq Nat
                BY <2>4, <2>5
            <4> HIDE DEF to
            <4>2. [op |-> "switch", to |-> to] \in Inst
                BY <4>1 DEF Inst, Terminators
            <4> QED
                BY <4>2 DEF to, cn, c, Terminators
        <3>3. i.to \subseteq {Top.alt} \cup Fresh
            <4>1. \A k \in 1..n : New(k) \in Fresh
                BY <1>0, <2>2, <2>10 DEF New
            <4> QED
                BY <4>1
        <3> HIDE DEF i
        <3>4. /\ Open(code, IP) /\ IP \in Blocks /\ Top.alt # IP /\ Top.merge # IP
              /\ Top.alt \in Blocks /\ Top.merge \in Blocks
              /\ code[Top.alt] = <<>> /\ code[Top.merge] = <<>>
              /\ LexicalBreaks => Aims(code[IP]) \subseteq BlocksOf(Top.fn) \cup InHand(Top.fn)
            BY <2>3, <2>14, <3>1, HereIsReady
        <3>5. /\ Tidy(cn[IP]) /\ Closed(cn[IP]) /\ Aims(cn[IP]) \subseteq Aims(code[IP]) \cup i.to
              /\ \A x \in 1..Len(code) : x # IP => cn[x] = code[x]
            BY <3>2, <3>4, EmitCloses
        <3>6. (\A b \in Fresh : code'[b] = <<>>) /\ (\A b \in Blocks : code'[b] = cn[b])
            <4> DEFINE k == [a \in 1..n |-> Empty]
            <4>1. k \in Seq(Seq(Inst)) /\ code' = cn \o k
                BY <2>5, <2>8
            <4>2. \A a \in 1..Len(k) : k[a] = <<>>
                BY <2>5 DEF Empty
            <4> HIDE DEF k
            <4> QED
                BY <2>8, <4>1, <4>2, FreshEmpty
        <3>7. \A x \in Blocks : x # IP => code'[x] = code[x]
            BY <3>5, <3>6 DEF Blocks
        <3>8. IP \notin Fresh
            BY <1>0, <2>2, <2>10, <3>4 DEF Blocks
        <3>9. Fills({Top.alt, Top.merge}, Fresh, bs, IP)
            <4>1. \A b \in Fresh : Tidy(code'[b]) /\ Aims(code'[b]) = {}
                BY <3>6, NothingYet
            <4>2. code'[Top.alt] = <<>> /\ code'[Top.merge] = <<>> /\ code'[IP] = cn[IP]
                BY <3>4, <3>6, <3>7
            <4>3. Tidy(code'[Top.alt]) /\ Tidy(code'[Top.merge])
                BY <4>2, NothingYet
            <4> QED
                BY <2>11, <3>1, <3>3, <3>4, <3>5, <3>6, <3>7, <3>8, <4>1, <4>2, <4>3 DEF Fills
        <3>10. Separate(new, BlocksOf(Top.fn) \cup Elems(bs))
            BY <2>7, <2>11 DEF Separate
        <3>11. Closed(code'[IP])
            BY <3>4, <3>5, <3>6
        <3>12. <<>> \in Seq(FrameType) /\ Plain(<<>>)
            BY PlainCalls, EmptySeq
        <3> QED
            BY <2>7, <3>1, <3>9, <3>10, <3>11, <3>12, CallSeals
    <2> QED
        BY <2>13, <2>14 DEF StepWorks
<1>3. CASE SwitchArm
    <2> DEFINE fr == [Top EXCEPT !.stage = "arm", !.arms = Tail(@)]
               b  == Head(Top.arms)
    <2>1. /\ frames # <<>> /\ Top.kind = "switch" /\ Top.stage = "arms" /\ Top.arms # <<>>
          /\ Call(fr, Block(Top.fn))
        BY <1>3 DEF SwitchArm, At
    <2>2. /\ Top \in FrameType /\ Block(Top.fn) \in Seq(FrameType) /\ Top.arms \in Seq(Nat)
          /\ HeldIn(Top, BlocksOf(Top.fn)) /\ (Pending(Top) # {} => Top.alt # Top.merge)
        BY <2>1, InCall, HereIsOwn
    <2>3. /\ Tail(Top.arms) \in Seq(Nat) /\ Elems(Tail(Top.arms)) \subseteq Elems(Top.arms)
          /\ b \in Elems(Top.arms)
          /\ Len(Tail(Top.arms)) = Len(Top.arms) - 1 /\ Len(Top.arms) \in Nat \ {0}
          /\ \A i \in 1..Len(Tail(Top.arms)) : Tail(Top.arms)[i] = Top.arms[i + 1]
          /\ b = Top.arms[1]
        <3>1. Len(Top.arms) \in Nat \ {0}
            BY <2>1, <2>2, EmptySeq, LenProperties
        <3>2. /\ Tail(Top.arms) \in Seq(Nat) /\ Len(Tail(Top.arms)) = Len(Top.arms) - 1
              /\ \A i \in 1..Len(Tail(Top.arms)) : Tail(Top.arms)[i] = Top.arms[i + 1]
              /\ b = Top.arms[1]
            BY <2>1, <2>2, HeadTailProperties
        <3>3. \A i \in 1..Len(Tail(Top.arms)) : i + 1 \in 1..Len(Top.arms)
            BY <3>1, <3>2
        <3>4. 1 \in 1..Len(Top.arms)
            BY <3>1
        <3> QED
            BY <3>1, <3>2, <3>3, <3>4 DEF Elems
    <2>4. fr \in FrameType /\ fr.fn = Top.fn /\ fr.kind = "switch" /\ fr.stage = "arm"
          /\ fr.alt = Top.alt /\ fr.merge = Top.merge /\ fr.arms = Tail(Top.arms)
        BY <2>1, <2>2, <2>3 DEF FrameType, Stages
    <2>5. SetInsertPoint(b) /\ UNCHANGED allocated
        BY <1>3 DEF SwitchArm
    <2> HIDE DEF fr, b
    <2>6. <<>> \in Seq(Nat) /\ Elems(<<>>) = {} /\ \A i, j \in 1..Len(<<>>) : <<>>[i] = <<>>[j] => i = j
        BY DEF Elems
    <2>7. Resumes(fr, 1, <<>>)
        <3>1. Pending(fr) = {Top.alt, Top.merge} /\ Pending(Top) = {Top.alt, Top.merge}
            BY <2>1, <2>4 DEF Pending
        <3> QED
            BY <2>1, <2>2, <2>3, <2>4, <2>6, <3>1 DEF Resumes, HeldIn
    <2>8. Attach(<<>>)
        <3>1. layout[Top.fn] \o <<>> = layout[Top.fn]
            BY <2>1, InCall, ConcatEmptySeq DEF TypeOK
        <3> QED
            BY <1>3, <3>1 DEF SwitchArm, Attach, TypeOK
    <2>9. WritesOwn
        BY <1>3, CodeWrites, WrittenInPlace DEF SwitchArm
    <2>10. Works(<<fr>> \o Block(Top.fn), <<>>, b)
        <3>1. Elems(<<>>) \subseteq Pending(Top) \cup Fresh /\ b \in BlocksOf(Top.fn) \cup Elems(<<>>)
            BY <2>2, <2>3, <2>6 DEF HeldIn
        <3> QED
            BY <2>1, <2>2, <2>4, <2>5, <2>6, <2>7, <2>8, <2>9, <3>1, PlainCalls, CallMoves
    <2>11. ASSUME Sealing PROVE Seals(<<fr>> \o Block(Top.fn), <<>>, b)
        <3> DEFINE O == Elems(Tail(Top.arms))
        <3>1. /\ Pending(Top) = {Top.alt, Top.merge} /\ Unfilled(Top) = Elems(Top.arms) /\ Between(Top)
              /\ Pending(fr) = {Top.alt, Top.merge} /\ Unfilled(fr) = O /\ ~Between(fr)
              /\ LoopBelow(fr, Len(frames) - 1)
            BY <2>1, <2>4 DEF Pending, Unfilled, Between, LoopBelow
        <3>2. /\ IP \in Blocks /\ Tidy(code[IP]) /\ Closed(code[IP])
              /\ \A x \in Pending(Top) \cup Unfilled(Top) : code[x] = <<>>
              /\ LexicalBreaks => Aims(code[IP]) \subseteq BlocksOf(Top.fn) \cup InHand(Top.fn)
              /\ Separate(Top, BlocksOf(Top.fn))
            BY <2>1, <2>11, <3>1, HereIsReady
        <3>3. \A x, y \in 1..Len(Top.arms) : Top.arms[x] = Top.arms[y] => x = y
            BY <3>2 DEF Separate
        <3>4. \A x \in 1..Len(Tail(Top.arms)) : x + 1 \in 1..Len(Top.arms) /\ x + 1 # 1 /\ x \in Nat
            BY <2>3
        <3>5. Elems(Top.arms) \subseteq O \cup {b}
            <4>1. ASSUME NEW x \in 1..Len(Top.arms) PROVE Top.arms[x] \in O \cup {b}
                <5>1. x = 1 \/ (x - 1 \in 1..Len(Tail(Top.arms)) /\ x = (x - 1) + 1)
                    BY <2>3
                <5>2. CASE x = 1
                    BY <2>3, <5>2
                <5>3. CASE x - 1 \in 1..Len(Tail(Top.arms)) /\ x = (x - 1) + 1
                    <6>1. Top.arms[x] = Tail(Top.arms)[x - 1]
                        BY <2>3, <5>3
                    <6> QED
                        BY <5>3, <6>1 DEF Elems
                <5> QED
                    BY <5>1, <5>2, <5>3
            <4> QED
                BY <4>1 DEF Elems
        <3>6. b \notin O
            <4>1. ASSUME NEW x \in 1..Len(Tail(Top.arms)), Tail(Top.arms)[x] = b PROVE FALSE
                BY <2>3, <3>3, <3>4, <4>1
            <4> QED
                BY <4>1 DEF Elems
        <3>7. Separate(fr, BlocksOf(Top.fn) \cup Elems(<<>>))
            <4>1. ASSUME NEW x \in 1..Len(Tail(Top.arms)), NEW y \in 1..Len(Tail(Top.arms)),
                         Tail(Top.arms)[x] = Tail(Top.arms)[y]
                  PROVE  x = y
                <5>1. x + 1 = y + 1
                    BY <2>3, <3>3, <3>4, <4>1
                <5> QED
                    BY <3>4, <5>1
            <4> QED
                BY <2>4, <4>1 DEF Separate
        <3>8. code' = code /\ Fresh = {}
            <4>1. code' = code
                BY <1>3 DEF SwitchArm
            <4>2. Writes(code')
                BY <4>1, CodeWrites
            <4> QED
                BY <4>1, <4>2, WrittenInPlace
        <3>9. \A x \in Pending(Top) \cup Unfilled(Top) : code'[x] = <<>> /\ Tidy(code'[x]) /\ Free(code'[x])
            BY <3>2, <3>8, NothingYet
        <3>10. O \subseteq Elems(Top.arms) /\ b \in Elems(Top.arms)
            BY <2>3
        <3> HIDE DEF O
        <3>11. Fills({Top.alt, Top.merge}, O, <<>>, b)
            BY <2>6, <3>1, <3>2, <3>5, <3>6, <3>8, <3>9, <3>10 DEF Fills
        <3> QED
            BY <2>2, <2>4, <3>1, <3>7, <3>9, <3>10, <3>11, PlainCalls, CallSeals
    <2> QED
        BY <2>10, <2>11 DEF StepWorks
<1>4. CASE SwitchArmDone
    <2> DEFINE fr == [Top EXCEPT !.stage = "arms"]
    <2>1. frames # <<>> /\ Top.kind = "switch" /\ Top.stage = "arm" /\ Call(fr, <<>>)
        BY <1>4 DEF SwitchArmDone, At
    <2>2. /\ Top \in FrameType /\ Top.merge \in Nat /\ IP \in BlocksOf(Top.fn)
          /\ HeldIn(Top, BlocksOf(Top.fn)) /\ (Pending(Top) # {} => Top.alt # Top.merge)
        BY <2>1, InCall, HereIsOwn
    <2>3. fr \in FrameType /\ fr.fn = Top.fn /\ fr.kind = "switch" /\ fr.stage = "arms"
          /\ fr.alt = Top.alt /\ fr.merge = Top.merge /\ fr.arms = Top.arms
        BY <2>1, <2>2 DEF FrameType, Stages
    <2> HIDE DEF fr
    <2>4. Resumes(fr, 1, <<>>)
        <3>1. Pending(fr) = {Top.alt, Top.merge} /\ Pending(Top) = {Top.alt, Top.merge} /\ Elems(<<>>) = {}
            BY <2>1, <2>3 DEF Pending, Elems
        <3> QED
            BY <2>1, <2>2, <2>3, <3>1 DEF Resumes, HeldIn
    <2>5. WritesOwn
        <3>1. Writes(Branch(code, IP, "br", Top.merge))
            BY <2>2, CodeWrites, BranchWrites DEF Jumps
        <3> QED
            BY <1>4, <3>1, WrittenInPlace DEF SwitchArmDone
    <2>6. Works(<<fr>> \o <<>>, <<>>, IP)
        <3>1. <<>> \in Seq(FrameType) /\ Plain(<<>>)
            BY PlainCalls, EmptySeq
        <3> QED
            BY <1>4, <2>1, <2>3, <2>4, <2>5, <3>1, CallWorks DEF SwitchArmDone
    <2>7. ASSUME Sealing PROVE Seals(<<fr>> \o <<>>, <<>>, IP)
        <3>1. /\ Pending(Top) = {Top.alt, Top.merge} /\ Unfilled(Top) = Elems(Top.arms) /\ ~Between(Top)
              /\ Pending(fr) = Pending(Top) /\ Unfilled(fr) = Unfilled(Top) /\ Between(fr)
              /\ LoopBelow(fr, Len(frames) - 1)
            BY <2>1, <2>3 DEF Pending, Unfilled, Between, LoopBelow
        <3>2. Top.merge \in Blocks /\ Top.merge # NoBlock /\ Top.merge \in InHand(Top.fn)
            BY <1>0, <2>1, <2>7, <3>1, HereIsReady DEF Blocks, NoBlock
        <3>3. GoesOn /\ Closed(code'[IP])
            <4>1. code' = Branch(code, IP, "br", Top.merge) /\ "br" \in Jumps
                BY <1>4 DEF SwitchArmDone, Jumps
            <4> QED
                BY <2>1, <2>2, <2>7, <3>1, <3>2, <4>1, BranchGoesOn
        <3>4. Fills(Pending(fr), Unfilled(fr), <<>>, IP)
            <4>1. Writes(code')
                BY <1>4, <2>2, CodeWrites, BranchWrites DEF SwitchArmDone, Jumps
            <4> QED
                BY <2>1, <2>7, <3>1, <3>3, <4>1, InPlaceFills
        <3>5. Separate(fr, BlocksOf(Top.fn) \cup Elems(<<>>))
            <4>1. Separate(Top, BlocksOf(Top.fn))
                BY <2>1, <2>7, HereIsReady
            <4> QED
                BY <2>3, <4>1 DEF Separate
        <3>6. <<>> \in Seq(FrameType) /\ Plain(<<>>)
            BY PlainCalls, EmptySeq
        <3> QED
            BY <2>3, <3>1, <3>3, <3>4, <3>5, <3>6, CallSeals
    <2> QED
        BY <2>6, <2>7 DEF StepWorks
<1>5. CASE SwitchDefault
    <2> DEFINE fr == [Top EXCEPT !.stage = "default"]
    <2>1. PICK body \in {<<>>, Block(Top.fn)} : Call(fr, body)
        BY <1>5 DEF SwitchDefault
    <2>2. frames # <<>> /\ Top.kind = "switch" /\ Top.stage = "arms"
        BY <1>5 DEF SwitchDefault, At
    <2>3. /\ Top \in FrameType /\ Top.alt \in Nat /\ body \in Seq(FrameType) /\ Plain(body)
          /\ HeldIn(Top, BlocksOf(Top.fn)) /\ (Pending(Top) # {} => Top.alt # Top.merge)
        BY <2>2, InCall, HereIsOwn, PlainCalls, EmptySeq
    <2>4. fr \in FrameType /\ fr.fn = Top.fn /\ fr.kind = "switch" /\ fr.stage = "default"
          /\ fr.alt = Top.alt /\ fr.merge = Top.merge /\ fr.arms = Top.arms
        BY <2>2, <2>3 DEF FrameType, Stages
    <2> HIDE DEF fr
    <2>5. /\ <<Top.alt>> \in Seq(Nat) /\ Elems(<<Top.alt>>) = {Top.alt}
          /\ \A i, j \in 1..Len(<<Top.alt>>) : <<Top.alt>>[i] = <<Top.alt>>[j] => i = j
        BY <2>3 DEF Elems
    <2>6. Pending(fr) = {Top.merge} /\ Pending(Top) = {Top.alt, Top.merge}
        BY <2>2, <2>4 DEF Pending
    <2>7. Resumes(fr, 1, <<Top.alt>>)
        BY <2>2, <2>3, <2>4, <2>5, <2>6 DEF Resumes, HeldIn
    <2>8. WritesOwn
        BY <1>5, CodeWrites, WrittenInPlace DEF SwitchDefault
    <2>9. Works(<<fr>> \o body, <<Top.alt>>, Top.alt)
        <3>1. /\ Elems(<<Top.alt>>) \subseteq Pending(Top) \cup Fresh
              /\ Top.alt \in BlocksOf(Top.fn) \cup Elems(<<Top.alt>>)
            BY <2>5, <2>6
        <3>2. Attach(<<Top.alt>>) /\ SetInsertPoint(Top.alt) /\ UNCHANGED allocated
            BY <1>5 DEF SwitchDefault
        <3> QED
            BY <2>1, <2>2, <2>3, <2>4, <2>5, <2>7, <2>8, <3>1, <3>2, CallMoves
    <2>10. ASSUME Sealing PROVE Seals(<<fr>> \o body, <<Top.alt>>, Top.alt)
        <3>1. /\ Unfilled(Top) = {} /\ Between(Top) /\ Unfilled(fr) = {} /\ ~Between(fr)
              /\ LoopBelow(fr, Len(frames) - 1)
            <4>1. Top.arms = <<>>
                BY <1>5 DEF SwitchDefault
            <4> QED
                BY <2>2, <2>4, <4>1 DEF Unfilled, Between, LoopBelow, Elems
        <3>2. /\ IP \in Blocks /\ Tidy(code[IP]) /\ Closed(code[IP])
              /\ \A x \in Pending(Top) \cup Unfilled(Top) : code[x] = <<>>
              /\ LexicalBreaks => Aims(code[IP]) \subseteq BlocksOf(Top.fn) \cup InHand(Top.fn)
              /\ Separate(Top, BlocksOf(Top.fn))
            BY <2>2, <2>10, <3>1, HereIsReady
        <3>3. code' = code /\ Fresh = {}
            <4>1. code' = code
                BY <1>5 DEF SwitchDefault
            <4>2. Writes(code')
                BY <4>1, CodeWrites
            <4> QED
                BY <4>1, <4>2, WrittenInPlace
        <3>4. /\ code'[Top.alt] = <<>> /\ code'[Top.merge] = <<>>
              /\ Tidy(code'[Top.alt]) /\ Tidy(code'[Top.merge]) /\ Free(code'[Top.alt])
              /\ Aims(code'[Top.alt]) = {}
            BY <2>6, <3>2, <3>3, NothingYet
        <3>5. Fills({Top.merge}, {}, <<Top.alt>>, Top.alt)
            BY <2>5, <2>6, <3>1, <3>2, <3>3, <3>4 DEF Fills
        <3>6. Separate(fr, BlocksOf(Top.fn) \cup Elems(<<Top.alt>>))
            BY <2>2, <2>4, <3>2 DEF Separate
        <3> QED
            BY <2>3, <2>4, <2>6, <3>1, <3>4, <3>5, <3>6, CallSeals
    <2> QED
        BY <2>9, <2>10 DEF StepWorks
<1>6. CASE EndSwitch
    <2>1. frames # <<>> /\ Top.kind = "switch" /\ Top.stage = "default" /\ frames' = Under
        BY <1>6 DEF EndSwitch, At, Return
    <2>2. Top.merge \in Nat /\ IP \in BlocksOf(Top.fn)
        BY <2>1, InCall, HereIsOwn
    <2>3. Pending(Top) = {Top.merge}
        BY <2>1 DEF Pending
    <2>4. WritesOwn
        <3>1. Writes(Branch(code, IP, "br", Top.merge))
            BY <2>2, CodeWrites, BranchWrites DEF Jumps
        <3> QED
            BY <1>6, <3>1, WrittenInPlace DEF EndSwitch
    <2>5. /\ <<Top.merge>> \in Seq(Nat) /\ Elems(<<Top.merge>>) = {Top.merge}
          /\ \A i, j \in 1..Len(<<Top.merge>>) : <<Top.merge>>[i] = <<Top.merge>>[j] => i = j
        BY <2>2 DEF Elems
    <2>6. Attach(<<Top.merge>>) /\ SetInsertPoint(Top.merge) /\ UNCHANGED allocated
        BY <1>6 DEF EndSwitch
    <2>7. /\ Elems(<<Top.merge>>) \subseteq Pending(Top) \cup Fresh
          /\ Top.merge \in BlocksOf(Top.fn) \cup Elems(<<Top.merge>>)
        BY <2>3, <2>5
    <2>8. Works(<<>>, <<Top.merge>>, Top.merge)
        BY <2>1, <2>4, <2>5, <2>6, <2>7, ReturnMoves
    <2>9. ASSUME Sealing PROVE Seals(<<>>, <<Top.merge>>, Top.merge)
        <3>1. Unfilled(Top) = {} /\ ~Between(Top)
            BY <2>1 DEF Unfilled, Between
        <3>2. /\ Open(code, IP) /\ IP \in Blocks /\ code[Top.merge] = <<>>
              /\ Top.merge # IP /\ Top.merge \in Blocks
              /\ LexicalBreaks => Aims(code[IP]) \subseteq BlocksOf(Top.fn) \cup InHand(Top.fn)
            BY <2>1, <2>3, <2>9, <3>1, HereIsReady
        <3>3. code' = Branch(code, IP, "br", Top.merge) /\ Top.merge # NoBlock
            BY <1>6, <3>2 DEF EndSwitch, Blocks, NoBlock
        <3>4. /\ Tidy(code'[IP]) /\ Closed(code'[IP])
              /\ Aims(code'[IP]) \subseteq Aims(code[IP]) \cup {Top.merge}
              /\ \A x \in 1..Len(code) : x # IP => code'[x] = code[x]
            <4>1. Open(code, IP)
                BY <3>2
            <4> QED
                BY <2>2, <3>3, <4>1, BranchCloses
        <3>5. \A x \in Blocks : x # IP => code'[x] = code[x]
            BY <3>4 DEF Blocks
        <3>6. Fresh = {}
            <4>1. Writes(code')
                BY <2>2, <3>3, CodeWrites, BranchWrites DEF Jumps
            <4> QED
                BY <4>1, WrittenInPlace
        <3>7. /\ code'[Top.merge] = <<>> /\ Tidy(code'[Top.merge]) /\ Free(code'[Top.merge])
              /\ Aims(code'[Top.merge]) = {}
            BY <3>2, <3>5, NothingYet
        <3>8. Fills({}, {}, <<Top.merge>>, Top.merge)
            BY <2>3, <2>5, <3>1, <3>2, <3>4, <3>5, <3>6, <3>7 DEF Fills
        <3> QED
            BY <2>1, <3>7, <3>8, PlainCalls, PlainSeals
    <2> QED
        BY <2>8, <2>9 DEF StepWorks
<1> QED
    BY <1>1, <1>2, <1>3, <1>4, <1>5, <1>6 DEF SwitchDef

\* A function that has a loop in progress has the innermost one, if its call is on top.
LEMMA InnermostOwn ==
    ASSUME TypeOK, Apart, Sealing, frames # <<>>,
           \E j \in 1..Len(frames) : frames[j].kind = "while" /\ frames[j].fn = Top.fn,
           NEW i \in 1..Len(frames), Innermost(i)
    PROVE  frames[i].fn = Top.fn
<1>1. PICK j \in 1..Len(frames) : frames[j].kind = "while" /\ frames[j].fn = Top.fn
    OBVIOUS
<1>2. /\ Len(frames) \in Nat \ {0} /\ Top = frames[Len(frames)]
      /\ i \in Depths /\ j \in Depths /\ Len(frames) \in Depths
    BY HereIsOwn, LenProperties DEF TypeOK, Depths
<1>3. j \notin (i + 1)..Len(frames)
    BY <1>1 DEF Innermost
<1>4. i \in j..Len(frames)
    BY <1>1, <1>2, <1>3
<1> QED
    BY <1>1, <1>2, <1>4 DEF Sealing, Contiguous

\* The globals, when they are set, are blocks of the function that a loop is generated
\* for: with another function in between no loop would be left, and an inner loop is
\* one of the same function.
LEMMA TargetsHere ==
    ASSUME TypeOK, Apart, Sealing, LoopTargets, frames # <<>>,
           \E j \in 1..Len(frames) : frames[j].kind = "while" /\ frames[j].fn = Top.fn
    PROVE  {mergeBB, condBB} \subseteq {NoBlock} \cup BlocksOf(Top.fn)
<1>1. CASE condBB = NoBlock /\ mergeBB = NoBlock
    BY <1>1
<1>2. CASE \E i \in 1..Len(frames) : Innermost(i) /\ Targets(i)
    <2>1. PICK i \in 1..Len(frames) : Innermost(i) /\ Targets(i)
        BY <1>2
    <2>2. i \in Depths
        BY DEF Depths
    <2>3. frames[i].fn = Top.fn
        BY <2>1, InnermostOwn
    <2>4. frames[i].kind = "while" /\ condBB = frames[i].cond /\ mergeBB = frames[i].merge
        BY <2>1 DEF Innermost, Targets
    <2>5. HeldIn(frames[i], BlocksOf(frames[i].fn)) /\ Separate(frames[i], BlocksOf(frames[i].fn))
        BY <2>2 DEF Apart, Held, Sealing, AllSeparate
    <2> QED
        BY <2>3, <2>4, <2>5 DEF HeldIn, Separate
<1> QED
    BY <1>1, <1>2 DEF LoopTargets

LEMMA JumpReturns ==
    ASSUME TypeOK, Apart, Sealing, frames # <<>>, Top.kind \in {"stmt", "break"},
           NEW tag \in Jumps \cap LeavesOps, NEW t \in Nat, Jump(tag, t),
           LexicalBreaks => t \in {NoBlock} \cup BlocksOf(Top.fn)
    PROVE  Returnable
<1>1. /\ Pending(Top) = {} /\ Unfilled(Top) = {} /\ ~Between(Top) /\ Top.kind # "func"
    BY NoBlocks
<1>2. code' = Branch(code, IP, tag, t)
    BY DEF Jump
<1>3. GoesOn /\ Free(code'[IP])
    BY <1>1, <1>2, BranchGoesOn
<1> QED
    BY <1>1, <1>3 DEF Returnable

LEMMA NextBlockHere ==
    ASSUME NEW f, NEW b \in BlocksOf(f)
    PROVE  NextBlock(f, b) \in BlocksOf(f)
<1> DEFINE n == Len(layout[f])
           before == {i \in 1..(n - 1) : layout[f][i] = b}
<1>1. CASE before = {}
    BY <1>1 DEF NextBlock
<1>2. CASE before # {}
    <2> DEFINE i == CHOOSE i \in before : TRUE
    <2>1. i \in before
        BY <1>2
    <2>2. NextBlock(f, b) = layout[f][1 + i]
        BY <1>2 DEF NextBlock
    <2> HIDE DEF i
    <2>3. 1 + i \in 1..n
        BY <2>1
    <2> QED
        BY <2>2, <2>3 DEF BlocksOf
<1> QED
    BY <1>1, <1>2

LEMMA LeavingWorks ==
    ASSUME TypeOK, TypeOK', Apart, LoopTargets, Leaving
    PROVE  StepWorks
<1>1. ASSUME frames # <<>>, frames' = Under, Writes(code'), UNCHANGED <<layout, insert, allocated>>,
             Sealing => Returnable
      PROVE  StepWorks
    BY <1>1, ReturnInPlaceWorks
<1>2. ASSUME frames # <<>>, NEW tag \in Jumps, NEW t \in Nat, Jump(tag, t)
      PROVE  Writes(code')
    BY <1>2, CodeWrites, HereIsOwn, BranchWrites DEF Jump
<1>3. ASSUME frames # <<>> PROVE Writes(Emit(code, IP, [op |-> "ret", to |-> {}])) /\ Writes(code)
    BY <1>3, CodeWrites, HereIsOwn, RetWrites
<1>4. CASE GenReturn
    <2>1. frames # <<>> /\ Top.kind = "stmt"
        BY <1>4 DEF GenReturn, Stating
    <2>2. ASSUME Sealing PROVE Returnable
        <3>1. /\ Pending(Top) = {} /\ Unfilled(Top) = {} /\ ~Between(Top) /\ Top.kind # "func"
            BY <2>1, NoBlocks
        <3>2. CASE UNCHANGED code
            BY <2>1, <2>2, <3>1, <3>2, Unchanged DEF Returnable
        <3>3. CASE code' = Emit(code, IP, [op |-> "ret", to |-> {}])
            BY <2>1, <2>2, <3>1, <3>3, HereIsReady, RetGoesOn DEF Returnable
        <3> QED
            BY <1>4, <3>2, <3>3 DEF GenReturn
    <2> QED
        BY <1>1, <1>3, <1>4, <2>1, <2>2 DEF GenReturn, Return
<1>5. CASE BeginReturn
    BY <1>5, BeginPlainWorks DEF BeginReturn, Kinds, Stating, Choosing
<1>6. CASE EndReturn
    <2>1. /\ frames # <<>> /\ Top.kind = "return"
          /\ code' = Emit(code, IP, [op |-> "ret", to |-> {}])
        BY <1>6 DEF EndReturn, At
    <2>2. ASSUME Sealing PROVE Returnable
        <3>1. /\ Pending(Top) = {} /\ Unfilled(Top) = {} /\ ~Between(Top) /\ Top.kind # "func"
            BY <2>1, NoBlocks
        <3> QED
            BY <2>1, <2>2, <3>1, HereIsReady, RetGoesOn DEF Returnable
    <2> QED
        BY <1>1, <1>3, <1>6, <2>1, <2>2 DEF EndReturn, Return
<1>7. CASE GenBreak
    <2>1. frames # <<>> /\ Jump("break", mergeBB) /\ mergeBB \in Nat
        BY <1>7 DEF GenBreak, Stating, TypeOK
    <2>2. Writes(code')
        BY <1>2, <2>1 DEF Jumps
    <2>3. ASSUME Sealing PROVE Returnable
        <3>1. Top.kind = "stmt" /\ (LexicalBreaks => InLoop(Top.fn))
            BY <1>7 DEF GenBreak, Stating, MayLeaveLoop
        <3>2. LexicalBreaks => mergeBB \in {NoBlock} \cup BlocksOf(Top.fn)
            BY <2>1, <2>3, <3>1, TargetsHere DEF InLoop
        <3> QED
            BY <2>1, <2>3, <3>1, <3>2, JumpReturns DEF Jumps, LeavesOps
    <2> QED
        BY <1>1, <1>7, <2>1, <2>2, <2>3 DEF GenBreak, Return
<1>8. CASE BeginBreak
    BY <1>8, BeginPlainWorks DEF BeginBreak, Kinds, Stating, Choosing
<1>9. CASE EndBreak
    <2>1. frames # <<>> /\ Jump("break", mergeBB) /\ mergeBB \in Nat
        BY <1>9 DEF EndBreak, At, TypeOK
    <2>2. Writes(code')
        BY <1>2, <2>1 DEF Jumps
    <2>3. ASSUME Sealing PROVE Returnable
        <3>1. Top.kind = "break" /\ LoopBelow(Top, Len(frames))
            BY <1>9, <2>1, <2>3, HereIsReady DEF EndBreak, At
        <3>2. LexicalBreaks => mergeBB \in {NoBlock} \cup BlocksOf(Top.fn)
            BY <2>1, <2>3, <3>1, TargetsHere DEF LoopBelow
        <3> QED
            BY <2>1, <2>3, <3>1, <3>2, JumpReturns DEF Jumps, LeavesOps
    <2> QED
        BY <1>1, <1>9, <2>1, <2>2, <2>3 DEF EndBreak, Return
<1>10. CASE GenContinue
    <2>1. frames # <<>> /\ Jump("continue", condBB) /\ condBB \in Nat
        BY <1>10 DEF GenContinue, Stating, TypeOK
    <2>2. Writes(code')
        BY <1>2, <2>1 DEF Jumps
    <2>3. ASSUME Sealing PROVE Returnable
        <3>1. Top.kind = "stmt" /\ (LexicalBreaks => InLoop(Top.fn))
            BY <1>10 DEF GenContinue, Stating, MayLeaveLoop
        <3>2. LexicalBreaks => condBB \in {NoBlock} \cup BlocksOf(Top.fn)
            BY <2>1, <2>3, <3>1, TargetsHere DEF InLoop
        <3> QED
            BY <2>1, <2>3, <3>1, <3>2, JumpReturns DEF Jumps, LeavesOps
    <2> QED
        BY <1>1, <1>10, <2>1, <2>2, <2>3 DEF GenContinue, Return
<1>11. CASE GenFallthrough
    <2>1. frames # <<>> /\ Jump("fallthrough", NextBlock(Top.fn, IP)) /\ NextBlock(Top.fn, IP) \in Nat
        BY <1>11, NextBlockTyped DEF GenFallthrough, Stating
    <2>2. Writes(code')
        BY <1>2, <2>1 DEF Jumps
    <2>3. ASSUME Sealing PROVE Returnable
        <3>1. Top.kind = "stmt"
            BY <1>11 DEF GenFallthrough, Stating
        <3>2. NextBlock(Top.fn, IP) \in BlocksOf(Top.fn)
            BY <2>1, HereIsOwn, NextBlockHere
        <3> QED
            BY <2>1, <2>3, <3>1, <3>2, JumpReturns DEF Jumps, LeavesOps
    <2> QED
        BY <1>1, <1>11, <2>1, <2>2, <2>3 DEF GenFallthrough, Return
<1> QED
    BY <1>4, <1>5, <1>6, <1>7, <1>8, <1>9, <1>10, <1>11 DEF Leaving
-----------------------------------------------------------------------------
(* The steps that begin, declare or find a function. *)

\* The stack that a function is begun on is the bottom of the old one.
Below(rest) ==
    /\ rest \in Seq(FrameType)
    /\ Len(rest) <= Len(frames)
    /\ \A i \in 1..Len(rest) : rest[i] = frames[i]

LEMMA Belows ==
    ASSUME TypeOK
    PROVE  Below(frames) /\ Below(<<>>) /\ (frames # <<>> => Below(Under))
<1>1. Len(frames) \in Nat
    BY LenProperties DEF TypeOK
<1>2. Below(frames)
    BY <1>1 DEF Below, TypeOK
<1>3. Below(<<>>)
    BY <1>1, EmptySeq DEF Below
<1>4. ASSUME frames # <<>> PROVE Below(Under)
    BY <1>1, <1>4, UnderTyped DEF Below, TypeOK
<1> QED
    BY <1>2, <1>3, <1>4

\* A call that returns has the same effect on what is left.
LEMMA ShrinkKeepsApart ==
    ASSUME TypeOK, TypeOK', Apart, Below(frames'), UNCHANGED <<code, layout, insert>>,
           allocated \subseteq allocated'
    PROVE  Apart'
<1>1. Len(frames) \in Nat /\ Len(frames') \in Nat /\ Len(frames') <= Len(frames)
    BY LenProperties DEF TypeOK, Below
<1>2. \A i \in Depths' : i \in Depths /\ frames'[i] = frames[i]
    BY <1>1 DEF Depths, Below
<1>3. \A i \in Depths' : \A j \in 1..i : j \in Depths'
    BY <1>1 DEF Depths
<1>4. LaidOut' /\ AttachedOnce'
    BY DEF Apart, LaidOut, AttachedOnce, BlocksOf, Blocks
<1>5. Blocks' = Blocks /\ \A f : BlocksOf(f)' = BlocksOf(f)
    BY DEF Blocks, BlocksOf
<1>6. PendingApart'
    <2>1. \A i \in Depths' : Pending(frames'[i]) \subseteq Blocks
        BY <1>2 DEF Apart, PendingApart
    <2>2. \A i \in Depths' : \A f \in Function : Pending(frames'[i]) \cap BlocksOf(f) = {}
        BY <1>2 DEF Apart, PendingApart
    <2>3. \A i \in Depths' : Pending(frames'[i]) # {} => frames'[i].alt # frames'[i].merge
        BY <1>2 DEF Apart, PendingApart
    <2>4. \A i, j \in Depths' : i # j => Pending(frames'[i]) \cap Pending(frames'[j]) = {}
        BY <1>2 DEF Apart, PendingApart
    <2> QED
        BY <1>5, <2>1, <2>2, <2>3, <2>4 DEF PendingApart, Pending
<1>7. Held' /\ OwnInsertionPoint'
    <2>1. ASSUME NEW i \in Depths', NEW e \in Function, e = frames'[i].fn
          PROVE  HeldIn(frames'[i], BlocksOf(e)') /\ insert'[e] \in BlocksOf(e)'
        <3>1. e = frames[i].fn /\ frames'[i] = frames[i] /\ BlocksOf(e)' = BlocksOf(e)
            BY <1>2, <1>5, <2>1
        <3> QED
            BY <1>2, <3>1 DEF Apart, Held, OwnInsertionPoint, Depths
    <2>2. \A i \in Depths' : frames'[i].fn \in Function
        BY FunctionOfFrame DEF TypeOK, Depths
    <2>3. Held'
        BY <2>1, <2>2 DEF Held, Depths, BlocksOf
    <2>4. OwnInsertionPoint'
        BY <2>1, <2>2 DEF OwnInsertionPoint, Depths, BlocksOf
    <2> QED
        BY <2>3, <2>4
<1>8. Enclosed' /\ GeneratedOnce' /\ Begun'
    <2>1. Enclosed'
        BY <1>2, <1>3 DEF Apart, Enclosed
    <2>2. GeneratedOnce'
        BY <1>2 DEF Apart, GeneratedOnce, Depths
    <2>3. Begun'
        BY <1>2 DEF Apart, Begun
    <2> QED
        BY <2>1, <2>2, <2>3
<1> QED
    BY <1>4, <1>6, <1>7, <1>8 DEF Apart

\* The calls with which the code generation of a function begins.
Opening(f) == IF f \in Variadic
              THEN <<Frame("func", "init", f)>>
              ELSE <<Frame("func", "body", f)>> \o Block(f)

LEMMA OpeningFrames ==
    ASSUME NEW f \in Function
    PROVE  /\ Opening(f) \in Seq(FrameType) /\ Len(Opening(f)) \in Nat \ {0}
           /\ \A k \in 1..Len(Opening(f)) :
                 /\ Opening(f)[k].fn = f /\ Opening(f)[k].arms = <<>>
                 /\ Pending(Opening(f)[k]) = {}
                 /\ Opening(f)[k].kind \in {"func", "block", "stmt"}
                 /\ Opening(f)[k].kind = "func" <=> k = 1
<1> DEFINE i == Frame("func", "init", f)
           g == Frame("func", "body", f)
           b == Frame("block", "body", f)
           s == Frame("stmt", "start", f)
           P(fr) == /\ fr.fn = f /\ fr.arms = <<>> /\ Pending(fr) = {}
                    /\ fr.kind \in {"func", "block", "stmt"}
<1>1. P(i) /\ P(g) /\ P(b) /\ P(s)
    BY DEF Frame, Pending
<1>2. i.kind = "func" /\ g.kind = "func" /\ b.kind # "func" /\ s.kind # "func"
    BY DEF Frame
<1>3. {i, g, b, s} \subseteq FrameType
    BY FrameTyped DEF Kinds, Stages
<1>4. Opening(f) = IF f \in Variadic THEN <<i>> ELSE <<g>> \o <<b, s>>
    BY DEF Opening, Block
<1> HIDE DEF i, g, b, s
<1>5. /\ <<i>> \in Seq(FrameType) /\ Len(<<i>>) = 1 /\ <<i>>[1] = i
      /\ <<g>> \in Seq(FrameType) /\ Len(<<g>>) = 1 /\ <<g>>[1] = g
      /\ <<b, s>> \in Seq(FrameType) /\ Len(<<b, s>>) = 2 /\ <<b, s>>[1] = b /\ <<b, s>>[2] = s
    BY <1>3
<1> DEFINE o == <<g>> \o <<b, s>>
<1>6. o \in Seq(FrameType) /\ Len(o) = 3 /\ o[1] = g /\ o[2] = b /\ o[3] = s
    BY <1>5, ConcatProperties
<1> HIDE DEF o
<1>7. CASE f \in Variadic
    BY <1>1, <1>2, <1>4, <1>5, <1>7
<1>8. CASE f \notin Variadic
    <2>1. \A k \in 1..3 : k = 1 \/ k = 2 \/ k = 3
        OBVIOUS
    <2>2. Opening(f) = o
        BY <1>4, <1>8 DEF o
    <2>3. ASSUME NEW k \in 1..3 PROVE P(o[k]) /\ (o[k].kind = "func" <=> k = 1)
        <3>1. CASE k = 1
            BY <1>1, <1>2, <1>6, <3>1
        <3>2. CASE k = 2
            BY <1>1, <1>2, <1>6, <3>2
        <3>3. CASE k = 3
            BY <1>1, <1>2, <1>6, <3>3
        <3> QED
            BY <2>1, <3>1, <3>2, <3>3
    <2> HIDE DEF P
    <2>4. \A k \in 1..Len(o) : P(o[k]) /\ (o[k].kind = "func" <=> k = 1)
        BY <1>6, <2>3
    <2>5. \A k \in 1..Len(Opening(f)) : P(Opening(f)[k]) /\ (Opening(f)[k].kind = "func" <=> k = 1)
        BY <2>2, <2>4
    <2>6. Opening(f) \in Seq(FrameType) /\ Len(Opening(f)) \in Nat \ {0}
        BY <1>6, <2>2
    <2> QED
        BY <2>5, <2>6 DEF P
<1> QED
    BY <1>7, <1>8

\* Function f has been begun on the stack rest.
Begins(f, rest) ==
    /\ Len(rest) \in Nat /\ 1..(Len(rest) + 1) \subseteq Depths'
    /\ \A i \in Depths' :
          \/ i \in 1..Len(rest) /\ i \in Depths /\ frames'[i] = frames[i]
          \/ /\ i \notin 1..Len(rest) /\ frames'[i].fn = f /\ frames'[i].arms = <<>>
             /\ Pending(frames'[i]) = {} /\ frames'[i].kind \in {"func", "block", "stmt"}
             /\ frames'[i].kind = "func" <=> i = Len(rest) + 1
    /\ \A i \in Depths : frames[i].fn \in Function /\ frames[i].fn # f
    /\ New(1) \in Nat /\ New(1) \notin Blocks /\ Blocks' = Blocks \cup {New(1)}
    /\ \A b \in Blocks : code'[b] = code[b]
    /\ code'[New(1)] = <<>>
    /\ insert'[f] = New(1)
    /\ \A e \in Function : e # f => insert'[e] = insert[e]
    /\ allocated' = allocated \cup {f}

LEMMA EnterBegins ==
    ASSUME TypeOK, Apart, NEW f \in Function, f \notin allocated, f \notin Externs,
           NEW rest, Below(rest), EnterFunction(f, rest)
    PROVE  Begins(f, rest)
<1> DEFINE r == Len(rest)
           b == New(1)
           op == Opening(f)
           Old(i) == i \in 1..r /\ i \in Depths /\ frames'[i] = frames[i]
           Mine(i) == /\ i \notin 1..r /\ frames'[i].fn = f /\ frames'[i].arms = <<>>
                      /\ Pending(frames'[i]) = {} /\ frames'[i].kind \in {"func", "block", "stmt"}
                      /\ frames'[i].kind = "func" <=> i = r + 1
<1>0. Len(code) \in Nat /\ Len(frames) \in Nat /\ r \in Nat /\ r <= Len(frames)
    BY LenProperties DEF TypeOK, Below
<1>1. b = Len(code) + 1 /\ b \in Nat
    BY <1>0 DEF New
<1> HIDE DEF b
<1>2. /\ layout' = [layout EXCEPT ![f] = @ \o <<b>>] /\ insert' = [insert EXCEPT ![f] = b]
      /\ code' = code \o <<Empty>> /\ frames' = rest \o op /\ allocated' = allocated \cup {f}
    BY DEF EnterFunction, Opening, b
<1>3. op \in Seq(FrameType) /\ Len(op) \in Nat \ {0}
    BY OpeningFrames
<1>4. \A k \in 1..Len(op) :
         /\ op[k].fn = f /\ op[k].arms = <<>> /\ Pending(op[k]) = {} /\ op[k].kind \in {"func", "block", "stmt"}
         /\ op[k].kind = "func" <=> k = 1
    BY OpeningFrames
<1> HIDE DEF op
<1>5. /\ Len(frames') = r + Len(op)
      /\ \A i \in 1..r : frames'[i] = rest[i]
      /\ \A i \in (r + 1)..(r + Len(op)) : frames'[i] = op[i - r]
    <2>1. rest \in Seq(FrameType)
        BY DEF Below
    <2>2. Len(rest \o op) = r + Len(op)
        BY <1>3, <2>1, ConcatProperties
    <2>3. \A i \in 1..(r + Len(op)) : (rest \o op)[i] = IF i <= r THEN rest[i] ELSE op[i - r]
        BY <1>3, <2>1, ConcatProperties
    <2> HIDE DEF r
    <2>4. \A i \in 1..r : i \in 1..(r + Len(op)) /\ i <= r
        BY <1>0, <1>3
    <2>5. \A i \in (r + 1)..(r + Len(op)) : i \in 1..(r + Len(op)) /\ ~(i <= r)
        BY <1>0, <1>3
    <2> QED
        BY <1>2, <2>2, <2>3, <2>4, <2>5
<1>6. \A i \in 1..r : rest[i] = frames[i]
    BY DEF Below
<1> HIDE DEF r
<1>7. ASSUME NEW i \in Depths' PROVE Old(i) \/ Mine(i)
    <2>1. i \in 1..(r + Len(op))
        BY <1>5 DEF Depths
    <2>2. CASE i <= r
        <3>1. i \in 1..r
            BY <1>0, <1>3, <2>1, <2>2
        <3>2. r \in Nat /\ r <= Len(frames) /\ Len(frames) \in Nat
            BY <1>0
        <3>3. i \in Depths
            BY <3>1, <3>2 DEF Depths
        <3>4. frames'[i] = frames[i]
            BY <1>5, <1>6, <3>1
        <3> QED
            BY <3>1, <3>3, <3>4
    <2>3. CASE ~(i <= r)
        <3>1. i \in (r + 1)..(r + Len(op)) /\ i - r \in 1..Len(op) /\ (i - r = 1 <=> i = r + 1) /\ i \notin 1..r
            BY <1>0, <1>3, <2>1, <2>3
        <3>2. PICK k : k = i - r
            OBVIOUS
        <3>3. frames'[i] = op[k] /\ k \in 1..Len(op) /\ (k = 1 <=> i = r + 1)
            BY <1>5, <3>1, <3>2
        <3>4. /\ op[k].fn = f /\ op[k].arms = <<>> /\ Pending(op[k]) = {}
              /\ op[k].kind \in {"func", "block", "stmt"} /\ (op[k].kind = "func" <=> k = 1)
            BY <1>4, <3>3
        <3>5. PICK fr : fr = op[k]
            OBVIOUS
        <3> QED
            BY <3>1, <3>3, <3>4, <3>5
    <2> QED
        BY <2>2, <2>3
<1>8. 1..(r + 1) \subseteq Depths' /\ r + 1 \notin 1..r
    BY <1>0, <1>3, <1>5 DEF Depths
<1>9. b \notin Blocks /\ Blocks' = Blocks \cup {b}
    <2>1. Len(code') = Len(code) + 1
        <3>1. <<Empty>> \in Seq(Seq(Inst)) /\ Len(<<Empty>>) = 1
            BY EmptyTyped
        <3> QED
            BY <1>2, <3>1, ConcatProperties DEF TypeOK
    <2> QED
        BY <1>0, <1>1, <2>1 DEF Blocks
<1>10. (\A x \in Blocks : code'[x] = code[x]) /\ code'[b] = <<>>
    <2>1. /\ code \in Seq(Seq(Inst)) /\ <<Empty>> \in Seq(Seq(Inst)) /\ Len(<<Empty>>) = 1
          /\ <<Empty>>[1] = <<>>
        BY EmptyTyped DEF TypeOK, Empty
    <2>2. \A x \in 1..(Len(code) + 1) :
             code'[x] = IF x <= Len(code) THEN code[x] ELSE <<Empty>>[x - Len(code)]
        BY <1>2, <2>1, ConcatProperties
    <2>3. b \in 1..(Len(code) + 1) /\ ~(b <= Len(code)) /\ b - Len(code) = 1
        BY <1>0, <1>1
    <2>4. \A x \in Blocks : x \in 1..(Len(code) + 1) /\ x <= Len(code)
        BY <1>0 DEF Blocks
    <2> QED
        BY <2>1, <2>2, <2>3, <2>4
<1>11. \A i \in Depths : frames[i].fn \in Function /\ frames[i].fn # f
    BY FunctionOfFrame DEF Apart, Begun, TypeOK, Depths
<1>12. insert'[f] = b /\ \A e \in Function : e # f => insert'[e] = insert[e]
    BY <1>2 DEF TypeOK
<1> QED
    BY <1>0, <1>1, <1>2, <1>7, <1>8, <1>9, <1>10, <1>11, <1>12 DEF Begins, b, r

LEMMA BeginsLayout ==
    ASSUME TypeOK, Apart, NEW f \in Function, NEW rest, EnterFunction(f, rest), Begins(f, rest)
    PROVE  /\ \A e \in Function \ {f} : BlocksOf(e)' = BlocksOf(e)
           /\ BlocksOf(f)' = BlocksOf(f) \cup {New(1)}
           /\ \A e \in Function : New(1) \notin BlocksOf(e)
           /\ <<New(1)>> \in Seq(Nat) /\ Elems(<<New(1)>>) = {New(1)}
           /\ \A i, j \in 1..Len(<<New(1)>>) : <<New(1)>>[i] = <<New(1)>>[j] => i = j
           /\ layout' = [layout EXCEPT ![f] = @ \o <<New(1)>>]
<1> DEFINE b == New(1)
<1>1. layout' = [layout EXCEPT ![f] = @ \o <<b>>]
    BY DEF EnterFunction
<1>2. b \in Nat /\ b \notin Blocks
    BY DEF Begins
<1> HIDE DEF b
<1>3. /\ <<b>> \in Seq(Nat) /\ Elems(<<b>>) = {b}
      /\ \A i, j \in 1..Len(<<b>>) : <<b>>[i] = <<b>>[j] => i = j
    BY <1>2 DEF Elems
<1>4. \A e \in Function : b \notin BlocksOf(e)
    BY <1>2 DEF Apart, LaidOut
<1>5. layout \in [Function -> Seq(Nat)]
    BY DEF TypeOK
<1>6. /\ \A e \in Function \ {f} : BlocksOf(e)' = BlocksOf(e)
      /\ BlocksOf(f)' = BlocksOf(f) \cup Elems(<<b>>)
    BY <1>1, <1>3, <1>5, Attached
<1> QED
    BY <1>1, <1>3, <1>4, <1>6 DEF b

LEMMA EnterKeepsApart ==
    ASSUME TypeOK, TypeOK', Apart, NEW f \in Function, f \notin allocated, f \notin Externs,
           NEW rest, Below(rest), EnterFunction(f, rest)
    PROVE  Apart'
<1> DEFINE r == Len(rest)
           b == New(1)
           Old(i) == i \in 1..r /\ i \in Depths /\ frames'[i] = frames[i]
           Mine(i) == /\ i \notin 1..r /\ frames'[i].fn = f /\ frames'[i].arms = <<>>
                      /\ Pending(frames'[i]) = {}
                      /\ frames'[i].kind \in {"func", "block", "stmt"}
                      /\ frames'[i].kind = "func" <=> i = r + 1
<1>0. Begins(f, rest)
    BY EnterBegins
<1>1. r \in Nat /\ 1..(r + 1) \subseteq Depths' /\ \A i \in Depths' : Old(i) \/ Mine(i)
    BY <1>0 DEF Begins
<1>2. /\ \A i \in Depths : frames[i].fn \in Function /\ frames[i].fn # f
      /\ b \notin Blocks /\ Blocks' = Blocks \cup {b}
      /\ insert'[f] = b /\ \A e \in Function : e # f => insert'[e] = insert[e]
      /\ allocated' = allocated \cup {f}
    BY <1>0 DEF Begins
<1>3. /\ \A e \in Function \ {f} : BlocksOf(e)' = BlocksOf(e)
      /\ BlocksOf(f)' = BlocksOf(f) \cup {b}
      /\ \A e \in Function : b \notin BlocksOf(e)
      /\ <<b>> \in Seq(Nat) /\ Elems(<<b>>) = {b}
      /\ \A i, j \in 1..Len(<<b>>) : <<b>>[i] = <<b>>[j] => i = j
      /\ layout' = [layout EXCEPT ![f] = @ \o <<b>>]
    BY <1>0, BeginsLayout
<1> HIDE DEF b, r
<1>4. LaidOut'
    BY <1>2, <1>3 DEF Apart, LaidOut
<1>5. AttachedOnce'
    <2>1. \A x \in Elems(<<b>>) : \A e \in Function : x \notin BlocksOf(e)
        BY <1>3
    <2>2. AttachedOnce
        BY DEF Apart
    <2> QED
        BY <1>3, <2>1, <2>2, AttachKeepsOnce
<1>6. PendingApart'
    <2>1. ASSUME NEW i \in Depths'
          PROVE  /\ Pending(frames'[i]) \subseteq Blocks'
                 /\ \A e \in Function : Pending(frames'[i]) \cap BlocksOf(e)' = {}
                 /\ Pending(frames'[i]) # {} => frames'[i].alt # frames'[i].merge
        <3>1. CASE Old(i)
            BY <1>2, <1>3, <3>1 DEF Apart, PendingApart
        <3>2. CASE Mine(i)
            BY <3>2
        <3> QED
            BY <1>1, <3>1, <3>2
    <2>2. ASSUME NEW i \in Depths', NEW j \in Depths', i # j
          PROVE  Pending(frames'[i]) \cap Pending(frames'[j]) = {}
        <3>1. CASE Old(i) /\ Old(j)
            BY <2>2, <3>1 DEF Apart, PendingApart
        <3>2. CASE Mine(i) \/ Mine(j)
            BY <3>2
        <3> QED
            BY <1>1, <3>1, <3>2
    <2> QED
        BY <2>1, <2>2 DEF PendingApart, Pending
<1>7. Held' /\ OwnInsertionPoint'
    <2>1. ASSUME NEW i \in Depths', NEW e \in Function, e = frames'[i].fn
          PROVE  HeldIn(frames'[i], BlocksOf(e)') /\ insert'[e] \in BlocksOf(e)'
        <3>1. CASE Old(i)
            <4>1. e = frames[i].fn /\ e # f /\ insert'[e] = insert[e] /\ BlocksOf(e)' = BlocksOf(e)
                BY <1>2, <1>3, <2>1, <3>1
            <4> QED
                BY <3>1, <4>1 DEF Apart, Held, OwnInsertionPoint, Depths
        <3>2. CASE Mine(i)
            <4>1. e = f /\ Elems(frames'[i].arms) = {}
                BY <2>1, <3>2 DEF Elems
            <4> QED
                BY <1>2, <1>3, <3>2, <4>1 DEF HeldIn
        <3> QED
            BY <1>1, <3>1, <3>2
    <2>2. \A i \in Depths' : frames'[i].fn \in Function
        BY FunctionOfFrame DEF TypeOK, Depths
    <2>3. Held'
        BY <2>1, <2>2 DEF Held, Depths, BlocksOf
    <2>4. OwnInsertionPoint'
        BY <2>1, <2>2 DEF OwnInsertionPoint, Depths, BlocksOf
    <2> QED
        BY <2>3, <2>4
<1>8. Enclosed'
    <2>1. ASSUME NEW i \in Depths'
          PROVE  \E j \in 1..i : frames'[j].kind = "func" /\ frames'[j].fn = frames'[i].fn
        <3>1. CASE Old(i)
            <4>1. PICK j \in 1..i : frames[j].kind = "func" /\ frames[j].fn = frames[i].fn
                BY <3>1 DEF Apart, Enclosed
            <4>2. j \in 1..r /\ frames'[j] = frames[j]
                <5>1. j \in 1..r /\ j \in 1..(r + 1)
                    BY <1>1, <3>1
                <5> QED
                    BY <1>1, <5>1
            <4> QED
                BY <3>1, <4>1, <4>2
        <3>2. CASE Mine(i)
            <4>1. r + 1 \in 1..i
                BY <1>1, <3>2 DEF Depths
            <4>2. Mine(r + 1)
                <5>1. r + 1 \in 1..(r + 1) /\ r + 1 \notin 1..r
                    BY <1>1
                <5> QED
                    BY <1>1, <5>1
            <4> QED
                BY <3>2, <4>1, <4>2
        <3> QED
            BY <1>1, <3>1, <3>2
    <2> QED
        BY <2>1 DEF Enclosed
<1>9. GeneratedOnce'
    <2>1. ASSUME NEW i \in Depths', NEW j \in Depths', frames'[i].kind = "func",
                 frames'[j].kind = "func", frames'[i].fn = frames'[j].fn
          PROVE  i = j
        <3>1. CASE Old(i) /\ Old(j)
            BY <2>1, <3>1 DEF Apart, GeneratedOnce, Depths
        <3>2. CASE Mine(i) /\ Mine(j)
            BY <2>1, <3>2
        <3>3. CASE (Old(i) /\ Mine(j)) \/ (Mine(i) /\ Old(j))
            BY <1>2, <2>1, <3>3
        <3> QED
            BY <1>1, <3>1, <3>2, <3>3
    <2> QED
        BY <2>1 DEF GeneratedOnce, Depths
<1>10. Begun'
    <2>1. \A i \in Depths' : frames'[i].fn \in (allocated \cup {f}) \ Externs
        BY <1>1 DEF Apart, Begun
    <2> QED
        BY <1>2, <2>1 DEF Begun
<1> QED
    BY <1>4, <1>5, <1>6, <1>7, <1>8, <1>9, <1>10 DEF Apart
LEMMA GenFunctionKeepsApart ==
    ASSUME TypeOK, TypeOK', Apart, NEW f \in Function, NEW rest, Below(rest),
           GenFunction(f, rest)
    PROVE  Apart'
<1>1. CASE Memo(f, rest)
    BY <1>1, ShrinkKeepsApart DEF Memo
<1>2. CASE DeclareExtern(f, rest)
    BY <1>2, ShrinkKeepsApart DEF DeclareExtern
<1>3. CASE f \notin allocated /\ f \notin Externs /\ EnterFunction(f, rest)
    BY <1>3, EnterKeepsApart
<1> QED
    BY <1>1, <1>2, <1>3 DEF GenFunction

\* What a function's own frame does: it goes on to the body, or ends.
LEMMA BodyWorks ==
    ASSUME TypeOK, TypeOK', Apart, EndVaInit \/ EndFunction
    PROVE  StepWorks
<1>1. CASE EndVaInit
    <2> DEFINE fr == [Top EXCEPT !.stage = "body"]
    <2>1. frames # <<>> /\ Top.kind = "func" /\ Call(fr, Block(Top.fn))
        BY <1>1 DEF EndVaInit, At
    <2>2. /\ Top \in FrameType /\ Block(Top.fn) \in Seq(FrameType) /\ IP \in BlocksOf(Top.fn)
          /\ HeldIn(Top, BlocksOf(Top.fn))
        BY <2>1, InCall, HereIsOwn
    <2>3. fr \in FrameType /\ fr.fn = Top.fn /\ fr.kind = "func" /\ fr.arms = Top.arms
        BY <2>1, <2>2 DEF FrameType, Stages
    <2> HIDE DEF fr
    <2>4. Resumes(fr, 1, <<>>)
        <3>1. Pending(fr) = {}
            BY <2>3 DEF Pending
        <3> QED
            BY <2>1, <2>2, <2>3, <3>1 DEF Resumes, HeldIn
    <2>5. WritesOwn
        BY <1>1, <2>2, CodeWrites, EmitOpWrites, WrittenInPlace DEF EndVaInit
    <2>6. Works(<<fr>> \o Block(Top.fn), <<>>, IP)
        BY <1>1, <2>1, <2>2, <2>3, <2>4, <2>5, PlainCalls, CallWorks DEF EndVaInit
    <2>7. ASSUME Sealing PROVE Seals(<<fr>> \o Block(Top.fn), <<>>, IP)
        <3>1. /\ Pending(Top) = {} /\ Unfilled(Top) = {} /\ ~Between(Top)
              /\ Pending(fr) = {} /\ Unfilled(fr) = {} /\ ~Between(fr)
              /\ LoopBelow(fr, Len(frames) - 1)
            BY <2>1, <2>3 DEF Pending, Unfilled, Between, LoopBelow
        <3>2. GoesOn /\ Free(code'[IP]) /\ Writes(code')
            BY <1>1, <2>1, <2>2, <2>7, <3>1, OpGoesOn, CodeWrites, EmitOpWrites DEF EndVaInit
        <3>3. Fills({}, {}, <<>>, IP)
            BY <2>1, <2>7, <3>1, <3>2, InPlaceFills
        <3>4. Separate(Top, BlocksOf(Top.fn))
            BY <2>1, <2>7, HereIsReady
        <3>5. Separate(fr, BlocksOf(Top.fn) \cup Elems(<<>>))
            BY <2>3, <3>4 DEF Separate
        <3> QED
            BY <2>2, <2>3, <3>1, <3>2, <3>3, <3>5, PlainCalls, CallSeals
    <2> QED
        BY <2>6, <2>7 DEF StepWorks
<1>2. CASE EndFunction
    <2>1. frames # <<>> /\ frames' = Under
        BY <1>2 DEF EndFunction, At, Return
    <2>2. Writes(Epilogue)
        BY <2>1, CodeWrites, HereIsOwn, EmitOpWrites DEF Epilogue
    <2>3. Writes(code')
        BY <1>2, <2>1, <2>2, HereIsOwn, RetWrites DEF EndFunction
    <2>4. ASSUME Sealing PROVE Returnable
        <3>1. Pending(Top) = {} /\ Unfilled(Top) = {} /\ ~Between(Top)
            BY <1>2 DEF EndFunction, At, Pending, Unfilled, Between
        <3>2. Open(code, IP)
            BY <2>1, <2>4, <3>1, HereIsReady
        <3> DEFINE e == Epilogue
        <3>3. /\ Open(e, IP) /\ Aims(e[IP]) \subseteq Aims(code[IP]) /\ Len(e) = Len(code)
              /\ \A x \in Blocks : x # IP => e[x] = code[x]
            <4>1. CASE e = code
                BY <3>2, <4>1
            <4>2. CASE e = EmitOp(code, IP)
                <5>1. Len(e) = Len(code)
                    BY <2>2 DEF Writes
                <5> QED
                    BY <3>2, <4>2, <5>1, EmitOpOpen DEF Blocks
            <4> QED
                BY <4>1, <4>2 DEF Epilogue
        <3>4. code' = IF Terminated(e, IP) THEN e ELSE Emit(e, IP, [op |-> "ret", to |-> {}])
            BY <1>2 DEF EndFunction
        <3> HIDE DEF e
        <3>5. GoesOn /\ Free(code'[IP]) /\ Closed(code'[IP])
            <4>1. CASE Terminated(e, IP)
                <5>1. code' = e /\ Closed(e[IP])
                    BY <3>4, <4>1 DEF Terminated, Closed
                <5>2. LexicalBreaks => Aims(code[IP]) \subseteq BlocksOf(Top.fn) \cup InHand(Top.fn)
                    BY <2>1, <2>4, HereIsReady
                <5> QED
                    BY <3>3, <5>1, <5>2 DEF GoesOn, Open
            <4>2. CASE ~Terminated(e, IP)
                <5>1. code' = Emit(e, IP, [op |-> "ret", to |-> {}])
                    BY <3>4, <4>2
                <5> QED
                    BY <2>1, <2>4, <3>1, <3>3, <5>1, RetGoesOn
            <4> QED
                BY <4>1, <4>2
        <3> QED
            BY <3>1, <3>5 DEF Returnable
    <2> QED
        BY <1>2, <2>1, <2>3, <2>4, ReturnInPlaceWorks DEF EndFunction
<1> QED
    BY <1>1, <1>2

\* The steps that begin no function work on the innermost call.
Inner == \/ GenLeaf \/ BeginUse \/ NextOperand \/ EndUse \/ CodeBlock
         \/ IfDef \/ WhileDef \/ SwitchDef \/ Leaving \/ EndVaInit \/ EndFunction

LEMMA InnerWorks ==
    ASSUME TypeOK, TypeOK', LoopTargets, Apart, Inner
    PROVE  StepWorks
BY ExpressionWorks, IfWorks, WhileWorks, SwitchWorks, LeavingWorks, BodyWorks DEF Inner

LEMMA StepApart == TypeOK /\ LoopTargets /\ Apart /\ [Next]_vars => Apart'
<1> SUFFICES ASSUME TypeOK, LoopTargets, Apart, [Next]_vars PROVE Apart'
    OBVIOUS
<1>1. TypeOK'
    BY StepTyped
<1>2. CASE Inner
    <2>1. PICK new, bs, p : Works(new, bs, p)
        BY <1>1, <1>2, InnerWorks DEF StepWorks
    <2> QED
        BY <1>1, <2>1, WorksKeepsApart
<1>3. CASE GenReference
    <2>1. PICK f \in Function : GenFunction(f, Under)
        BY <1>3 DEF GenReference
    <2>2. Below(Under)
        BY <1>3, Belows DEF GenReference, Choosing
    <2> QED
        BY <1>1, <2>1, <2>2, GenFunctionKeepsApart
<1>4. CASE EnterVaInit
    <2>1. VaInit \in Function /\ VaInit \notin Externs /\ VaInit \notin allocated
        BY <1>4, FunctionAssumption DEF EnterVaInit
    <2>2. EnterFunction(VaInit, frames) /\ Below(frames)
        BY <1>4, Belows DEF EnterVaInit
    <2> QED
        BY <1>1, <2>1, <2>2, EnterKeepsApart
<1>5. CASE CodegenRoot
    <2>1. PICK f \in Globals \ allocated : GenFunction(f, <<>>)
        BY <1>5 DEF CodegenRoot
    <2>2. f \in Function /\ Below(<<>>)
        BY FunctionAssumption, Belows
    <2> QED
        BY <1>1, <2>1, <2>2, GenFunctionKeepsApart
<1>6. CASE Finish \/ UNCHANGED vars
    <2>1. UNCHANGED <<code, layout, insert, frames, allocated>>
        BY <1>6 DEF Finish, vars
    <2>2. Below(frames')
        BY <2>1, Belows
    <2> QED
        BY <1>1, <2>1, <2>2, ShrinkKeepsApart
<1> QED
    BY <1>2, <1>3, <1>4, <1>5, <1>6
    DEF Next, Inner, Expression, Functions, Stopped

LEMMA InitApart == Init => Apart
<1> SUFFICES ASSUME Init PROVE Apart
    OBVIOUS
<1>1. Depths = {} /\ 1..Len(frames) = {}
    BY DEF Init, Depths
<1>2. \A f \in Function : 1..Len(layout[f]) = {} /\ BlocksOf(f) = {}
    <2>1. \A f \in Function : layout[f] = <<>>
        BY DEF Init
    <2>2. Len(<<>>) = 0 /\ 1..0 = {}
        OBVIOUS
    <2> QED
        BY <2>1, <2>2 DEF BlocksOf
<1>3. LaidOut /\ AttachedOnce
    BY <1>2 DEF LaidOut, AttachedOnce
<1>4. PendingApart /\ Held /\ Enclosed /\ Begun
    BY <1>1 DEF PendingApart, Held, Enclosed, Begun
<1>5. OwnInsertionPoint /\ GeneratedOnce
    BY <1>1 DEF OwnInsertionPoint, GeneratedOnce
<1> QED
    BY <1>3, <1>4, <1>5 DEF Apart

LEMMA AlwaysApart == Spec => [](TypeOK /\ LoopTargets /\ Apart)
<1>1. Init => LoopTargets
    BY DEF Init, LoopTargets
<1> QED
    BY <1>1, InitTyped, StepTyped, StepTargets, InitApart, StepApart, PTL DEF Spec

\* Functions that are generated in the middle of one another, however deep and
\* in whatever constructs, keep their blocks and insertion points apart, and
\* none is begun twice.
THEOREM NestedFunctionsApart == Spec => []FunctionsApart
<1>1. Apart => FunctionsApart
    BY DEF Apart, FunctionsApart
<1> QED
    BY <1>1, AlwaysApart, PTL
-----------------------------------------------------------------------------
(* The refinement of LazyFunctions. *)

\* A function is in progress as long as its own frame is on the stack.
LEMMA WorksProgress ==
    ASSUME TypeOK, Apart, NEW new, NEW bs, NEW p, Works(new, bs, p),
           NEW g \in Function, g = Top.fn
    PROVE  /\ InProgress(g)
           /\ \A f \in Function : InProgress(f)' => InProgress(f)
           /\ \A f \in Function :
                 f # g \/ Top.kind # "func" \/ new # <<>> => (InProgress(f) => InProgress(f)')
           /\ Top.kind = "func" /\ new = <<>> => ~InProgress(g)'
<1> DEFINE m == Len(frames)
<1>1. /\ m \in Nat \ {0} /\ Len(new) \in Nat /\ Len(frames') = m - 1 + Len(new)
      /\ \A i \in 1..(m - 1) : frames'[i] = frames[i]
      /\ \A i \in m..Len(frames') :
            i - m + 1 \in 1..Len(new) /\ frames'[i] = new[i - m + 1]
    BY Replaced DEF Works, TypeOK
<1>2. Top = frames[m] /\ m \in 1..m
    BY WorksFrames DEF Depths
<1>3. InProgress(g)
    BY <1>2 DEF Apart, Enclosed, Depths, InProgress
<1>4. \A i \in 1..Len(frames') : i \in 1..(m - 1) \/ i \in m..Len(frames')
    <2> HIDE DEF m
    <2> QED BY <1>1
<1>5. ASSUME NEW f \in Function, InProgress(f)' PROVE InProgress(f)
    <2>1. PICK i \in 1..Len(frames') : frames'[i].kind = "func" /\ frames'[i].fn = f
        BY <1>5 DEF InProgress
    <2>2. CASE i \in 1..(m - 1)
        <3>1. i \in 1..m
            BY <1>1, <2>2
        <3> QED
            BY <1>1, <2>1, <2>2, <3>1 DEF InProgress
    <2>3. CASE i \in m..Len(frames')
        <3>1. Resumes(frames'[i], i - m + 1, bs)
            BY <1>1, <2>3 DEF Works
        <3>2. f = Top.fn
            BY <2>1, <3>1 DEF Resumes
        <3> QED
            BY <1>3, <3>2
    <2> QED
        BY <1>4, <2>2, <2>3
<1>6. ASSUME NEW f \in Function, f # g \/ Top.kind # "func" \/ new # <<>>, InProgress(f)
      PROVE  InProgress(f)'
    <2>1. PICK i \in 1..m : frames[i].kind = "func" /\ frames[i].fn = f
        BY <1>6 DEF InProgress
    <2>2. CASE i \in 1..(m - 1)
        <3>1. i \in 1..Len(frames')
            BY <1>1, <2>2
        <3> QED
            BY <1>1, <2>1, <2>2, <3>1 DEF InProgress
    <2>3. CASE i \notin 1..(m - 1)
        <3>1. i = m
            BY <1>1, <2>3
        <3>2. new # <<>> /\ Top.kind = "func" /\ f = Top.fn
            BY <1>2, <1>6, <2>1, <3>1
        <3>3. Len(new) # 0
            BY <3>2, EmptySeq DEF Works
        <3>4. m \in m..Len(frames') /\ m \in 1..Len(frames') /\ m - m + 1 = 1 /\ 1 \in 1..Len(new)
            BY <1>1, <3>3
        <3>5. Resumes(new[1], 1, bs) /\ frames'[m] = new[1]
            BY <1>1, <3>4 DEF Works
        <3> QED
            BY <3>2, <3>4, <3>5 DEF Resumes, InProgress
    <2> QED
        BY <2>2, <2>3
<1>7. ASSUME Top.kind = "func", new = <<>> PROVE ~InProgress(g)'
    <2>1. SUFFICES ASSUME NEW i \in 1..Len(frames'), frames'[i].kind = "func", frames'[i].fn = g
                   PROVE  FALSE
        BY DEF InProgress
    <2>2. Len(new) = 0
        BY <1>7
    <2>3. i \in 1..(m - 1) /\ i \in 1..m /\ i # m
        BY <1>1, <2>2
    <2>4. frames[i].kind = "func" /\ frames[i].fn = g
        BY <1>1, <2>1, <2>3
    <2> QED
        BY <1>2, <1>7, <2>3, <2>4 DEF Apart, GeneratedOnce
<1> QED
    BY <1>3, <1>5, <1>6, <1>7

\* What a function contains is a matter of its layout and its own blocks.
LEMMA ContentsKept ==
    ASSUME NEW f \in Function, layout'[f] = layout[f],
           \A b \in BlocksOf(f) : code'[b] = code[b]
    PROVE  ContentsOf(f)' = ContentsOf(f)
<1>1. \A i \in 1..Len(layout[f]) : code'[layout[f][i]] = code[layout[f][i]]
    BY DEF BlocksOf
<1> QED
    BY <1>1 DEF ContentsOf

LEMMA OthersKept ==
    ASSUME TypeOK, Apart, NEW new, NEW bs, NEW p, Works(new, bs, p),
           NEW g \in Function, g = Top.fn, NEW f \in Function, f # g
    PROVE  layout'[f] = layout[f] /\ \A b \in BlocksOf(f) : code'[b] = code[b]
<1>1. layout'[f] = layout[f]
    BY WorksLayout
<1>2. ASSUME NEW b \in BlocksOf(f) PROVE code'[b] = code[b]
    <2>1. b \in Blocks
        BY DEF Apart, LaidOut
    <2>2. b \notin BlocksOf(g)
        BY DEF Apart, AttachedOnce, BlocksOf
    <2>3. b \notin Pending(Top)
        BY WorksFrames DEF Apart, PendingApart
    <2> QED
        BY <2>1, <2>2, <2>3 DEF Works, WritesOwn
<1> QED
    BY <1>1, <1>2

LEMMA WorksContents ==
    ASSUME TypeOK, Apart, NEW new, NEW bs, NEW p, Works(new, bs, p),
           NEW g \in Function, g = Top.fn, NEW f \in Function, f # g
    PROVE  ContentsOf(f)' = ContentsOf(f)
<1>1. layout'[f] = layout[f] /\ \A b \in BlocksOf(f) : code'[b] = code[b]
    BY OthersKept
<1> QED
    BY <1>1, ContentsKept

LEMMA WorksRefines ==
    ASSUME TypeOK, Apart, NEW new, NEW bs, NEW p, Works(new, bs, p), UNCHANGED allocated
    PROVE  Lazy!Next
<1>1. PICK g \in Function : g = Top.fn
    BY WorksFrames
<1>2. Lazy!OnlyChanges(g)
    <2>1. \A f \in Function : f # g => ContentsOf(f)' = ContentsOf(f)
        BY <1>1, WorksContents
    <2> QED
        BY <2>1 DEF Lazy!OnlyChanges
<1>3. InProgress(g) /\ \A f \in Function : InProgress(f)' => InProgress(f)
    BY <1>1, WorksProgress
<1>4. g \in allocated \ Externs
    BY <1>1, WorksFrames DEF Apart, Begun
<1>5. PhaseOf(g) = "open"
    BY <1>3, <1>4 DEF PhaseOf, Finished
<1>6. CASE Top.kind # "func" \/ new # <<>>
    <2>1. \A f \in Function : InProgress(f)' <=> InProgress(f)
        BY <1>1, <1>3, <1>6, WorksProgress
    <2>2. \A f \in Function : PhaseOf(f)' = PhaseOf(f)
        BY <2>1 DEF PhaseOf, Finished
    <2>3. Lazy!Extend(g)
        BY <1>2, <1>5, <2>2 DEF Lazy!Extend
    <2> QED
        BY <2>3 DEF Lazy!Next
<1>7. CASE Top.kind = "func" /\ new = <<>>
    <2>1. ~InProgress(g)' /\ \A f \in Function : f # g => (InProgress(f)' <=> InProgress(f))
        BY <1>1, <1>3, <1>7, WorksProgress
    <2>2. \A f \in Function : f # g => PhaseOf(f)' = PhaseOf(f)
        BY <2>1 DEF PhaseOf, Finished
    <2>3. PhaseOf(g)' = "generated"
        BY <1>4, <2>1 DEF PhaseOf, Finished
    <2>4. Lazy!Close(g)
        BY <1>2, <1>5, <2>2, <2>3 DEF Lazy!Close
    <2> QED
        BY <2>4 DEF Lazy!Next
<1> QED
    BY <1>6, <1>7

LEMMA EnterRefines ==
    ASSUME TypeOK, TypeOK', Apart, Apart', NEW f \in Function, f \notin allocated, f \notin Externs,
           NEW rest, Below(rest), EnterFunction(f, rest),
           \A i \in Depths : frames[i].kind = "func" => i <= Len(rest)
    PROVE  Lazy!Next
<1> DEFINE r == Len(rest)
           op == Opening(f)
<1>0. r \in Nat /\ r <= Len(frames) /\ Len(frames) \in Nat
    BY LenProperties DEF TypeOK, Below
<1>1. /\ layout' = [layout EXCEPT ![f] = @ \o <<New(1)>>] /\ code' = code \o <<Empty>>
      /\ frames' = rest \o op /\ allocated' = allocated \cup {f}
    BY DEF EnterFunction, Opening
<1>2. /\ op \in Seq(FrameType) /\ Len(op) \in Nat \ {0}
      /\ \A k \in 1..Len(op) : op[k].fn = f /\ (op[k].kind = "func" <=> k = 1)
    BY OpeningFrames
<1> HIDE DEF op
<1>3. /\ Len(frames') = r + Len(op)
      /\ \A i \in 1..(r + Len(op)) : frames'[i] = IF i <= r THEN rest[i] ELSE op[i - r]
    <2>1. rest \in Seq(FrameType)
        BY DEF Below
    <2> QED
        BY <1>1, <1>2, <2>1, ConcatProperties
<1>4. \A i \in 1..r : rest[i] = frames[i]
    BY DEF Below
<1> HIDE DEF r
<1>5. InProgress(f)'
    <2>1. r + 1 \in 1..(r + Len(op)) /\ ~(r + 1 <= r) /\ (r + 1) - r = 1 /\ 1 \in 1..Len(op)
        <3>1. r \in Nat /\ Len(op) \in Nat \ {0}
            BY <1>0, <1>2
        <3> QED
            BY <3>1
    <2>2. frames'[r + 1] = op[1] /\ r + 1 \in 1..Len(frames')
        BY <1>3, <2>1
    <2> QED
        BY <1>2, <2>1, <2>2 DEF InProgress
<1>6. ~InProgress(f)
    BY DEF InProgress, Apart, Begun, Depths
<1>7. ASSUME NEW e \in Function, e # f PROVE InProgress(e)' <=> InProgress(e)
    <2>1. ASSUME InProgress(e)' PROVE InProgress(e)
        <3>1. PICK i \in 1..Len(frames') : frames'[i].kind = "func" /\ frames'[i].fn = e
            BY <2>1 DEF InProgress
        <3>2. i <= r
            <4>1. ~(i <= r) => i - r \in 1..Len(op)
                BY <1>0, <1>2, <1>3
            <4> QED
                BY <1>2, <1>3, <1>7, <3>1, <4>1
        <3>3. i \in 1..r /\ i \in 1..Len(frames)
            BY <1>0, <1>2, <1>3, <3>2
        <3> QED
            BY <1>3, <1>4, <3>1, <3>2, <3>3 DEF InProgress
    <2>2. ASSUME InProgress(e) PROVE InProgress(e)'
        <3>1. PICK i \in 1..Len(frames) : frames[i].kind = "func" /\ frames[i].fn = e
            BY <2>2 DEF InProgress
        <3>2. i <= r
            BY <3>1 DEF Depths, r
        <3>3. i \in 1..r /\ i \in 1..(r + Len(op))
            BY <1>0, <1>2, <3>2
        <3> QED
            BY <1>3, <1>4, <3>1, <3>2, <3>3 DEF InProgress
    <2> QED
        BY <2>1, <2>2
<1>8. PhaseOf(f) = "untouched" /\ PhaseOf(f)' = "open"
    BY <1>5, <1>6 DEF PhaseOf, Finished
<1>9. \A e \in Function : e # f => PhaseOf(e)' = PhaseOf(e)
    BY <1>1, <1>7 DEF PhaseOf, Finished
<1>10. ASSUME NEW e \in Function, e # f PROVE ContentsOf(e)' = ContentsOf(e)
    <2>1. layout'[e] = layout[e]
        BY <1>1, <1>10 DEF TypeOK
    <2>2. \A b \in BlocksOf(e) : b \in 1..Len(code)
        BY DEF Apart, LaidOut, Blocks
    <2>3. \A b \in 1..Len(code) : code'[b] = code[b]
        BY <1>1, EmptyTyped, ConcatProperties, LenProperties DEF TypeOK
    <2> QED
        BY <2>1, <2>2, <2>3, ContentsKept
<1>11. Lazy!Open(f)
    BY <1>8, <1>9, <1>10 DEF Lazy!Open, Lazy!OnlyChanges
<1> QED
    BY <1>11 DEF Lazy!Next

\* A function that is found, or only declared, leaves the stack of functions as
\* it is.
LEMMA FoundRefines ==
    ASSUME TypeOK, TypeOK', Apart, NEW f \in Function, NEW rest, Below(rest),
           \A i \in Depths : frames[i].kind = "func" => i <= Len(rest),
           Memo(f, rest) \/ (f \notin allocated /\ f \in Externs /\ DeclareExtern(f, rest))
    PROVE  Lazy!Next \/ UNCHANGED Lazy!vars
<1>1. frames' = rest /\ UNCHANGED <<code, layout>>
    BY DEF Memo, DeclareExtern
<1>2. ASSUME NEW e \in Function PROVE InProgress(e)' <=> InProgress(e)
    <2>1. Len(frames) \in Nat /\ Len(rest) \in Nat /\ Len(rest) <= Len(frames)
        BY LenProperties DEF TypeOK, Below
    <2>2. \A i \in 1..Len(rest) : i \in 1..Len(frames)
        BY <2>1
    <2>3. ASSUME NEW i \in 1..Len(frames), frames[i].kind = "func" PROVE i \in 1..Len(rest)
        <3>1. i <= Len(rest)
            BY <2>3 DEF Depths
        <3> QED
            BY <2>1, <3>1
    <2> QED
        BY <1>1, <2>2, <2>3 DEF InProgress, Below
<1>3. \A e \in Function : ContentsOf(e)' = ContentsOf(e)
    BY <1>1 DEF ContentsOf
<1>4. CASE Memo(f, rest)
    <2>1. UNCHANGED allocated
        BY <1>4 DEF Memo
    <2>2. \A e \in Function : PhaseOf(e)' = PhaseOf(e)
        BY <1>2, <2>1 DEF PhaseOf, Finished
    <2> QED
        BY <1>3, <2>2 DEF Lazy!vars
<1>5. CASE f \notin allocated /\ f \in Externs /\ DeclareExtern(f, rest)
    <2>1. allocated' = allocated \cup {f}
        BY <1>5 DEF DeclareExtern
    <2>2. ~InProgress(f)
        BY <1>5 DEF InProgress, Apart, Begun, Depths
    <2>3. PhaseOf(f) = "untouched" /\ PhaseOf(f)' = "generated"
        BY <1>2, <1>5, <2>1, <2>2 DEF PhaseOf, Finished
    <2>4. \A e \in Function : e # f => PhaseOf(e)' = PhaseOf(e)
        BY <1>2, <2>1 DEF PhaseOf, Finished
    <2>5. Lazy!Declare(f)
        BY <1>3, <1>5, <2>3, <2>4 DEF Lazy!Declare
    <2> QED
        BY <2>5 DEF Lazy!Next
<1> QED
    BY <1>4, <1>5

LEMMA InnerKeepsAllocated ==
    ASSUME Inner
    PROVE  UNCHANGED allocated
<1>1. CASE GenLeaf \/ BeginUse \/ NextOperand \/ EndUse \/ CodeBlock
    BY <1>1 DEF GenLeaf, BeginUse, NextOperand, EndUse, CodeBlock, BeginBlock, NextStatement, EndBlock
<1>2. CASE IfDef
    BY <1>2 DEF IfDef, BeginIf, IfCondDone, IfThenDoneElse, IfThenDone, IfElseDone
<1>3. CASE WhileDef
    BY <1>3 DEF WhileDef, BeginWhile, WhileCondDone, WhileBodyDone
<1>4. CASE SwitchDef
    BY <1>4 DEF SwitchDef, BeginSwitch, SwitchCondDone, SwitchArm, SwitchArmDone,
                SwitchDefault, EndSwitch
<1>5. CASE Leaving
    BY <1>5 DEF Leaving, GenReturn, BeginReturn, EndReturn, GenBreak, BeginBreak,
                EndBreak, GenContinue, GenFallthrough
<1>6. CASE EndVaInit \/ EndFunction
    BY <1>6 DEF EndVaInit, EndFunction
<1> QED
    BY <1>1, <1>2, <1>3, <1>4, <1>5, <1>6 DEF Inner

LEMMA StepRefines ==
    ASSUME TypeOK, LoopTargets, Apart, [Next]_vars
    PROVE  [Lazy!Next]_(Lazy!vars)
<1>1. TypeOK' /\ Apart'
    BY StepTyped, StepApart
<1>2. CASE Inner
    <2>1. PICK new, bs, p : Works(new, bs, p)
        BY <1>1, <1>2, InnerWorks DEF StepWorks
    <2>2. Lazy!Next
        BY <1>2, <2>1, InnerKeepsAllocated, WorksRefines
    <2> QED
        BY <2>2
<1>3. ASSUME NEW f \in Function, NEW rest, Below(rest), GenFunction(f, rest),
             \A i \in Depths : frames[i].kind = "func" => i <= Len(rest)
      PROVE  [Lazy!Next]_(Lazy!vars)
    <2>1. CASE f \notin allocated /\ f \notin Externs /\ EnterFunction(f, rest)
        BY <1>1, <1>3, <2>1, EnterRefines
    <2>2. CASE Memo(f, rest) \/ (f \notin allocated /\ f \in Externs /\ DeclareExtern(f, rest))
        BY <1>1, <1>3, <2>2, FoundRefines
    <2> QED
        BY <1>3, <2>1, <2>2 DEF GenFunction
<1>4. CASE GenReference
    <2>1. PICK f \in Function : GenFunction(f, Under)
        BY <1>4 DEF GenReference
    <2>2. frames # <<>> /\ Top.kind # "func" /\ Below(Under)
        BY <1>4, Belows DEF GenReference, Choosing
    <2>3. ASSUME NEW i \in Depths, frames[i].kind = "func" PROVE i <= Len(Under)
        <3>1. Len(Under) = Len(frames) - 1 /\ Len(frames) \in Nat
            BY <2>2, UnderTyped, LenProperties DEF TypeOK
        <3>2. i # Len(frames)
            BY <2>2, <2>3 DEF Top
        <3> QED
            BY <3>1, <3>2 DEF Depths
    <2> QED
        BY <1>3, <2>1, <2>2, <2>3
<1>5. CASE EnterVaInit
    <2>1. VaInit \in Function /\ VaInit \notin Externs /\ VaInit \notin allocated
        BY <1>5, FunctionAssumption DEF EnterVaInit
    <2>2. EnterFunction(VaInit, frames) /\ Below(frames)
        BY <1>5, Belows DEF EnterVaInit
    <2>3. \A i \in Depths : i <= Len(frames)
        BY LenProperties DEF TypeOK, Depths
    <2>4. Lazy!Next
        BY <1>1, <2>1, <2>2, <2>3, EnterRefines
    <2> QED
        BY <2>4
<1>6. CASE CodegenRoot
    <2>1. PICK f \in Globals \ allocated : GenFunction(f, <<>>)
        BY <1>6 DEF CodegenRoot
    <2>2. f \in Function /\ Below(<<>>)
        BY FunctionAssumption, Belows
    <2>3. Depths = {}
        BY <1>6 DEF CodegenRoot, Depths
    <2> QED
        BY <1>3, <2>1, <2>2, <2>3
<1>7. CASE Finish \/ UNCHANGED vars
    <2>1. UNCHANGED <<code, layout, frames, allocated>>
        BY <1>7 DEF Finish, vars
    <2>2. \A f \in Function : PhaseOf(f)' = PhaseOf(f) /\ ContentsOf(f)' = ContentsOf(f)
        BY <2>1 DEF PhaseOf, ContentsOf, Finished, InProgress
    <2> QED
        BY <2>2 DEF Lazy!vars
<1> QED
    BY <1>2, <1>4, <1>5, <1>6, <1>7
    DEF Next, Inner, Expression, Functions, Stopped

LEMMA InitRefines == Init => Lazy!Init
<1> SUFFICES ASSUME Init PROVE Lazy!Init
    OBVIOUS
<1>1. \A f \in Function : ~InProgress(f)
    <2>1. Len(frames) = 0
        BY DEF Init
    <2> QED
        BY <2>1 DEF InProgress
<1>2. \A f \in Function : PhaseOf(f) = "untouched"
    BY <1>1 DEF Init, PhaseOf, Finished
<1>3. \A f \in Function : ContentsOf(f) = <<>>
    <2>1. \A f \in Function : layout[f] = <<>>
        BY DEF Init
    <2>2. Len(<<>>) = 0 /\ 1..0 = {}
        OBVIOUS
    <2> QED
        <3>1. \A f \in Function : 1..Len(layout[f]) = {}
            BY <2>1, <2>2
        <3>2. \A f \in Function : ContentsOf(f) = [i \in {} |-> <<layout[f][i], code[layout[f][i]]>>]
            BY <3>1 DEF ContentsOf
        <3>3. <<>> = [i \in 1..0 |-> {}]
            OBVIOUS
        <3> QED
            BY <2>2, <3>2, <3>3
<1> QED
    BY <1>2, <1>3 DEF Lazy!Init

\* Code generation implements LazyFunctions: for every program, each function is
\* generated once, when it is first needed, and the steps made for it disturb no
\* function that is half generated or finished.
THEOREM LazyGeneration == Spec => GeneratesLazily
<1>1. TypeOK /\ LoopTargets /\ Apart /\ [Next]_vars => [Lazy!Next]_(Lazy!vars)
    BY StepRefines
<1> QED
    BY <1>1, InitRefines, AlwaysApart, PTL DEF Spec, GeneratesLazily, Lazy!Spec
-----------------------------------------------------------------------------
(* Such a step keeps Sealing. *)

LEMMA WorksStack ==
    ASSUME TypeOK, NEW new, NEW bs, NEW p, Works(new, bs, p)
    PROVE  /\ Len(frames) \in Nat \ {0} /\ Len(new) \in Nat
           /\ Len(frames) \in Depths /\ Top = frames[Len(frames)] /\ Top.fn \in Function
           /\ \A i \in 1..(Len(frames) - 1) :
                 /\ i \in Depths /\ i \in Depths' /\ i # Len(frames)
                 /\ frames'[i] = frames[i]
           /\ \A i \in Depths : i = Len(frames) \/ i \in 1..(Len(frames) - 1)
           /\ \A i \in Depths' :
                 \/ i \in 1..(Len(frames) - 1)
                 \/ /\ i \notin 1..(Len(frames) - 1) /\ frames'[i].fn = Top.fn
                    /\ \E k \in 1..Len(new) : i = Len(frames) - 1 + k /\ frames'[i] = new[k]
           /\ \A k \in 1..Len(new) :
                 /\ Len(frames) - 1 + k \in Depths'
                 /\ Len(frames) - 1 + k \notin 1..(Len(frames) - 1)
                 /\ frames'[Len(frames) - 1 + k] = new[k]
                 /\ new[k].fn = Top.fn
           /\ Len(frames') = Len(frames) - 1 + Len(new)
<1> DEFINE m == Len(frames)
<1>1. /\ m \in Nat \ {0} /\ Len(new) \in Nat /\ Len(frames') = m - 1 + Len(new)
      /\ \A i \in 1..(m - 1) : frames'[i] = frames[i]
      /\ \A i \in m..Len(frames') :
            i - m + 1 \in 1..Len(new) /\ frames'[i] = new[i - m + 1]
    BY Replaced DEF Works, TypeOK
<1>2. m \in Depths /\ Top = frames[m] /\ Top.fn \in Function
    BY WorksFrames
<1>3. \A k \in 1..Len(new) : new[k].fn = Top.fn
    BY DEF Works, Resumes
<1> HIDE DEF m
<1>4. \A i \in 1..(m - 1) : i \in 1..m /\ i \in 1..Len(frames') /\ i # m
    BY <1>1
<1>5. \A i \in 1..m : i = m \/ i \in 1..(m - 1)
    BY <1>1
<1>6. ASSUME NEW i \in 1..Len(frames'), i \notin 1..(m - 1)
      PROVE  \E k \in 1..Len(new) : i = m - 1 + k
    <2>1. i - m + 1 \in 1..Len(new) /\ i = m - 1 + (i - m + 1)
        BY <1>1, <1>6
    <2> QED
        BY <2>1
<1>7. ASSUME NEW k \in 1..Len(new)
      PROVE  /\ m - 1 + k \in m..Len(frames') /\ m - 1 + k \in 1..Len(frames')
             /\ m - 1 + k \notin 1..(m - 1) /\ (m - 1 + k) - m + 1 = k
    BY <1>1
<1>8. \A k \in 1..Len(new) : frames'[m - 1 + k] = new[k]
    BY <1>1, <1>7
<1> QED
    <2>1. /\ m \in Nat \ {0} /\ Len(new) \in Nat
          /\ m \in Depths /\ Top = frames[m] /\ Top.fn \in Function
          /\ Len(frames') = m - 1 + Len(new)
        BY <1>1, <1>2
    <2>2. \A i \in 1..(m - 1) : i \in Depths /\ i \in Depths' /\ i # m /\ frames'[i] = frames[i]
        BY <1>1, <1>4 DEF Depths, m
    <2>3. \A i \in Depths : i = m \/ i \in 1..(m - 1)
        BY <1>5 DEF Depths, m
    <2>4. ASSUME NEW i \in Depths', i \notin 1..(m - 1)
          PROVE  /\ frames'[i].fn = Top.fn
                 /\ \E k \in 1..Len(new) : i = m - 1 + k /\ frames'[i] = new[k]
        <3>1. PICK k \in 1..Len(new) : i = m - 1 + k
            BY <1>6, <2>4 DEF Depths
        <3>2. frames'[i] = new[k] /\ new[k].fn = Top.fn
            BY <1>3, <1>8, <3>1
        <3> QED
            BY <3>1, <3>2
    <2>5. \A k \in 1..Len(new) :
             /\ m - 1 + k \in Depths' /\ m - 1 + k \notin 1..(m - 1)
             /\ frames'[m - 1 + k] = new[k] /\ new[k].fn = Top.fn
        BY <1>3, <1>7, <1>8 DEF Depths
    <2> QED
        BY <2>1, <2>2, <2>3, <2>4, <2>5 DEF m

LEMMA BlocksDisjoint ==
    ASSUME AttachedOnce, NEW f \in Function, NEW g \in Function, NEW b,
           b \in BlocksOf(f), b \in BlocksOf(g)
    PROVE  f = g
BY DEF AttachedOnce, BlocksOf

\* What the step leaves as it is.
LEMMA OthersCode ==
    ASSUME TypeOK, Apart, Sealing, NEW new, NEW bs, NEW p, Works(new, bs, p), Seals(new, bs, p)
    PROVE  /\ \A f \in Function : f # Top.fn =>
                 \A b \in BlocksOf(f) : code'[b] = code[b] /\ b \in Blocks
           /\ \A b \in BlocksOf(Top.fn) : b # IP => code'[b] = code[b]
           /\ \A i \in 1..(Len(frames) - 1) :
                 \A b \in Pending(frames[i]) \cup Unfilled(frames[i]) : code'[b] = code[b]
<1>0. frames # <<>>
    BY DEF Works
<1>1. IP \in BlocksOf(Top.fn) /\ Top.fn \in Function /\ Top = frames[Len(frames)] /\ Len(frames) \in Depths
    BY <1>0, HereIsOwn
<1>2. \A b \in Blocks : b \notin {IP} \cup Pending(Top) => code'[b] = code[b]
    BY DEF Seals, Fills
<1>3. \A f \in Function : \A b \in BlocksOf(f) : b \in Blocks /\ b \notin Pending(Top)
    BY <1>1 DEF Apart, LaidOut, PendingApart
<1>4. \A f \in Function : f # Top.fn => IP \notin BlocksOf(f)
    BY <1>1, BlocksDisjoint DEF Apart
<1>5. ASSUME NEW i \in 1..(Len(frames) - 1), NEW b \in Pending(frames[i])
      PROVE  code'[b] = code[b]
    <2>1. i \in Depths /\ i # Len(frames)
        BY WorksStack
    <2>2. b \in Blocks /\ b # IP /\ b \notin Pending(Top)
        BY <1>1, <1>5, <2>1 DEF Apart, PendingApart
    <2> QED
        BY <1>2, <2>2
<1>6. ASSUME NEW i \in 1..(Len(frames) - 1), NEW b \in Unfilled(frames[i])
      PROVE  code'[b] = code[b]
    <2>1. i \in Depths /\ i # Len(frames) /\ frames[i].fn \in Function
        BY WorksStack, FunctionOfFrame DEF TypeOK, Depths
    <2>2. b \in BlocksOf(frames[i].fn)
        BY <1>6, <2>1, UnfilledHeld
    <2>3. b # IP
        <3>1. CASE frames[i].fn = Top.fn
            BY <1>6, <2>1, <3>1 DEF Sealing, UnfilledApart, IP
        <3> QED
            BY <1>4, <2>1, <2>2, <3>1
    <2> QED
        BY <1>2, <1>3, <2>1, <2>2, <2>3
<1>7. \A b \in BlocksOf(Top.fn) : b # IP => code'[b] = code[b]
    BY <1>1, <1>2, <1>3
<1>8. \A f \in Function : f # Top.fn => \A b \in BlocksOf(f) : code'[b] = code[b] /\ b \in Blocks
    BY <1>2, <1>3, <1>4
<1> QED
    BY <1>5, <1>6, <1>7, <1>8
\* Where the insertion points are after it.
LEMMA WorksInserts ==
    ASSUME TypeOK, Apart, NEW new, NEW bs, NEW p, Works(new, bs, p),
           NEW g \in Function, g = Top.fn
    PROVE  /\ insert'[g] = p /\ insert[g] = IP
           /\ \A f \in Function : f # g => insert'[f] = insert[f]
BY DEF Works, TypeOK, IP

LEMMA WorksContiguous ==
    ASSUME TypeOK, Apart, Sealing, NEW new, NEW bs, NEW p, Works(new, bs, p), Seals(new, bs, p)
    PROVE  Contiguous' /\ OwnLoop'
<1> DEFINE m == Len(frames)
<1>0. /\ m \in Nat \ {0} /\ m \in Depths /\ Top = frames[m]
      /\ \A i \in 1..(m - 1) : i \in Depths /\ i \in Depths' /\ frames'[i] = frames[i]
    BY WorksStack
<1>1. /\ m \in Nat \ {0} /\ m \in Depths /\ Top = frames[m]
      /\ \A i \in 1..(m - 1) : i \in Depths /\ i \in Depths' /\ frames'[i] = frames[i]
      /\ \A i \in Depths' :
            \/ i \in 1..(m - 1)
            \/ /\ frames'[i].fn = Top.fn
               /\ \E k \in 1..Len(new) : i = m - 1 + k /\ frames'[i] = new[k]
    <2>1. ASSUME NEW i \in Depths', i \notin 1..(m - 1)
          PROVE  /\ frames'[i].fn = Top.fn
                 /\ \E k \in 1..Len(new) : i = m - 1 + k /\ frames'[i] = new[k]
        BY <2>1, WorksStack
    <2> QED
        BY <1>0, <2>1
<1> HIDE DEF m
<1>2. ASSUME NEW i \in Depths', NEW k \in Depths', NEW j \in i..k, frames'[i].fn = frames'[k].fn
      PROVE  frames'[j].fn = frames'[k].fn
    <2>1. i \in Nat /\ k \in Nat /\ i >= 1 /\ j \in Nat /\ j >= 1
        BY DEF Depths
    <2>2. CASE k \in 1..(m - 1)
        <3>1. i \in 1..(m - 1) /\ j \in 1..(m - 1)
            BY <1>1, <2>1, <2>2
        <3>2. frames[i].fn = frames[k].fn
            BY <1>1, <1>2, <2>2, <3>1
        <3>3. frames[j].fn = frames[k].fn
            BY <1>1, <2>2, <3>1, <3>2 DEF Sealing, Contiguous
        <3> QED
            BY <1>1, <2>2, <3>1, <3>3
    <2>3. CASE k \notin 1..(m - 1)
        <3>1. frames'[k].fn = Top.fn
            BY <1>1, <2>3
        <3>2. CASE j \in 1..(m - 1)
            <4>1. i \in 1..(m - 1) /\ j \in i..m
                BY <1>1, <2>1, <3>2
            <4>2. frames[i].fn = frames[m].fn
                BY <1>1, <1>2, <3>1, <4>1
            <4>3. frames[j].fn = frames[m].fn
                BY <1>1, <4>1, <4>2 DEF Sealing, Contiguous
            <4> QED
                BY <1>1, <3>1, <3>2, <4>3
        <3>3. CASE j \notin 1..(m - 1)
            <4>1. j \in Depths'
                BY <2>1 DEF Depths
            <4> QED
                BY <1>1, <3>1, <3>3, <4>1
        <3> QED
            BY <3>2, <3>3
    <2> QED
        BY <2>2, <2>3
<1>3. ASSUME NEW i \in Depths', LexicalBreaks, frames'[i].kind = "break"
      PROVE  \E j \in 1..i : frames'[j].kind = "while" /\ frames'[j].fn = frames'[i].fn
    <2>1. CASE i \in 1..(m - 1)
        <3>1. LoopBelow(frames[i], i)
            BY <1>1, <2>1 DEF Sealing, OwnLoop
        <3>2. \A j \in 1..i : j \in 1..(m - 1)
            BY <1>1, <2>1
        <3> QED
            BY <1>1, <1>3, <2>1, <3>1, <3>2 DEF LoopBelow
    <2>2. CASE i \notin 1..(m - 1)
        <3>1. PICK k \in 1..Len(new) : i = m - 1 + k /\ frames'[i] = new[k]
            BY <1>1, <2>2
        <3>2. LoopBelow(new[k], m - 1)
            BY DEF Seals, m
        <3>3. \A j \in 1..(m - 1) : j \in 1..i
            BY <1>1, <3>1
        <3> QED
            BY <1>1, <1>3, <3>1, <3>2, <3>3 DEF LoopBelow
    <2> QED
        BY <2>1, <2>2
<1> QED
    BY <1>2, <1>3 DEF Contiguous, OwnLoop, LoopBelow

LEMMA WorksEnds ==
    ASSUME TypeOK, Apart, Sealing, NEW new, NEW bs, NEW p, Works(new, bs, p), Seals(new, bs, p)
    PROVE  Ends'
<1>0. PICK g \in Function : g = Top.fn
    BY WorksFrames
<1> DEFINE m == Len(frames)
           O == UNION {Unfilled(new[k]) : k \in 1..Len(new)}
<1>1. /\ Top = frames[m]
      /\ \A i \in 1..(m - 1) : i \in Depths /\ i \in Depths' /\ frames'[i] = frames[i]
      /\ \A i \in Depths : i = m \/ i \in 1..(m - 1)
      /\ \A k \in 1..Len(new) :
            m - 1 + k \in Depths' /\ frames'[m - 1 + k] = new[k] /\ new[k].fn = g
    BY <1>0, WorksStack
<1>2. /\ insert'[g] = p /\ insert[g] = IP
      /\ \A f \in Function : f # g => insert'[f] = insert[f]
    BY <1>0, WorksInserts
<1>3. /\ BlocksOf(g)' = BlocksOf(g) \cup Elems(bs)
      /\ \A f \in Function \ {g} : BlocksOf(f)' = BlocksOf(f)
    BY <1>0, WorksLayout
<1>4. /\ \A f \in Function : f # g => \A b \in BlocksOf(f) : code'[b] = code[b]
      /\ \A b \in BlocksOf(g) : b # IP => code'[b] = code[b]
    BY <1>0, OthersCode
<1>5. \A f \in Function :
         f # g \/ Top.kind # "func" \/ new # <<>> => (InProgress(f) => InProgress(f)')
    BY <1>0, WorksProgress
<1>6. InProgress(g)
    BY <1>0, WorksProgress
<1>7. /\ Unfilled(Top) \subseteq O \cup {p}
      /\ \A b \in {IP} \cup Elems(bs) : b = p \/ b \in O \/ Closed(code'[b])
      /\ Top.kind = "func" /\ new = <<>> => Closed(code'[p])
    BY DEF Seals, Fills
<1> DEFINE Ended(b) == \/ Closed(code'[b])
                       \/ b = insert'[g] /\ InProgress(g)'
                       \/ \E i \in Depths' : frames'[i].fn = g /\ b \in Unfilled(frames'[i])
<1>8. Ended(p)
    <2>1. CASE Top.kind = "func" /\ new = <<>>
        BY <1>7, <2>1
    <2>2. CASE ~(Top.kind = "func" /\ new = <<>>)
        <3>1. InProgress(g)'
            BY <1>5, <1>6, <2>2
        <3> QED
            BY <1>2, <3>1
    <2> QED
        BY <2>1, <2>2
<1>9. ASSUME NEW b \in O PROVE Ended(b)
    <2>1. PICK k \in 1..Len(new) : b \in Unfilled(new[k])
        OBVIOUS
    <2>2. /\ m - 1 + k \in Depths' /\ frames'[m - 1 + k].fn = g
          /\ b \in Unfilled(frames'[m - 1 + k])
        BY <1>1, <2>1
    <2> QED
        BY <2>2
<1> HIDE DEF O, m
<1>10. ASSUME NEW b \in BlocksOf(g), b # IP PROVE Ended(b)
    <2>1. code'[b] = code[b]
        BY <1>4, <1>10
    <2>2. Closed(code[b]) \/ \E i \in Depths : frames[i].fn = g /\ b \in Unfilled(frames[i])
        BY <1>2, <1>10 DEF Sealing, Ends
    <2>3. CASE Closed(code[b])
        BY <2>1, <2>3
    <2>4. CASE \E i \in Depths : frames[i].fn = g /\ b \in Unfilled(frames[i])
        <3>1. PICK i \in Depths : frames[i].fn = g /\ b \in Unfilled(frames[i])
            BY <2>4
        <3>2. CASE i = m
            <4>1. b \in O \/ b = p
                BY <1>1, <1>7, <3>1, <3>2
            <4> QED
                BY <1>8, <1>9, <4>1
        <3>3. CASE i \in 1..(m - 1)
            <4>1. i \in Depths' /\ frames'[i].fn = g /\ b \in Unfilled(frames'[i])
                BY <1>1, <3>1, <3>3
            <4> QED
                BY <4>1
        <3> QED
            BY <1>1, <3>1, <3>2, <3>3
    <2> QED
        BY <2>2, <2>3, <2>4
<1>11. \A b \in BlocksOf(g)' : Ended(b)
    <2> SUFFICES ASSUME NEW b \in BlocksOf(g)' PROVE Ended(b)
        OBVIOUS
    <2>1. CASE b \in {IP} \cup Elems(bs)
        <3>1. b = p \/ b \in O \/ Closed(code'[b])
            BY <1>7, <2>1
        <3> QED
            BY <1>8, <1>9, <3>1
    <2>2. CASE b \notin {IP} \cup Elems(bs)
        BY <1>3, <1>10, <2>2
    <2> QED
        BY <2>1, <2>2
<1>12. ASSUME NEW f \in Function, f # g, NEW b \in BlocksOf(f)'
       PROVE  \/ Closed(code'[b])
              \/ b = insert'[f] /\ InProgress(f)'
              \/ \E i \in Depths' : frames'[i].fn = f /\ b \in Unfilled(frames'[i])
    <2>1. b \in BlocksOf(f) /\ code'[b] = code[b]
        BY <1>3, <1>4, <1>12
    <2>2. \/ Closed(code[b])
          \/ b = insert[f] /\ InProgress(f)
          \/ \E i \in Depths : frames[i].fn = f /\ b \in Unfilled(frames[i])
        BY <2>1 DEF Sealing, Ends
    <2>3. CASE \E i \in Depths : frames[i].fn = f /\ b \in Unfilled(frames[i])
        <3>1. PICK i \in Depths : frames[i].fn = f /\ b \in Unfilled(frames[i])
            BY <2>3
        <3>2. i \in 1..(m - 1)
            BY <1>0, <1>1, <1>12, <3>1
        <3> QED
            BY <1>1, <3>1, <3>2
    <2> QED
        BY <1>2, <1>5, <1>12, <2>1, <2>2, <2>3
<1> QED
    BY <1>11, <1>12 DEF Ends
LEMMA WorksLeads ==
    ASSUME TypeOK, Apart, Sealing, NEW new, NEW bs, NEW p, Works(new, bs, p), Seals(new, bs, p)
    PROVE  Leads'
<1>0. PICK g \in Function : g = Top.fn
    BY WorksFrames
<1> DEFINE m == Len(frames)
           P == UNION {Pending(new[k]) : k \in 1..Len(new)}
<1>1. /\ Top = frames[m]
      /\ \A i \in 1..(m - 1) : i \in Depths' /\ frames'[i] = frames[i]
      /\ \A i \in Depths : i = m \/ i \in 1..(m - 1)
      /\ \A k \in 1..Len(new) :
            m - 1 + k \in Depths' /\ frames'[m - 1 + k] = new[k] /\ new[k].fn = g
    BY <1>0, WorksStack
<1>2. /\ BlocksOf(g)' = BlocksOf(g) \cup Elems(bs)
      /\ \A f \in Function \ {g} : BlocksOf(f)' = BlocksOf(f)
    BY <1>0, WorksLayout
<1>3. /\ \A f \in Function : f # g => \A b \in BlocksOf(f) : code'[b] = code[b]
      /\ \A b \in BlocksOf(g) : b # IP => code'[b] = code[b]
    BY <1>0, OthersCode
<1>4. /\ Pending(Top) \subseteq Elems(bs) \cup P
      /\ LexicalBreaks => \A b \in {IP} \cup Elems(bs) :
            Aims(code'[b]) \subseteq BlocksOf(g) \cup InHand(g) \cup Elems(bs) \cup P
    BY <1>0 DEF Seals, Fills
<1>5. ASSUME NEW t \in P PROVE t \in InHand(g)'
    <2>1. PICK k \in 1..Len(new) : t \in Pending(new[k])
        OBVIOUS
    <2>2. /\ m - 1 + k \in Depths' /\ frames'[m - 1 + k].fn = g
          /\ t \in Pending(frames'[m - 1 + k])
        BY <1>1, <2>1
    <2> QED
        BY <2>2 DEF InHand
<1> HIDE DEF P, m
<1>6. ASSUME NEW f \in Function, NEW t \in InHand(f)
      PROVE  t \in InHand(f)' \/ (f = g /\ t \in Elems(bs))
    <2>1. PICK i \in Depths : frames[i].fn = f /\ t \in Pending(frames[i])
        BY <1>6 DEF InHand
    <2>2. CASE i = m
        <3>1. f = g /\ t \in Pending(Top)
            BY <1>0, <1>1, <2>1, <2>2
        <3>2. t \in Elems(bs) \/ t \in P
            BY <1>4, <3>1
        <3> QED
            BY <1>5, <3>1, <3>2
    <2>3. CASE i \in 1..(m - 1)
        <3>1. i \in Depths' /\ frames'[i].fn = f /\ t \in Pending(frames'[i])
            BY <1>1, <2>1, <2>3
        <3> QED
            BY <3>1 DEF InHand
    <2> QED
        BY <1>1, <2>2, <2>3
<1>7. ASSUME LexicalBreaks, NEW f \in Function, NEW b \in BlocksOf(f)'
      PROVE  Aims(code'[b]) \subseteq BlocksOf(f)' \cup InHand(f)'
    <2>1. CASE f # g
        <3>1. b \in BlocksOf(f) /\ code'[b] = code[b]
            BY <1>2, <1>3, <1>7, <2>1
        <3>2. Aims(code[b]) \subseteq BlocksOf(f) \cup InHand(f)
            BY <1>7, <3>1 DEF Sealing, Leads
        <3> QED
            BY <1>2, <1>6, <2>1, <3>1, <3>2
    <2>2. CASE f = g /\ b \in {IP} \cup Elems(bs)
        BY <1>2, <1>4, <1>5, <1>6, <1>7, <2>2
    <2>3. CASE f = g /\ b \notin {IP} \cup Elems(bs)
        <3>1. b \in BlocksOf(g) /\ code'[b] = code[b]
            BY <1>2, <1>3, <1>7, <2>3
        <3>2. Aims(code[b]) \subseteq BlocksOf(g) \cup InHand(g)
            BY <1>7, <3>1 DEF Sealing, Leads
        <3> QED
            BY <1>2, <1>6, <2>3, <3>1, <3>2
    <2> QED
        BY <2>1, <2>2, <2>3
<1> QED
    BY <1>7 DEF Leads

LEMMA WorksUnfilled ==
    ASSUME TypeOK, TypeOK', Apart, Sealing, NEW new, NEW bs, NEW p,
           Works(new, bs, p), Seals(new, bs, p)
    PROVE  Blank' /\ UnfilledApart' /\ AllSeparate'
<1>0. PICK g \in Function : g = Top.fn
    BY WorksFrames
<1> DEFINE m == Len(frames)
           O == UNION {Unfilled(new[k]) : k \in 1..Len(new)}
           Old(i) == i \in 1..(m - 1) /\ i \in Depths /\ i # m /\ frames'[i] = frames[i]
           Mine(i) == \E k \in 1..Len(new) : i = m - 1 + k /\ frames'[i] = new[k]
<1>1. /\ m \in Depths /\ Top = frames[m]
      /\ \A i \in Depths' : Old(i) \/ Mine(i)
      /\ \A k \in 1..Len(new) : new[k].fn = g
    <2>1. \A k \in 1..Len(new) : new[k].fn = g
        BY <1>0, WorksStack
    <2>2. \A i \in 1..(m - 1) : Old(i)
        BY WorksStack
    <2>3. \A i \in Depths' : i \in 1..(m - 1) \/ Mine(i)
        BY WorksStack
    <2> QED
        BY <2>1, <2>2, <2>3, WorksStack
<1>2. /\ insert'[g] = p /\ insert[g] = IP
      /\ \A f \in Function : f # g => insert'[f] = insert[f]
    BY <1>0, WorksInserts
<1>3. /\ BlocksOf(g)' = BlocksOf(g) \cup Elems(bs)
      /\ \A f \in Function : BlocksOf(f) \subseteq BlocksOf(f)'
    BY <1>0, WorksLayout
<1>4. \A i \in 1..(m - 1) : \A b \in Pending(frames[i]) \cup Unfilled(frames[i]) : code'[b] = code[b]
    BY OthersCode
<1>5. /\ \A k \in 1..Len(new) : \A b \in Pending(new[k]) \cup Unfilled(new[k]) : code'[b] = <<>>
      /\ \A k \in 1..Len(new) : Unfilled(new[k]) \subseteq Unfilled(Top) \cup Elems(bs)
      /\ \A k \in 1..Len(new) : p \notin Unfilled(new[k])
      /\ p \in {IP} \cup Unfilled(Top) \cup Elems(bs)
      /\ \A k \in 1..Len(new) : k # 1 => Unfilled(new[k]) = {}
      /\ \A k \in 1..Len(new) : Separate(new[k], BlocksOf(g) \cup Elems(bs))
    <2> DEFINE P == UNION {Pending(new[k]) : k \in 1..Len(new)}
    <2>1. \A k \in 1..Len(new) : Pending(new[k]) \subseteq P /\ Unfilled(new[k]) \subseteq O
        OBVIOUS
    <2>2. /\ \A b \in P \cup O : code'[b] = <<>>
          /\ O \subseteq Unfilled(Top) \cup Elems(bs)
          /\ p \notin O
          /\ p \in {IP} \cup Unfilled(Top) \cup Elems(bs)
        BY DEF Seals, Fills
    <2>3. /\ \A k \in 1..Len(new) : k # 1 => Unfilled(new[k]) = {}
          /\ \A k \in 1..Len(new) : Separate(new[k], BlocksOf(g) \cup Elems(bs))
        BY <1>0 DEF Seals
    <2> HIDE DEF P, O
    <2> QED
        BY <2>1, <2>2, <2>3
<1>6. \A i \in Depths : frames[i].fn \in Function
    BY FunctionOfFrame DEF TypeOK, Depths
<1>7. \A b \in Elems(bs) : \A f \in Function : b \notin BlocksOf(f)
    <2>1. Elems(bs) \subseteq Pending(Top) \cup Fresh
        BY DEF Works
    <2> QED
        BY <2>1, WorksUnattached
<1>8. ASSUME NEW i \in Depths, i # m
      PROVE  /\ Unfilled(frames[i]) \cap (Unfilled(Top) \cup Elems(bs)) = {}
             /\ frames[i].fn = g => IP \notin Unfilled(frames[i])
    <2>1. Unfilled(frames[i]) \cap Unfilled(Top) = {}
        BY <1>1, <1>8 DEF Sealing, UnfilledApart
    <2>2. Unfilled(frames[i]) \cap Elems(bs) = {}
        BY <1>6, <1>7, UnfilledHeld
    <2>3. frames[i].fn = g => IP \notin Unfilled(frames[i])
        BY <1>2 DEF Sealing, UnfilledApart
    <2> QED
        BY <2>1, <2>2, <2>3
<1> HIDE DEF O, m
<1>9. Blank'
    <2>1. ASSUME NEW i \in Depths', NEW b \in Pending(frames'[i]) \cup Unfilled(frames'[i])
          PROVE  code'[b] = <<>>
        <3>1. CASE Old(i)
            BY <1>4, <2>1, <3>1 DEF Sealing, Blank
        <3>2. CASE Mine(i)
            BY <1>5, <2>1, <3>2
        <3> QED
            BY <1>1, <3>1, <3>2
    <2> QED
        BY <2>1 DEF Blank
<1>10. ASSUME NEW i \in Depths', NEW j \in Depths', i # j
       PROVE  Unfilled(frames'[i]) \cap Unfilled(frames'[j]) = {}
    <2>1. CASE Old(i) /\ Old(j)
        BY <1>10, <2>1 DEF Sealing, UnfilledApart
    <2>2. CASE Old(i) /\ Mine(j)
        BY <1>5, <1>8, <2>2
    <2>3. CASE Mine(i) /\ Old(j)
        BY <1>5, <1>8, <2>3
    <2>4. CASE Mine(i) /\ Mine(j)
        <3>1. PICK k \in 1..Len(new) : i = m - 1 + k /\ frames'[i] = new[k]
            BY <2>4
        <3>2. PICK l \in 1..Len(new) : j = m - 1 + l /\ frames'[j] = new[l]
            BY <2>4
        <3>3. k # 1 \/ l # 1
            BY <1>10, <3>1, <3>2
        <3> QED
            BY <1>5, <3>1, <3>2, <3>3
    <2> QED
        BY <1>1, <2>1, <2>2, <2>3, <2>4
<1>11. ASSUME NEW i \in Depths'
       PROVE  insert'[frames'[i].fn] \notin Unfilled(frames'[i])
    <2>1. CASE Old(i)
        <3>1. CASE frames[i].fn = g
            BY <1>2, <1>5, <1>8, <2>1, <3>1
        <3>2. CASE frames[i].fn # g
            <4>1. insert'[frames[i].fn] = insert[frames[i].fn]
                BY <1>2, <1>6, <2>1, <3>2
            <4> QED
                BY <2>1, <4>1 DEF Sealing, UnfilledApart
        <3> QED
            BY <3>1, <3>2
    <2>2. CASE Mine(i)
        BY <1>1, <1>2, <1>5, <2>2
    <2> QED
        BY <1>1, <2>1, <2>2
<1>12. ASSUME NEW i \in Depths', NEW f \in Function, f = frames'[i].fn
       PROVE  Separate(frames'[i], BlocksOf(f)')
    <2>1. CASE Old(i)
        <3>1. Separate(frames[i], BlocksOf(f)) /\ BlocksOf(f) \subseteq BlocksOf(f)'
            BY <1>3, <1>12, <2>1 DEF Sealing, AllSeparate
        <3> QED
            BY <2>1, <3>1 DEF Separate
    <2>2. CASE Mine(i)
        BY <1>1, <1>3, <1>5, <1>12, <2>2
    <2> QED
        BY <1>1, <2>1, <2>2
<1>13. AllSeparate'
    <2>1. \A i \in Depths' : frames'[i].fn \in Function
        BY FunctionOfFrame DEF TypeOK, Depths
    <2> QED
        BY <1>12, <2>1 DEF AllSeparate, BlocksOf
<1> QED
    BY <1>9, <1>10, <1>11, <1>13 DEF UnfilledApart
LEMMA WorksReady ==
    ASSUME TypeOK, TypeOK', Apart, Sealing, NEW new, NEW bs, NEW p,
           Works(new, bs, p), Seals(new, bs, p)
    PROVE  Ready' /\ AllTidy'
<1>0. PICK g \in Function : g = Top.fn
    BY WorksFrames
<1> DEFINE m == Len(frames)
           Old(i) == i \in 1..(m - 1) /\ i \in Depths /\ i # m /\ frames'[i] = frames[i]
           Mine(i) == /\ frames'[i].fn = g
                      /\ \E k \in 1..Len(new) : i = m - 1 + k /\ frames'[i] = new[k]
<1>1. /\ m \in Nat \ {0} /\ m \in Depths /\ Top = frames[m] /\ Len(frames') = m - 1 + Len(new)
      /\ \A i \in Depths' : Old(i) \/ Mine(i)
      /\ \A k \in 1..Len(new) :
            m - 1 + k \in Depths' /\ frames'[m - 1 + k] = new[k] /\ new[k].fn = g
    <2>1. \A i \in 1..(m - 1) : Old(i)
        BY WorksStack
    <2>2. \A i \in Depths' : i \in 1..(m - 1) \/ Mine(i)
        BY <1>0, WorksStack
    <2> QED
        BY <1>0, <2>1, <2>2, WorksStack
<1>2. /\ insert'[g] = p /\ insert[g] = IP
      /\ \A f \in Function : f # g => insert'[f] = insert[f]
    BY <1>0, WorksInserts
<1>3. \A f \in Function : f # g => \A b \in BlocksOf(f) : code'[b] = code[b]
    BY <1>0, OthersCode
<1>4. /\ \A k \in 1..Len(new) : Between(new[k]) => k = Len(new) /\ Closed(code'[p])
      /\ Free(code'[p]) \/ \E k \in 1..Len(new) : Between(new[k])
    BY DEF Seals
<1>5. \A i \in Depths : frames[i].fn \in Function
    BY FunctionOfFrame DEF TypeOK, Depths
<1>6. \A i \in Depths : i # m => ~Between(frames[i])
    BY DEF Sealing, Ready
<1>7. \A i \in Depths' : Between(frames'[i]) => Mine(i)
    BY <1>1, <1>6
<1> HIDE DEF m
<1>8. ASSUME NEW i \in Depths', Between(frames'[i])
      PROVE  i = Len(frames') /\ Closed(code'[insert'[frames'[i].fn]])
    <2>1. PICK k \in 1..Len(new) : i = m - 1 + k /\ frames'[i] = new[k]
        BY <1>7, <1>8
    <2>2. k = Len(new) /\ Closed(code'[p])
        BY <1>4, <1>8, <2>1
    <2>3. frames'[i].fn = g
        BY <1>7, <1>8
    <2> QED
        BY <1>1, <1>2, <2>1, <2>2, <2>3
<1>9. ASSUME NEW i \in Depths'
      PROVE  \/ Free(code'[insert'[frames'[i].fn]])
             \/ \E j \in Depths' : Between(frames'[j]) /\ frames'[j].fn = frames'[i].fn
    <2>1. CASE frames'[i].fn = g
        <3>1. CASE \E k \in 1..Len(new) : Between(new[k])
            BY <1>1, <2>1, <3>1
        <3>2. CASE Free(code'[p])
            BY <1>2, <2>1, <3>2
        <3> QED
            BY <1>4, <3>1, <3>2
    <2>2. CASE frames'[i].fn # g
        <3>1. Old(i) /\ frames[i].fn # g /\ frames'[i].fn = frames[i].fn
            BY <1>1, <2>2
        <3>2. Free(code[insert[frames[i].fn]])
            <4>1. \A j \in Depths : Between(frames[j]) => frames[j].fn = g
                BY <1>0, <1>1, <1>6
            <4> QED
                BY <3>1, <4>1 DEF Sealing, Ready
        <3>3. insert[frames[i].fn] \in BlocksOf(frames[i].fn) /\ frames[i].fn \in Function
            BY <1>5, <3>1 DEF Apart, OwnInsertionPoint, Depths
        <3>4. code'[insert'[frames'[i].fn]] = code[insert[frames[i].fn]]
            BY <1>2, <1>3, <3>1, <3>3
        <3> QED
            BY <3>2, <3>4
    <2> QED
        BY <2>1, <2>2
<1>10. Ready'
    BY <1>8, <1>9 DEF Ready
<1>11. ASSUME NEW b \in Blocks' PROVE Tidy(code'[b])
    <2>1. b \in Blocks \/ b \in Fresh
        <3>1. Len(code) \in Nat /\ Len(code') \in Nat
            BY LenProperties DEF TypeOK
        <3> QED
            BY <3>1 DEF Blocks, Fresh
    <2>2. CASE b \in {IP} \cup Pending(Top) \cup Fresh
        BY <2>2 DEF Seals, Fills
    <2>3. CASE b \notin {IP} \cup Pending(Top) \cup Fresh
        <3>1. b \in Blocks /\ code'[b] = code[b]
            BY <2>1, <2>3 DEF Seals, Fills
        <3> QED
            BY <3>1 DEF Sealing, AllTidy
    <2> QED
        BY <2>2, <2>3
<1> QED
    BY <1>10, <1>11 DEF AllTidy

LEMMA WorksKeepsSealing ==
    ASSUME TypeOK, TypeOK', Apart, Sealing, NEW new, NEW bs, NEW p,
           Works(new, bs, p), Seals(new, bs, p)
    PROVE  Sealing'
BY WorksContiguous, WorksEnds, WorksLeads, WorksUnfilled, WorksReady DEF Sealing
-----------------------------------------------------------------------------
(* So do the steps that begin, declare or find a function. *)

\* The calls that are not on the stack rest any more left nothing behind, and none is
\* between two arms.
LeavesNothing(rest) == \A i \in Depths :
    /\ ~Between(frames[i])
    /\ i \notin 1..Len(rest) =>
          frames[i].kind # "func" /\ Pending(frames[i]) = {} /\ Unfilled(frames[i]) = {}

LEMMA EnterKeepsSealing ==
    ASSUME TypeOK, TypeOK', Apart, Sealing, NEW f \in Function, f \notin allocated, f \notin Externs,
           NEW rest, Below(rest), LeavesNothing(rest), EnterFunction(f, rest)
    PROVE  Sealing'
<1> DEFINE r == Len(rest)
           b == New(1)
           Old(i) == i \in 1..r /\ i \in Depths /\ frames'[i] = frames[i]
           Mine(i) == /\ i \notin 1..r /\ frames'[i].fn = f
                      /\ Pending(frames'[i]) = {} /\ Unfilled(frames'[i]) = {}
                      /\ ~Between(frames'[i])
                      /\ frames'[i].kind \notin {"while", "break"}
                      /\ (frames'[i].kind = "func" <=> i = r + 1)
                      /\ \A B : Separate(frames'[i], B)
<1>0. Begins(f, rest)
    BY EnterBegins
<1>1. r \in Nat /\ 1..(r + 1) \subseteq Depths' /\ \A i \in Depths' : Old(i) \/ Mine(i)
    <2>1. ASSUME NEW i \in Depths', ~Old(i) PROVE Mine(i)
        <3>1. /\ i \notin 1..r /\ frames'[i].fn = f /\ frames'[i].arms = <<>>
              /\ Pending(frames'[i]) = {} /\ frames'[i].kind \in {"func", "block", "stmt"}
              /\ (frames'[i].kind = "func" <=> i = r + 1)
            BY <1>0, <2>1 DEF Begins
        <3> HIDE DEF r
        <3> QED
            BY <3>1, NewFrame
    <2> QED
        BY <1>0, <2>1 DEF Begins
<1>2. /\ \A i \in Depths : frames[i].fn \in Function /\ frames[i].fn # f
      /\ b \notin Blocks /\ Blocks' = Blocks \cup {b}
      /\ (\A x \in Blocks : code'[x] = code[x]) /\ code'[b] = <<>>
      /\ insert'[f] = b /\ \A e \in Function : e # f => insert'[e] = insert[e]
    BY <1>0 DEF Begins
<1>3. /\ \A e \in Function \ {f} : BlocksOf(e)' = BlocksOf(e)
      /\ BlocksOf(f)' = BlocksOf(f) \cup {b}
    BY <1>0, BeginsLayout
<1>4. \A i \in Depths : ~Between(frames[i]) /\ (i \notin 1..r =>
         frames[i].kind # "func" /\ Pending(frames[i]) = {} /\ Unfilled(frames[i]) = {})
    BY DEF LeavesNothing
<1>5. \A e \in Function : \A x \in BlocksOf(e) : x \in Blocks
    BY DEF Apart, LaidOut
<1> HIDE DEF b, r
<1>6. \A i \in 1..r : i \in Depths' /\ Old(i)
    <2>1. ASSUME NEW i \in 1..r PROVE i \in 1..(r + 1)
        BY <1>1
    <2> QED
        BY <1>1, <2>1
<1>7. InProgress(f)'
    <2>1. r + 1 \in 1..(r + 1) /\ r + 1 \notin 1..r
        BY <1>1
    <2>2. r + 1 \in Depths' /\ frames'[r + 1].kind = "func" /\ frames'[r + 1].fn = f
        BY <1>1, <2>1
    <2> QED
        BY <2>2 DEF InProgress, Depths
<1>8. \A e \in Function : InProgress(e) => InProgress(e)'
    BY <1>4, <1>6 DEF InProgress, Depths
<1>9. \A i \in Depths : \A x \in Pending(frames[i]) \cup Unfilled(frames[i]) :
         x \in Blocks /\ i \in 1..r
    <2>1. ASSUME NEW i \in Depths, NEW x \in Unfilled(frames[i]) PROVE x \in Blocks
        BY <1>2, <1>5, <2>1, UnfilledHeld
    <2>2. ASSUME NEW i \in Depths, NEW x \in Pending(frames[i]) PROVE x \in Blocks
        BY DEF Apart, PendingApart
    <2> QED
        BY <1>4, <2>1, <2>2
<1>10. Contiguous'
    <2>1. ASSUME NEW i \in Depths', NEW k \in Depths', NEW j \in i..k, frames'[i].fn = frames'[k].fn
          PROVE  frames'[j].fn = frames'[k].fn
        <3>1. i \in Nat /\ k \in Nat /\ i >= 1 /\ j \in Nat /\ j >= 1 /\ j \in Depths'
            BY DEF Depths
        <3>2. CASE k \in 1..r
            <4>1. i \in 1..r /\ j \in 1..r
                BY <1>1, <3>1, <3>2
            <4> QED
                BY <1>6, <2>1, <3>2, <4>1 DEF Sealing, Contiguous
        <3>3. CASE k \notin 1..r
            <4>1. frames'[k].fn = f
                BY <1>1, <3>3
            <4>2. i \notin 1..r
                BY <1>2, <1>6, <2>1, <4>1
            <4>3. j \notin 1..r
                BY <1>1, <3>1, <4>2
            <4> QED
                BY <1>1, <3>1, <4>1, <4>3
        <3> QED
            BY <3>2, <3>3
    <2> QED
        BY <2>1 DEF Contiguous
<1>11. OwnLoop'
    <2>1. ASSUME NEW i \in Depths', LexicalBreaks, frames'[i].kind = "break"
          PROVE  \E j \in 1..i : frames'[j].kind = "while" /\ frames'[j].fn = frames'[i].fn
        <3>1. Old(i)
            BY <1>1, <2>1
        <3>2. PICK j \in 1..i : frames[j].kind = "while" /\ frames[j].fn = frames[i].fn
            BY <2>1, <3>1 DEF Sealing, OwnLoop, LoopBelow
        <3>3. j \in 1..r
            BY <1>1, <3>1
        <3> QED
            BY <1>6, <3>1, <3>2, <3>3
    <2> QED
        BY <2>1 DEF OwnLoop, LoopBelow
<1>12. Ends'
    <2>1. ASSUME NEW e \in Function, NEW x \in BlocksOf(e)'
          PROVE  \/ Closed(code'[x])
                 \/ x = insert'[e] /\ InProgress(e)'
                 \/ \E i \in Depths' : frames'[i].fn = e /\ x \in Unfilled(frames'[i])
        <3>1. CASE e = f /\ x = b
            BY <1>2, <1>7, <3>1
        <3>2. CASE x \in BlocksOf(e)
            <4>1. code'[x] = code[x]
                BY <1>2, <1>5, <3>2
            <4>2. \/ Closed(code[x])
                  \/ x = insert[e] /\ InProgress(e)
                  \/ \E i \in Depths : frames[i].fn = e /\ x \in Unfilled(frames[i])
                BY <3>2 DEF Sealing, Ends
            <4>3. CASE \E i \in Depths : frames[i].fn = e /\ x \in Unfilled(frames[i])
                <5>1. PICK i \in Depths : frames[i].fn = e /\ x \in Unfilled(frames[i])
                    BY <4>3
                <5>2. i \in Depths' /\ frames'[i] = frames[i]
                    BY <1>6, <1>9, <5>1
                <5> QED
                    BY <5>1, <5>2
            <4>4. CASE x = insert[e] /\ InProgress(e)
                <5>1. e # f
                    BY <1>2, <4>4 DEF InProgress, Depths
                <5> QED
                    BY <1>2, <1>8, <4>4, <5>1
            <4> QED
                BY <4>1, <4>2, <4>3, <4>4
        <3> QED
            BY <1>3, <2>1, <3>1, <3>2
    <2> QED
        BY <2>1 DEF Ends
<1>13. Leads'
    <2>1. ASSUME LexicalBreaks, NEW e \in Function, NEW x \in BlocksOf(e)'
          PROVE  Aims(code'[x]) \subseteq BlocksOf(e)' \cup InHand(e)'
        <3>1. CASE x = b
            <4>1. Aims(<<>>) = {}
                BY DEF Aims
            <4> QED
                BY <1>2, <3>1, <4>1
        <3>2. CASE x \in BlocksOf(e)
            <4>1. code'[x] = code[x]
                BY <1>2, <1>5, <3>2
            <4>2. Aims(code[x]) \subseteq BlocksOf(e) \cup InHand(e)
                BY <2>1, <3>2 DEF Sealing, Leads
            <4>3. ASSUME NEW t \in InHand(e) PROVE t \in InHand(e)'
                <5>1. PICK i \in Depths : frames[i].fn = e /\ t \in Pending(frames[i])
                    BY <4>3 DEF InHand
                <5>2. i \in Depths' /\ frames'[i] = frames[i]
                    BY <1>6, <1>9, <5>1
                <5> QED
                    BY <5>1, <5>2 DEF InHand
            <4>4. BlocksOf(e) \subseteq BlocksOf(e)'
                BY <1>3
            <4> QED
                BY <4>1, <4>2, <4>3, <4>4
        <3> QED
            BY <1>3, <2>1, <3>1, <3>2
    <2> QED
        BY <2>1 DEF Leads
<1>14. Blank' /\ UnfilledApart'
    <2>1. ASSUME NEW i \in Depths', NEW x \in Pending(frames'[i]) \cup Unfilled(frames'[i])
          PROVE  code'[x] = <<>>
        <3>1. Old(i)
            BY <1>1, <2>1
        <3>2. x \in Blocks /\ code[x] = <<>>
            BY <1>9, <2>1, <3>1 DEF Sealing, Blank
        <3> QED
            BY <1>2, <3>2
    <2>2. ASSUME NEW i \in Depths', NEW j \in Depths', i # j
          PROVE  Unfilled(frames'[i]) \cap Unfilled(frames'[j]) = {}
        <3>1. CASE Old(i) /\ Old(j)
            BY <2>2, <3>1 DEF Sealing, UnfilledApart
        <3> QED
            BY <1>1, <3>1
    <2>3. ASSUME NEW i \in Depths' PROVE insert'[frames'[i].fn] \notin Unfilled(frames'[i])
        <3>1. CASE Old(i)
            BY <1>2, <3>1 DEF Sealing, UnfilledApart
        <3> QED
            BY <1>1, <3>1
    <2> QED
        BY <2>1, <2>2, <2>3 DEF Blank, UnfilledApart
<1>15. AllSeparate'
    <2>1. ASSUME NEW i \in Depths', NEW e \in Function, e = frames'[i].fn
          PROVE  Separate(frames'[i], BlocksOf(e)')
        <3>1. CASE Old(i)
            <4>1. BlocksOf(e)' = BlocksOf(e)
                BY <1>2, <1>3, <2>1, <3>1
            <4> QED
                BY <2>1, <3>1, <4>1 DEF Sealing, AllSeparate
        <3> QED
            BY <1>1, <3>1
    <2>2. \A i \in Depths' : frames'[i].fn \in Function
        BY FunctionOfFrame DEF TypeOK, Depths
    <2> QED
        BY <2>1, <2>2 DEF AllSeparate, BlocksOf
<1>16. Ready' /\ AllTidy'
    <2>1. \A i \in Depths' : ~Between(frames'[i])
        BY <1>1, <1>4
    <2>2. ASSUME NEW i \in Depths' PROVE Free(code'[insert'[frames'[i].fn]])
        <3>1. CASE Old(i)
            <4>1. Free(code[insert[frames[i].fn]])
                BY <1>4, <3>1 DEF Sealing, Ready
            <4>2. insert[frames[i].fn] \in Blocks
                BY <1>2, <1>5, <3>1 DEF Apart, OwnInsertionPoint, Depths
            <4> QED
                BY <1>2, <3>1, <4>1, <4>2
        <3>2. CASE Mine(i)
            <4>1. Free(<<>>)
                BY DEF Free, Closed
            <4> QED
                BY <1>2, <3>2, <4>1
        <3> QED
            BY <1>1, <3>1, <3>2
    <2>3. \A x \in Blocks' : Tidy(code'[x])
        <3>1. Tidy(<<>>)
            BY DEF Tidy
        <3> QED
            BY <1>2, <3>1 DEF Sealing, AllTidy
    <2> QED
        BY <2>1, <2>2, <2>3 DEF Ready, AllTidy
<1> QED
    BY <1>10, <1>11, <1>12, <1>13, <1>14, <1>15, <1>16 DEF Sealing

LEMMA FoundKeepsSealing ==
    ASSUME TypeOK, TypeOK', Apart, Sealing, Below(frames'), LeavesNothing(frames'),
           UNCHANGED <<code, layout, insert>>
    PROVE  Sealing'
<1>1. Len(frames) \in Nat /\ Len(frames') \in Nat /\ Len(frames') <= Len(frames)
    BY LenProperties DEF TypeOK, Below
<1>2. \A i \in Depths' : i \in Depths /\ frames'[i] = frames[i]
    BY <1>1 DEF Depths, Below
<1>3. \A i \in Depths : ~Between(frames[i]) /\ (i \notin Depths' =>
         frames[i].kind # "func" /\ Pending(frames[i]) = {} /\ Unfilled(frames[i]) = {})
    BY DEF LeavesNothing, Depths
<1>4. /\ \A f : BlocksOf(f)' = BlocksOf(f)
      /\ Blocks' = Blocks
    BY DEF BlocksOf, Blocks
<1>5. \A f : (InProgress(f) => InProgress(f)') /\ InHand(f) \subseteq InHand(f)'
    <2>1. \A f : InProgress(f) => InProgress(f)'
        BY <1>2, <1>3 DEF InProgress, Depths
    <2>2. ASSUME NEW f, NEW t \in InHand(f) PROVE t \in InHand(f)'
        <3>1. PICK i \in Depths : frames[i].fn = f /\ t \in Pending(frames[i])
            BY <2>2 DEF InHand
        <3>2. i \in Depths'
            BY <1>3, <3>1
        <3> QED
            BY <1>2, <3>1, <3>2 DEF InHand
    <2> QED
        BY <2>1, <2>2
<1>6. Contiguous'
    <2>1. \A i, k \in Depths' : \A j \in i..k : j \in Depths'
        BY <1>1 DEF Depths
    <2> QED
        BY <1>2, <2>1 DEF Sealing, Contiguous
<1>7. OwnLoop'
    <2>1. \A i \in Depths' : \A j \in 1..i : j \in Depths'
        BY <1>1 DEF Depths
    <2> QED
        BY <1>2, <2>1 DEF Sealing, OwnLoop, LoopBelow
<1>8. Ends'
    <2>1. ASSUME NEW e \in Function, NEW x \in BlocksOf(e)
          PROVE  \/ Closed(code[x])
                 \/ x = insert[e] /\ InProgress(e)'
                 \/ \E i \in Depths' : frames'[i].fn = e /\ x \in Unfilled(frames'[i])
        <3>1. \/ Closed(code[x])
              \/ x = insert[e] /\ InProgress(e)
              \/ \E i \in Depths : frames[i].fn = e /\ x \in Unfilled(frames[i])
            BY DEF Sealing, Ends
        <3> QED
            BY <1>2, <1>3, <1>5, <3>1
    <2> QED
        BY <1>4, <2>1 DEF Ends
<1>9. Leads'
    BY <1>4, <1>5 DEF Sealing, Leads
<1>10. Blank' /\ UnfilledApart'
    <2>1. Blank'
        BY <1>2 DEF Sealing, Blank
    <2>2. UnfilledApart'
        BY <1>2 DEF Sealing, UnfilledApart
    <2> QED
        BY <2>1, <2>2
<1>11. AllSeparate'
    <2>1. ASSUME NEW i \in Depths', NEW e \in Function, e = frames'[i].fn
          PROVE  Separate(frames'[i], BlocksOf(e)')
        <3>1. Separate(frames[i], BlocksOf(e))
            BY <1>2, <2>1 DEF Sealing, AllSeparate
        <3> QED
            BY <1>2, <1>4, <3>1
    <2>2. \A i \in Depths' : frames'[i].fn \in Function
        BY FunctionOfFrame DEF TypeOK, Depths
    <2> QED
        BY <2>1, <2>2 DEF AllSeparate, BlocksOf
<1>12. Ready' /\ AllTidy'
    BY <1>2, <1>3, <1>4 DEF Sealing, Ready, AllTidy
<1> QED
    BY <1>6, <1>7, <1>8, <1>9, <1>10, <1>11, <1>12 DEF Sealing
LEMMA FunctionStepKeepsSealing ==
    ASSUME TypeOK, TypeOK', Apart, Sealing, GenReference \/ EnterVaInit \/ CodegenRoot
    PROVE  Sealing'
<1>1. ASSUME NEW f \in Function, NEW rest, Below(rest), LeavesNothing(rest), GenFunction(f, rest)
      PROVE  Sealing'
    <2>1. CASE Memo(f, rest) \/ DeclareExtern(f, rest)
        BY <1>1, <2>1, FoundKeepsSealing DEF Memo, DeclareExtern
    <2>2. CASE f \notin allocated /\ f \notin Externs /\ EnterFunction(f, rest)
        BY <1>1, <2>2, EnterKeepsSealing
    <2> QED
        BY <1>1, <2>1, <2>2 DEF GenFunction
<1>2. CASE GenReference
    <2>1. PICK f \in Function : GenFunction(f, Under)
        BY <1>2 DEF GenReference
    <2>2. frames # <<>> /\ Top.kind \in {"expr", "stmt"} /\ Below(Under)
        BY <1>2, Belows DEF GenReference, Choosing
    <2>3. Pending(Top) = {} /\ Unfilled(Top) = {} /\ ~Between(Top)
        BY <2>2 DEF Pending, Unfilled, Between
    <2>4. \A i \in Depths : i \notin 1..Len(Under) => frames[i] = Top
        <3>1. Len(Under) = Len(frames) - 1 /\ Len(frames) \in Nat
            BY <2>2, UnderTyped, LenProperties DEF TypeOK
        <3>2. \A i \in Depths : i \notin 1..Len(Under) => i = Len(frames)
            BY <3>1 DEF Depths
        <3> QED
            BY <3>2 DEF Top
    <2>5. LeavesNothing(Under)
        BY <2>2, <2>3, <2>4, NoneBetween DEF LeavesNothing
    <2> QED
        BY <1>1, <2>1, <2>2, <2>5
<1>3. CASE EnterVaInit
    <2>1. VaInit \in Function /\ VaInit \notin Externs /\ VaInit \notin allocated
        BY <1>3, FunctionAssumption DEF EnterVaInit
    <2>2. EnterFunction(VaInit, frames) /\ Below(frames)
        BY <1>3, Belows DEF EnterVaInit
    <2>3. frames # <<>> /\ ~Between(Top)
        BY <1>3 DEF EnterVaInit, At, Between
    <2>4. LeavesNothing(frames)
        BY <2>3, NoneBetween DEF LeavesNothing, Depths
    <2> QED
        BY <2>1, <2>2, <2>4, EnterKeepsSealing
<1>4. CASE CodegenRoot
    <2>1. PICK f \in Globals \ allocated : GenFunction(f, <<>>)
        BY <1>4 DEF CodegenRoot
    <2>2. f \in Function /\ Below(<<>>)
        BY FunctionAssumption, Belows
    <2>3. Depths = {}
        BY <1>4 DEF CodegenRoot, Depths
    <2> QED
        BY <1>1, <2>1, <2>2, <2>3 DEF LeavesNothing
<1> QED
    BY <1>2, <1>3, <1>4-----------------------------------------------------------------------------
(* Finished functions are sealed. *)

\* Every block of a finished function is closed, has nothing behind the branch that
\* closes it and leads to blocks of the same function.
Complete(f) == \A b \in BlocksOf(f) :
    /\ Closed(code[b]) /\ Tidy(code[b])
    /\ LexicalBreaks => Aims(code[b]) \subseteq BlocksOf(f)
AllComplete == \A f \in Function : Finished(f) => Complete(f)

LEMMA SealingCompletes == Apart /\ Sealing => AllComplete
<1> SUFFICES ASSUME Apart, Sealing, NEW f \in Function, Finished(f), NEW b \in BlocksOf(f)
             PROVE  /\ Closed(code[b]) /\ Tidy(code[b])
                    /\ LexicalBreaks => Aims(code[b]) \subseteq BlocksOf(f)
    BY DEF AllComplete, Complete
<1>1. ASSUME NEW i \in Depths, frames[i].fn = f PROVE FALSE
    <2>1. PICK j \in 1..i : frames[j].kind = "func" /\ frames[j].fn = f
        BY <1>1 DEF Apart, Enclosed
    <2>2. j \in 1..Len(frames)
        BY <1>1, <2>1 DEF Depths
    <2> QED
        BY <2>1, <2>2 DEF Finished, InProgress
<1>2. InHand(f) = {}
    BY <1>1 DEF InHand
<1>3. ~InProgress(f)
    BY DEF Finished
<1>4. Closed(code[b])
    BY <1>1, <1>3 DEF Sealing, Ends
<1>5. Tidy(code[b])
    BY DEF Apart, LaidOut, Sealing, AllTidy
<1>6. LexicalBreaks => Aims(code[b]) \subseteq BlocksOf(f)
    BY <1>2 DEF Sealing, Leads
<1> QED
    BY <1>4, <1>5, <1>6

\* Only a running compiler works.
LEMMA InnerRuns ==
    ASSUME Inner
    PROVE  /\ Running
           /\ ~Running' => Top.kind # "func"
<1>1. CASE GenLeaf \/ BeginUse \/ NextOperand \/ EndUse \/ CodeBlock
    BY <1>1 DEF GenLeaf, BeginUse, NextOperand, EndUse, CodeBlock, BeginBlock, NextStatement, EndBlock,
                Choosing, At
<1>2. CASE IfDef
    BY <1>2 DEF IfDef, BeginIf, IfCondDone, IfThenDoneElse, IfThenDone, IfElseDone, Choosing, At
<1>3. CASE WhileDef
    BY <1>3 DEF WhileDef, BeginWhile, WhileCondDone, WhileBodyDone, Choosing, At
<1>4. CASE SwitchDef
    BY <1>4 DEF SwitchDef, BeginSwitch, SwitchCondDone, SwitchArm, SwitchArmDone,
                SwitchDefault, EndSwitch, Choosing, At
<1>5. CASE Leaving
    BY <1>5 DEF Leaving, GenReturn, BeginReturn, EndReturn, GenBreak, BeginBreak,
                EndBreak, GenContinue, GenFallthrough, Stating, At
<1>6. CASE EndVaInit \/ EndFunction
    BY <1>6 DEF EndVaInit, EndFunction, At, Running
<1> QED
    BY <1>1, <1>2, <1>3, <1>4, <1>5, <1>6 DEF Inner

LEMMA FunctionStepRuns ==
    ASSUME GenReference \/ EnterVaInit \/ CodegenRoot
    PROVE  Running /\ Running'
<1>1. ASSUME NEW f, NEW rest, GenFunction(f, rest), Running PROVE Running'
    BY <1>1 DEF GenFunction, Memo, DeclareExtern, EnterFunction, Running
<1>2. CASE GenReference
    BY <1>1, <1>2 DEF GenReference, Choosing
<1>3. CASE EnterVaInit
    BY <1>3 DEF EnterVaInit, At, EnterFunction, Running
<1>4. CASE CodegenRoot
    BY <1>1, <1>4 DEF CodegenRoot
<1> QED
    BY <1>2, <1>3, <1>4

LEMMA UnchangedSealing == ASSUME Sealing, UNCHANGED vars PROVE Sealing'
<1>1. UNCHANGED <<code, layout, insert, frames>>
    BY DEF vars
<1>2. (Contiguous /\ OwnLoop)'
    BY <1>1 DEF Sealing, Contiguous, OwnLoop, LoopBelow, Depths
<1>3. Ends'
    BY <1>1 DEF Sealing, Ends, BlocksOf, InProgress, Depths
<1>4. Leads'
    <2>1. \A f \in Function : BlocksOf(f)' = BlocksOf(f) /\ InHand(f)' = InHand(f)
        BY <1>1 DEF BlocksOf, InHand, Depths
    <2>2. \A b : Aims(code[b])' = Aims(code[b])
        BY <1>1 DEF Aims
    <2> QED
        BY <2>1, <2>2, Zenon DEF Sealing, Leads
<1>5. (Blank /\ UnfilledApart)'
    BY <1>1 DEF Sealing, Blank, UnfilledApart, Depths
<1>6. (AllSeparate /\ Ready /\ AllTidy)'
    <2>1. AllSeparate'
        BY <1>1 DEF Sealing, AllSeparate, Separate, BlocksOf, Depths
    <2>2. Ready'
        BY <1>1 DEF Sealing, Ready, BlocksOf, Depths
    <2>3. AllTidy'
        BY <1>1 DEF Sealing, AllTidy, Blocks
    <2> QED
        BY <2>1, <2>2, <2>3
<1> QED
    BY <1>2, <1>3, <1>4, <1>5, <1>6 DEF Sealing

LEMMA StepSealing ==
    TypeOK /\ LoopTargets /\ Apart /\ (Running => Sealing) /\ [Next]_vars => (Running' => Sealing')
<1> SUFFICES ASSUME TypeOK, LoopTargets, Apart, Running => Sealing, [Next]_vars, Running'
             PROVE  Sealing'
    OBVIOUS
<1>1. TypeOK'
    BY StepTyped
<1>2. CASE Inner
    <2>1. PICK new, bs, p : Works(new, bs, p) /\ (Sealing /\ Running' => Seals(new, bs, p))
        BY <1>1, <1>2, InnerWorks DEF StepWorks
    <2>2. Sealing
        BY <1>2, InnerRuns
    <2> QED
        BY <1>1, <2>1, <2>2, WorksKeepsSealing
<1>3. CASE GenReference \/ EnterVaInit \/ CodegenRoot
    BY <1>1, <1>3, FunctionStepRuns, FunctionStepKeepsSealing
<1>4. CASE Finish
    BY <1>4 DEF Finish, Running
<1>5. CASE UNCHANGED vars
    <2>1. Sealing
        BY <1>5 DEF vars, Running
    <2> QED
        BY <1>5, <2>1, UnchangedSealing
<1> QED
    BY <1>2, <1>3, <1>4, <1>5
    DEF Next, Inner, Expression, Functions, Stopped

\* A step that breaks an LLVM contract leaves the finished functions as they are, and
\* finishes none.
LEMMA StepComplete ==
    TypeOK /\ LoopTargets /\ Apart /\ AllComplete /\ [Next]_vars => (~Running' => AllComplete')
<1> SUFFICES ASSUME TypeOK, LoopTargets, Apart, AllComplete, [Next]_vars, ~Running',
                    NEW f \in Function, Finished(f)'
             PROVE  Complete(f)'
    BY DEF AllComplete
<1>1. TypeOK'
    BY StepTyped
<1>2. ASSUME Finished(f), layout'[f] = layout[f], \A b \in BlocksOf(f) : code'[b] = code[b]
      PROVE  Complete(f)'
    <2>1. BlocksOf(f)' = BlocksOf(f)
        BY <1>2 DEF BlocksOf
    <2>2. Complete(f)
        BY <1>2 DEF AllComplete
    <2> QED
        BY <1>2, <2>1, <2>2 DEF Complete
<1>3. CASE Inner
    <2>1. PICK new, bs, p : Works(new, bs, p)
        BY <1>1, <1>3, InnerWorks DEF StepWorks
    <2>2. PICK g \in Function : g = Top.fn
        BY <2>1, WorksFrames
    <2>3. Top.kind # "func" /\ UNCHANGED allocated
        BY <1>3, InnerRuns, InnerKeepsAllocated
    <2>4. InProgress(g) /\ (InProgress(f) => InProgress(f)')
        BY <2>1, <2>2, <2>3, WorksProgress
    <2>5. Finished(f) /\ f # g
        BY <2>3, <2>4 DEF Finished
    <2>6. layout'[f] = layout[f] /\ \A b \in BlocksOf(f) : code'[b] = code[b]
        BY <2>1, <2>2, <2>5, OthersKept
    <2> QED
        BY <1>2, <2>5, <2>6
<1>4. CASE GenReference \/ EnterVaInit \/ CodegenRoot
    BY <1>4, FunctionStepRuns
<1>5. CASE Finish \/ UNCHANGED vars
    <2>1. UNCHANGED <<code, layout, frames, allocated>>
        BY <1>5 DEF Finish, vars
    <2>2. Finished(f)
        BY <2>1 DEF Finished, InProgress
    <2> QED
        BY <1>2, <2>1, <2>2
<1> QED
    BY <1>3, <1>4, <1>5
    DEF Next, Inner, Expression, Functions, Stopped

LEMMA InitSealing == Init => Sealing /\ AllComplete
<1> SUFFICES ASSUME Init PROVE Sealing /\ AllComplete
    OBVIOUS
<1>1. Depths = {} /\ Blocks = {} /\ \A f \in Function : BlocksOf(f) = {} /\ ~Finished(f)
    BY DEF Init, Depths, Blocks, BlocksOf, Finished
<1>2. Contiguous /\ OwnLoop /\ Ends /\ Leads /\ Blank /\ UnfilledApart /\ AllSeparate /\ Ready /\ AllTidy
    BY <1>1 DEF Contiguous, OwnLoop, Ends, Leads, Blank, UnfilledApart, AllSeparate, Ready, AllTidy
<1> QED
    BY <1>1, <1>2 DEF Sealing, AllComplete

LEMMA AlwaysComplete == Spec => []((Running => Sealing) /\ AllComplete)
BY AlwaysApart, InitSealing, StepSealing, StepComplete, SealingCompletes, PTL DEF Spec

\* Whatever constructs are nested in one another, every block that one of them has
\* attached to a function that is finished ends in a terminator, and leads to blocks
\* of that function, if break and continue stand in a loop of their own function.
THEOREM FunctionsSealed == ASSUME LexicalBreaks PROVE Spec => []SealedFunctions
<1>1. AllComplete => SealedFunctions
    <2> SUFFICES ASSUME AllComplete, NEW f \in Function, Finished(f), NEW b \in BlocksOf(f)
                 PROVE  Terminated(code, b) /\ Successors(b) \subseteq BlocksOf(f)
        BY DEF SealedFunctions
    <2>1. Closed(code[b]) /\ Aims(code[b]) \subseteq BlocksOf(f)
        BY DEF AllComplete, Complete
    <2>2. Successors(b) = Aims(code[b])
        BY DEF Successors, Aims
    <2> QED
        BY <2>1, <2>2 DEF Terminated, Closed
<1> QED
    BY <1>1, AlwaysComplete, PTL

\* Nothing is generated behind the branch that closes a construct, in no block of a
\* finished function.
THEOREM NothingFollows == Spec => []NothingAfterBranch
<1>1. AllComplete => NothingAfterBranch
    BY DEF AllComplete, Complete, Tidy, NothingAfterBranch
<1> QED
    BY <1>1, AlwaysComplete, PTL
-----------------------------------------------------------------------------
(* What a step adds to the code. *)

\* c is the code with instructions of S appended to some blocks.
Grown(c, S) ==
    /\ c \in Seq(Seq(Inst)) /\ Len(c) = Len(code)
    /\ \A x \in Blocks :
          /\ Len(code[x]) <= Len(c[x])
          /\ \A i \in 1..Len(code[x]) : c[x][i] = code[x][i]
          /\ \A i \in (Len(code[x]) + 1)..Len(c[x]) : c[x][i] \in S

\* The step appends no others, and the blocks it creates are empty.
Adds(S) ==
    /\ Blocks \subseteq 1..Len(code')
    /\ \A x \in Blocks :
          /\ Len(code[x]) <= Len(code'[x])
          /\ \A i \in 1..Len(code[x]) : code'[x][i] = code[x][i]
          /\ \A i \in (Len(code[x]) + 1)..Len(code'[x]) : code'[x][i] \in S
    /\ \A x \in Fresh : code'[x] = <<>>

LEMMA CodeGrown == ASSUME TypeOK, NEW S PROVE Grown(code, S)
<1>1. \A x \in Blocks : Len(code[x]) \in Nat
    <2>1. \A x \in Blocks : code[x] \in Seq(Inst)
        BY ElementOfSeq DEF TypeOK, Blocks
    <2> QED
        BY <2>1, LenProperties
<1>2. \A x \in Blocks : (Len(code[x]) + 1)..Len(code[x]) = {} /\ Len(code[x]) <= Len(code[x])
    BY <1>1
<1> QED
    BY <1>2 DEF Grown, TypeOK

LEMMA EmitGrown ==
    ASSUME TypeOK, NEW S, NEW c, Grown(c, S), NEW b \in Blocks, NEW i \in Inst, i \in S
    PROVE  Grown(Emit(c, b, i), S)
<1> DEFINE d == Emit(c, b, i)
<1>1. d \in Seq(Seq(Inst)) /\ Len(d) = Len(code) /\ b \in 1..Len(c) /\ c \in Seq(Seq(Inst))
    BY EmitTyped DEF Grown, Blocks
<1>2. d[b] = Append(c[b], i) /\ \A x \in Blocks : x # b => d[x] = c[x]
    BY <1>1 DEF Emit, Grown, Blocks
<1> HIDE DEF d
<1>3. c[b] \in Seq(Inst) /\ code[b] \in Seq(Inst)
    BY <1>1, ElementOfSeq DEF TypeOK, Blocks
<1>4. /\ Len(c[b]) \in Nat /\ Len(code[b]) \in Nat /\ Len(d[b]) = Len(c[b]) + 1
      /\ d[b][Len(c[b]) + 1] = i /\ \A k \in 1..Len(c[b]) : d[b][k] = c[b][k]
    BY <1>2, <1>3, AppendProperties, LenProperties
<1>5. /\ Len(code[b]) <= Len(c[b])
      /\ \A k \in 1..Len(code[b]) : c[b][k] = code[b][k]
      /\ \A k \in (Len(code[b]) + 1)..Len(c[b]) : c[b][k] \in S
    BY DEF Grown
<1>6. \A k \in 1..Len(code[b]) : k \in 1..Len(c[b])
    BY <1>4, <1>5
<1>7. \A k \in (Len(code[b]) + 1)..(Len(c[b]) + 1) :
         k = Len(c[b]) + 1 \/ (k \in 1..Len(c[b]) /\ k \in (Len(code[b]) + 1)..Len(c[b]))
    BY <1>4
<1>8. Len(code[b]) <= Len(d[b])
    BY <1>4, <1>5
<1>9. \A k \in 1..Len(code[b]) : d[b][k] = code[b][k]
    BY <1>4, <1>5, <1>6
<1>10. \A k \in (Len(code[b]) + 1)..Len(d[b]) : d[b][k] \in S
    <2> SUFFICES ASSUME NEW k \in (Len(code[b]) + 1)..(Len(c[b]) + 1) PROVE d[b][k] \in S
        BY <1>4
    <2>1. CASE k = Len(c[b]) + 1
        BY <1>4, <2>1
    <2>2. CASE k \in 1..Len(c[b]) /\ k \in (Len(code[b]) + 1)..Len(c[b])
        BY <1>4, <1>5, <2>2
    <2> QED
        BY <1>7, <2>1, <2>2
<1>11. Grown(d, S)
    BY <1>1, <1>2, <1>8, <1>9, <1>10 DEF Grown
<1> QED
    BY <1>11 DEF d

LEMMA OpGrown ==
    ASSUME TypeOK, NEW S, NEW c, Grown(c, S), NEW b \in Blocks, OpInst \in S
    PROVE  Grown(EmitOp(c, b), S)
<1>1. OpInst \in Inst
    BY DEF OpInst, Inst
<1> QED
    BY <1>1, EmitGrown DEF EmitOp

LEMMA BranchGrown ==
    ASSUME TypeOK, NEW S, NEW c, Grown(c, S), NEW b \in Blocks, NEW tag \in Jumps, NEW t \in Nat,
           t # NoBlock => [op |-> tag, to |-> {t}] \in S
    PROVE  Grown(Branch(c, b, tag, t), S)
<1>1. [op |-> tag, to |-> {t}] \in Inst
    BY DEF Inst, Jumps, Terminators
<1> QED
    BY <1>1, EmitGrown DEF Branch

LEMMA GrownAdds == ASSUME TypeOK, NEW S, Grown(code', S) PROVE Adds(S)
<1>1. Len(code) \in Nat /\ Len(code') = Len(code)
    BY LenProperties DEF TypeOK, Grown
<1>2. Fresh = {} /\ Blocks \subseteq 1..Len(code')
    BY <1>1 DEF Fresh, Blocks
<1> QED
    BY <1>2 DEF Grown, Adds

LEMMA GrownAddsBlocks ==
    ASSUME TypeOK, NEW S, NEW c, Grown(c, S), NEW k \in Seq(Seq(Inst)), code' = c \o k,
           \A i \in 1..Len(k) : k[i] = <<>>
    PROVE  Adds(S)
<1>1. Len(code) \in Nat /\ Len(k) \in Nat /\ Len(c) = Len(code) /\ c \in Seq(Seq(Inst))
    BY LenProperties DEF TypeOK, Grown
<1>2. /\ Len(c \o k) = Len(c) + Len(k)
      /\ \A x \in 1..(Len(c) + Len(k)) : (c \o k)[x] = IF x <= Len(c) THEN c[x] ELSE k[x - Len(c)]
    BY <1>1, ConcatProperties
<1>3. \A x \in Blocks : x \in 1..(Len(c) + Len(k)) /\ x <= Len(c)
    BY <1>1 DEF Blocks
<1>4. \A x \in Fresh : x \in 1..(Len(c) + Len(k)) /\ ~(x <= Len(c)) /\ x - Len(c) \in 1..Len(k)
    BY <1>1, <1>2 DEF Fresh
<1>5. \A x \in Blocks : code'[x] = c[x]
    BY <1>2, <1>3
<1>6. \A x \in Fresh : code'[x] = <<>>
    BY <1>2, <1>4
<1>7. Blocks \subseteq 1..Len(code')
    BY <1>2, <1>3
<1> QED
    BY <1>5, <1>6, <1>7 DEF Grown, Adds

LEMMA AddsMore == ASSUME NEW S, NEW R, Adds(S), S \subseteq R PROVE Adds(R)
BY DEF Adds

\* Where the steps write.
LEMMA HereAreBlocks ==
    ASSUME TypeOK, Apart, frames # <<>>
    PROVE  IP \in Blocks /\ BlocksOf(Top.fn) \subseteq Blocks /\ Pending(Top) \subseteq Blocks
BY HereIsOwn DEF Apart, LaidOut, PendingApart

Br(t) == [op |-> "br", to |-> {t}]
Ret   == [op |-> "ret", to |-> {}]

LEMMA NoneAdded ==
    ASSUME TypeOK,
           \/ GenLeaf \/ BeginUse \/ NextOperand \/ CodeBlock \/ BeginIf \/ SwitchArm \/ SwitchDefault
           \/ BeginReturn \/ BeginBreak \/ BeginSwitch
    PROVE  Adds({})
<1>1. CASE UNCHANGED code
    BY <1>1, CodeGrown, GrownAdds
<1>2. CASE BeginSwitch
    <2> DEFINE k == <<Empty, Empty>>
    <2>1. k \in Seq(Seq(Inst)) /\ code' = code \o k
        BY <1>2, EmptyTyped DEF BeginSwitch
    <2>2. \A i \in 1..Len(k) : k[i] = <<>>
        BY DEF Empty
    <2> HIDE DEF k
    <2> QED
        BY <2>1, <2>2, CodeGrown, GrownAddsBlocks
<1> QED
    BY <1>1, <1>2 DEF GenLeaf, BeginUse, NextOperand, CodeBlock, BeginBlock, NextStatement, EndBlock,
                      BeginIf, SwitchArm, SwitchDefault, BeginReturn, BeginBreak

LEMMA PlainAdded ==
    ASSUME TypeOK, Apart,
           EndUse \/ EndVaInit \/ GenReturn \/ EndReturn \/ EndFunction
    PROVE  Adds({OpInst, Ret})
<1> DEFINE S == {OpInst, Ret}
<1>1. frames # <<>>
    BY DEF EndUse, EndVaInit, GenReturn, EndReturn, EndFunction, At, Stating
<1>2. IP \in Blocks
    BY <1>1, HereAreBlocks
<1>3. Ret \in Inst /\ Ret \in S /\ OpInst \in S /\ Grown(code, S)
    BY CodeGrown DEF Ret, Inst, Terminators
<1> HIDE DEF S
<1>4. Grown(EmitOp(code, IP), S) /\ Grown(Emit(code, IP, Ret), S)
    BY <1>2, <1>3, OpGrown, EmitGrown
<1>5. CASE EndFunction
    <2>1. Grown(Epilogue, S)
        BY <1>3, <1>4 DEF Epilogue
    <2>2. Grown(Emit(Epilogue, IP, Ret), S)
        BY <1>2, <1>3, <2>1, EmitGrown
    <2>3. Grown(code', S)
        BY <1>5, <2>1, <2>2 DEF EndFunction, Ret
    <2> QED
        BY <2>3, GrownAdds DEF S
<1>6. CASE EndUse \/ EndVaInit \/ GenReturn \/ EndReturn
    <2>1. Grown(code', S)
        BY <1>3, <1>4, <1>6 DEF EndUse, EndVaInit, GenReturn, EndReturn, Ret
    <2> QED
        BY <2>1, GrownAdds DEF S
<1> QED
    BY <1>5, <1>6

LEMMA IfCondAdded ==
    ASSUME TypeOK, Apart, IfCondDone
    PROVE  Adds({[op |-> "condbr", to |-> {New(1), New(2)}]})
<1> DEFINE i == [op |-> "condbr", to |-> {New(1), New(2)}]
           k == <<Empty, Empty, Empty>>
<1>1. frames # <<>>
    BY DEF IfCondDone, At
<1>2. IP \in Blocks
    BY <1>1, HereAreBlocks
<1>3. i \in Inst
    BY NewTyped DEF TypeOK, Inst, Terminators
<1>4. k \in Seq(Seq(Inst)) /\ \A a \in 1..Len(k) : k[a] = <<>>
    BY EmptyTyped DEF Empty
<1>5. code' = Emit(code, IP, i) \o k
    BY DEF IfCondDone
<1> HIDE DEF i, k
<1>6. Grown(Emit(code, IP, i), {i})
    BY <1>2, <1>3, CodeGrown, EmitGrown
<1>7. Adds({i})
    BY <1>4, <1>5, <1>6, GrownAddsBlocks
<1> QED
    BY <1>7 DEF i

LEMMA MergeAdded ==
    ASSUME TypeOK, Apart, IfThenDoneElse \/ IfThenDone \/ SwitchArmDone \/ EndSwitch
    PROVE  Adds({Br(Top.merge)})
<1> DEFINE S == {Br(Top.merge)}
<1>1. frames # <<>>
    BY DEF IfThenDoneElse, IfThenDone, SwitchArmDone, EndSwitch, At
<1>2. IP \in Blocks /\ Top.merge \in Nat /\ "br" \in Jumps
    BY <1>1, HereAreBlocks, InCall DEF Jumps
<1>3. [op |-> "br", to |-> {Top.merge}] \in S
    BY DEF Br
<1> HIDE DEF S
<1>4. Grown(Branch(code, IP, "br", Top.merge), S)
    BY <1>2, <1>3, CodeGrown, BranchGrown
<1>5. CASE IfThenDone
    <2>1. Top.alt \in Blocks
        <3>1. Top.alt \in Pending(Top)
            BY <1>5 DEF IfThenDone, At, Pending
        <3> QED
            BY <1>1, <3>1, HereAreBlocks
    <2>2. Grown(Branch(Branch(code, IP, "br", Top.merge), Top.alt, "br", Top.merge), S)
        BY <1>2, <1>3, <1>4, <2>1, BranchGrown
    <2>3. Grown(code', S)
        BY <1>5, <2>2 DEF IfThenDone
    <2> QED
        BY <2>3, GrownAdds DEF S
<1>6. CASE IfThenDoneElse \/ SwitchArmDone \/ EndSwitch
    <2>1. Grown(code', S)
        BY <1>4, <1>6 DEF IfThenDoneElse, SwitchArmDone, EndSwitch
    <2> QED
        BY <2>1, GrownAdds DEF S
<1> QED
    BY <1>5, <1>6

Phi == [op |-> "phi", to |-> Incoming]

LEMMA PhiAdded ==
    ASSUME TypeOK, Apart, IfElseDone
    PROVE  Adds({Br(Top.merge), Phi})
<1> DEFINE S == {Br(Top.merge), Phi}
           c == Branch(code, IP, "br", Top.merge)
<1>1. frames # <<>> /\ Top.merge \in Pending(Top)
    BY DEF IfElseDone, At, Pending
<1>2. IP \in Blocks /\ Top.merge \in Nat /\ "br" \in Jumps /\ Top.merge \in Blocks
    BY <1>1, HereAreBlocks, InCall DEF Jumps
<1>3. [op |-> "br", to |-> {Top.merge}] \in S /\ Phi \in S /\ Phi \in Inst
    BY <1>1, InCall DEF Br, Phi, Incoming, Inst
<1> HIDE DEF S
<1>4. Grown(c, S)
    BY <1>2, <1>3, CodeGrown, BranchGrown
<1>5. code' = Emit(c, Top.merge, Phi)
    BY DEF IfElseDone, Phi
<1> HIDE DEF c
<1>6. Grown(code', S)
    BY <1>2, <1>3, <1>4, <1>5, EmitGrown
<1> QED
    BY <1>6, GrownAdds DEF S

LEMMA BeginWhileAdded ==
    ASSUME TypeOK, Apart, BeginWhile
    PROVE  Adds({Br(New(1))})
<1> DEFINE S == {Br(New(1))}
           k == <<Empty, Empty, Empty>>
           c == Branch(code, IP, "br", New(1))
<1>1. frames # <<>>
    BY DEF BeginWhile, Choosing
<1>2. IP \in Blocks /\ New(1) \in Nat /\ "br" \in Jumps
    BY <1>1, HereAreBlocks, NewTyped DEF TypeOK, Jumps
<1>3. [op |-> "br", to |-> {New(1)}] \in S
    BY DEF Br
<1>4. k \in Seq(Seq(Inst)) /\ \A a \in 1..Len(k) : k[a] = <<>>
    BY EmptyTyped DEF Empty
<1>5. code' = c \o k
    BY DEF BeginWhile
<1> HIDE DEF S
<1>6. Grown(c, S)
    BY <1>2, <1>3, CodeGrown, BranchGrown
<1> HIDE DEF c, k
<1> QED
    BY <1>4, <1>5, <1>6, GrownAddsBlocks DEF S

LEMMA WhileCondAdded ==
    ASSUME TypeOK, Apart, WhileCondDone
    PROVE  Adds({[op |-> "condbr", to |-> {Top.body, mergeBB}]})
<1> DEFINE i == [op |-> "condbr", to |-> {Top.body, mergeBB}]
<1>1. frames # <<>>
    BY DEF WhileCondDone, At
<1>2. IP \in Blocks
    BY <1>1, HereAreBlocks
<1>3. i \in Inst
    BY <1>1, InCall DEF TypeOK, Inst, Terminators
<1>4. code' = Emit(code, IP, i)
    BY DEF WhileCondDone
<1> HIDE DEF i
<1>5. Grown(code', {i})
    BY <1>2, <1>3, <1>4, CodeGrown, EmitGrown
<1>6. Adds({i})
    BY <1>5, GrownAdds
<1> QED
    BY <1>6 DEF i

LEMMA SwitchCondAdded ==
    ASSUME TypeOK, Apart, SwitchCondDone
    PROVE  \E to : to \subseteq {Top.alt} \cup Fresh /\ Adds({[op |-> "switch", to |-> to]})
<1>1. PICK n \in 0..MaxArms :
         code' = Emit(code, IP, [op |-> "switch", to |-> {Top.alt} \cup {New(i) : i \in 1..n}])
                   \o [i \in 1..n |-> Empty]
    BY DEF SwitchCondDone
<1> DEFINE to == {Top.alt} \cup {New(i) : i \in 1..n}
           i == [op |-> "switch", to |-> to]
           k == [a \in 1..n |-> Empty]
           c == Emit(code, IP, i)
<1>2. frames # <<>> /\ n \in Nat /\ Len(code) \in Nat
    BY BoundAssumption, LenProperties DEF SwitchCondDone, At, TypeOK
<1>3. IP \in Blocks
    BY <1>2, HereAreBlocks
<1>4. k \in Seq(Seq(Inst)) /\ to \subseteq Nat
    BY <1>2, InCall, ArmsTyped DEF TypeOK
<1>5. Len(k) = n /\ \A a \in 1..Len(k) : k[a] = <<>>
    BY <1>2 DEF Empty
<1>6. code' = c \o k
    BY <1>1
<1> HIDE DEF to
<1>7. i \in Inst
    BY <1>4 DEF Inst, Terminators
<1> HIDE DEF i, k
<1>8. Grown(c, {i})
    BY <1>3, <1>7, CodeGrown, EmitGrown
<1> HIDE DEF c
<1>9. Adds({i})
    BY <1>4, <1>5, <1>6, <1>8, GrownAddsBlocks
<1>10. to \subseteq {Top.alt} \cup Fresh
    <2>1. Len(code') = Len(code) + n
        <3>1. c \in Seq(Seq(Inst)) /\ Len(c) = Len(code)
            BY <1>8 DEF Grown
        <3>2. Len(c \o k) = Len(c) + Len(k)
            BY <1>4, <3>1, ConcatProperties
        <3> QED
            BY <1>5, <1>6, <3>1, <3>2
    <2>2. \A a \in 1..n : New(a) \in Fresh
        BY <1>2, <2>1 DEF New, Fresh
    <2> QED
        BY <2>2 DEF to
<1> QED
    BY <1>9, <1>10 DEF i

\* A jump to where the globals say, or nothing if they are null.
JumpInst(tag, t) == {i \in {[op |-> tag, to |-> {t}]} : t # NoBlock}

LEMMA JumpAdded ==
    ASSUME TypeOK, Apart, frames # <<>>, NEW tag \in Jumps, NEW t \in Nat,
           code' = Branch(code, IP, tag, t)
    PROVE  Adds(JumpInst(tag, t))
<1>1. IP \in Blocks
    BY HereAreBlocks
<1>2. t # NoBlock => [op |-> tag, to |-> {t}] \in JumpInst(tag, t)
    BY DEF JumpInst
<1>3. Grown(code', JumpInst(tag, t))
    BY <1>1, <1>2, CodeGrown, BranchGrown
<1> QED
    BY <1>3, GrownAdds

LEMMA LeavingAdded ==
    ASSUME TypeOK, Apart
    PROVE  /\ WhileBodyDone => Adds(JumpInst("br", condBB))
           /\ GenBreak \/ EndBreak => Adds(JumpInst("break", mergeBB))
           /\ GenContinue => Adds(JumpInst("continue", condBB))
           /\ GenFallthrough => Adds(JumpInst("fallthrough", NextBlock(Top.fn, IP)))
<1>1. mergeBB \in Nat /\ condBB \in Nat
    BY DEF TypeOK
<1>2. Jumps = {"br", "break", "continue", "fallthrough"}
    BY DEF Jumps
<1>3. ASSUME WhileBodyDone PROVE Adds(JumpInst("br", condBB))
    BY <1>1, <1>2, <1>3, JumpAdded DEF WhileBodyDone, At
<1>4. ASSUME GenBreak \/ EndBreak PROVE Adds(JumpInst("break", mergeBB))
    BY <1>1, <1>2, <1>4, JumpAdded DEF GenBreak, EndBreak, At, Stating, Jump
<1>5. ASSUME GenContinue PROVE Adds(JumpInst("continue", condBB))
    BY <1>1, <1>2, <1>5, JumpAdded DEF GenContinue, Stating, Jump
<1>6. ASSUME GenFallthrough PROVE Adds(JumpInst("fallthrough", NextBlock(Top.fn, IP)))
    <2>1. frames # <<>> /\ code' = Branch(code, IP, "fallthrough", NextBlock(Top.fn, IP))
        BY <1>6 DEF GenFallthrough, Stating, Jump
    <2>2. NextBlock(Top.fn, IP) \in Nat
        BY <2>1, NextBlockTyped
    <2> QED
        BY <1>2, <2>1, <2>2, JumpAdded
<1> QED
    BY <1>3, <1>4, <1>5, <1>6

\* The steps that begin, declare or find a function.
LEMMA FunctionAdds ==
    ASSUME TypeOK, GenReference \/ EnterVaInit \/ CodegenRoot
    PROVE  Adds({})
<1>1. ASSUME NEW f, NEW rest, EnterFunction(f, rest) PROVE Adds({})
    <2> DEFINE k == <<Empty>>
    <2>1. k \in Seq(Seq(Inst)) /\ code' = code \o k
        BY <1>1, EmptyTyped DEF EnterFunction
    <2>2. \A i \in 1..Len(k) : k[i] = <<>>
        BY DEF Empty
    <2> HIDE DEF k
    <2> QED
        BY <2>1, <2>2, CodeGrown, GrownAddsBlocks
<1>2. ASSUME NEW f, NEW rest, GenFunction(f, rest) PROVE Adds({})
    <2>1. CASE UNCHANGED code
        BY <2>1, CodeGrown, GrownAdds
    <2> QED
        BY <1>1, <1>2, <2>1 DEF GenFunction, Memo, DeclareExtern
<1> QED
    BY <1>1, <1>2 DEF GenReference, EnterVaInit, CodegenRoot
-----------------------------------------------------------------------------
(* Where break and continue go. *)

LEMMA LastAdded ==
    ASSUME TypeOK, TypeOK', NEW S, Adds(S), NEW b \in Blocks, Grows(b)
    PROVE  Appended(b) \in S
<1>1. code[b] \in Seq(Inst) /\ code'[b] \in Seq(Inst)
    BY ElementOfSeq DEF TypeOK, Blocks, Adds
<1>2. Len(code'[b]) \in (Len(code[b]) + 1)..Len(code'[b])
    BY <1>1, LenProperties DEF Grows
<1> QED
    BY <1>2 DEF Adds, Appended

\* No other step emits a break or a continue.
AddsNoExit == \E S : Adds(S) /\ \A i \in S : i.op \notin {"break", "continue"}

LEMMA OthersAddNoExit ==
    ASSUME TypeOK, Apart, [Next]_vars, ~(GenBreak \/ EndBreak \/ GenContinue)
    PROVE  AddsNoExit
<1>1. \A i \in {} : i.op \notin {"break", "continue"}
    OBVIOUS
<1>2. CASE UNCHANGED code
    <2>1. Adds({})
        BY <1>2, CodeGrown, GrownAdds
    <2> QED
        BY <1>1, <2>1 DEF AddsNoExit
<1>3. CASE \/ GenLeaf \/ BeginUse \/ NextOperand \/ CodeBlock \/ BeginIf \/ SwitchArm \/ SwitchDefault
           \/ BeginReturn \/ BeginBreak \/ BeginSwitch \/ GenReference \/ EnterVaInit \/ CodegenRoot
    <2>1. Adds({})
        BY <1>3, NoneAdded, FunctionAdds
    <2> QED
        BY <1>1, <2>1 DEF AddsNoExit
<1>4. CASE EndUse \/ EndVaInit \/ GenReturn \/ EndReturn \/ EndFunction
    <2>1. Adds({OpInst, Ret})
        BY <1>4, PlainAdded
    <2>2. \A i \in {OpInst, Ret} : i.op \notin {"break", "continue"}
        BY DEF OpInst, Ret
    <2> QED
        BY <2>1, <2>2 DEF AddsNoExit
<1>5. CASE IfCondDone \/ WhileCondDone \/ SwitchCondDone
    <2>1. ASSUME NEW tag \in {"condbr", "switch"}, NEW t, Adds({[op |-> tag, to |-> t]})
          PROVE  AddsNoExit
        BY <2>1 DEF AddsNoExit
    <2> QED
        BY <1>5, <2>1, IfCondAdded, WhileCondAdded, SwitchCondAdded
<1>6. CASE IfThenDoneElse \/ IfThenDone \/ SwitchArmDone \/ EndSwitch \/ IfElseDone
    <2>1. Adds({Br(Top.merge)}) \/ Adds({Br(Top.merge), Phi})
        BY <1>6, MergeAdded, PhiAdded
    <2>2. \A i \in {Br(Top.merge), Phi} : i.op \notin {"break", "continue"}
        BY DEF Br, Phi
    <2> QED
        BY <2>1, <2>2 DEF AddsNoExit
<1>7. CASE BeginWhile
    <2>1. Adds({Br(New(1))})
        BY <1>7, BeginWhileAdded
    <2>2. \A i \in {Br(New(1))} : i.op \notin {"break", "continue"}
        BY DEF Br
    <2> QED
        BY <2>1, <2>2 DEF AddsNoExit
<1>8. CASE WhileBodyDone \/ GenFallthrough
    <2>1. \E t : Adds(JumpInst("br", t)) \/ Adds(JumpInst("fallthrough", t))
        BY <1>8, LeavingAdded
    <2>2. \A t : /\ \A i \in JumpInst("br", t) : i.op \notin {"break", "continue"}
                 /\ \A i \in JumpInst("fallthrough", t) : i.op \notin {"break", "continue"}
        BY DEF JumpInst
    <2> QED
        BY <2>1, <2>2 DEF AddsNoExit
<1>9. CASE Finish \/ Stopped \/ UNCHANGED vars
    <2>1. UNCHANGED code
        BY <1>9 DEF Finish, Stopped, vars
    <2> QED
        BY <1>2, <2>1
<1> QED
    BY <1>3, <1>4, <1>5, <1>6, <1>7, <1>8, <1>9
    DEF Next, Expression, IfDef, WhileDef, SwitchDef, Leaving, Functions

LEMMA ExitsToLoop ==
    ASSUME TypeOK, TypeOK', LoopTargets, Apart, Sealing,
           GenBreak \/ EndBreak \/ GenContinue,
           NEW b \in Blocks, NEW i \in Depths, Grows(b), Innermost(i), InLoop(Top.fn)
    PROVE  /\ frames[i].fn = Top.fn
           /\ Appended(b).to = {IF Appended(b).op = "break" THEN frames[i].merge ELSE frames[i].cond}
<1>1. frames[i].fn = Top.fn
    <2>1. frames # <<>>
        BY DEF GenBreak, EndBreak, GenContinue, Stating, At
    <2>2. \E j \in Depths : frames[j].kind = "while" /\ frames[j].fn = Top.fn
        BY DEF InLoop, Depths
    <2> QED
        BY <2>1, <2>2, InnermostOwn DEF Depths
<1>2. ASSUME condBB # NoBlock \/ mergeBB # NoBlock PROVE Targets(i)
    <2>1. PICK k \in Depths : Innermost(k) /\ Targets(k)
        BY <1>2 DEF LoopTargets, Depths
    <2>2. Len(frames) \in Nat
        BY LenProperties DEF TypeOK
    <2>3. ~(i < k) /\ ~(k < i)
        BY <2>1, <2>2 DEF Innermost, Depths
    <2>4. i = k
        BY <2>3 DEF Depths
    <2> QED
        BY <2>1, <2>4
<1>3. CASE GenBreak \/ EndBreak
    <2>1. Appended(b) \in JumpInst("break", mergeBB)
        BY <1>3, LeavingAdded, LastAdded
    <2> QED
        BY <1>1, <1>2, <2>1 DEF JumpInst, Targets
<1>4. CASE GenContinue
    <2>1. Appended(b) \in JumpInst("continue", condBB)
        BY <1>4, LeavingAdded, LastAdded
    <2> QED
        BY <1>1, <1>2, <2>1 DEF JumpInst, Targets
<1> QED
    BY <1>3, <1>4

\* Also where functions are generated between a loop and a statement that leaves it, and
\* loops in the value of a break, each one leaves or repeats the loop it stands in.
THEOREM BreaksLeaveInnermost == Spec => BreakLeavesInnermostLoop
<1> DEFINE A == \A b \in 1..Len(code) : \A i \in 1..Len(frames) :
                   Grows(b) /\ Innermost(i) /\ InLoop(Top.fn)
                   /\ Appended(b).op \in {"break", "continue"} =>
                       /\ frames[i].fn = Top.fn
                       /\ Appended(b).to = {IF Appended(b).op = "break"
                                            THEN frames[i].merge ELSE frames[i].cond}
<1>1. TypeOK /\ LoopTargets /\ Apart /\ (Running => Sealing) /\ [Next]_vars => [A]_vars
    <2> SUFFICES ASSUME TypeOK, LoopTargets, Apart, Running => Sealing, [Next]_vars,
                        NEW b \in 1..Len(code), NEW i \in 1..Len(frames),
                        Grows(b), Innermost(i), InLoop(Top.fn),
                        Appended(b).op \in {"break", "continue"}
                 PROVE  /\ frames[i].fn = Top.fn
                        /\ Appended(b).to = {IF Appended(b).op = "break"
                                             THEN frames[i].merge ELSE frames[i].cond}
        OBVIOUS
    <2>1. TypeOK'
        BY StepTyped
    <2>2. b \in Blocks /\ i \in Depths
        BY DEF Blocks, Depths
    <2>3. CASE GenBreak \/ EndBreak \/ GenContinue
        <3>1. Running
            BY <2>3 DEF GenBreak, EndBreak, GenContinue, Stating, At
        <3> QED
            BY <2>1, <2>2, <2>3, <3>1, ExitsToLoop
    <2>4. CASE ~(GenBreak \/ EndBreak \/ GenContinue)
        <3>1. PICK S : Adds(S) /\ \A x \in S : x.op \notin {"break", "continue"}
            BY <2>4, OthersAddNoExit DEF AddsNoExit
        <3>2. Appended(b) \in S
            BY <2>1, <2>2, <3>1, LastAdded
        <3> QED
            BY <3>1, <3>2
    <2> QED
        BY <2>3, <2>4
<1>2. Spec => [][A]_vars
    BY <1>1, AlwaysApart, AlwaysComplete, PTL DEF Spec
<1> QED
    BY <1>2 DEF BreakLeavesInnermostLoop
-----------------------------------------------------------------------------
(* The blocks that a phi names. *)

HasPhi(s) == \E i \in 1..Len(s) : s[i].op = "phi"

\* No block is named before it is created.
AimsKnown == \A b \in Blocks : \A x \in Aims(code[b]) : x <= Len(code)

PhiRight(b) == \A i \in 1..Len(code[b]) : code[b][i].op = "phi" =>
    /\ Predecessors(b) \subseteq code[b][i].to
    /\ code[b][i].to \subseteq Blocks
    /\ \A p \in code[b][i].to \ Predecessors(b) : Leaves(p)

\* While an if is generated, the block it will merge in has no other predecessors than
\* those its phi will name; and no continue makes new ones for a phi.
FrameRight(fr) ==
    /\ fr.kind = "while" => ~HasPhi(code[fr.cond])
    /\ fr.kind = "if" /\ fr.stage = "then" => Predecessors(fr.merge) = {}
    /\ fr.kind = "if" /\ fr.stage = "else" =>
          /\ Predecessors(fr.merge) \subseteq {fr.post} /\ fr.post \in Blocks
          /\ fr.post \in Predecessors(fr.merge) \/ Leaves(fr.post)

AllPhisRight == \A b \in Blocks : PhiRight(b)
FramesRight  == \A fr \in Elems(frames) : FrameRight(fr)

\* The inductive invariant behind PhiMatchesPredecessors.
Phis == AimsKnown /\ AllPhisRight /\ FramesRight

LEMMA InstsAdded ==
    ASSUME NEW S, NEW s \in Seq(Inst), NEW t \in Seq(Inst), Len(s) <= Len(t),
           \A i \in 1..Len(s) : t[i] = s[i],
           \A i \in (Len(s) + 1)..Len(t) : t[i] \in S
    PROVE  /\ Aims(s) \subseteq Aims(t)
           /\ \A x \in Aims(t) : x \in Aims(s) \/ \E i \in S : i.op \in Terminators /\ x \in i.to
           /\ HasPhi(t) => HasPhi(s) \/ \E i \in S : i.op = "phi"
<1>1. Len(s) \in Nat /\ Len(t) \in Nat
    BY LenProperties
<1>2. /\ \A k \in 1..Len(s) : k \in 1..Len(t)
      /\ \A k \in 1..Len(t) : k \in 1..Len(s) \/ k \in (Len(s) + 1)..Len(t)
    BY <1>1
<1>3. ASSUME NEW x \in Aims(s) PROVE x \in Aims(t)
    <2>1. PICK k \in 1..Len(s) : s[k].op \in Terminators /\ x \in s[k].to
        BY <1>3 DEF Aims
    <2>2. k \in 1..Len(t) /\ t[k].op \in Terminators /\ x \in t[k].to
        BY <1>2, <2>1
    <2> QED
        BY <2>2 DEF Aims
<1>4. ASSUME NEW x \in Aims(t)
      PROVE  x \in Aims(s) \/ \E i \in S : i.op \in Terminators /\ x \in i.to
    <2>1. PICK k \in 1..Len(t) : t[k].op \in Terminators /\ x \in t[k].to
        BY <1>4 DEF Aims
    <2>2. CASE k \in 1..Len(s)
        <3>1. s[k].op \in Terminators /\ x \in s[k].to
            BY <2>1, <2>2
        <3> QED
            BY <2>2, <3>1 DEF Aims
    <2>3. CASE k \in (Len(s) + 1)..Len(t)
        BY <2>1, <2>3
    <2> QED
        BY <1>2, <2>2, <2>3
<1>5. HasPhi(t) => HasPhi(s) \/ \E i \in S : i.op = "phi"
    BY <1>2 DEF HasPhi
<1> QED
    BY <1>3, <1>4, <1>5

LEMMA PredAims == \A x : Predecessors(x) = {p \in Blocks : x \in Aims(code[p])}
BY DEF Predecessors, Successors, Aims, Blocks

LEMMA PredAimsNext == \A x : Predecessors(x)' = {p \in Blocks' : x \in Aims(code'[p])}
BY DEF Predecessors, Successors, Aims, Blocks

LEMMA BlocksAdded ==
    ASSUME TypeOK, TypeOK', NEW S, Adds(S)
    PROVE  /\ \A p \in Blocks :
                 /\ p \in Blocks' /\ Aims(code[p]) \subseteq Aims(code'[p])
                 /\ \A x \in Aims(code'[p]) :
                       x \in Aims(code[p]) \/ \E i \in S : i.op \in Terminators /\ x \in i.to
                 /\ HasPhi(code'[p]) => HasPhi(code[p]) \/ \E i \in S : i.op = "phi"
                 /\ Leaves(p) => Leaves(p)'
           /\ \A p \in Blocks' \ Blocks : p \in Fresh /\ code'[p] = <<>> /\ Aims(code'[p]) = {}
           /\ Len(code) \in Nat /\ Len(code') \in Nat /\ Len(code) <= Len(code')
<1>1. Len(code) \in Nat /\ Len(code') \in Nat
    BY LenProperties DEF TypeOK
<1>2. Blocks \subseteq Blocks'
    BY DEF Adds, Blocks
<1>3. Len(code) <= Len(code')
    BY <1>1, <1>2 DEF Blocks
<1>4. ASSUME NEW p \in Blocks
      PROVE  /\ p \in Blocks' /\ Aims(code[p]) \subseteq Aims(code'[p])
             /\ \A x \in Aims(code'[p]) :
                   x \in Aims(code[p]) \/ \E i \in S : i.op \in Terminators /\ x \in i.to
             /\ HasPhi(code'[p]) => HasPhi(code[p]) \/ \E i \in S : i.op = "phi"
             /\ Leaves(p) => Leaves(p)'
    <2>1. code[p] \in Seq(Inst) /\ code'[p] \in Seq(Inst) /\ p \in Blocks'
        BY <1>2, ElementOfSeq DEF TypeOK, Blocks
    <2>2. /\ Len(code[p]) <= Len(code'[p])
          /\ \A i \in 1..Len(code[p]) : code'[p][i] = code[p][i]
          /\ \A i \in (Len(code[p]) + 1)..Len(code'[p]) : code'[p][i] \in S
        BY DEF Adds
    <2>3. \A i \in 1..Len(code[p]) : i \in 1..Len(code'[p])
        BY <2>1, <2>2, LenProperties
    <2>4. Leaves(p) => Leaves(p)'
        BY <2>2, <2>3 DEF Leaves
    <2> DEFINE s == code[p]
               u == code'[p]
    <2>5. /\ s \in Seq(Inst) /\ u \in Seq(Inst) /\ Len(s) <= Len(u)
          /\ \A i \in 1..Len(s) : u[i] = s[i]
          /\ \A i \in (Len(s) + 1)..Len(u) : u[i] \in S
        BY <2>1, <2>2
    <2> HIDE DEF s, u
    <2>6. /\ Aims(s) \subseteq Aims(u)
          /\ \A x \in Aims(u) : x \in Aims(s) \/ \E i \in S : i.op \in Terminators /\ x \in i.to
          /\ HasPhi(u) => HasPhi(s) \/ \E i \in S : i.op = "phi"
        BY <2>5, InstsAdded
    <2> QED
        BY <2>1, <2>4, <2>6 DEF s, u
<1>5. ASSUME NEW p \in Blocks' \ Blocks PROVE p \in Fresh /\ code'[p] = <<>> /\ Aims(code'[p]) = {}
    <2>1. p \in Fresh
        BY <1>1 DEF Blocks, Fresh
    <2> QED
        BY <2>1, NothingYet DEF Adds
<1> QED
    BY <1>1, <1>3, <1>4, <1>5

\* A block that no new terminator names keeps its predecessors.
LEMMA PredKept ==
    ASSUME TypeOK, TypeOK', NEW S, Adds(S), NEW x,
           \A i \in S : i.op \in Terminators => x \notin i.to
    PROVE  Predecessors(x)' = Predecessors(x)
<1>1. \A p \in Blocks : p \in Blocks' /\ (x \in Aims(code'[p]) <=> x \in Aims(code[p]))
    BY BlocksAdded
<1>2. \A p \in Blocks' \ Blocks : x \notin Aims(code'[p])
    BY BlocksAdded
<1> QED
    BY <1>1, <1>2, PredAims, PredAimsNext

LEMMA PhiRightKept ==
    ASSUME TypeOK, TypeOK', NEW S, Adds(S), NEW b \in Blocks, PhiRight(b),
           \A i \in (Len(code[b]) + 1)..Len(code'[b]) : code'[b][i].op # "phi",
           HasPhi(code[b]) => \A i \in S : i.op \in Terminators => b \notin i.to
    PROVE  PhiRight(b)'
<1> SUFFICES ASSUME NEW i \in 1..Len(code'[b]), code'[b][i].op = "phi"
             PROVE  /\ Predecessors(b)' \subseteq code'[b][i].to
                    /\ code'[b][i].to \subseteq Blocks'
                    /\ \A p \in code'[b][i].to \ Predecessors(b)' : Leaves(p)'
    BY DEF PhiRight
<1>1. Len(code[b]) \in Nat /\ Len(code'[b]) \in Nat
    <2>1. code[b] \in Seq(Inst) /\ code'[b] \in Seq(Inst)
        BY BlocksAdded, ElementOfSeq DEF TypeOK, Blocks
    <2> QED
        BY <2>1, LenProperties
<1>2. i \in 1..Len(code[b])
    BY <1>1
<1>3. code[b][i] = code'[b][i]
    BY <1>2 DEF Adds
<1>4. Predecessors(b)' = Predecessors(b)
    <2>1. HasPhi(code[b])
        BY <1>2, <1>3 DEF HasPhi
    <2> QED
        BY <2>1, PredKept
<1>5. /\ Predecessors(b) \subseteq code[b][i].to /\ code[b][i].to \subseteq Blocks
      /\ \A p \in code[b][i].to \ Predecessors(b) : Leaves(p)
    BY <1>2, <1>3 DEF PhiRight
<1> QED
    BY <1>3, <1>4, <1>5, BlocksAdded

LEMMA FrameRightKept ==
    ASSUME TypeOK, TypeOK', NEW S, Adds(S), NEW fr, FrameRight(fr),
           fr.kind = "while" => (HasPhi(code'[fr.cond]) => HasPhi(code[fr.cond])),
           fr.kind = "if" /\ fr.stage \in {"then", "else"} =>
               \A i \in S : i.op \in Terminators => fr.merge \notin i.to
    PROVE  FrameRight(fr)'
<1>1. fr.kind = "if" /\ fr.stage \in {"then", "else"} =>
          Predecessors(fr.merge)' = Predecessors(fr.merge)
    BY PredKept
<1>2. fr.post \in Blocks => fr.post \in Blocks' /\ (Leaves(fr.post) => Leaves(fr.post)')
    BY BlocksAdded
<1> QED
    BY <1>1, <1>2 DEF FrameRight

\* A step may name block x without harm to the frames of R, which stay.
Neutral(x, R) ==
    \/ x \in {NoBlock} \cup Fresh
    \/ x \in Blocks /\ ~HasPhi(code[x]) /\ \A fr \in R : x \notin Pending(fr)

NeutralAdds(R) == \E S : Adds(S) /\ \A i \in S :
    i.op # "phi" /\ (i.op \in Terminators => \A x \in i.to : Neutral(x, R))

LEMMA PhiFrames ==
    ASSUME TypeOK, Apart, Sealing, NEW fr \in Elems(frames)
    PROVE  /\ Pending(fr) \subseteq Blocks
           /\ fr.kind = "if" /\ fr.stage \in {"then", "else"} => fr.merge \in Pending(fr)
           /\ fr.kind = "while" => fr.cond \in BlocksOf(fr.fn)
           /\ fr.fn \in Function /\ BlocksOf(fr.fn) \subseteq Blocks
           /\ \A f \in Function : Pending(fr) \cap BlocksOf(f) = {}
<1>1. PICK k \in Depths : fr = frames[k]
    BY DEF Elems, Depths
<1>2. fr.fn \in Function
    <2>1. fr \in FrameType
        BY <1>1, ElementOfSeq DEF TypeOK, Depths
    <2> QED
        BY <2>1 DEF FrameType
<1>3. Pending(fr) \subseteq Blocks /\ \A f \in Function : Pending(fr) \cap BlocksOf(f) = {}
    BY <1>1 DEF Apart, PendingApart
<1>4. fr.kind = "while" => fr.cond \in BlocksOf(fr.fn)
    BY <1>1 DEF Sealing, AllSeparate, Separate
<1>5. BlocksOf(fr.fn) \subseteq Blocks
    BY <1>2 DEF Apart, LaidOut
<1> QED
    BY <1>2, <1>3, <1>4, <1>5 DEF Pending

LEMMA AimsKept ==
    ASSUME TypeOK, TypeOK', AimsKnown, NEW S, Adds(S),
           \A i \in S : i.op \in Terminators => \A x \in i.to : x <= Len(code')
    PROVE  AimsKnown'
<1>1. Len(code) \in Nat /\ Len(code') \in Nat /\ Len(code) <= Len(code')
    BY BlocksAdded
<1>2. ASSUME NEW b \in Blocks', NEW x \in Aims(code'[b]) PROVE x <= Len(code')
    <2>1. b \in Blocks
        BY <1>2, BlocksAdded
    <2>2. CASE x \in Aims(code[b])
        <3>1. x <= Len(code)
            BY <2>1, <2>2 DEF AimsKnown
        <3>2. x \in Nat
            <4>1. PICK k \in 1..Len(code[b]) : x \in code[b][k].to
                BY <2>2 DEF Aims
            <4>2. code[b] \in Seq(Inst)
                BY <2>1, ElementOfSeq DEF TypeOK, Blocks
            <4>3. code[b][k] \in Inst
                BY <4>2, ElementOfSeq
            <4> QED
                BY <4>1, <4>3 DEF Inst
        <3> QED
            BY <1>1, <3>1, <3>2
    <2>3. CASE \E i \in S : i.op \in Terminators /\ x \in i.to
        BY <2>3
    <2> QED
        BY <2>1, <2>2, <2>3, BlocksAdded
<1> QED
    BY <1>2 DEF AimsKnown

\* Such a step keeps every phi right, and every frame that stays.
LEMMA NeutralKeeps ==
    ASSUME TypeOK, TypeOK', Apart, Sealing, Phis, NEW R, R \subseteq Elems(frames), NeutralAdds(R)
    PROVE  AimsKnown' /\ AllPhisRight' /\ \A fr \in R : FrameRight(fr)'
<1>1. PICK S : Adds(S) /\ \A i \in S :
          i.op # "phi" /\ (i.op \in Terminators => \A x \in i.to : Neutral(x, R))
    BY DEF NeutralAdds
<1>2. Len(code) \in Nat /\ Len(code') \in Nat /\ Len(code) <= Len(code')
    BY <1>1, BlocksAdded
<1>3. AimsKnown'
    <2>1. \A i \in S : i.op \in Terminators => \A x \in i.to : x <= Len(code')
        BY <1>1, <1>2 DEF Neutral, Fresh, Blocks, NoBlock
    <2> QED
        BY <1>1, <2>1, AimsKept DEF Phis
<1>4. ASSUME NEW b \in Blocks' PROVE PhiRight(b)'
    <2>1. CASE b \in Blocks
        <3>1. PhiRight(b)
            BY <2>1 DEF Phis, AllPhisRight
        <3>2. \A i \in (Len(code[b]) + 1)..Len(code'[b]) : code'[b][i].op # "phi"
            BY <1>1, <2>1 DEF Adds
        <3>3. HasPhi(code[b]) => \A i \in S : i.op \in Terminators => b \notin i.to
            BY <1>1, <1>2, <2>1 DEF Neutral, Fresh, Blocks, NoBlock
        <3> QED
            BY <1>1, <2>1, <3>1, <3>2, <3>3, PhiRightKept
    <2>2. CASE b \notin Blocks
        <3>1. code'[b] = <<>>
            BY <1>1, <2>2, BlocksAdded
        <3> QED
            BY <3>1 DEF PhiRight
    <2> QED
        BY <2>1, <2>2
<1>5. ASSUME NEW fr \in R PROVE FrameRight(fr)'
    <2>1. FrameRight(fr) /\ fr \in Elems(frames)
        BY DEF Phis, FramesRight
    <2>2. fr.kind = "while" => (HasPhi(code'[fr.cond]) => HasPhi(code[fr.cond]))
        BY <1>1, <2>1, PhiFrames, BlocksAdded
    <2>3. ASSUME fr.kind = "if" /\ fr.stage \in {"then", "else"}, NEW i \in S, i.op \in Terminators
          PROVE  fr.merge \notin i.to
        <3>1. fr.merge \in Pending(fr) /\ fr.merge \in Blocks
            BY <2>1, <2>3, PhiFrames
        <3>2. ~Neutral(fr.merge, R)
            BY <1>2, <3>1 DEF Neutral, Fresh, Blocks, NoBlock
        <3> QED
            BY <1>1, <2>3, <3>2
    <2> QED
        BY <1>1, <2>1, <2>2, <2>3, FrameRightKept
<1> QED
    BY <1>3, <1>4, <1>5 DEF AllPhisRight

\* A frame that asks nothing of the code.
Simple(fr) == fr.kind # "while" /\ (fr.kind = "if" => fr.stage = "cond")

LEMMA SimpleRight == \A fr : Simple(fr) => FrameRight(fr)'
BY DEF Simple, FrameRight

\* The step leaves frames of R on the stack, and simple ones.
Stacks(R) == \A fr \in Elems(frames') : fr \in R \/ Simple(fr)

LEMMA NeutralPhis ==
    ASSUME TypeOK, TypeOK', Apart, Sealing, Phis, NEW R, R \subseteq Elems(frames),
           NeutralAdds(R), Stacks(R)
    PROVE  Phis'
<1>1. AimsKnown' /\ AllPhisRight' /\ \A fr \in R : FrameRight(fr)'
    BY NeutralKeeps
<1>2. \A fr \in Elems(frames') : FrameRight(fr)'
    BY <1>1, SimpleRight DEF Stacks
<1>3. FramesRight'
    BY <1>2 DEF FramesRight, Elems
<1> QED
    BY <1>1, <1>3 DEF Phis

-----------------------------------------------------------------------------
(* The frames a step leaves. *)

LEMMA ElemsConcat ==
    ASSUME NEW X, NEW s \in Seq(X), NEW t \in Seq(X)
    PROVE  Elems(s \o t) \subseteq Elems(s) \cup Elems(t)
<1>1. /\ Len(s) \in Nat /\ Len(t) \in Nat /\ Len(s \o t) = Len(s) + Len(t)
      /\ \A i \in 1..(Len(s) + Len(t)) : (s \o t)[i] = IF i <= Len(s) THEN s[i] ELSE t[i - Len(s)]
    BY LenProperties, ConcatProperties
<1> SUFFICES ASSUME NEW i \in 1..(Len(s) + Len(t)) PROVE (s \o t)[i] \in Elems(s) \cup Elems(t)
    BY <1>1 DEF Elems
<1>2. CASE i <= Len(s)
    <2>1. i \in 1..Len(s) /\ (s \o t)[i] = s[i]
        BY <1>1, <1>2
    <2> QED
        BY <2>1 DEF Elems
<1>3. CASE ~(i <= Len(s))
    <2>1. i - Len(s) \in 1..Len(t) /\ (s \o t)[i] = t[i - Len(s)]
        BY <1>1, <1>3
    <2> QED
        BY <2>1 DEF Elems
<1> QED
    BY <1>2, <1>3

LEMMA ElemsFrames ==
    ASSUME TypeOK, frames # <<>>
    PROVE  /\ Elems(Under) \subseteq Elems(frames) /\ Top \in Elems(frames)
           /\ Elems(frames) \subseteq Elems(Under) \cup {Top}
           /\ \A fr \in Elems(Under) : \E i \in Depths : i # Len(frames) /\ fr = frames[i]
<1>1. /\ Len(frames) \in Nat \ {0} /\ Len(frames) \in 1..Len(frames) /\ Top = frames[Len(frames)]
      /\ Len(Under) = Len(frames) - 1 /\ \A i \in 1..Len(Under) : Under[i] = frames[i]
    <2>1. Len(frames) \in 1..Len(frames) /\ Len(frames) \in Nat /\ Top = frames[Len(frames)]
        BY TopTyped, LenProperties DEF TypeOK, Top
    <2>2. Len(Under) = Len(frames) - 1 /\ \A i \in 1..Len(Under) : Under[i] = frames[i]
        BY UnderTyped DEF TypeOK
    <2> QED
        BY <2>1, <2>2
<1>2. \A i \in 1..Len(Under) : i \in Depths /\ i # Len(frames)
    BY <1>1 DEF Depths
<1>3. \A i \in Depths : i = Len(frames) \/ i \in 1..Len(Under)
    BY <1>1 DEF Depths
<1> QED
    BY <1>1, <1>2, <1>3 DEF Elems, Depths

AllSimple(cs) == \A fr \in Elems(cs) : Simple(fr)

LEMMA SimpleFrame ==
    ASSUME NEW k \in Kinds \ {"while"}, NEW s, k = "if" => s = "cond", NEW f
    PROVE  Simple(Frame(k, s, f))
BY DEF Simple, Frame

LEMMA SimpleCalls ==
    ASSUME NEW f \in Function
    PROVE  /\ AllSimple(Block(f)) /\ AllSimple(Expr(f)) /\ AllSimple(<<>>)
           /\ \A cs \in ElseClause(f) : AllSimple(cs)
           /\ AllSimple(<<Frame("func", "init", f)>>)
           /\ AllSimple(<<Frame("func", "body", f)>> \o Block(f))
<1> DEFINE b == Frame("block", "body", f)
           s == Frame("stmt", "start", f)
           e == Frame("expr", "start", f)
           i == Frame("if", "cond", f)
           p == Frame("func", "init", f)
           q == Frame("func", "body", f)
<1>1. /\ Simple(b) /\ Simple(s) /\ Simple(e) /\ Simple(i) /\ Simple(p) /\ Simple(q)
    BY SimpleFrame DEF Kinds
<1>2. /\ Block(f) = <<b, s>> /\ Expr(f) = <<e>> /\ ElseClause(f) = {<<b, s>>, <<i>> \o <<e>>}
    BY DEF Block, Expr, ElseClause
<1> DEFINE X == {b, s, e, i, p, q}
<1>3. /\ <<b, s>> \in Seq(X) /\ <<e>> \in Seq(X) /\ <<i>> \in Seq(X) /\ <<p>> \in Seq(X)
      /\ <<q>> \in Seq(X) /\ <<>> \in Seq(X)
    OBVIOUS
<1>4. \A x \in X : Simple(x)
    BY <1>1
<1>5. p \in X /\ q \in X
    OBVIOUS
<1> HIDE DEF X, b, s, e, i
<1>6. ASSUME NEW t \in Seq(X) PROVE AllSimple(t)
    BY <1>4, ElementOfSeq DEF AllSimple, Elems
<1>7. <<i>> \o <<e>> \in Seq(X) /\ <<q>> \o <<b, s>> \in Seq(X)
    BY <1>3, ConcatTyped
<1> QED
    BY <1>2, <1>3, <1>6, <1>7

LEMMA SeqWider ==
    ASSUME NEW A, NEW B, A \subseteq B, NEW s \in Seq(A)
    PROVE  s \in Seq(B)
<1>1. Len(s) \in Nat /\ s \in [1..Len(s) -> A]
    BY LenProperties
<1>2. s \in [1..Len(s) -> B]
    BY <1>1
<1> QED
    BY <1>1, <1>2, SeqDef

LEMMA CallStacks ==
    ASSUME TypeOK, frames # <<>>, NEW fr, NEW cs \in Seq(FrameType),
           Call(fr, cs), AllSimple(cs)
    PROVE  \A g \in Elems(frames') : g \in Elems(Under) \/ g = fr \/ Simple(g)
<1> DEFINE X == FrameType \cup {fr}
<1>1. Under \in Seq(X) /\ cs \in Seq(X)
    BY InCall, SeqWider
<1>2. <<fr>> \in Seq(X)
    OBVIOUS
<1> HIDE DEF X
<1>3. Under \o <<fr>> \in Seq(X)
    BY <1>1, <1>2, ConcatTyped
<1>4. Elems((Under \o <<fr>>) \o cs) \subseteq Elems(Under \o <<fr>>) \cup Elems(cs)
    BY <1>1, <1>3, ElemsConcat
<1>5. Elems(Under \o <<fr>>) \subseteq Elems(Under) \cup Elems(<<fr>>)
    BY <1>1, <1>2, ElemsConcat
<1>6. Elems(<<fr>>) = {fr}
    BY DEF Elems
<1>7. frames' = (Under \o <<fr>>) \o cs
    BY DEF Call
<1> QED
    BY <1>4, <1>5, <1>6, <1>7 DEF AllSimple

LEMMA ReturnStacks ==
    ASSUME frames' = Under
    PROVE  Stacks(Elems(Under))
BY DEF Stacks

LEMMA SimpleStacks ==
    ASSUME TypeOK, frames # <<>>, NEW fr, Simple(fr), NEW cs \in Seq(FrameType),
           Call(fr, cs), AllSimple(cs)
    PROVE  Stacks(Elems(Under))
BY CallStacks DEF Stacks

LEMMA CallsHere ==
    ASSUME TypeOK, frames # <<>>
    PROVE  /\ Block(Top.fn) \in Seq(FrameType) /\ AllSimple(Block(Top.fn))
           /\ Expr(Top.fn) \in Seq(FrameType) /\ AllSimple(Expr(Top.fn))
           /\ <<>> \in Seq(FrameType) /\ AllSimple(<<>>)
BY InCall, SimpleCalls, EmptySeq

\* The top frame, whatever is noted in it, is simple unless it is of an if or a loop.
LEMMA SimpleTop ==
    ASSUME TypeOK, frames # <<>>, Top.kind \notin {"if", "while"}, NEW s, NEW a, NEW v
    PROVE  /\ Simple([Top EXCEPT !.stage = s]) /\ Simple([Top EXCEPT !.val = v])
           /\ Simple([Top EXCEPT !.stage = s, !.arms = a])
BY InCall DEF Simple, FrameType

LEMMA PlainStacks ==
    ASSUME TypeOK,
           \/ GenLeaf \/ EndBlock \/ EndUse \/ GenReturn \/ EndReturn \/ EndFunction
           \/ IfThenDone \/ EndSwitch \/ IfElseDone \/ WhileBodyDone
           \/ GenBreak \/ EndBreak \/ GenContinue
           \/ BeginUse \/ BeginIf \/ BeginReturn \/ BeginBreak \/ BeginSwitch
           \/ NextOperand \/ SwitchArm \/ SwitchDefault \/ EndVaInit \/ SwitchArmDone \/ SwitchCondDone
           \/ BeginBlock \/ NextStatement
    PROVE  frames # <<>> /\ Stacks(Elems(Under))
<1>1. CASE \/ GenLeaf \/ EndBlock \/ EndUse \/ GenReturn \/ EndReturn \/ EndFunction
           \/ IfThenDone \/ EndSwitch \/ IfElseDone \/ WhileBodyDone
           \/ GenBreak \/ EndBreak \/ GenContinue
    <2>1. frames # <<>> /\ frames' = Under
        BY <1>1 DEF GenLeaf, EndBlock, EndUse, GenReturn, EndReturn, EndFunction, IfThenDone,
                    EndSwitch, IfElseDone, WhileBodyDone, GenBreak, EndBreak, GenContinue,
                    Return, Choosing, Stating, At
    <2> QED
        BY <2>1, ReturnStacks
<1>2. CASE BeginUse \/ BeginIf \/ BeginReturn \/ BeginBreak
    <2>1. PICK k \in {"use", "if", "return", "break"} : Call(Frame(k, "cond", Top.fn), Expr(Top.fn))
        BY <1>2 DEF BeginUse, BeginIf, BeginReturn, BeginBreak
    <2>2. frames # <<>>
        BY <1>2 DEF BeginUse, BeginIf, BeginReturn, BeginBreak, Choosing, Stating
    <2>3. Simple(Frame(k, "cond", Top.fn))
        BY SimpleFrame DEF Kinds
    <2> QED
        BY <2>1, <2>2, <2>3, CallsHere, SimpleStacks
<1>3. CASE BeginSwitch
    <2> DEFINE fr == [Frame("switch", "cond", Top.fn) EXCEPT !.alt = New(1), !.merge = New(2)]
    <2>1. frames # <<>> /\ Call(fr, Expr(Top.fn))
        BY <1>3 DEF BeginSwitch, Choosing
    <2>2. Simple(fr)
        BY DEF Simple, Frame
    <2> HIDE DEF fr
    <2> QED
        BY <2>1, <2>2, CallsHere, SimpleStacks
<1>4. CASE NextOperand \/ SwitchArm \/ SwitchDefault \/ EndVaInit \/ SwitchArmDone \/ SwitchCondDone
    <2>1. frames # <<>> /\ Top.kind \notin {"if", "while"}
        BY <1>4 DEF NextOperand, SwitchArm, SwitchDefault, EndVaInit, SwitchArmDone, SwitchCondDone, At
    <2>2. \E fr : \E cs \in {Block(Top.fn), Expr(Top.fn), <<>>} : Simple(fr) /\ Call(fr, cs)
        <3>1. CASE NextOperand
            BY <2>1, <3>1, SimpleTop DEF NextOperand
        <3>2. CASE SwitchArm
            <4> DEFINE a == Tail(Top.arms)
                       fr == [Top EXCEPT !.stage = "arm", !.arms = Tail(@)]
            <4>1. fr = [Top EXCEPT !.stage = "arm", !.arms = a]
                OBVIOUS
            <4>2. Call(fr, Block(Top.fn))
                BY <3>2 DEF SwitchArm
            <4> HIDE DEF a, fr
            <4>3. Simple(fr)
                BY <2>1, <4>1, SimpleTop
            <4> QED
                BY <4>2, <4>3
        <3>3. CASE SwitchDefault
            BY <2>1, <3>3, SimpleTop DEF SwitchDefault
        <3>4. CASE EndVaInit
            BY <2>1, <3>4, SimpleTop DEF EndVaInit
        <3>5. CASE SwitchArmDone
            BY <2>1, <3>5, SimpleTop DEF SwitchArmDone
        <3>6. CASE SwitchCondDone
            BY <2>1, <3>6, SimpleTop DEF SwitchCondDone
        <3> QED
            BY <1>4, <3>1, <3>2, <3>3, <3>4, <3>5, <3>6
    <2> QED
        BY <2>1, <2>2, CallsHere, SimpleStacks
<1>5. CASE BeginBlock
    <2>1. frames # <<>> /\ frames' = Under \o Block(Top.fn)
        BY <1>5 DEF BeginBlock, Choosing
    <2>2. Elems(frames') \subseteq Elems(Under) \cup Elems(Block(Top.fn))
        BY <2>1, InCall, ElemsConcat
    <2> QED
        BY <2>1, <2>2, CallsHere DEF Stacks, AllSimple
<1>6. CASE NextStatement
    <2> DEFINE fr == Frame("stmt", "start", Top.fn)
    <2>1. frames # <<>> /\ Top.kind = "block" /\ frames' = Append(frames, fr)
        BY <1>6 DEF NextStatement, At
    <2>2. fr \in FrameType /\ Simple(fr)
        BY <2>1, InCall, FrameTyped, SimpleFrame DEF Kinds, Stages
    <2> HIDE DEF fr
    <2>3. <<fr>> \in Seq(FrameType) /\ frames' = frames \o <<fr>>
        BY <2>1, <2>2, AppendIsConcat DEF TypeOK
    <2>4. Elems(frames') \subseteq Elems(frames) \cup Elems(<<fr>>)
        BY <2>3, ElemsConcat DEF TypeOK
    <2>5. Elems(<<fr>>) = {fr} /\ Simple(Top)
        BY <2>1 DEF Elems, Simple
    <2> QED
        BY <2>1, <2>2, <2>4, <2>5, ElemsFrames DEF Stacks
<1> QED
    BY <1>1, <1>2, <1>3, <1>4, <1>5, <1>6

\* The steps that begin, declare or find a function leave all frames but the top one, if
\* that is still to be chosen.
LEMMA FunctionStacks ==
    ASSUME TypeOK, GenReference \/ EnterVaInit \/ CodegenRoot
    PROVE  Stacks(Elems(frames))
<1>1. ASSUME NEW f \in Function, NEW rest \in Seq(FrameType), Elems(rest) \subseteq Elems(frames),
             EnterFunction(f, rest)
      PROVE  Stacks(Elems(frames))
    <2> DEFINE cs == IF f \in Variadic THEN <<Frame("func", "init", f)>>
                     ELSE <<Frame("func", "body", f)>> \o Block(f)
    <2>1. frames' = rest \o cs
        BY <1>1 DEF EnterFunction
    <2>2. AllSimple(cs)
        BY SimpleCalls
    <2>3. cs \in Seq(FrameType)
        <3>1. <<Frame("func", "init", f)>> \in Seq(FrameType) /\ <<Frame("func", "body", f)>> \in Seq(FrameType)
            BY FrameTyped DEF Kinds, Stages
        <3> QED
            BY <3>1, BlockTyped, ConcatTyped
    <2> HIDE DEF cs
    <2>4. Elems(frames') \subseteq Elems(rest) \cup Elems(cs)
        BY <2>1, <2>3, ElemsConcat
    <2> QED
        BY <1>1, <2>2, <2>4 DEF Stacks, AllSimple
<1>2. ASSUME NEW f \in Function, NEW rest \in Seq(FrameType), Elems(rest) \subseteq Elems(frames),
             GenFunction(f, rest)
      PROVE  Stacks(Elems(frames))
    <2>1. CASE frames' = rest
        BY <1>2, <2>1 DEF Stacks
    <2> QED
        BY <1>1, <1>2, <2>1 DEF GenFunction, Memo, DeclareExtern
<1>3. CASE GenReference
    <2>1. frames # <<>> /\ \E f \in Function : GenFunction(f, Under)
        BY <1>3 DEF GenReference, Choosing
    <2> QED
        BY <1>2, <2>1, InCall, ElemsFrames
<1>4. CASE EnterVaInit
    BY <1>1, <1>4, FunctionAssumption DEF EnterVaInit, TypeOK
<1>5. CASE CodegenRoot
    <2>1. Elems(<<>>) = {} /\ <<>> \in Seq(FrameType)
        BY EmptySeq DEF Elems
    <2> QED
        BY <1>2, <1>5, <2>1, FunctionAssumption DEF CodegenRoot
<1> QED
    BY <1>3, <1>4, <1>5
-----------------------------------------------------------------------------
(* What the steps name. *)

LEMMA AttachedNeutral ==
    ASSUME TypeOK, Apart, Sealing, frames # <<>>,
           NEW f \in Function, NEW x \in BlocksOf(f), ~HasPhi(code[x])
    PROVE  Neutral(x, Elems(Under))
<1>1. x \in Blocks
    BY DEF Apart, LaidOut
<1>2. \A fr \in Elems(Under) : x \notin Pending(fr)
    BY ElemsFrames, PhiFrames
<1> QED
    BY <1>1, <1>2 DEF Neutral

LEMMA PendingNeutral ==
    ASSUME TypeOK, Apart, Sealing, frames # <<>>, NEW x \in Pending(Top)
    PROVE  Neutral(x, Elems(Under)) /\ x \in Blocks /\ code[x] = <<>>
<1>1. x \in Blocks /\ code[x] = <<>>
    BY HereIsReady
<1>2. ASSUME NEW fr \in Elems(Under) PROVE x \notin Pending(fr)
    <2>1. PICK i \in Depths : i # Len(frames) /\ fr = frames[i]
        BY ElemsFrames
    <2>2. Len(frames) \in Depths /\ Top = frames[Len(frames)]
        BY HereIsOwn
    <2>3. Pending(frames[i]) \cap Pending(frames[Len(frames)]) = {}
        BY <2>1, <2>2 DEF Apart, PendingApart
    <2> QED
        BY <2>1, <2>2, <2>3
<1> QED
    BY <1>1, <1>2 DEF Neutral, HasPhi

LEMMA TargetsNeutral ==
    ASSUME TypeOK, LoopTargets, Apart, Sealing, Phis, frames # <<>>
    PROVE  Neutral(mergeBB, Elems(Under)) /\ Neutral(condBB, Elems(Under))
<1>1. CASE condBB = NoBlock /\ mergeBB = NoBlock
    BY <1>1 DEF Neutral
<1>2. CASE \E i \in 1..Len(frames) : Innermost(i) /\ Targets(i)
    <2>1. PICK i \in Depths : frames[i].kind = "while" /\ condBB = frames[i].cond /\ mergeBB = frames[i].merge
        BY <1>2 DEF Innermost, Targets, Depths
    <2>2. frames[i] \in Elems(frames) /\ frames[i].fn \in Function
        <3>1. frames[i] \in Elems(frames)
            BY DEF Elems, Depths
        <3> QED
            BY <3>1, PhiFrames
    <2>3. condBB \in BlocksOf(frames[i].fn) /\ ~HasPhi(code[condBB])
        BY <2>1, <2>2, PhiFrames DEF Phis, FramesRight, FrameRight
    <2>4. mergeBB \in BlocksOf(frames[i].fn) /\ ~HasPhi(code[mergeBB])
        <3>1. mergeBB \in Unfilled(frames[i])
            BY <2>1 DEF Unfilled
        <3>2. code[mergeBB] = <<>> /\ mergeBB \in BlocksOf(frames[i].fn)
            BY <3>1, UnfilledHeld DEF Sealing, Blank
        <3> QED
            BY <3>2 DEF HasPhi
    <2> QED
        BY <2>2, <2>3, <2>4, AttachedNeutral
<1> QED
    BY <1>1, <1>2 DEF LoopTargets

LEMMA NothingNamed == ASSUME NEW R, Adds({}) PROVE NeutralAdds(R)
BY DEF NeutralAdds

\* The steps that leave only simple frames on top name blocks without harm.
LEMMA PlainNames ==
    ASSUME TypeOK, LoopTargets, Apart, Sealing, Phis, frames # <<>>,
           \/ GenLeaf \/ EndBlock \/ EndUse \/ GenReturn \/ EndReturn \/ EndFunction
           \/ IfThenDone \/ EndSwitch \/ WhileBodyDone
           \/ GenBreak \/ EndBreak \/ GenContinue
           \/ BeginUse \/ BeginIf \/ BeginReturn \/ BeginBreak \/ BeginSwitch
           \/ NextOperand \/ SwitchArm \/ SwitchDefault \/ EndVaInit \/ SwitchArmDone \/ SwitchCondDone
           \/ BeginBlock \/ NextStatement
    PROVE  NeutralAdds(Elems(Under))
<1>1. CASE \/ GenLeaf \/ EndBlock \/ BeginUse \/ BeginIf \/ BeginReturn \/ BeginBreak \/ BeginSwitch
           \/ NextOperand \/ SwitchArm \/ SwitchDefault \/ BeginBlock \/ NextStatement
    BY <1>1, NoneAdded, NothingNamed DEF CodeBlock
<1>2. CASE EndUse \/ EndVaInit \/ GenReturn \/ EndReturn \/ EndFunction
    <2>1. Adds({OpInst, Ret})
        BY <1>2, PlainAdded
    <2>2. /\ OpInst.op \notin Terminators \cup {"phi"}
          /\ Ret.op # "phi" /\ Ret.to = {}
        BY DEF OpInst, Ret, Terminators, Jumps
    <2> QED
        BY <2>1, <2>2 DEF NeutralAdds
<1>3. CASE IfThenDone \/ SwitchArmDone \/ EndSwitch
    <2>1. Adds({Br(Top.merge)})
        BY <1>3, MergeAdded
    <2>2. Top.merge \in Pending(Top)
        BY <1>3 DEF IfThenDone, SwitchArmDone, EndSwitch, At, Pending
    <2>3. Neutral(Top.merge, Elems(Under))
        BY <2>2, PendingNeutral
    <2>4. Br(Top.merge).op # "phi" /\ Br(Top.merge).to = {Top.merge}
        BY DEF Br
    <2> QED
        BY <2>1, <2>3, <2>4 DEF NeutralAdds
<1>4. CASE SwitchCondDone
    <2>1. PICK to : to \subseteq {Top.alt} \cup Fresh /\ Adds({[op |-> "switch", to |-> to]})
        BY <1>4, SwitchCondAdded
    <2>2. Top.alt \in Pending(Top)
        BY <1>4 DEF SwitchCondDone, At, Pending
    <2>3. \A x \in to : Neutral(x, Elems(Under))
        BY <2>1, <2>2, PendingNeutral DEF Neutral
    <2> QED
        BY <2>1, <2>3 DEF NeutralAdds
<1>5. CASE WhileBodyDone \/ GenBreak \/ EndBreak \/ GenContinue
    <2>1. \E tag \in Jumps : \E t \in {mergeBB, condBB} : Adds(JumpInst(tag, t))
        BY <1>5, LeavingAdded DEF Jumps
    <2>2. PICK tag \in Jumps, t \in {mergeBB, condBB} : Adds(JumpInst(tag, t))
        BY <2>1
    <2>3. \A i \in JumpInst(tag, t) : i.op # "phi" /\ i.to = {t}
        BY DEF JumpInst, Jumps
    <2>4. Neutral(t, Elems(Under))
        BY TargetsNeutral
    <2> QED
        BY <2>2, <2>3, <2>4 DEF NeutralAdds
<1> QED
    BY <1>1, <1>2, <1>3, <1>4, <1>5

LEMMA PlainPhis ==
    ASSUME TypeOK, TypeOK', LoopTargets, Apart, Sealing, Phis,
           \/ GenLeaf \/ EndBlock \/ EndUse \/ GenReturn \/ EndReturn \/ EndFunction
           \/ IfThenDone \/ EndSwitch \/ WhileBodyDone
           \/ GenBreak \/ EndBreak \/ GenContinue
           \/ BeginUse \/ BeginIf \/ BeginReturn \/ BeginBreak \/ BeginSwitch
           \/ NextOperand \/ SwitchArm \/ SwitchDefault \/ EndVaInit \/ SwitchArmDone \/ SwitchCondDone
           \/ BeginBlock \/ NextStatement
    PROVE  Phis'
<1>1. frames # <<>> /\ Stacks(Elems(Under))
    BY PlainStacks
<1>2. NeutralAdds(Elems(Under))
    BY <1>1, PlainNames
<1>3. Elems(Under) \subseteq Elems(frames)
    BY <1>1, ElemsFrames
<1> QED
    BY <1>1, <1>2, <1>3, NeutralPhis

LEMMA FunctionPhis ==
    ASSUME TypeOK, TypeOK', Apart, Sealing, Phis, GenReference \/ EnterVaInit \/ CodegenRoot
    PROVE  Phis'
<1>1. Stacks(Elems(frames)) /\ NeutralAdds(Elems(frames))
    BY FunctionStacks, FunctionAdds, NothingNamed
<1> QED
    BY <1>1, NeutralPhis

-----------------------------------------------------------------------------
(* The steps of an if and of a loop. *)

\* A step that leaves one frame to look at on top.
LEMMA OnePhis ==
    ASSUME TypeOK, TypeOK', Apart, Sealing, Phis, frames # <<>>, NeutralAdds(Elems(Under)),
           NEW fr, NEW cs \in Seq(FrameType), Call(fr, cs), AllSimple(cs), FrameRight(fr)'
    PROVE  Phis'
<1>1. AimsKnown' /\ AllPhisRight' /\ \A g \in Elems(Under) : FrameRight(g)'
    BY ElemsFrames, NeutralKeeps
<1>2. \A g \in Elems(frames') : FrameRight(g)'
    BY <1>1, CallStacks, SimpleRight
<1>3. FramesRight'
    BY <1>2 DEF FramesRight, Elems
<1> QED
    BY <1>1, <1>3 DEF Phis

LEMMA FreshKnown ==
    ASSUME TypeOK, TypeOK', Phis, NEW S, Adds(S), NEW x \in Fresh,
           \A i \in S : i.op \in Terminators => x \notin i.to
    PROVE  Predecessors(x)' = {}
<1>1. Predecessors(x)' = Predecessors(x)
    BY PredKept
<1>2. Len(code) \in Nat /\ Len(code') \in Nat
    BY BlocksAdded
<1>3. ~(x <= Len(code))
    BY <1>2 DEF Fresh
<1>4. \A b \in Blocks : x \notin Aims(code[b])
    BY <1>3 DEF Phis, AimsKnown
<1> QED
    BY <1>1, <1>4, PredAims

LEMMA ThreeFresh ==
    ASSUME TypeOK, NEW c \in Seq(Seq(Inst)), Len(c) = Len(code),
           code' = c \o <<Empty, Empty, Empty>>
    PROVE  /\ New(1) \in Fresh /\ New(2) \in Fresh /\ New(3) \in Fresh
           /\ New(3) \notin {New(1), New(2)}
<1> DEFINE k == <<Empty, Empty, Empty>>
<1>1. k \in Seq(Seq(Inst)) /\ Len(code) \in Nat /\ code' = c \o k /\ Len(k) = 3
    BY EmptyTyped, LenProperties DEF TypeOK
<1> HIDE DEF k
<1>2. Len(c \o k) = Len(c) + Len(k)
    BY <1>1, ConcatProperties
<1>3. Len(code') = Len(code) + 3
    BY <1>1, <1>2
<1> QED
    BY <1>1, <1>3 DEF New, Fresh

LEMMA IfCondPhis ==
    ASSUME TypeOK, TypeOK', Apart, Sealing, Phis, IfCondDone
    PROVE  Phis'
<1> DEFINE i == [op |-> "condbr", to |-> {New(1), New(2)}]
<1>1. frames # <<>> /\ Top.kind = "if" /\ Top \in FrameType
    BY InCall DEF IfCondDone, At
<1>2. Adds({i})
    BY IfCondAdded
<1>3. New(1) \in Fresh /\ New(2) \in Fresh /\ New(3) \in Fresh /\ New(3) \notin {New(1), New(2)}
    <2>1. i \in Inst
        BY NewTyped DEF TypeOK, Inst, Terminators
    <2> HIDE DEF i
    <2>2. Emit(code, IP, i) \in Seq(Seq(Inst)) /\ Len(Emit(code, IP, i)) = Len(code)
        BY <2>1, EmitTyped DEF TypeOK
    <2> QED
        BY <2>2, ThreeFresh DEF IfCondDone, i
<1>4. NeutralAdds(Elems(Under))
    BY <1>2, <1>3 DEF NeutralAdds, Neutral
<1>5. PICK m : m = New(3)
    OBVIOUS
<1>6. PICK fr : fr = [Top EXCEPT !.stage = "then", !.alt = New(2), !.merge = m]
    OBVIOUS
<1>7. Call(fr, Block(Top.fn))
    BY <1>5, <1>6 DEF IfCondDone
<1>8. fr.kind = "if" /\ fr.stage = "then" /\ fr.merge = m
    BY <1>1, <1>6 DEF FrameType
<1>9. \A j \in {i} : j.op \in Terminators => m \notin j.to
    BY <1>3, <1>5
<1> HIDE DEF i
<1>10. Predecessors(m)' = {}
    BY <1>2, <1>3, <1>5, <1>9, FreshKnown
<1>11. FrameRight(fr)'
    BY <1>8, <1>10 DEF FrameRight
<1> QED
    BY <1>1, <1>4, <1>7, <1>11, CallsHere, OnePhis

\* The branch that ends a clause of an if.
LEMMA MergeCode ==
    ASSUME TypeOK, Apart, Sealing, frames # <<>>, Top.kind = "if", NEW m \in Pending(Top),
           NEW p, p = IP, NEW c, c = Branch(code, p, "br", m)
    PROVE  /\ c \in Seq(Seq(Inst)) /\ Len(c) = Len(code)
           /\ p \in Blocks /\ m \in Blocks /\ p # m /\ code[m] = <<>> /\ code[p] \in Seq(Inst)
           /\ \A x \in Blocks : x # p => c[x] = code[x]
           /\ (c = code /\ Leaves(p)) \/ (c[p] = Append(code[p], Br(m)) /\ m \in Aims(c[p]))
<1>1. ~Between(Top)
    BY DEF Between
<1>2. /\ p \in Blocks /\ p # m /\ m \in Blocks /\ code[m] = <<>> /\ Open(code, p)
    BY <1>1, HereIsReady
<1>3. code[p] \in Seq(Inst) /\ m # NoBlock /\ code \in Seq(Seq(Inst))
    BY <1>2, ElementOfSeq DEF TypeOK, Blocks, NoBlock
<1>4. Br(m) \in Inst /\ Br(m).op \in Terminators /\ m \in Br(m).to
    <2>1. m \in Nat
        BY <1>2 DEF Blocks
    <2> QED
        BY <2>1 DEF Br, Inst, Terminators, Jumps
<1>5. CASE Terminated(code, p)
    <2>1. c = code
        BY <1>5 DEF Branch
    <2>2. code[p][Len(code[p])].op \in LeavesOps /\ code[p] # <<>>
        BY <1>2, <1>5 DEF Terminated, Open, Free, Closed
    <2>3. Len(code[p]) \in 1..Len(code[p])
        BY <1>3, <2>2, EmptySeq, LenProperties
    <2>4. Leaves(p)
        BY <2>2, <2>3 DEF Leaves
    <2> QED
        BY <1>2, <1>3, <2>1, <2>4
<1>6. CASE ~Terminated(code, p)
    <2>1. c = Emit(code, p, Br(m))
        BY <1>3, <1>6 DEF Branch, Br
    <2>2. c \in Seq(Seq(Inst)) /\ Len(c) = Len(code)
        <3>1. PICK i : i = Br(m)
            OBVIOUS
        <3>2. i \in Inst /\ c = Emit(code, p, i)
            BY <1>4, <2>1, <3>1
        <3>3. code \in Seq(Seq(Inst))
            BY <1>3
        <3>4. Emit(code, p, i) \in Seq(Seq(Inst)) /\ Len(Emit(code, p, i)) = Len(code)
            BY <3>2, <3>3, EmitTyped
        <3> QED
            BY <3>2, <3>4
    <2>3. c[p] = Append(code[p], Br(m)) /\ \A x \in Blocks : x # p => c[x] = code[x]
        <3>1. PICK i : i = Br(m)
            OBVIOUS
        <3>2. c = [code EXCEPT ![p] = Append(code[p], i)]
            BY <2>1, <3>1 DEF Emit
        <3>3. code \in Seq(Seq(Inst)) /\ p \in 1..Len(code)
            BY <1>2, <1>3 DEF Blocks
        <3>4. c[p] = Append(code[p], i) /\ \A x \in 1..Len(code) : x # p => c[x] = code[x]
            BY <3>2, <3>3
        <3> QED
            BY <3>1, <3>4 DEF Blocks
    <2>4. Len(c[p]) \in 1..Len(c[p]) /\ c[p][Len(c[p])] = Br(m)
        <3> DEFINE i == Br(m)
                   s == code[p]
        <3>1. s \in Seq(Inst) /\ i \in Inst /\ c[p] = Append(s, i)
            BY <1>3, <1>4, <2>3
        <3> HIDE DEF i, s
        <3>2. Len(Append(s, i)) = Len(s) + 1 /\ Append(s, i)[Len(s) + 1] = i /\ Len(s) \in Nat
            BY <3>1, AppendProperties, LenProperties
        <3>3. Len(s) + 1 \in 1..(Len(s) + 1)
            BY <3>2
        <3> QED
            BY <3>1, <3>2, <3>3 DEF i
    <2>5. m \in Aims(c[p])
        BY <1>4, <2>4 DEF Aims
    <2> QED
        BY <1>2, <1>3, <2>2, <2>3, <2>5
<1> QED
    BY <1>5, <1>6

LEMMA MergeNeutral ==
    ASSUME TypeOK, Apart, Sealing, frames # <<>>, NEW m \in Pending(Top), Adds({Br(m)})
    PROVE  NeutralAdds(Elems(Under))
<1>1. Neutral(m, Elems(Under)) /\ Br(m).to = {m} /\ Br(m).op # "phi"
    BY PendingNeutral DEF Br
<1> QED
    BY <1>1 DEF NeutralAdds

LEMMA IfThenPhis ==
    ASSUME TypeOK, TypeOK', Apart, Sealing, Phis, IfThenDoneElse
    PROVE  Phis'
<1>1. /\ frames # <<>> /\ Top.kind = "if" /\ Top.stage = "then" /\ Top \in FrameType
      /\ Top \in Elems(frames) /\ Top.fn \in Function
    BY InCall, ElemsFrames DEF IfThenDoneElse, At
<1>2. PICK m : m = Top.merge
    OBVIOUS
<1>3. PICK p : p = IP
    OBVIOUS
<1>4. PICK v : v = ret
    OBVIOUS
<1>5. PICK fr : fr = [Top EXCEPT !.stage = "else", !.post = p, !.val = v]
    OBVIOUS
<1>6. PICK cs \in ElseClause(Top.fn) : Call(fr, cs)
    BY <1>3, <1>4, <1>5 DEF IfThenDoneElse
<1>7. cs \in Seq(FrameType) /\ AllSimple(cs)
    BY <1>1, ElseClauseTyped, SimpleCalls
<1>8. fr.kind = "if" /\ fr.stage = "else" /\ fr.merge = m /\ fr.post = p
    BY <1>1, <1>2, <1>5 DEF FrameType
<1>9. m \in Pending(Top)
    BY <1>1, <1>2 DEF Pending
<1>10. Predecessors(m) = {}
    BY <1>1, <1>2 DEF Phis, FramesRight, FrameRight
<1>11. Adds({Br(m)})
    BY <1>2, MergeAdded
<1>12. code' = Branch(code, p, "br", m)
    BY <1>2, <1>3 DEF IfThenDoneElse
<1>13. /\ Len(code') = Len(code)
       /\ p \in Blocks /\ \A x \in Blocks : x # p => code'[x] = code[x]
       /\ (code' = code /\ Leaves(p)) \/ m \in Aims(code'[p])
    BY <1>1, <1>3, <1>9, <1>12, MergeCode
<1>14. Blocks' = Blocks
    BY <1>13 DEF Blocks
<1>15. Predecessors(m)' \subseteq {p}
    <2>1. \A x \in Blocks : m \notin Aims(code[x])
        BY <1>10, PredAims
    <2> QED
        BY <1>13, <1>14, <2>1, PredAimsNext
<1>16. p \in Predecessors(m)' \/ Leaves(p)'
    <2>1. CASE m \in Aims(code'[p])
        BY <1>13, <1>14, <2>1, PredAimsNext
    <2>2. CASE code' = code /\ Leaves(p)
        BY <1>11, <1>13, <2>2, BlocksAdded
    <2> QED
        BY <1>13, <2>1, <2>2
<1>17. FrameRight(fr)'
    BY <1>8, <1>13, <1>14, <1>15, <1>16 DEF FrameRight
<1>18. NeutralAdds(Elems(Under))
    BY <1>1, <1>9, <1>11, MergeNeutral
<1> QED
    BY <1>1, <1>6, <1>7, <1>17, <1>18, OnePhis

LEMMA WhilePhis ==
    ASSUME TypeOK, TypeOK', LoopTargets, Apart, Sealing, Phis, BeginWhile \/ WhileCondDone
    PROVE  Phis'
<1>1. CASE BeginWhile
    <2>1. frames # <<>> /\ Adds({Br(New(1))})
        BY <1>1, BeginWhileAdded DEF BeginWhile, Choosing
    <2>2. New(1) \in Fresh
        <3> DEFINE c == Branch(code, IP, "br", New(1))
        <3>1. New(1) \in Nat /\ "br" \in Jumps
            BY NewTyped DEF TypeOK, Jumps
        <3>2. c \in Seq(Seq(Inst)) /\ Len(c) = Len(code)
            BY <3>1, BranchTyped DEF TypeOK
        <3>3. code' = c \o <<Empty, Empty, Empty>>
            BY <1>1 DEF BeginWhile
        <3> HIDE DEF c
        <3> QED
            BY <3>2, <3>3, ThreeFresh
    <2>3. Br(New(1)).op # "phi" /\ Br(New(1)).to = {New(1)}
        BY DEF Br
    <2>4. NeutralAdds(Elems(Under))
        BY <2>1, <2>2, <2>3 DEF NeutralAdds, Neutral
    <2>5. PICK n : n = New(1)
        OBVIOUS
    <2>6. PICK fr : fr = [Frame("while", "cond", Top.fn) EXCEPT
                            !.cond = New(1), !.body = New(2), !.merge = New(3)]
        OBVIOUS
    <2>7. Call(fr, Expr(Top.fn))
        BY <1>1, <2>6 DEF BeginWhile
    <2>8. fr.kind = "while" /\ fr.cond = n
        BY <2>5, <2>6 DEF Frame
    <2>9. code'[n] = <<>>
        BY <2>1, <2>2, <2>5 DEF Adds
    <2>10. FrameRight(fr)'
        BY <2>8, <2>9 DEF FrameRight, HasPhi
    <2> QED
        BY <2>1, <2>4, <2>7, <2>10, CallsHere, OnePhis
<1>2. CASE WhileCondDone
    <2> DEFINE i == [op |-> "condbr", to |-> {Top.body, mergeBB}]
    <2>1. /\ frames # <<>> /\ Top.kind = "while" /\ Top.stage = "cond" /\ Top \in FrameType
          /\ Top \in Elems(frames) /\ Top.fn \in Function
        BY <1>2, InCall, ElemsFrames DEF WhileCondDone, At
    <2>2. Adds({i})
        BY <1>2, WhileCondAdded
    <2>3. Neutral(Top.body, Elems(Under))
        <3>1. Top.body \in Unfilled(Top)
            BY <2>1 DEF Unfilled
        <3>2. Top.body \in BlocksOf(Top.fn) /\ code[Top.body] = <<>>
            BY <2>1, <3>1, HereIsReady
        <3>3. ~HasPhi(code[Top.body])
            BY <3>2 DEF HasPhi
        <3> QED
            BY <2>1, <3>2, <3>3, AttachedNeutral
    <2>4. Neutral(mergeBB, Elems(Under))
        BY <2>1, TargetsNeutral
    <2>5. NeutralAdds(Elems(Under))
        BY <2>2, <2>3, <2>4 DEF NeutralAdds
    <2>6. PICK fr : fr = [Top EXCEPT !.stage = "body"]
        OBVIOUS
    <2>7. PICK n : n = Top.cond
        OBVIOUS
    <2>8. fr.kind = "while" /\ fr.cond = n
        BY <2>1, <2>6, <2>7 DEF FrameType
    <2>9. Call(fr, Block(Top.fn))
        BY <1>2, <2>6 DEF WhileCondDone
    <2>10. n \in Blocks /\ ~HasPhi(code[n])
        BY <2>1, <2>7, PhiFrames DEF Phis, FramesRight, FrameRight
    <2>11. \A x \in {i} : x.op # "phi"
        OBVIOUS
    <2> HIDE DEF i
    <2>12. ~HasPhi(code'[n])
        BY <2>2, <2>10, <2>11, BlocksAdded
    <2>13. FrameRight(fr)'
        BY <2>8, <2>12 DEF FrameRight
    <2> QED
        BY <2>1, <2>5, <2>9, <2>13, CallsHere, OnePhis
<1> QED
    BY <1>1, <1>2

\* The phi names the blocks in which the two clauses have ended.
LEMMA IfElsePhis ==
    ASSUME TypeOK, TypeOK', Apart, Sealing, Phis, IfElseDone
    PROVE  Phis'
<1> DEFINE S == {Br(Top.merge), Phi}
<1>1. /\ frames # <<>> /\ Top.kind = "if" /\ Top.stage = "else" /\ Top \in FrameType
      /\ Top \in Elems(frames) /\ Top.fn \in Function
    BY InCall, ElemsFrames DEF IfElseDone, At
<1>2. PICK m : m = Top.merge
    OBVIOUS
<1>3. PICK p : p = IP
    OBVIOUS
<1>4. PICK q : q = Top.post
    OBVIOUS
<1>5. PICK i : i = Phi
    OBVIOUS
<1>6. PICK c : c = Branch(code, p, "br", m)
    OBVIOUS
<1>7. m \in Pending(Top)
    BY <1>1, <1>2 DEF Pending
<1>8. /\ Predecessors(m) \subseteq {q} /\ q \in Blocks /\ (q \in Predecessors(m) \/ Leaves(q))
    BY <1>1, <1>2, <1>4 DEF Phis, FramesRight, FrameRight
<1>9. Adds({Br(m), i})
    BY <1>2, <1>5, PhiAdded
<1>10. i.op = "phi" /\ i.to = {q, p} /\ i \in Inst
    <2>1. q \in Nat /\ p \in Nat
        BY <1>1, <1>3, <1>4, InCall
    <2> QED
        BY <1>3, <1>4, <1>5, <2>1 DEF Phi, Incoming, Inst
<1>11. /\ c \in Seq(Seq(Inst)) /\ Len(c) = Len(code)
       /\ p \in Blocks /\ m \in Blocks /\ p # m /\ code[m] = <<>> /\ code[p] \in Seq(Inst)
       /\ \A x \in Blocks : x # p => c[x] = code[x]
       /\ (c = code /\ Leaves(p)) \/ (c[p] = Append(code[p], Br(m)) /\ m \in Aims(c[p]))
    BY <1>1, <1>3, <1>6, <1>7, MergeCode
<1>12. code' = Emit(c, m, i)
    BY <1>2, <1>3, <1>5, <1>6 DEF IfElseDone, Phi
<1>13. /\ Len(code') = Len(code) /\ code'[m] = Append(code[m], i)
       /\ \A x \in Blocks : x # m => code'[x] = c[x]
    <2>1. m \in 1..Len(c)
        BY <1>11 DEF Blocks
    <2>2. Len(code') = Len(c)
        BY <1>10, <1>11, <1>12, EmitTyped
    <2>3. c \in Seq(Seq(Inst)) /\ \A x \in Blocks : x \in 1..Len(c)
        BY <1>11 DEF Blocks
    <2>4. code'[m] = Append(c[m], i) /\ \A x \in Blocks : x # m => code'[x] = c[x]
        BY <1>12, <2>1, <2>3 DEF Emit
    <2>5. c[m] = code[m]
        BY <1>11
    <2> QED
        BY <1>11, <2>2, <2>4, <2>5
<1>14. Blocks' = Blocks
    BY <1>13 DEF Blocks
<1>15. Len(code'[m]) = 1 /\ code'[m][1] = i
    BY <1>10, <1>11, <1>13
<1>16. Predecessors(m)' \subseteq {q, p}
    <2>1. m \notin Aims(code'[m])
        <3>1. \A k \in 1..Len(code'[m]) : code'[m][k].op \notin Terminators
            BY <1>10, <1>15 DEF Terminators, Jumps
        <3> QED
            BY <3>1 DEF Aims
    <2>2. \A x \in Blocks : x # p /\ x # m => code'[x] = code[x]
        BY <1>11, <1>13
    <2> QED
        BY <1>8, <1>14, <2>1, <2>2, PredAims, PredAimsNext
<1>17. q \in Predecessors(m)' \/ Leaves(q)'
    BY <1>8, <1>9, <1>14, BlocksAdded, PredAims, PredAimsNext
<1>18. p \in Predecessors(m)' \/ Leaves(p)'
    <2>1. CASE m \in Aims(c[p])
        <3>1. m \in Aims(code'[p])
            BY <1>11, <1>13, <2>1
        <3> QED
            BY <1>11, <1>14, <3>1, PredAimsNext
    <2>2. CASE Leaves(p)
        BY <1>9, <1>11, <2>2, BlocksAdded
    <2> QED
        BY <1>11, <2>1, <2>2
<1>19. PhiRight(m)'
    <2>1. \A k \in 1..Len(code'[m]) : code'[m][k].to = {q, p}
        BY <1>10, <1>15
    <2> QED
        BY <1>8, <1>11, <1>14, <1>16, <1>17, <1>18, <2>1 DEF PhiRight
<1>20. Br(m).op = "br" /\ Br(m).to = {m} /\ ~(i.op \in Terminators)
    BY <1>10 DEF Br, Terminators, Jumps
<1>21. ASSUME NEW b \in Blocks, b # m
       PROVE  \A k \in (Len(code[b]) + 1)..Len(code'[b]) : code'[b][k].op # "phi"
    <2>1. code[b] \in Seq(Inst) /\ Len(code[b]) \in Nat
        BY ElementOfSeq, LenProperties DEF TypeOK, Blocks
    <2>2. CASE code'[b] = code[b]
        BY <2>1, <2>2
    <2>3. CASE b = p /\ c[p] = Append(code[p], Br(m))
        <3>1. Br(m) \in Inst
            BY <1>11, <1>20 DEF Br, Inst, Terminators, Jumps, Blocks
        <3>2. code'[b] = Append(code[b], Br(m))
            BY <1>13, <1>21, <2>3
        <3>3. Len(code'[b]) = Len(code[b]) + 1 /\ code'[b][Len(code[b]) + 1] = Br(m)
            BY <2>1, <3>1, <3>2, AppendProperties
        <3>4. \A k \in (Len(code[b]) + 1)..Len(code'[b]) : k = Len(code[b]) + 1
            BY <2>1, <3>3
        <3> QED
            BY <1>20, <3>3, <3>4
    <2> QED
        BY <1>11, <1>13, <1>21, <2>2, <2>3
<1>22. AllPhisRight'
    <2>1. ASSUME NEW b \in Blocks, b # m PROVE PhiRight(b)'
        <3>1. PhiRight(b)
            BY DEF Phis, AllPhisRight
        <3>2. \A k \in {Br(m), i} : k.op \in Terminators => b \notin k.to
            BY <1>20, <2>1
        <3> QED
            BY <1>9, <1>21, <2>1, <3>1, <3>2, PhiRightKept
    <2> QED
        BY <1>14, <1>19, <2>1 DEF AllPhisRight
<1>23. AimsKnown'
    <2>1. m <= Len(code')
        BY <1>11, <1>13 DEF Blocks
    <2>2. \A k \in {Br(m), i} : k.op \in Terminators => \A x \in k.to : x <= Len(code')
        BY <1>20, <2>1
    <2> QED
        BY <1>9, <2>2, AimsKept DEF Phis
<1>24. ASSUME NEW fr \in Elems(Under) PROVE FrameRight(fr)'
    <2>1. FrameRight(fr) /\ fr \in Elems(frames)
        BY <1>1, ElemsFrames DEF Phis, FramesRight
    <2>2. fr.kind = "while" => (HasPhi(code'[fr.cond]) => HasPhi(code[fr.cond]))
        <3> SUFFICES ASSUME fr.kind = "while", HasPhi(code'[fr.cond]) PROVE HasPhi(code[fr.cond])
            OBVIOUS
        <3>1. fr.cond \in BlocksOf(fr.fn) /\ fr.fn \in Function /\ BlocksOf(fr.fn) \subseteq Blocks
            BY <2>1, PhiFrames
        <3>2. m \notin BlocksOf(fr.fn)
            BY <1>1, <1>7, <3>1, PhiFrames
        <3>3. PICK b \in Blocks : b = fr.cond /\ b # m
            BY <3>1, <3>2
        <3>4. PICK k \in 1..Len(code'[b]) : code'[b][k].op = "phi"
            BY <3>3 DEF HasPhi
        <3>5. code[b] \in Seq(Inst) /\ Len(code[b]) \in Nat /\ code'[b] \in Seq(Inst) /\ Len(code'[b]) \in Nat
            BY <1>14, ElementOfSeq, LenProperties DEF TypeOK, Blocks
        <3>6. k \in 1..Len(code[b])
            BY <1>21, <3>3, <3>4, <3>5
        <3>7. code[b][k].op = "phi"
            BY <1>9, <3>4, <3>6 DEF Adds
        <3> QED
            BY <3>3, <3>6, <3>7 DEF HasPhi
    <2>3. fr.kind = "if" /\ fr.stage \in {"then", "else"} =>
              \A k \in {Br(m), i} : k.op \in Terminators => fr.merge \notin k.to
        <3>1. Neutral(m, Elems(Under)) /\ m \in Blocks
            BY <1>1, <1>7, PendingNeutral
        <3>2. m # NoBlock /\ m \notin Fresh
            <4>1. Len(code) \in Nat /\ Len(code') \in Nat
                BY <1>9, BlocksAdded
            <4> QED
                BY <1>11, <4>1 DEF Blocks, Fresh, NoBlock
        <3>3. m \notin Pending(fr)
            BY <3>1, <3>2 DEF Neutral
        <3> QED
            BY <1>20, <2>1, <3>3, PhiFrames
    <2> QED
        BY <1>9, <2>1, <2>2, <2>3, FrameRightKept
<1>25. FramesRight'
    <2>1. frames' = Under
        BY DEF IfElseDone, Return
    <2> QED
        BY <1>24, <2>1 DEF FramesRight, Elems
<1> QED
    BY <1>22, <1>23, <1>25 DEF Phis

LEMMA StepPhis ==
    ASSUME "fallthrough" \notin Constructs
    PROVE  TypeOK /\ LoopTargets /\ Apart /\ (Running => Sealing) /\ Phis /\ [Next]_vars => Phis'
<1> SUFFICES ASSUME TypeOK, LoopTargets, Apart, Running => Sealing, Phis, [Next]_vars PROVE Phis'
    OBVIOUS
<1>1. TypeOK'
    BY StepTyped
<1>2. CASE Inner
    <2>1. Sealing
        BY <1>2, InnerRuns
    <2> QED
        BY <1>1, <1>2, <2>1, PlainPhis, IfCondPhis, IfThenPhis, IfElsePhis, WhilePhis
        DEF Inner, CodeBlock, IfDef, WhileDef, SwitchDef, Leaving, GenFallthrough
<1>3. CASE GenReference \/ EnterVaInit \/ CodegenRoot
    BY <1>1, <1>3, FunctionStepRuns, FunctionPhis
<1>4. CASE Finish \/ UNCHANGED vars
    <2>1. UNCHANGED <<code, frames>>
        BY <1>4 DEF Finish, vars
    <2>2. UNCHANGED Blocks /\ \A x : Predecessors(x)' = Predecessors(x) /\ (Leaves(x) => Leaves(x)')
        BY <2>1, PredAims, PredAimsNext DEF Blocks, Leaves
    <2>3. AimsKnown' /\ AllPhisRight'
        BY <2>1, <2>2 DEF Phis, AimsKnown, AllPhisRight, PhiRight
    <2>4. \A fr : FrameRight(fr) => FrameRight(fr)'
        BY <2>1, <2>2 DEF FrameRight
    <2>5. FramesRight'
        BY <2>1, <2>4 DEF Phis, FramesRight, Elems
    <2> QED
        BY <2>3, <2>5 DEF Phis
<1> QED
    BY <1>2, <1>3, <1>4
    DEF Next, Inner, Expression, Functions, Stopped

LEMMA InitPhis == Init => Phis
BY DEF Init, Phis, AimsKnown, AllPhisRight, FramesRight, Elems, Blocks

\* In every program that uses no fallthrough, a phi of a finished function has a value for
\* each block that branches to it, and other blocks among those it names have left.
THEOREM PhisMatch ==
    ASSUME "fallthrough" \notin Constructs
    PROVE  Spec => []PhiMatchesPredecessors
<1>1. Apart /\ Phis => PhiMatchesPredecessors
    BY DEF Apart, LaidOut, Phis, AllPhisRight, PhiRight, PhiMatchesPredecessors, Blocks
<1>2. Spec => []Phis
    BY InitPhis, StepPhis, AlwaysApart, AlwaysComplete, PTL DEF Spec
<1> QED
    BY <1>1, <1>2, AlwaysApart, PTL
=============================================================================
