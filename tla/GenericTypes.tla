---------------------------- MODULE GenericTypes ----------------------------
(***************************************************************************)
(* The types of znoc.  A TypeInstance names its base type, a template      *)
(* instance of it by position, and the lengths of an array; pointers and   *)
(* functions are template instances of two fundamental types.  The lists   *)
(* of template arguments are interned: add_generic_instance() looks for an *)
(* equal list first, so that operator== may compare positions.             *)
(*                                                                         *)
(* Parsing makes types out of those it has made before; code generation,   *)
(* which comes after it, walks a type down to the fundamental ones, with   *)
(* the calls in progress on a stack, and makes one LLVM type of each       *)
(* instance of a struct.                                                   *)
(***************************************************************************)
EXTENDS Naturals, Sequences, FiniteSets

CONSTANTS
    Scalars,    \* the fundamental types without template arguments
    Structs,    \* the structs a program may define
    Written,    \* the fundamental types a program writes the names of
    Lengths,    \* the lengths an array may have
    MaxTypes,   \* bound on the number of types a program makes
    MaxNames,   \* bound on those that have a name
    MaxDims,    \* bound on the array lengths written behind one type
    MaxParts,   \* bound on the fields of a struct and on template arguments
    MaxArgs,    \* bound on the arguments of a function
    MaxArity    \* bound on the template parameters of a struct

Fundamental == Scalars \cup {"ptr", "function", "var_args"}
Base        == Fundamental \cup Structs

ASSUME TypesAssumption ==
    /\ Scalars \cap Structs = {}
    /\ (Scalars \cup Structs) \cap {"ptr", "function", "var_args", "parameter"} = {}
    /\ "i32" \in Scalars
    /\ Written \subseteq Fundamental
    /\ Lengths \subseteq Nat
    /\ {MaxTypes, MaxNames, MaxDims, MaxParts, MaxArgs, MaxArity} \subseteq Nat

VARIABLES
    named,         \* the types that have a name
    types,         \* all types made so far, also those of expressions
    arity,         \* generic_type_interfaces, by their number
    fields,        \* fields_by_index
    generic_types, \* for each base type, its lists of template arguments
    stack,         \* the codegen() calls in progress, innermost last
    generated,     \* the LLVM structs that have been created, in order
    status         \* "parsing", "generating", or why the program was rejected

vars == <<named, types, arity, fields, generic_types, stack, generated, status>>

\* Positions count from 1; NoTemplate is nullopt.
NoTemplate == 0
Type == [base : Base, id : Nat, arrays : Seq(Nat)]

\* The field of a struct may have one of its template parameters for a type.
Parameter(i) == [base |-> "parameter", id |-> i, arrays |-> <<>>]
FieldType    == Type \cup [base : {"parameter"}, id : Nat, arrays : {<<>>}]

CallType == [type : Type, next : Nat \ {0}]

Plain(b)    == [base |-> b, id |-> NoTemplate, arrays |-> <<>>]
UpTo(n, S)  == UNION {[1..k -> S] : k \in 0..n}
IsArray(t)  == t.arrays # <<>>
Positions(b) == 1..Len(generic_types[b])
-----------------------------------------------------------------------------
(* Template instances *)

\* Mutant: an equal list is not looked for.
Mut_Duplicates(b, ts) == {}
Known(b, ts)          == {i \in Positions(b) : generic_types[b][i] = ts}

\* Mutant: the list is kept newest first.
Mut_Prepended(b, ts) == [generic_types EXCEPT ![b] = <<ts>> \o @]
Added(b, ts)         == [generic_types EXCEPT ![b] = Append(@, ts)]

\* add_generic_instance(): the position of ts, which is new or not.
AddGenericInstance(b, ts, i) ==
    \/ i \in Known(b, ts) /\ UNCHANGED generic_types
    \/ /\ Known(b, ts) = {}
       /\ i = Len(generic_types[b]) + 1
       /\ generic_types' = Added(b, ts)

\* A list that is looked up or added is at one of these positions.
Candidates(b) == 1..(Len(generic_types[b]) + 1)

IsTemplateable(t) == arity[t.base] # 0
\* What get_template_id() throws for.
NotTemplated(t)   == IsTemplateable(t) /\ t.id = NoTemplate
Arguments(t)      == generic_types[t.base][t.id]

\* The program now has type t, too.
Make(t)     == types' = types \cup {t}
Parsing     == status = "parsing"
Making      == Parsing /\ Cardinality(types) < MaxTypes
Reject(why) == status' = why
                 /\ UNCHANGED <<named, types, arity, fields, generic_types, stack, generated>>
-----------------------------------------------------------------------------
(* parse_type() and parse_typedef() *)

\* Mutant: the number of arguments is not compared with that of the parameters.
Mut_AnyNumber(t, ts) == IsTemplateable(t) /\ t.id = NoTemplate
Templates(t, ts) ==
    /\ IsTemplateable(t)
    /\ Len(ts) = arity[t.base]
    /\ t.id = NoTemplate

\* get_or_create_template() throws.
BadTemplate(t, ts) == ts # <<>> /\ ~Templates(t, ts)

\* A name, a list of template arguments, if there is one, and the lengths of an
\* array.
ParseNamedType ==
    /\ Making
    /\ \E t \in named, ts \in UpTo(MaxParts, types), ls \in UpTo(MaxDims, Lengths) :
        \/ /\ ts = <<>>
           /\ Make([t EXCEPT !.arrays = @ \o ls])
           /\ UNCHANGED generic_types
        \/ /\ ts # <<>>
           /\ Templates(t, ts)
           /\ \E i \in Candidates(t.base) :
                /\ AddGenericInstance(t.base, ts, i)
                /\ Make([t EXCEPT !.id = i, !.arrays = @ \o ls])
    /\ UNCHANGED <<named, arity, fields, stack, generated, status>>

RejectTemplate ==
    /\ Parsing
    /\ \E t \in named, ts \in UpTo(MaxParts, types) : BadTemplate(t, ts)
    /\ Reject("bad_template")

\* The result has the base type b with the arguments ts.
MakeInstance(b, ts) ==
    \E i \in Candidates(b) :
        /\ AddGenericInstance(b, ts, i)
        /\ Make([Plain(b) EXCEPT !.id = i])

\* get_function_returning(): the type that is returned is the first argument.
FunctionReturning(r, args, variadic) ==
    MakeInstance("function", <<r>> \o args \o (IF variadic THEN <<Plain("var_args")>> ELSE <<>>))

\* A variadic function has a hidden argument, the number of the others; an
\* extern one, which is not written in ZnO, does not.
Hidden(variadic) == IF variadic THEN <<Plain("i32")>> ELSE <<>>

ParseFunctionType ==
    /\ Making
    /\ \E r \in types, args \in UpTo(MaxArgs, types), variadic \in BOOLEAN :
         FunctionReturning(r, args \o Hidden(variadic), variadic)
    /\ UNCHANGED <<named, arity, fields, stack, generated, status>>

\* The constructor of AST::Function.
DefineFunction ==
    /\ Making
    /\ \E r \in types, args \in UpTo(MaxArgs, types), variadic, extern \in BOOLEAN :
         FunctionReturning(r, args \o Hidden(variadic /\ ~extern), variadic)
    /\ UNCHANGED <<named, arity, fields, stack, generated, status>>

ParseTypedef ==
    /\ Parsing
    /\ Cardinality(named) < MaxNames
    /\ \E t \in types : named' = named \cup {t}
    /\ UNCHANGED <<types, arity, fields, generic_types, stack, generated, status>>

\* Mutant: a struct has a name while its fields are being read.
Mut_FieldsOf(s, n) == types \cup {Parameter(i) : i \in 1..n} \cup {Plain(s)}
FieldsOf(s, n)     == types \cup {Parameter(i) : i \in 1..n}

\* parse_aggregate_type_definition(): its name is not known to its fields.
DefineStruct ==
    /\ Making
    /\ \E s \in Structs, n \in 0..MaxArity :
        /\ Plain(s) \notin types
        /\ arity' = [arity EXCEPT ![s] = n]
        /\ \E fs \in UpTo(MaxParts, FieldsOf(s, n)) : fields' = [fields EXCEPT ![s] = fs]
        /\ named' = named \cup {Plain(s)}
        /\ Make(Plain(s))
    /\ UNCHANGED <<generic_types, stack, generated, status>>
-----------------------------------------------------------------------------
(* The types of expressions *)

\* Unary &, and `self`.
AddressOf ==
    /\ Making
    /\ \E t \in types : MakeInstance("ptr", <<t>>)
    /\ UNCHANGED <<named, arity, fields, stack, generated, status>>

\* One part of one type: what *, a subscript, a call and a field give.
PartOf(t) ==
    /\ Make(t)
    /\ UNCHANGED <<named, arity, fields, generic_types, stack, generated, status>>

Dereference ==
    /\ Making
    /\ \E t \in types : /\ t.base = "ptr" /\ ~IsArray(t) /\ ~NotTemplated(t)
                        /\ PartOf(Arguments(t)[1])

\* What *, a subscript, a call and a field are not for.
RejectOperand ==
    /\ Parsing
    /\ \E t \in types : \/ t.base # "ptr" \/ IsArray(t)
                        \/ ~IsArray(t)
                        \/ t.base # "function"
                        \/ t.base \notin Structs
    /\ Reject("wrong_type")

Subscript ==
    /\ Making
    /\ \E t \in types : /\ IsArray(t)
                        /\ PartOf([t EXCEPT !.arrays = SubSeq(@, 1, Len(@) - 1)])

ReturnOf ==
    /\ Making
    /\ \E t \in types : t.base = "function" /\ ~NotTemplated(t) /\ PartOf(Arguments(t)[1])

\* Mutant: the type of a field is that which was declared.
Mut_Declared(t, i) == fields[t.base][i]

\* The type of field i: the template arguments of t replace the parameters.
Field(t, i) ==
    LET f == fields[t.base][i]
    IN  IF f.base = "parameter" THEN Arguments(t)[f.id] ELSE f

Dot ==
    /\ Making
    /\ \E t \in types : /\ t.base \in Structs /\ ~NotTemplated(t)
                        /\ \E i \in DOMAIN fields[t.base] : PartOf(Field(t, i))

\* A pointer, a function or a struct is used without its template arguments.
RejectUntemplated ==
    /\ Parsing
    /\ \E t \in types : NotTemplated(t)
    /\ Reject("not_templated")
-----------------------------------------------------------------------------
(* TypeInstance::codegen() *)

Top     == stack[Len(stack)]
Under   == SubSeq(stack, 1, Len(stack) - 1)
Call(t) == [type |-> t, next |-> 1]

Generating == status = "generating"
Instance(t) == [base |-> t.base, id |-> t.id]

IsGenerated(t) == \E i \in DOMAIN generated : generated[i] = Instance(t)

\* The types that the code of t is made of, in the order they are generated.
Variadic(ts) == Len(ts) > 1 /\ ts[Len(ts)].base = "var_args"
Parts(t) ==
    CASE t.base = "ptr"      -> <<Arguments(t)[1]>>
      [] t.base = "function" -> IF Variadic(Arguments(t))
                                THEN SubSeq(Arguments(t), 1, Len(Arguments(t)) - 1)
                                ELSE Arguments(t)
      [] t.base \in Structs  -> [i \in DOMAIN fields[t.base] |-> Field(t, i)]
      [] OTHER               -> <<>>

\* The code of t is there already, or is a fundamental type.
Ready(t) == t.base \in Scalars \cup Structs /\ (t.base \in Structs => IsGenerated(t))

StartCodegen ==
    /\ Parsing
    /\ status' = "generating"
    /\ UNCHANGED <<named, types, arity, fields, generic_types, stack, generated>>

\* A variable, a function or a literal asks for its type.
CodegenOf ==
    /\ Generating
    /\ stack = <<>>
    /\ \E t \in types :
        /\ t.base # "var_args" /\ ~NotTemplated(t) /\ ~Ready(t)
        /\ stack' = <<Call(t)>>
    /\ UNCHANGED <<named, types, arity, fields, generic_types, generated, status>>

RejectCodegen(t) == t.base = "var_args" \/ NotTemplated(t)

RejectRoot ==
    /\ Generating
    /\ stack = <<>>
    /\ \E t \in types : RejectCodegen(t)
    /\ Reject("no_code")

NextPart == Parts(Top.type)[Top.next]
More     == stack # <<>> /\ Generating /\ Top.next <= Len(Parts(Top.type))
Advanced == Under \o <<[Top EXCEPT !.next = @ + 1]>>

PartReady ==
    /\ More
    /\ ~RejectCodegen(NextPart)
    /\ Ready(NextPart)
    /\ stack' = Advanced
    /\ UNCHANGED <<named, types, arity, fields, generic_types, generated, status>>

CodegenPart ==
    /\ More
    /\ ~RejectCodegen(NextPart)
    /\ ~Ready(NextPart)
    /\ stack' = Append(Advanced, Call(NextPart))
    /\ UNCHANGED <<named, types, arity, fields, generic_types, generated, status>>

RejectPart ==
    /\ More
    /\ RejectCodegen(NextPart)
    /\ Reject("no_code")

EndCodegen ==
    /\ Generating
    /\ stack # <<>>
    /\ Top.next > Len(Parts(Top.type))
    /\ stack' = Under
    /\ generated' = IF Top.type.base \in Structs
                    THEN Append(generated, Instance(Top.type)) ELSE generated
    /\ UNCHANGED <<named, types, arity, fields, generic_types, status>>

\* The program was rejected, or all is generated that it asks for.
Stopped ==
    /\ ~Parsing
    /\ Generating => stack = <<>>
    /\ UNCHANGED vars
-----------------------------------------------------------------------------
Init ==
    /\ named = {Plain(b) : b \in Written}
    /\ types = named
    /\ arity = [b \in Base |-> IF b \in {"ptr", "function"} THEN 1 ELSE 0]
    /\ fields = [s \in Structs |-> <<>>]
    /\ generic_types = [b \in Base |-> <<>>]
    /\ stack = <<>>
    /\ generated = <<>>
    /\ status = "parsing"

Parse  == ParseNamedType \/ RejectTemplate \/ ParseFunctionType \/ ParseTypedef
            \/ DefineStruct \/ DefineFunction
Derive == AddressOf \/ Dereference \/ RejectOperand \/ Subscript \/ ReturnOf \/ Dot
            \/ RejectUntemplated
Codegen == StartCodegen \/ CodegenOf \/ RejectRoot \/ PartReady \/ CodegenPart
            \/ RejectPart \/ EndCodegen

Next == Parse \/ Derive \/ Codegen \/ Stopped

Spec == Init /\ [][Next]_vars
-----------------------------------------------------------------------------
(* Properties *)

\* The type invariant.
TypeOK ==
    /\ named \subseteq Type
    /\ types \subseteq Type
    /\ arity \in [Base -> Nat]
    /\ fields \in [Structs -> Seq(FieldType)]
    /\ generic_types \in [Base -> Seq(Seq(Type))]
    /\ stack \in Seq(CallType)
    /\ generated \in Seq([base : Structs, id : Nat])
    /\ status \in {"parsing", "generating", "bad_template", "wrong_type",
                   "not_templated", "no_code"}

\* A list of template arguments is in generic_types once.  Then equal types have
\* equal positions, which is all that operator== compares.
InstancesUnique ==
    \A b \in Base : \A i, j \in Positions(b) :
        generic_types[b][i] = generic_types[b][j] => i = j

\* The position that a type holds is that of a list, also where the type is a
\* part of others, and a list is as long as its base type wants it: no at() of a
\* list of arguments, or of an argument in it, throws.
Fits(t) == t.id # NoTemplate => t.id \in Positions(t.base)
TemplatesFit ==
    /\ \A t \in types : Fits(t)
    /\ \A s \in Structs : \A k \in DOMAIN fields[s] :
         LET f == fields[s][k]
         IN  IF f.base = "parameter" THEN f.id \in 1..arity[s] ELSE Fits(f)
    /\ \A b \in Base : \A i \in Positions(b) :
         LET ts == generic_types[b][i]
         IN  /\ \A k \in DOMAIN ts : Fits(ts[k])
             /\ IF b = "function" THEN Len(ts) >= 1 ELSE Len(ts) = arity[b]

\* No code of a type is generated for the code of that type: code generation
\* ends, and every size is finite.
NoTypeInItself ==
    \A i, j \in DOMAIN stack : stack[i].type = stack[j].type => i = j

\* An instance of a struct is one LLVM type, by whatever way it is reached.
GeneratedOnce ==
    \A i, j \in DOMAIN generated : generated[i] = generated[j] => i = j

\* Code generation of types (type_base.cpp:32) ends, with one LLVM type for each.
CodegenOnce == NoTypeInItself /\ GeneratedOnce

\* A type goes on meaning the same: however many types are made after it, its
\* position stays that of its own template arguments.
Meaning(t) == IF IsTemplateable(t) /\ t.id # NoTemplate THEN Arguments(t) ELSE <<>>
MeaningKept == [][\A t \in types : t \in types' /\ Meaning(t) = Meaning(t)']_vars
=============================================================================
