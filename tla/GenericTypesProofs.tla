------------------------- MODULE GenericTypesProofs -------------------------
(* Theorems about GenericTypes, for every program and every bound. *)
EXTENDS GenericTypes, SequenceTheorems, TLAPS

(***************************************************************************)
(* The inductive invariant.  To know that the parts of a type are types,   *)
(* one has to know that its position is that of a list that is long        *)
(* enough, and that the number of parameters of a struct, which is set     *)
(* when the struct is defined, is set before a type can use it.            *)
(***************************************************************************)
FitsIn(g, t)   == t.id # NoTemplate => t.id \in 1..Len(g[t.base])
RootedIn(T, t) == t.base \in Structs => Plain(t.base) \in T
Rooted(t)      == RootedIn(types, t)

AllRooted ==
    /\ \A t \in types : Rooted(t)
    /\ \A s \in Structs : \A k \in DOMAIN fields[s] :
         fields[s][k].base = "parameter" \/ Rooted(fields[s][k])
    /\ \A b \in Base : \A i \in Positions(b) :
         \A k \in DOMAIN generic_types[b][i] : Rooted(generic_types[b][i][k])

Undefined ==
    \A s \in Structs : Plain(s) \notin types => generic_types[s] = <<>> /\ fields[s] = <<>>

Arities ==
    /\ arity["ptr"] = 1 /\ arity["function"] = 1
    /\ \A b \in Scalars \cup {"var_args"} : arity[b] = 0

StackOK ==
    \A i \in DOMAIN stack : Fits(stack[i].type) /\ ~RejectCodegen(stack[i].type)

Idle == status = "parsing" => stack = <<>>

\* Types can be ranked: every list of template arguments above all that is in it, every
\* instance of a struct above the types its fields are declared with.
Key        == [base : Base, id : Nat]
KeyAt(b, i) == [base |-> b, id |-> i]
PartsBelow(r) ==
    /\ \A b \in Base : \A i \in Positions(b) : \A k \in DOMAIN generic_types[b][i] :
         r[Instance(generic_types[b][i][k])] < r[KeyAt(b, i)]
    /\ \A s \in Structs : \A k \in DOMAIN fields[s] : fields[s][k].base # "parameter" =>
         \A i \in Nat : r[Instance(fields[s][k])] < r[KeyAt(s, i)]
Ranked == \E M \in Nat : \E r \in [Key -> 0..M] : PartsBelow(r)

IInv ==
    /\ TypeOK
    /\ Idle
    /\ InstancesUnique
    /\ TemplatesFit
    /\ named \subseteq types
    /\ AllRooted
    /\ Undefined
    /\ Arities
    /\ StackOK
    /\ Ranked

-----------------------------------------------------------------------------
(* Lists of types *)

LEMMA ListTyped ==
    ASSUME NEW n \in Nat, NEW S, NEW ts \in UpTo(n, S)
    PROVE  /\ ts \in Seq(S)
           /\ \A k \in DOMAIN ts : ts[k] \in S
<1>1. PICK k \in 0..n : ts \in [1..k -> S]
    BY DEF UpTo
<1> QED
    BY <1>1

LEMMA PlainTyped ==
    ASSUME NEW b \in Base
    PROVE  Plain(b) \in Type /\ Plain(b).base = b /\ Plain(b).id = NoTemplate
BY DEF Plain, Type, NoTemplate

LEMMA Bases ==
    /\ "ptr" \in Base /\ "function" \in Base /\ "var_args" \in Base /\ "i32" \in Base
    /\ Structs \subseteq Base /\ Scalars \subseteq Base /\ Written \subseteq Base
    /\ "ptr" \notin Structs /\ "function" \notin Structs /\ "var_args" \notin Structs
    /\ "parameter" \notin Base
    /\ "ptr" \notin Scalars /\ "function" \notin Scalars /\ "var_args" \notin Scalars
    /\ "i32" \notin Structs /\ Scalars \cap Structs = {}
    /\ Base = Scalars \cup Structs \cup {"ptr", "function", "var_args"}
BY TypesAssumption DEF Base, Fundamental

LEMMA ArgumentsTyped ==
    ASSUME IInv, NEW t \in Type, Fits(t), t.id # NoTemplate
    PROVE  /\ t.id \in Positions(t.base)
           /\ Arguments(t) \in Seq(Type)
           /\ \A k \in DOMAIN Arguments(t) : Fits(Arguments(t)[k]) /\ Rooted(Arguments(t)[k])
           /\ IF t.base = "function" THEN Len(Arguments(t)) >= 1
              ELSE Len(Arguments(t)) = arity[t.base]
<1>1. t.base \in Base /\ t.id \in Positions(t.base)
    BY DEF Fits, Type
<1>2. generic_types[t.base] \in Seq(Seq(Type))
    BY <1>1 DEF IInv, TypeOK
<1>3. Arguments(t) \in Seq(Type)
    BY <1>1, <1>2 DEF Arguments, Positions
<1> QED
    BY <1>1, <1>3 DEF IInv, TemplatesFit, AllRooted, Arguments
-----------------------------------------------------------------------------
(* add_generic_instance() *)

\* What a call returns: the position of the list, where all other lists stay.
LEMMA Interning ==
    ASSUME generic_types \in [Base -> Seq(Seq(Type))], InstancesUnique,
           NEW b \in Base, NEW ts \in Seq(Type), NEW i,
           AddGenericInstance(b, ts, i)
    PROVE  /\ generic_types' \in [Base -> Seq(Seq(Type))]
           /\ i \in Positions(b)' /\ i # NoTemplate /\ i \in Nat
           /\ generic_types'[b][i] = ts
           /\ \A c \in Base : \A j \in Positions(c) :
                j \in Positions(c)' /\ generic_types'[c][j] = generic_types[c][j]
           /\ \A c \in Base : \A j \in Positions(c)' :
                j \in Positions(c) \/ (c = b /\ generic_types'[c][j] = ts)
           /\ InstancesUnique'
<1>1. CASE i \in Known(b, ts) /\ UNCHANGED generic_types
    BY <1>1 DEF Known, Positions, InstancesUnique, NoTemplate
<1>2. CASE /\ Known(b, ts) = {}
           /\ i = Len(generic_types[b]) + 1
           /\ generic_types' = Added(b, ts)
    <2> DEFINE old == generic_types[b]
               n   == Len(old)
    <2>1. old \in Seq(Seq(Type)) /\ n \in Nat /\ i = n + 1
        BY <1>2
    <2>2. generic_types' = [generic_types EXCEPT ![b] = Append(old, ts)]
        BY <1>2 DEF Added
    <2>3. /\ Append(old, ts) \in Seq(Seq(Type))
          /\ Len(Append(old, ts)) = n + 1
          /\ \A j \in 1..n : Append(old, ts)[j] = old[j]
          /\ Append(old, ts)[n + 1] = ts
        BY <2>1, AppendProperties
    <2>4. generic_types'[b] = Append(old, ts)
        BY <2>2
    <2>5. \A c \in Base \ {b} : generic_types'[c] = generic_types[c]
        BY <2>2
    <2>6. generic_types' \in [Base -> Seq(Seq(Type))]
        BY <2>2, <2>3
    <2>7. \A j \in 1..n : old[j] # ts
        BY <1>2 DEF Known, Positions
    <2> HIDE DEF old, n
    <2>8. 1..(n + 1) = 1..n \cup {n + 1} /\ n + 1 \notin 1..n
        BY <2>1
    <2>9. Positions(b) = 1..n /\ Positions(b)' = 1..(n + 1)
        BY <2>3, <2>4 DEF Positions, n, old
    <2>10. InstancesUnique'
        <3> SUFFICES ASSUME NEW c \in Base, NEW j \in Positions(c)', NEW k \in Positions(c)',
                            generic_types'[c][j] = generic_types'[c][k]
                     PROVE  j = k
            BY DEF InstancesUnique
        <3>1. CASE c # b
            <4>1. j \in Positions(c) /\ k \in Positions(c)
                  /\ generic_types[c][j] = generic_types[c][k]
                BY <2>5, <3>1 DEF Positions
            <4> QED
                BY <4>1 DEF InstancesUnique
        <3>2. CASE c = b
            <4>1. \A x \in 1..n : generic_types'[b][x] = old[x]
                BY <2>3, <2>4
            <4>2. generic_types'[b][n + 1] = ts
                BY <2>3, <2>4
            <4>3. j \in 1..n \cup {n + 1} /\ k \in 1..n \cup {n + 1}
                BY <2>8, <2>9, <3>2
            <4>4. \A x, y \in 1..n : old[x] = old[y] => x = y
                BY <2>9 DEF InstancesUnique, old
            <4> QED
                BY <4>1, <4>2, <4>3, <4>4, <2>7, <3>2
        <3> QED
            BY <3>1, <3>2
    <2>11. i \in Positions(b)' /\ i # NoTemplate /\ i \in Nat
        BY <2>1, <2>9 DEF NoTemplate
    <2>12. generic_types'[b][i] = ts
        BY <2>1, <2>3, <2>4
    <2>13. ASSUME NEW c \in Base, NEW j \in Positions(c)
           PROVE  j \in Positions(c)' /\ generic_types'[c][j] = generic_types[c][j]
        <3>1. CASE c = b
            BY <3>1, <2>3, <2>4, <2>8, <2>9 DEF old
        <3>2. CASE c # b
            BY <3>2, <2>5 DEF Positions
        <3> QED
            BY <3>1, <3>2
    <2>14. ASSUME NEW c \in Base, NEW j \in Positions(c)'
           PROVE  j \in Positions(c) \/ (c = b /\ generic_types'[c][j] = ts)
        <3>1. CASE c = b
            BY <3>1, <2>3, <2>4, <2>8, <2>9
        <3>2. CASE c # b
            BY <3>2, <2>5 DEF Positions
        <3> QED
            BY <3>1, <3>2
    <2> QED
        BY <2>6, <2>10, <2>11, <2>12, <2>13, <2>14
<1> QED
    BY <1>1, <1>2 DEF AddGenericInstance

-----------------------------------------------------------------------------
(* Steps that make a type *)

\* A new list ranks above all there is: nothing can hold its position yet.
LEMMA RankInstance ==
    ASSUME TypeOK, Ranked, TemplatesFit,
           NEW b \in Base, NEW ts \in Seq(Type), NEW i \in Nat, i # NoTemplate,
           i \in Positions(b)', generic_types'[b][i] = ts,
           \A c \in Base : \A j \in Positions(c) :
             j \in Positions(c)' /\ generic_types'[c][j] = generic_types[c][j],
           \A c \in Base : \A j \in Positions(c)' :
             j \in Positions(c) \/ (c = b /\ generic_types'[c][j] = ts),
           InstancesUnique',
           \A k \in DOMAIN ts : Fits(ts[k]),
           UNCHANGED fields
    PROVE  Ranked'
<1>1. PICK M \in Nat : \E r \in [Key -> 0..M] : PartsBelow(r)
    BY DEF Ranked
<1>2. PICK r \in [Key -> 0..M] : PartsBelow(r)
    BY <1>1
<1>3. \A c \in Base : \A j \in Positions(c)' : j \in Positions(c) \/ (c = b /\ j = i)
    BY DEF InstancesUnique
<1>4. CASE i \in Positions(b)
    <2>1. ASSUME NEW c \in Base, NEW j \in Positions(c)'
          PROVE  j \in Positions(c) /\ generic_types'[c][j] = generic_types[c][j]
        BY <1>3, <1>4
    <2>2. PartsBelow(r)'
        <3>1. \A c \in Base : \A j \in Positions(c)' : \A k \in DOMAIN generic_types'[c][j] :
                 r[Instance(generic_types'[c][j][k])] < r[KeyAt(c, j)]
            BY <1>2, <2>1 DEF PartsBelow
        <3>2. \A z \in Structs : \A k \in DOMAIN fields'[z] : fields'[z][k].base # "parameter" =>
                 \A j \in Nat : r[Instance(fields'[z][k])] < r[KeyAt(z, j)]
            BY <1>2 DEF PartsBelow
        <3> QED
            BY <3>1, <3>2 DEF PartsBelow, KeyAt, Instance
    <2> QED
        BY <2>2 DEF Ranked
<1>5. CASE i \notin Positions(b)
    <2> DEFINE q == [r EXCEPT ![KeyAt(b, i)] = M + 1]
    <2>1. q \in [Key -> 0..(M + 1)] /\ M + 1 \in Nat
        BY DEF Key, KeyAt
    <2>2. \A x \in Key : x # KeyAt(b, i) => q[x] = r[x]
        OBVIOUS
    <2>3. KeyAt(b, i) \in Key /\ q[KeyAt(b, i)] = M + 1
        BY DEF Key, KeyAt
    <2>4. \A x \in Key : r[x] \in 0..M /\ r[x] <= q[x]
        <3> HIDE DEF q
        <3>1. \A x \in Key : r[x] \in 0..M
            OBVIOUS
        <3> QED
            BY <2>2, <2>3, <3>1
    <2> HIDE DEF q
    <2>5. ASSUME NEW t \in Type, Fits(t)
          PROVE  q[Instance(t)] = r[Instance(t)] /\ r[Instance(t)] \in 0..M /\ q[Instance(t)] < M + 1
        <3>1. Instance(t) \in Key /\ Instance(t) # KeyAt(b, i)
            BY <1>5, <2>5 DEF Instance, Key, KeyAt, Type, Fits
        <3> QED
            BY <2>2, <2>4, <3>1
    <2>6. ASSUME NEW c \in Base, NEW j \in Positions(c)', NEW k \in DOMAIN generic_types'[c][j]
          PROVE  q[Instance(generic_types'[c][j][k])] < q[KeyAt(c, j)]
        <3>1. CASE j \in Positions(c)
            <4>1. generic_types'[c][j] = generic_types[c][j] /\ k \in DOMAIN generic_types[c][j]
                BY <2>6, <3>1
            <4>2. PICK t : t = generic_types[c][j][k]
                OBVIOUS
            <4>3. t \in Type /\ Fits(t)
                <5>1. generic_types[c] \in Seq(Seq(Type)) /\ generic_types[c][j] \in Seq(Type)
                    BY <3>1 DEF TypeOK, Positions
                <5> QED
                    BY <3>1, <4>1, <4>2, <5>1 DEF TemplatesFit
            <4>4. r[Instance(t)] < r[KeyAt(c, j)]
                BY <1>2, <3>1, <4>1, <4>2 DEF PartsBelow
            <4>5. KeyAt(c, j) \in Key
                BY <3>1 DEF Key, KeyAt, Positions
            <4>6. q[Instance(t)] = r[Instance(t)] /\ r[Instance(t)] \in 0..M
                BY <2>5, <4>3
            <4>7. r[KeyAt(c, j)] <= q[KeyAt(c, j)] /\ r[KeyAt(c, j)] \in 0..M
                BY <2>4, <4>5
            <4>8. q[KeyAt(c, j)] \in 0..(M + 1)
                BY <2>1, <4>5
            <4> QED
                BY <4>1, <4>2, <4>4, <4>6, <4>7, <4>8
        <3>2. CASE c = b /\ j = i
            <4>1. ts[k] \in Type /\ Fits(ts[k])
                BY <2>6, <3>2
            <4> QED
                BY <2>3, <2>5, <3>2, <4>1
        <3> QED
            BY <1>3, <3>1, <3>2
    <2>7. ASSUME NEW s \in Structs, NEW k \in DOMAIN fields[s], fields[s][k].base # "parameter",
                 NEW j \in Nat
          PROVE  q[Instance(fields[s][k])] < q[KeyAt(s, j)]
        <3>1. PICK t : t = fields[s][k]
            OBVIOUS
        <3>2. t \in Type /\ Fits(t)
            <4>1. fields[s] \in Seq(FieldType)
                BY DEF TypeOK
            <4> QED
                BY <2>7, <3>1, <4>1 DEF TemplatesFit, FieldType
        <3>3. r[Instance(t)] < r[KeyAt(s, j)]
            BY <1>2, <2>7, <3>1 DEF PartsBelow
        <3>4. KeyAt(s, j) \in Key
            BY Bases DEF Key, KeyAt
        <3>5. q[Instance(t)] = r[Instance(t)] /\ r[Instance(t)] \in 0..M
            BY <2>5, <3>2
        <3>6. r[KeyAt(s, j)] <= q[KeyAt(s, j)] /\ r[KeyAt(s, j)] \in 0..M
            BY <2>4, <3>4
        <3>7. q[KeyAt(s, j)] \in 0..(M + 1)
            BY <2>1, <3>4
        <3> QED
            BY <3>1, <3>3, <3>5, <3>6, <3>7
    <2>8. PartsBelow(q)'
        BY <2>6, <2>7 DEF PartsBelow, KeyAt, Instance
    <2> QED
        BY <2>1, <2>8 DEF Ranked
<1> QED
    BY <1>4, <1>5

LEMMA SameRanks ==
    ASSUME Ranked, UNCHANGED <<generic_types, fields>>
    PROVE  Ranked'
<1>1. \A r : PartsBelow(r) => PartsBelow(r)'
    BY DEF PartsBelow, Positions, Instance, KeyAt
<1> QED
    BY <1>1 DEF Ranked

\* What no step that makes a type may do to those that exist.
Keeps == \A t \in types : t \in types' /\ Meaning(t) = Meaning(t)'

\* A type that holds position i.
At(b, i, ls) == [base |-> b, id |-> i, arrays |-> ls]

\* A type that has its position and its array lengths replaced.
LEMMA TypeAt ==
    ASSUME NEW t \in Type, NEW i \in Nat, NEW ls \in Seq(Nat)
    PROVE  [t EXCEPT !.id = i, !.arrays = ls] = At(t.base, i, ls)
<1> DEFINE u == [t EXCEPT !.id = i, !.arrays = ls]
<1>1. u \in Type
    BY DEF Type
<1>2. u.base = t.base /\ u.id = i /\ u.arrays = ls
    BY DEF Type
<1> HIDE DEF u
<1>3. u = [base |-> u.base, id |-> u.id, arrays |-> u.arrays]
    BY <1>1 DEF Type
<1> QED
    BY <1>2, <1>3 DEF At, u

\* A new template instance, and a type that holds its position.
LEMMA MakingInstance ==
    ASSUME IInv,
           NEW b \in Base, NEW ts \in Seq(Type), NEW i, NEW ls \in Seq(Nat),
           AddGenericInstance(b, ts, i),
           types' = types \cup {At(b, i, ls)},
           \A k \in DOMAIN ts : Fits(ts[k]) /\ Rooted(ts[k]),
           IF b = "function" THEN Len(ts) >= 1 ELSE Len(ts) = arity[b],
           b \in Structs => Plain(b) \in types,
           UNCHANGED <<named, arity, fields, stack, generated, status>>
    PROVE  IInv' /\ Keeps
<1>1. /\ generic_types' \in [Base -> Seq(Seq(Type))]
      /\ i \in Positions(b)' /\ i # NoTemplate /\ i \in Nat
      /\ generic_types'[b][i] = ts
      /\ \A c \in Base : \A j \in Positions(c) :
           j \in Positions(c)' /\ generic_types'[c][j] = generic_types[c][j]
      /\ \A c \in Base : \A j \in Positions(c)' :
           j \in Positions(c) \/ (c = b /\ generic_types'[c][j] = ts)
      /\ InstancesUnique'
    BY Interning DEF IInv, TypeOK
<1>2. At(b, i, ls) \in Type
    BY <1>1 DEF Type, At
<1>3. TypeOK'
    BY <1>1, <1>2 DEF IInv, TypeOK
<1>4. \A t \in Type : Fits(t) => FitsIn(generic_types', t)
    BY <1>1 DEF Fits, FitsIn, Type, Positions
<1>5. \A t : Rooted(t) => RootedIn(types', t)
    BY DEF Rooted, RootedIn
<1>6. FitsIn(generic_types', At(b, i, ls)) /\ RootedIn(types', At(b, i, ls))
    BY <1>1 DEF FitsIn, Rooted, RootedIn, At, Positions
<1>7. ASSUME NEW c \in Base, NEW j \in Positions(c)'
      PROVE  LET us == generic_types'[c][j]
             IN  /\ \A k \in DOMAIN us : FitsIn(generic_types', us[k]) /\ RootedIn(types', us[k])
                 /\ IF c = "function" THEN Len(us) >= 1 ELSE Len(us) = arity[c]
    <2>1. CASE j \in Positions(c)
        <3>1. generic_types'[c][j] = generic_types[c][j]
            BY <1>1, <2>1
        <3>2. generic_types[c] \in Seq(Seq(Type))
            BY DEF IInv, TypeOK
        <3>3. generic_types[c][j] \in Seq(Type)
            BY <2>1, <3>2 DEF Positions
        <3>4. \A k \in DOMAIN generic_types[c][j] :
                 generic_types[c][j][k] \in Type /\ Fits(generic_types[c][j][k])
                   /\ Rooted(generic_types[c][j][k])
            BY <2>1, <3>3 DEF IInv, TemplatesFit, AllRooted
        <3>5. IF c = "function" THEN Len(generic_types[c][j]) >= 1
              ELSE Len(generic_types[c][j]) = arity[c]
            BY <2>1 DEF IInv, TemplatesFit
        <3> QED
            BY <3>1, <3>4, <3>5, <1>4, <1>5
    <2>2. CASE c = b /\ generic_types'[c][j] = ts
        <3>1. \A k \in DOMAIN ts : ts[k] \in Type
            OBVIOUS
        <3> QED
            BY <2>2, <3>1, <1>4, <1>5
    <2> QED
        BY <1>1, <2>1, <2>2
<1>8. ASSUME NEW s \in Structs, NEW k \in DOMAIN fields[s], fields[s][k].base # "parameter"
      PROVE  fields[s][k] \in Type
    <2>1. fields[s] \in Seq(FieldType)
        BY DEF IInv, TypeOK
    <2>2. fields[s][k] \in FieldType
        BY <2>1
    <2> QED
        BY <2>2, <1>8 DEF FieldType
<1>9. TemplatesFit'
    <2>1. \A t \in types' : FitsIn(generic_types', t)
        BY <1>4, <1>6 DEF IInv, TypeOK, TemplatesFit
    <2>2. ASSUME NEW s \in Structs, NEW k \in DOMAIN fields[s]
          PROVE  IF fields[s][k].base = "parameter" THEN fields[s][k].id \in 1..arity[s]
                 ELSE FitsIn(generic_types', fields[s][k])
        BY <1>4, <1>8 DEF IInv, TemplatesFit
    <2> QED
        BY <2>1, <2>2, <1>7 DEF TemplatesFit, Fits, FitsIn, Positions
<1>10. AllRooted'
    <2>1. \A t \in types' : RootedIn(types', t)
        BY <1>5, <1>6 DEF IInv, AllRooted
    <2>2. \A s \in Structs : \A k \in DOMAIN fields[s] :
             fields[s][k].base = "parameter" \/ RootedIn(types', fields[s][k])
        BY <1>5 DEF IInv, AllRooted
    <2> QED
        BY <2>1, <2>2, <1>7 DEF AllRooted, Rooted
<1>11. Undefined'
    <2> SUFFICES ASSUME NEW s \in Structs, Plain(s) \notin types'
                 PROVE  generic_types'[s] = <<>> /\ fields'[s] = <<>>
        BY DEF Undefined
    <2>1. Plain(s) \notin types /\ generic_types[s] = <<>> /\ fields[s] = <<>>
        BY DEF IInv, Undefined
    <2>2. s # b
        BY <2>1
    <2>3. generic_types' = generic_types \/ generic_types' = Added(b, ts)
        BY DEF AddGenericInstance
    <2>4. generic_types'[s] = generic_types[s]
        BY <2>2, <2>3, Bases DEF Added, IInv, TypeOK
    <2> QED
        BY <2>1, <2>4
<1>12. StackOK'
    <2> SUFFICES ASSUME NEW k \in DOMAIN stack
                 PROVE  FitsIn(generic_types', stack[k].type) /\ ~RejectCodegen(stack[k].type)
        BY DEF StackOK, RejectCodegen, NotTemplated, IsTemplateable, Fits, FitsIn, Positions
    <2>1. stack[k].type \in Type
        <3>1. stack \in Seq(CallType)
            BY DEF IInv, TypeOK
        <3>2. stack[k] \in CallType
            BY <3>1
        <3> QED
            BY <3>2 DEF CallType
    <2> QED
        BY <2>1, <1>4 DEF IInv, StackOK
<1>13. Keeps
    <2> SUFFICES ASSUME NEW t \in types PROVE Meaning(t) = Meaning(t)'
        BY DEF Keeps
    <2>1. t \in Type /\ Fits(t)
        BY DEF IInv, TypeOK, TemplatesFit
    <2>2. t.id # NoTemplate => generic_types'[t.base][t.id] = generic_types[t.base][t.id]
        BY <1>1, <2>1 DEF Fits, Type
    <2> QED
        BY <2>2 DEF Meaning, Arguments, IsTemplateable
<1>14. named' \subseteq types' /\ Arities' /\ Idle'
    BY DEF IInv, Arities, Idle
<1>15. InstancesUnique'
    BY <1>1
<1>16. Ranked'
    BY <1>1, RankInstance DEF IInv
<1>17. IInv'
    BY <1>3, <1>9, <1>10, <1>11, <1>12, <1>14, <1>15, <1>16 DEF IInv
<1> QED
    BY <1>13, <1>17

\* A part of a type that exists.
LEMMA MakingPart ==
    ASSUME IInv, NEW t \in Type, Fits(t), Rooted(t), PartOf(t)
    PROVE  IInv' /\ Keeps
<1>1. /\ types' = types \cup {t}
      /\ UNCHANGED <<named, arity, fields, generic_types, stack, generated, status>>
    BY DEF PartOf, Make
<1>2. TypeOK'
    BY <1>1 DEF IInv, TypeOK
<1>3. \A u : Fits(u) <=> Fits(u)'
    BY <1>1 DEF Fits, Positions
<1>4. \A u : Rooted(u) => Rooted(u)'
    BY <1>1 DEF Rooted, RootedIn
<1>5. InstancesUnique' /\ Arities' /\ named' \subseteq types' /\ Idle'
    BY <1>1 DEF IInv, InstancesUnique, Arities, Positions, Idle
<1>6. TemplatesFit'
    BY <1>1, <1>3 DEF IInv, TemplatesFit, Positions
<1>7. AllRooted'
    BY <1>1, <1>4 DEF IInv, AllRooted, Positions
<1>8. Undefined'
    BY <1>1 DEF IInv, Undefined
<1>9. StackOK'
    BY <1>1, <1>3 DEF IInv, StackOK, RejectCodegen, NotTemplated, IsTemplateable
<1>10. Keeps
    BY <1>1 DEF Keeps, Meaning, Arguments, IsTemplateable
<1>11. Ranked'
    BY <1>1, SameRanks DEF IInv
<1> QED
    BY <1>2, <1>5, <1>6, <1>7, <1>8, <1>9, <1>10, <1>11 DEF IInv
-----------------------------------------------------------------------------
(* Making pointers, functions and structs *)

LEMMA MakesInstance ==
    ASSUME IInv,
           NEW b \in {"ptr", "function"}, NEW ts \in Seq(Type),
           \A k \in DOMAIN ts : Fits(ts[k]) /\ Rooted(ts[k]),
           IF b = "function" THEN Len(ts) >= 1 ELSE Len(ts) = 1,
           MakeInstance(b, ts),
           UNCHANGED <<named, arity, fields, stack, generated, status>>
    PROVE  IInv' /\ Keeps
<1>1. PICK i \in Candidates(b) :
         AddGenericInstance(b, ts, i) /\ Make([Plain(b) EXCEPT !.id = i])
    BY DEF MakeInstance
<1>2. [Plain(b) EXCEPT !.id = i] = At(b, i, <<>>)
    BY DEF Plain, At
<1>3. types' = types \cup {At(b, i, <<>>)}
    BY <1>1, <1>2 DEF Make
<1>4. b \in Base /\ b \notin Structs
    BY Bases
<1>5. IF b = "function" THEN Len(ts) >= 1 ELSE Len(ts) = arity[b]
    BY DEF IInv, Arities
<1>6. <<>> \in Seq(Nat)
    OBVIOUS
<1> QED
    BY <1>1, <1>3, <1>4, <1>5, <1>6, MakingInstance

\* A type the program has made is one that other types may be made of.
LEMMA MadeTyped ==
    ASSUME IInv
    PROVE  \A t \in types : t \in Type /\ Fits(t) /\ Rooted(t)
BY DEF IInv, TypeOK, TemplatesFit, AllRooted

LEMMA PlainFits ==
    ASSUME NEW b \in Base \ Structs
    PROVE  Plain(b) \in Type /\ Fits(Plain(b)) /\ Rooted(Plain(b))
BY DEF Plain, Type, Fits, Rooted, RootedIn, NoTemplate

LEMMA MakesFunction ==
    ASSUME IInv, NEW r \in types, NEW args \in UpTo(MaxArgs, types),
           NEW hidden \in BOOLEAN, NEW variadic \in BOOLEAN,
           FunctionReturning(r, args \o Hidden(hidden), variadic),
           UNCHANGED <<named, arity, fields, stack, generated, status>>
    PROVE  IInv' /\ Keeps
<1> DEFINE S == {t \in Type : Fits(t) /\ Rooted(t)}
<1>1. r \in S /\ types \subseteq S
    BY MadeTyped
<1>2. args \in Seq(S)
    <2>1. MaxArgs \in Nat
        BY TypesAssumption
    <2>2. args \in Seq(types)
        BY <2>1, ListTyped
    <2> QED
        BY <2>2, <1>1
<1>3. Plain("i32") \in S /\ Plain("var_args") \in S
    BY Bases, PlainFits
<1> DEFINE tail == IF variadic THEN <<Plain("var_args")>> ELSE <<>>
<1> HIDE DEF S
<1>4. Hidden(hidden) \in Seq(S) /\ tail \in Seq(S)
    <2>1. <<>> \in Seq(S) /\ <<Plain("i32")>> \in Seq(S) /\ <<Plain("var_args")>> \in Seq(S)
        BY <1>3
    <2> QED
        BY <2>1 DEF Hidden
<1> DEFINE ts == <<r>> \o (args \o Hidden(hidden)) \o tail
<1>5. MakeInstance("function", ts)
    BY DEF FunctionReturning
<1> HIDE DEF tail
<1>6. args \o Hidden(hidden) \in Seq(S) /\ <<r>> \in Seq(S) /\ Len(<<r>>) = 1
    BY <1>1, <1>2, <1>4
<1>7. /\ <<r>> \o (args \o Hidden(hidden)) \in Seq(S)
      /\ Len(<<r>> \o (args \o Hidden(hidden))) = 1 + Len(args \o Hidden(hidden))
    BY <1>6, ConcatProperties
<1>8. ts \in Seq(S) /\ Len(ts) = 1 + Len(args \o Hidden(hidden)) + Len(tail)
    BY <1>4, <1>7, ConcatProperties
<1>9. Len(ts) >= 1
    BY <1>4, <1>6, <1>8, LenProperties
<1>10. \A k \in DOMAIN ts : ts[k] \in S
    BY <1>8
<1> HIDE DEF ts
<1>11. ts \in Seq(Type) /\ \A k \in DOMAIN ts : Fits(ts[k]) /\ Rooted(ts[k])
    BY <1>8, <1>10 DEF S
<1> QED
    BY <1>5, <1>9, <1>11, MakesInstance

\* A struct is defined before any type is made of it, so that nothing that
\* exists depends on how many parameters it will have.
LEMMA DefinesStruct ==
    ASSUME IInv, DefineStruct
    PROVE  IInv' /\ Keeps
<1>1. PICK s \in Structs, n \in 0..MaxArity :
        /\ Plain(s) \notin types
        /\ arity' = [arity EXCEPT ![s] = n]
        /\ \E fs \in UpTo(MaxParts, FieldsOf(s, n)) : fields' = [fields EXCEPT ![s] = fs]
        /\ named' = named \cup {Plain(s)}
        /\ Make(Plain(s))
    BY DEF DefineStruct
<1>2. PICK fs \in UpTo(MaxParts, FieldsOf(s, n)) : fields' = [fields EXCEPT ![s] = fs]
    BY <1>1
<1>3. /\ UNCHANGED <<generic_types, stack, generated, status>>
      /\ types' = types \cup {Plain(s)}
      /\ status = "parsing" /\ stack = <<>>
    BY <1>1 DEF DefineStruct, Make, Making, Parsing, IInv, Idle
<1>4. s \in Base /\ n \in Nat /\ MaxParts \in Nat
    BY Bases, TypesAssumption
<1>5. \A k \in DOMAIN fs : fs[k] \in FieldsOf(s, n)
    BY <1>4, ListTyped
<1>6. Plain(s) \in Type /\ Fits(Plain(s)) /\ RootedIn(types', Plain(s))
    BY <1>3, <1>4, PlainTyped DEF Fits, RootedIn
<1>7. /\ generic_types[s] = <<>>
      /\ \A t \in types : t.base # s
    BY <1>1, MadeTyped DEF IInv, Undefined, Rooted, RootedIn
<1>8. /\ arity' \in [Base -> Nat] /\ arity'[s] = n
      /\ \A b \in Base \ {s} : arity'[b] = arity[b]
    BY <1>1, <1>4 DEF IInv, TypeOK
<1>9. fields'[s] = fs /\ \A z \in Structs \ {s} : fields'[z] = fields[z]
    BY <1>2 DEF IInv, TypeOK
<1>10. ASSUME NEW k \in DOMAIN fs
       PROVE  /\ fs[k] \in FieldType
              /\ IF fs[k].base = "parameter" THEN fs[k].id \in 1..n
                 ELSE Fits(fs[k]) /\ RootedIn(types', fs[k])
    <2>1. CASE fs[k] \in types
        <3>1. fs[k] \in Type /\ Fits(fs[k]) /\ Rooted(fs[k])
            BY <2>1, MadeTyped
        <3>2. fs[k].base # "parameter"
            BY <3>1, Bases DEF Type
        <3> QED
            BY <1>3, <3>1, <3>2 DEF FieldType, Rooted, RootedIn
    <2>2. CASE \E i \in 1..n : fs[k] = Parameter(i)
        BY <1>4, <2>2 DEF Parameter, FieldType
    <2> QED
        BY <1>5, <2>1, <2>2 DEF FieldsOf
<1>11. TypeOK'
    <2>1. fs \in Seq(FieldType)
        <3>1. fs \in Seq(FieldsOf(s, n))
            BY <1>4, ListTyped
        <3> QED
            BY <1>10, <3>1
    <2>2. fields' \in [Structs -> Seq(FieldType)]
        BY <1>2, <2>1 DEF IInv, TypeOK
    <2> QED
        BY <1>1, <1>3, <1>6, <1>8, <2>2 DEF IInv, TypeOK
<1>12. InstancesUnique' /\ Idle' /\ StackOK' /\ named' \subseteq types'
    BY <1>1, <1>3 DEF IInv, InstancesUnique, Idle, StackOK, Positions
<1>13. TemplatesFit'
    <2>1. \A t \in types' : Fits(t)'
        BY <1>3, <1>6, MadeTyped DEF Fits, Positions
    <2>2. ASSUME NEW z \in Structs, NEW k \in DOMAIN fields'[z]
          PROVE  IF fields'[z][k].base = "parameter" THEN fields'[z][k].id \in 1..arity'[z]
                 ELSE FitsIn(generic_types, fields'[z][k])
        <3>1. CASE z = s
            BY <1>8, <1>9, <1>10, <3>1 DEF Fits, FitsIn, Positions
        <3>2. CASE z # s
            BY <1>8, <1>9, <3>2, Bases DEF IInv, TemplatesFit, Fits, FitsIn, Positions
        <3> QED
            BY <3>1, <3>2
    <2>3. ASSUME NEW b \in Base, NEW i \in Positions(b)
          PROVE  LET ts == generic_types[b][i]
                 IN  /\ \A k \in DOMAIN ts : FitsIn(generic_types, ts[k])
                     /\ IF b = "function" THEN Len(ts) >= 1 ELSE Len(ts) = arity'[b]
        <3>1. b # s
            BY <1>7 DEF Positions
        <3> QED
            BY <1>8, <3>1 DEF IInv, TemplatesFit, Fits, FitsIn, Positions
    <2> QED
        BY <1>3, <2>1, <2>2, <2>3 DEF TemplatesFit, Fits, FitsIn, Positions
<1>14. \A t : Rooted(t) => RootedIn(types', t)
    BY <1>3 DEF Rooted, RootedIn
<1>15. AllRooted'
    <2>1. \A t \in types' : RootedIn(types', t)
        BY <1>3, <1>6, <1>14, MadeTyped
    <2>2. ASSUME NEW z \in Structs, NEW k \in DOMAIN fields'[z]
          PROVE  fields'[z][k].base = "parameter" \/ RootedIn(types', fields'[z][k])
        <3>1. CASE z = s
            BY <1>9, <1>10, <3>1
        <3>2. CASE z # s
            BY <1>9, <1>14, <3>2 DEF IInv, AllRooted
        <3> QED
            BY <3>1, <3>2
    <2>3. \A b \in Base : \A i \in Positions(b) :
             \A k \in DOMAIN generic_types[b][i] : RootedIn(types', generic_types[b][i][k])
        BY <1>14 DEF IInv, AllRooted
    <2> QED
        BY <1>3, <2>1, <2>2, <2>3 DEF AllRooted, Rooted, Positions
<1>16. Undefined'
    BY <1>3, <1>9 DEF IInv, Undefined
<1>17. Arities'
    BY <1>8, Bases DEF IInv, Arities
<1>18. Keeps
    BY <1>3, <1>7, <1>8, MadeTyped DEF Keeps, Meaning, Arguments, IsTemplateable, Type
<1>19. Ranked'
    <2>1. PICK M \in Nat : \E r \in [Key -> 0..M] : PartsBelow(r)
        BY DEF IInv, Ranked
    <2>2. PICK r \in [Key -> 0..M] : PartsBelow(r)
        BY <2>1
    <2> DEFINE q == [x \in Key |-> IF x.base = s THEN M + 1 ELSE r[x]]
    <2>3. q \in [Key -> 0..(M + 1)] /\ M + 1 \in Nat
        OBVIOUS
    <2>4. \A c \in Base, j \in Nat :
             /\ KeyAt(c, j) \in Key
             /\ q[KeyAt(c, j)] = IF c = s THEN M + 1 ELSE r[KeyAt(c, j)]
        BY DEF Key, KeyAt
    <2>5. \A t \in Type : t.base # s =>
             q[Instance(t)] = r[Instance(t)] /\ q[Instance(t)] \in 0..M
        <3>1. \A t \in Type : Instance(t) \in Key /\ Instance(t).base = t.base
            BY DEF Key, Instance, Type
        <3> QED
            BY <3>1
    <2> HIDE DEF q
    <2>6. \A t \in Type : Rooted(t) => t.base # s
        BY <1>1 DEF Rooted, RootedIn
    <2>7. ASSUME NEW c \in Base, NEW j \in Positions(c), NEW k \in DOMAIN generic_types[c][j]
          PROVE  q[Instance(generic_types[c][j][k])] < q[KeyAt(c, j)]
        <3>1. PICK t : t = generic_types[c][j][k]
            OBVIOUS
        <3>2. t \in Type /\ Rooted(t)
            <4>1. generic_types[c] \in Seq(Seq(Type)) /\ generic_types[c][j] \in Seq(Type)
                BY DEF IInv, TypeOK, Positions
            <4> QED
                BY <2>7, <3>1, <4>1 DEF IInv, AllRooted
        <3>3. c # s /\ j \in Nat
            BY <1>7 DEF Positions
        <3>4. r[Instance(t)] < r[KeyAt(c, j)]
            BY <2>2, <2>7, <3>1 DEF PartsBelow
        <3> QED
            BY <2>4, <2>5, <2>6, <3>1, <3>2, <3>3, <3>4
    <2>8. ASSUME NEW z \in Structs, NEW k \in DOMAIN fields'[z], fields'[z][k].base # "parameter",
                 NEW j \in Nat
          PROVE  q[Instance(fields'[z][k])] < q[KeyAt(z, j)]
        <3>1. PICK t : t = fields'[z][k]
            OBVIOUS
        <3>2. CASE z = s
            <4>1. t \in types
                BY <1>5, <1>9, <2>8, <3>1, <3>2 DEF FieldsOf, Parameter
            <4>2. t \in Type /\ t.base # s
                BY <1>7, <4>1, MadeTyped
            <4> QED
                BY <1>4, <2>4, <2>5, <3>1, <3>2, <4>2
        <3>3. CASE z # s
            <4>1. fields'[z] = fields[z] /\ fields[z] \in Seq(FieldType)
                BY <1>9, <3>3 DEF IInv, TypeOK
            <4>2. t \in Type /\ Rooted(t)
                BY <2>8, <3>1, <4>1 DEF IInv, AllRooted, FieldType
            <4>3. r[Instance(t)] < r[KeyAt(z, j)]
                BY <2>2, <2>8, <3>1, <4>1 DEF PartsBelow
            <4>4. z \in Base
                BY Bases
            <4> QED
                BY <2>4, <2>5, <2>6, <3>1, <3>3, <4>2, <4>3, <4>4
        <3> QED
            BY <3>2, <3>3
    <2>9. PartsBelow(q)'
        BY <1>3, <2>7, <2>8 DEF PartsBelow, KeyAt, Instance, Positions
    <2> QED
        BY <2>3, <2>9 DEF Ranked
<1>20. IInv'
    BY <1>11, <1>12, <1>13, <1>15, <1>16, <1>17, <1>19 DEF IInv
<1> QED
    BY <1>18, <1>20
-----------------------------------------------------------------------------
(* The parts of types *)

\* The arguments of a type that has to have them.
LEMMA Templated ==
    ASSUME IInv, NEW t \in Type, Fits(t), ~NotTemplated(t), arity[t.base] # 0
    PROVE  /\ Arguments(t) \in Seq(Type)
           /\ \A k \in DOMAIN Arguments(t) :
                Arguments(t)[k] \in Type /\ Fits(Arguments(t)[k]) /\ Rooted(Arguments(t)[k])
           /\ IF t.base = "function" THEN Len(Arguments(t)) >= 1
              ELSE Len(Arguments(t)) = arity[t.base]
<1>1. t.id # NoTemplate
    BY DEF NotTemplated, IsTemplateable
<1> QED
    BY <1>1, ArgumentsTyped

LEMMA FirstArgument ==
    ASSUME IInv, NEW t \in Type, Fits(t), ~NotTemplated(t), t.base \in {"ptr", "function"}
    PROVE  /\ 1 \in DOMAIN Arguments(t)
           /\ Arguments(t)[1] \in Type /\ Fits(Arguments(t)[1]) /\ Rooted(Arguments(t)[1])
<1>1. arity[t.base] = 1
    BY DEF IInv, Arities
<1>2. Arguments(t) \in Seq(Type) /\ Len(Arguments(t)) >= 1
    BY <1>1, Templated
<1>3. 1 \in DOMAIN Arguments(t)
    BY <1>2, LenProperties
<1> QED
    BY <1>1, <1>3, Templated

LEMMA FieldTyped ==
    ASSUME IInv, NEW t \in Type, Fits(t), ~NotTemplated(t), t.base \in Structs,
           NEW i \in DOMAIN fields[t.base]
    PROVE  Field(t, i) \in Type /\ Fits(Field(t, i)) /\ Rooted(Field(t, i))
<1> DEFINE f == fields[t.base][i]
<1>1. fields[t.base] \in Seq(FieldType) /\ f \in FieldType
    BY DEF IInv, TypeOK
<1>2. CASE f.base = "parameter"
    <2>1. f.id \in 1..arity[t.base]
        BY <1>2 DEF IInv, TemplatesFit
    <2>2. t.base \in Base /\ arity[t.base] \in Nat
        BY Bases DEF IInv, TypeOK
    <2>3. arity[t.base] # 0 /\ t.base # "function"
        BY <2>1, <2>2, Bases
    <2>4. Arguments(t) \in Seq(Type) /\ Len(Arguments(t)) = arity[t.base]
        BY <2>3, Templated
    <2>5. f.id \in DOMAIN Arguments(t)
        BY <2>1, <2>4, LenProperties
    <2>6. Field(t, i) = Arguments(t)[f.id]
        BY <1>2 DEF Field
    <2> QED
        BY <2>3, <2>5, <2>6, Templated
<1>3. CASE f.base # "parameter"
    <2>1. f \in Type
        BY <1>1, <1>3 DEF FieldType
    <2>2. Fits(f) /\ Rooted(f)
        BY <1>3 DEF IInv, TemplatesFit, AllRooted
    <2>3. Field(t, i) = f
        BY <1>3 DEF Field
    <2> QED
        BY <2>1, <2>2, <2>3
<1> QED
    BY <1>2, <1>3

LEMMA PartsTyped ==
    ASSUME IInv, NEW t \in Type, Fits(t), ~RejectCodegen(t)
    PROVE  /\ Parts(t) \in Seq(Type)
           /\ \A k \in DOMAIN Parts(t) : Fits(Parts(t)[k])
<1>1. ~NotTemplated(t)
    BY DEF RejectCodegen
<1>2. CASE t.base = "ptr"
    <2>1. Parts(t) = <<Arguments(t)[1]>>
        BY <1>2, Bases DEF Parts
    <2>2. Arguments(t)[1] \in Type /\ Fits(Arguments(t)[1])
        BY <1>1, <1>2, FirstArgument
    <2> QED
        BY <2>1, <2>2
<1>3. CASE t.base = "function"
    <2>1. arity[t.base] # 0
        BY <1>3 DEF IInv, Arities
    <2> DEFINE ts == Arguments(t)
               n  == Len(ts) - 1
    <2>2. ts \in Seq(Type) /\ Len(ts) >= 1 /\ \A k \in DOMAIN ts : Fits(ts[k])
        BY <1>1, <1>3, <2>1, Templated
    <2>3. Parts(t) = ts \/ Parts(t) = SubSeq(ts, 1, n)
        BY <1>3, Bases DEF Parts
    <2> HIDE DEF ts
    <2>4. n \in Nat /\ \A k \in 1..n : ts[k] \in Type /\ Fits(ts[k])
        BY <2>2, LenProperties
    <2> HIDE DEF n
    <2>5. /\ SubSeq(ts, 1, n) \in Seq(Type)
          /\ Len(SubSeq(ts, 1, n)) = IF 1 <= n THEN n - 1 + 1 ELSE 0
          /\ \A k \in 1..(n - 1 + 1) : SubSeq(ts, 1, n)[k] = ts[1 + k - 1]
        BY <2>4, SubSeqProperties
    <2>6. DOMAIN SubSeq(ts, 1, n) = 1..n /\ \A k \in 1..n : SubSeq(ts, 1, n)[k] = ts[k]
        <3>1. n - 1 + 1 = n /\ \A k \in 1..n : 1 + k - 1 = k
            BY <2>4
        <3>2. Len(SubSeq(ts, 1, n)) = n
            BY <2>4, <2>5
        <3> QED
            BY <2>5, <3>1, <3>2, LenProperties
    <2> QED
        BY <2>2, <2>3, <2>4, <2>5, <2>6
<1>4. CASE t.base \in Structs
    <2>1. Parts(t) = [i \in DOMAIN fields[t.base] |-> Field(t, i)]
        BY <1>4, Bases DEF Parts
    <2>2. fields[t.base] \in Seq(FieldType)
        BY <1>4 DEF IInv, TypeOK
    <2>3. \A i \in DOMAIN fields[t.base] : Field(t, i) \in Type /\ Fits(Field(t, i))
        BY <1>1, <1>4, FieldTyped
    <2>4. PICK n \in Nat : DOMAIN fields[t.base] = 1..n
        BY <2>2, LenProperties
    <2> QED
        BY <2>1, <2>3, <2>4
<1>5. CASE t.base \in Scalars
    <2>1. Parts(t) = <<>>
        BY <1>5, Bases DEF Parts
    <2> QED
        BY <2>1
<1> QED
    BY <1>2, <1>3, <1>4, <1>5, Bases DEF Type, RejectCodegen
-----------------------------------------------------------------------------
(* Steps that make no type *)

LEMMA Resting ==
    ASSUME IInv,
           UNCHANGED <<types, arity, fields, generic_types>>,
           named' \subseteq types,
           stack' \in Seq(CallType),
           \A i \in DOMAIN stack' : Fits(stack'[i].type) /\ ~RejectCodegen(stack'[i].type),
           generated' \in Seq([base : Structs, id : Nat]),
           status' \in {"parsing", "generating", "bad_template", "wrong_type",
                        "not_templated", "no_code"},
           status' = "parsing" => status = "parsing" /\ stack' = stack
    PROVE  IInv' /\ Keeps
<1>1. TypeOK'
    BY DEF IInv, TypeOK
<1>2. InstancesUnique' /\ TemplatesFit' /\ AllRooted' /\ Undefined' /\ Arities'
    BY DEF IInv, InstancesUnique, TemplatesFit, AllRooted, Undefined, Arities, Fits, Rooted,
           RootedIn, Positions
<1>3. StackOK'
    BY DEF StackOK, Fits, Positions, RejectCodegen, NotTemplated, IsTemplateable
<1>4. Idle' /\ named' \subseteq types'
    BY DEF IInv, Idle
<1>5. Keeps
    BY DEF Keeps, Meaning, Arguments, IsTemplateable
<1>6. Ranked'
    BY SameRanks DEF IInv
<1>7. IInv'
    BY <1>1, <1>2, <1>3, <1>4, <1>6 DEF IInv
<1> QED
    BY <1>5, <1>7

\* What holds of the stack as it is.
LEMMA StackTyped ==
    ASSUME IInv
    PROVE  /\ named \subseteq types
           /\ stack \in Seq(CallType)
           /\ \A i \in DOMAIN stack : Fits(stack[i].type) /\ ~RejectCodegen(stack[i].type)
           /\ generated \in Seq([base : Structs, id : Nat])
           /\ status \in {"parsing", "generating", "bad_template", "wrong_type",
                          "not_templated", "no_code"}
BY DEF IInv, TypeOK, StackOK

LEMMA Rejects ==
    ASSUME IInv, NEW why \in {"bad_template", "wrong_type", "not_templated", "no_code"},
           Reject(why)
    PROVE  IInv' /\ Keeps
BY StackTyped, Resting DEF Reject

\* The innermost call, and the stack below it.
LEMMA TopTyped ==
    ASSUME IInv, stack # <<>>
    PROVE  /\ Top \in CallType /\ Fits(Top.type) /\ ~RejectCodegen(Top.type)
           /\ Under \in Seq(CallType)
           /\ \A i \in DOMAIN Under : Fits(Under[i].type) /\ ~RejectCodegen(Under[i].type)
<1>1. stack \in Seq(CallType)
    BY StackTyped
<1>2. Len(stack) \in 1..Len(stack) /\ Len(stack) \in DOMAIN stack
    BY <1>1, EmptySeq, LenProperties
<1> DEFINE n == Len(stack) - 1
<1>3. n \in Nat /\ \A i \in 1..n : stack[i] \in CallType /\ i \in DOMAIN stack
    BY <1>1, <1>2
<1>4. Under = SubSeq(stack, 1, n)
    BY DEF Under
<1> HIDE DEF n
<1>5. /\ Under \in Seq(CallType)
      /\ Len(Under) = IF 1 <= n THEN n - 1 + 1 ELSE 0
      /\ \A i \in 1..(n - 1 + 1) : Under[i] = stack[1 + i - 1]
    BY <1>3, <1>4, SubSeqProperties
<1>6. Len(Under) = n
    BY <1>3, <1>5
<1>7. ASSUME NEW i \in DOMAIN Under PROVE Under[i] = stack[i] /\ i \in DOMAIN stack
    <2>1. i \in 1..n
        BY <1>5, <1>6, LenProperties
    <2>2. i \in 1..(n - 1 + 1) /\ 1 + i - 1 = i
        BY <1>3, <2>1
    <2> QED
        BY <1>3, <1>5, <2>1, <2>2
<1>8. Top \in CallType
    BY <1>1, <1>2 DEF Top
<1> QED
    BY <1>2, <1>5, <1>7, <1>8, StackTyped DEF Top

\* A call on top of a stack of calls.
LEMMA Pushed ==
    ASSUME NEW s \in Seq(CallType), NEW c \in CallType,
           \A i \in DOMAIN s : Fits(s[i].type) /\ ~RejectCodegen(s[i].type),
           Fits(c.type), ~RejectCodegen(c.type)
    PROVE  /\ Append(s, c) \in Seq(CallType)
           /\ \A i \in DOMAIN Append(s, c) :
                Fits(Append(s, c)[i].type) /\ ~RejectCodegen(Append(s, c)[i].type)
<1>1. /\ Append(s, c) \in Seq(CallType)
      /\ Len(Append(s, c)) = Len(s) + 1
      /\ \A i \in 1..Len(s) : Append(s, c)[i] = s[i]
      /\ Append(s, c)[Len(s) + 1] = c
    BY AppendProperties
<1>2. DOMAIN Append(s, c) = 1..(Len(s) + 1) /\ DOMAIN s = 1..Len(s) /\ Len(s) \in Nat
    BY <1>1, LenProperties
<1>3. 1..(Len(s) + 1) = 1..Len(s) \cup {Len(s) + 1}
    BY <1>2
<1> QED
    BY <1>1, <1>2, <1>3

LEMMA NextPartTyped ==
    ASSUME IInv, More
    PROVE  /\ NextPart \in Type /\ Fits(NextPart)
           /\ Advanced = Append(Under, [Top EXCEPT !.next = @ + 1])
           /\ Advanced \in Seq(CallType)
           /\ \A i \in DOMAIN Advanced : Fits(Advanced[i].type) /\ ~RejectCodegen(Advanced[i].type)
<1>1. /\ Top \in CallType /\ Fits(Top.type) /\ ~RejectCodegen(Top.type)
      /\ Under \in Seq(CallType)
      /\ \A i \in DOMAIN Under : Fits(Under[i].type) /\ ~RejectCodegen(Under[i].type)
    BY TopTyped DEF More
<1>2. Top.type \in Type /\ Top.next \in Nat \ {0}
    BY <1>1 DEF CallType
<1>3. Parts(Top.type) \in Seq(Type) /\ \A k \in DOMAIN Parts(Top.type) : Fits(Parts(Top.type)[k])
    BY <1>1, <1>2, PartsTyped
<1>4. Top.next \in DOMAIN Parts(Top.type)
    BY <1>2, <1>3, LenProperties DEF More
<1>5. NextPart \in Type /\ Fits(NextPart)
    BY <1>3, <1>4 DEF NextPart
<1> DEFINE c == [Top EXCEPT !.next = @ + 1]
<1>6. c \in CallType /\ c.type = Top.type
    BY <1>1, <1>2 DEF CallType
<1>7. Advanced = Append(Under, c)
    BY <1>1, <1>6 DEF Advanced
<1> HIDE DEF c
<1>8. /\ Append(Under, c) \in Seq(CallType)
      /\ \A i \in DOMAIN Append(Under, c) :
           Fits(Append(Under, c)[i].type) /\ ~RejectCodegen(Append(Under, c)[i].type)
    BY <1>1, <1>6, Pushed
<1> QED
    BY <1>5, <1>7, <1>8 DEF c
-----------------------------------------------------------------------------
(* The actions *)

LEMMA ParsesNamedType ==
    ASSUME IInv, ParseNamedType
    PROVE  IInv' /\ Keeps
<1>1. PICK t \in named, ts \in UpTo(MaxParts, types), ls \in UpTo(MaxDims, Lengths) :
        \/ /\ ts = <<>>
           /\ Make([t EXCEPT !.arrays = @ \o ls])
           /\ UNCHANGED generic_types
        \/ /\ ts # <<>>
           /\ Templates(t, ts)
           /\ \E i \in Candidates(t.base) :
                /\ AddGenericInstance(t.base, ts, i)
                /\ Make([t EXCEPT !.id = i, !.arrays = @ \o ls])
    BY DEF ParseNamedType
<1>2. UNCHANGED <<named, arity, fields, stack, generated, status>>
    BY DEF ParseNamedType
<1>3. t \in types /\ t \in Type /\ Fits(t) /\ Rooted(t)
    BY MadeTyped DEF IInv
<1>4. ls \in Seq(Nat)
    <2>1. MaxDims \in Nat /\ Lengths \subseteq Nat
        BY TypesAssumption
    <2>2. /\ \A k \in DOMAIN ls : ls[k] \in Lengths
          /\ ls \in Seq(Lengths)
        BY <2>1, ListTyped
    <2>3. /\ Len(ls) \in Nat
          /\ ls \in [1..Len(ls) -> Lengths]
        BY <2>2, LenProperties
    <2>4. ls \in [1..Len(ls) -> Nat]
        BY <2>1, <2>3
    <2> QED
        BY <2>3, <2>4, SeqDef
<1>5. ts \in Seq(types) /\ \A k \in DOMAIN ts : ts[k] \in types
    BY ListTyped, TypesAssumption
<1>6. t.arrays \o ls \in Seq(Nat)
    BY <1>3, <1>4, ConcatProperties DEF Type
<1>7. CASE Make([t EXCEPT !.arrays = @ \o ls]) /\ UNCHANGED generic_types
    <2> DEFINE u == [t EXCEPT !.arrays = @ \o ls]
    <2>1. u \in Type /\ u.base = t.base /\ u.id = t.id
        BY <1>3, <1>6 DEF Type
    <2>2. Fits(u) /\ Rooted(u)
        BY <1>3, <2>1 DEF Fits, Rooted, RootedIn
    <2>3. PartOf(u)
        BY <1>2, <1>7 DEF PartOf
    <2> QED
        BY <2>1, <2>2, <2>3, MakingPart
<1>8. ASSUME Templates(t, ts),
             NEW i \in Candidates(t.base),
             AddGenericInstance(t.base, ts, i),
             Make([t EXCEPT !.id = i, !.arrays = @ \o ls])
      PROVE  IInv' /\ Keeps
    <2> DEFINE as == t.arrays \o ls
    <2>1. [t EXCEPT !.id = i, !.arrays = @ \o ls] = At(t.base, i, as)
        <3>1. i \in Nat /\ t.arrays \o ls \in Seq(Nat)
            BY <1>6 DEF Candidates
        <3> QED
            BY <1>3, <3>1, TypeAt
    <2>2. types' = types \cup {At(t.base, i, as)}
        BY <1>8, <2>1 DEF Make
    <2>3. t.base \in Base /\ (t.base \in Structs => Plain(t.base) \in types)
        BY <1>3 DEF Type, Rooted, RootedIn
    <2>4. ts \in Seq(Type) /\ \A k \in DOMAIN ts : Fits(ts[k]) /\ Rooted(ts[k])
        BY <1>5, MadeTyped
    <2>5. IF t.base = "function" THEN Len(ts) >= 1 ELSE Len(ts) = arity[t.base]
        BY <1>8 DEF Templates, IInv, Arities
    <2>6. as \in Seq(Nat)
        BY <1>6
    <2> HIDE DEF as
    <2> QED
        BY <1>2, <1>8, <2>2, <2>3, <2>4, <2>5, <2>6, MakingInstance
<1> QED
    BY <1>1, <1>7, <1>8

LEMMA Derives ==
    ASSUME IInv, Derive
    PROVE  IInv' /\ Keeps
<1>1. CASE AddressOf
    <2>1. PICK t \in types : MakeInstance("ptr", <<t>>)
        BY <1>1 DEF AddressOf
    <2>2. UNCHANGED <<named, arity, fields, stack, generated, status>>
        BY <1>1 DEF AddressOf
    <2>3. t \in Type /\ Fits(t) /\ Rooted(t)
        BY MadeTyped
    <2>4. /\ <<t>> \in Seq(Type) /\ Len(<<t>>) = 1
          /\ \A k \in DOMAIN <<t>> : Fits(<<t>>[k]) /\ Rooted(<<t>>[k])
        BY <2>3
    <2> QED
        BY <2>1, <2>2, <2>4, MakesInstance
<1>2. CASE Dereference
    <2>1. PICK t \in types : t.base = "ptr" /\ ~NotTemplated(t) /\ PartOf(Arguments(t)[1])
        BY <1>2 DEF Dereference
    <2>2. t \in Type /\ Fits(t)
        BY MadeTyped
    <2> QED
        BY <2>1, <2>2, FirstArgument, MakingPart
<1>3. CASE Subscript
    <2>1. PICK t \in types : IsArray(t) /\ PartOf([t EXCEPT !.arrays = SubSeq(@, 1, Len(@) - 1)])
        BY <1>3 DEF Subscript
    <2>2. t \in Type /\ Fits(t) /\ Rooted(t)
        BY MadeTyped
    <2> DEFINE as == t.arrays
               n  == Len(as) - 1
               u  == [t EXCEPT !.arrays = SubSeq(as, 1, n)]
    <2>3. as \in Seq(Nat) /\ as # <<>>
        BY <2>1, <2>2 DEF IsArray, Type
    <2>4. n \in Nat /\ \A k \in 1..n : as[k] \in Nat
        BY <2>3, EmptySeq, LenProperties
    <2>5. SubSeq(as, 1, n) \in Seq(Nat)
        BY <2>4, SubSeqProperties
    <2>6. PartOf(u)
        BY <2>1
    <2>7. u \in Type /\ u.base = t.base /\ u.id = t.id
        BY <2>2, <2>5 DEF Type
    <2>8. Fits(u) /\ Rooted(u)
        BY <2>2, <2>7 DEF Fits, Rooted, RootedIn
    <2> HIDE DEF u
    <2> QED
        BY <2>6, <2>7, <2>8, MakingPart
<1>4. CASE ReturnOf
    <2>1. PICK t \in types : t.base = "function" /\ ~NotTemplated(t) /\ PartOf(Arguments(t)[1])
        BY <1>4 DEF ReturnOf
    <2>2. t \in Type /\ Fits(t)
        BY MadeTyped
    <2> QED
        BY <2>1, <2>2, FirstArgument, MakingPart
<1>5. CASE Dot
    <2>1. PICK t \in types : /\ t.base \in Structs /\ ~NotTemplated(t)
                             /\ \E i \in DOMAIN fields[t.base] : PartOf(Field(t, i))
        BY <1>5 DEF Dot
    <2>2. t \in Type /\ Fits(t)
        BY MadeTyped
    <2>3. PICK i \in DOMAIN fields[t.base] : PartOf(Field(t, i))
        BY <2>1
    <2> QED
        BY <2>1, <2>2, <2>3, FieldTyped, MakingPart
<1>6. CASE RejectOperand \/ RejectUntemplated
    BY <1>6, Rejects DEF RejectOperand, RejectUntemplated
<1> QED
    BY <1>1, <1>2, <1>3, <1>4, <1>5, <1>6 DEF Derive

LEMMA Parses ==
    ASSUME IInv, Parse
    PROVE  IInv' /\ Keeps
<1>1. CASE ParseNamedType
    BY <1>1, ParsesNamedType
<1>2. CASE RejectTemplate
    BY <1>2, Rejects DEF RejectTemplate
<1>3. CASE ParseFunctionType
    <2>1. PICK r \in types, args \in UpTo(MaxArgs, types), variadic \in BOOLEAN :
             FunctionReturning(r, args \o Hidden(variadic), variadic)
        BY <1>3 DEF ParseFunctionType
    <2>2. UNCHANGED <<named, arity, fields, stack, generated, status>>
        BY <1>3 DEF ParseFunctionType
    <2> QED
        BY <2>1, <2>2, MakesFunction
<1>4. CASE DefineFunction
    <2>1. PICK r \in types, args \in UpTo(MaxArgs, types), variadic \in BOOLEAN, extern \in BOOLEAN :
             FunctionReturning(r, args \o Hidden(variadic /\ ~extern), variadic)
        BY <1>4 DEF DefineFunction
    <2>2. UNCHANGED <<named, arity, fields, stack, generated, status>>
        BY <1>4 DEF DefineFunction
    <2>3. PICK hidden \in BOOLEAN : hidden = (variadic /\ ~extern)
        OBVIOUS
    <2> QED
        BY <2>1, <2>2, <2>3, MakesFunction
<1>5. CASE ParseTypedef
    BY <1>5, StackTyped, Resting DEF ParseTypedef
<1>6. CASE DefineStruct
    BY <1>6, DefinesStruct
<1> QED
    BY <1>1, <1>2, <1>3, <1>4, <1>5, <1>6 DEF Parse

LEMMA Generates ==
    ASSUME IInv, Codegen
    PROVE  IInv' /\ Keeps
<1>1. CASE StartCodegen
    BY <1>1, StackTyped, Resting DEF StartCodegen
<1>2. CASE RejectRoot \/ RejectPart
    BY <1>2, Rejects DEF RejectRoot, RejectPart
<1>3. CASE CodegenOf
    <2>1. PICK t \in types : ~RejectCodegen(t) /\ stack' = <<Call(t)>>
        BY <1>3 DEF CodegenOf, RejectCodegen
    <2>2. Call(t) \in CallType /\ Call(t).type = t /\ Fits(t)
        BY MadeTyped DEF Call, CallType
    <2>3. /\ stack' \in Seq(CallType)
          /\ \A i \in DOMAIN stack' : Fits(stack'[i].type) /\ ~RejectCodegen(stack'[i].type)
        BY <2>1, <2>2
    <2>4. UNCHANGED <<named, types, arity, fields, generic_types, generated, status>>
        BY <1>3 DEF CodegenOf
    <2>5. status = "generating"
        BY <1>3 DEF CodegenOf, Generating
    <2> QED
        BY <2>3, <2>4, <2>5, StackTyped, Resting
<1>4. CASE PartReady
    BY <1>4, NextPartTyped, StackTyped, Resting DEF PartReady, More, Generating
<1>5. CASE CodegenPart
    <2>1. /\ Advanced \in Seq(CallType)
          /\ \A i \in DOMAIN Advanced : Fits(Advanced[i].type) /\ ~RejectCodegen(Advanced[i].type)
          /\ NextPart \in Type /\ Fits(NextPart) /\ ~RejectCodegen(NextPart)
        BY <1>5, NextPartTyped DEF CodegenPart
    <2>2. Call(NextPart) \in CallType /\ Call(NextPart).type = NextPart
        BY <2>1 DEF Call, CallType
    <2>3. stack' = Append(Advanced, Call(NextPart))
        BY <1>5 DEF CodegenPart
    <2>4. /\ stack' \in Seq(CallType)
          /\ \A i \in DOMAIN stack' : Fits(stack'[i].type) /\ ~RejectCodegen(stack'[i].type)
        BY <2>1, <2>2, <2>3, Pushed
    <2>5. /\ UNCHANGED <<named, types, arity, fields, generic_types, generated, status>>
          /\ status = "generating"
        BY <1>5 DEF CodegenPart, More, Generating
    <2> QED
        BY <2>4, <2>5, StackTyped, Resting
<1>6. CASE EndCodegen
    <2>1. /\ Top \in CallType
          /\ Under \in Seq(CallType)
          /\ \A i \in DOMAIN Under : Fits(Under[i].type) /\ ~RejectCodegen(Under[i].type)
        BY <1>6, TopTyped DEF EndCodegen
    <2>2. generated' \in Seq([base : Structs, id : Nat])
        <3>1. CASE Top.type.base \in Structs
            <4>1. Instance(Top.type) \in [base : Structs, id : Nat]
                BY <2>1, <3>1 DEF Instance, CallType, Type
            <4>2. generated' = Append(generated, Instance(Top.type))
                BY <1>6, <3>1 DEF EndCodegen
            <4> QED
                BY <4>1, <4>2, StackTyped, AppendProperties
        <3>2. CASE Top.type.base \notin Structs
            BY <1>6, <3>2, StackTyped DEF EndCodegen
        <3> QED
            BY <3>1, <3>2
    <2>3. /\ UNCHANGED <<named, types, arity, fields, generic_types, status>>
          /\ stack' = Under /\ status = "generating"
        BY <1>6 DEF EndCodegen, Generating
    <2> QED
        BY <2>1, <2>2, <2>3, StackTyped, Resting
<1> QED
    BY <1>1, <1>2, <1>3, <1>4, <1>5, <1>6 DEF Codegen
-----------------------------------------------------------------------------
(* Code generation.  The types on the stack descend in any ranking of the    *)
(* types, and what is on the stack has not been generated yet.               *)

Descending == \A r \in [Key -> Nat] : PartsBelow(r) =>
    \A i, j \in DOMAIN stack : i < j =>
        r[Instance(stack[j].type)] < r[Instance(stack[i].type)]

NotYet == \A i \in DOMAIN stack :
    stack[i].type.base \in Structs => ~IsGenerated(stack[i].type)

Walk == Descending /\ NotYet /\ GeneratedOnce

LEMMA ArgumentsLower ==
    ASSUME IInv, NEW t \in Type, Fits(t), ~NotTemplated(t), arity[t.base] # 0,
           NEW r \in [Key -> Nat], PartsBelow(r), NEW k \in DOMAIN Arguments(t)
    PROVE  r[Instance(Arguments(t)[k])] < r[Instance(t)]
<1>1. t.id \in Positions(t.base) /\ t.base \in Base
    BY DEF NotTemplated, IsTemplateable, Fits, Type
<1>2. Instance(t) = KeyAt(t.base, t.id)
    BY DEF Instance, KeyAt
<1> QED
    BY <1>1, <1>2 DEF PartsBelow, Arguments

LEMMA FieldLower ==
    ASSUME IInv, NEW t \in Type, Fits(t), ~NotTemplated(t), t.base \in Structs,
           NEW r \in [Key -> Nat], PartsBelow(r), NEW i \in DOMAIN fields[t.base]
    PROVE  r[Instance(Field(t, i))] < r[Instance(t)]
<1> DEFINE f == fields[t.base][i]
<1>1. CASE f.base = "parameter"
    <2>1. f.id \in 1..arity[t.base]
        BY <1>1 DEF IInv, TemplatesFit
    <2>2. t.base \in Base /\ arity[t.base] \in Nat
        BY Bases DEF IInv, TypeOK
    <2>3. arity[t.base] # 0 /\ t.base # "function"
        BY <2>1, <2>2, Bases
    <2>4. Arguments(t) \in Seq(Type) /\ Len(Arguments(t)) = arity[t.base]
        BY <2>3, Templated
    <2>5. f.id \in DOMAIN Arguments(t)
        BY <2>1, <2>4, LenProperties
    <2>6. Field(t, i) = Arguments(t)[f.id]
        BY <1>1 DEF Field
    <2> QED
        BY <2>3, <2>5, <2>6, ArgumentsLower
<1>2. CASE f.base # "parameter"
    <2>1. Field(t, i) = f /\ Instance(t) = KeyAt(t.base, t.id) /\ t.id \in Nat
        BY <1>2 DEF Field, Instance, KeyAt, Type
    <2> QED
        BY <1>2, <2>1 DEF PartsBelow
<1> QED
    BY <1>1, <1>2

\* What a type is made of ranks below it.
LEMMA PartsLower ==
    ASSUME IInv, NEW t \in Type, Fits(t), ~RejectCodegen(t),
           NEW r \in [Key -> Nat], PartsBelow(r), NEW k \in DOMAIN Parts(t)
    PROVE  r[Instance(Parts(t)[k])] < r[Instance(t)]
<1>1. ~NotTemplated(t)
    BY DEF RejectCodegen
<1>2. CASE t.base = "ptr"
    <2>1. Parts(t) = <<Arguments(t)[1]>>
        BY <1>2, Bases DEF Parts
    <2>2. arity[t.base] # 0 /\ 1 \in DOMAIN Arguments(t)
        BY <1>1, <1>2, FirstArgument DEF IInv, Arities
    <2>3. Parts(t)[k] = Arguments(t)[1]
        BY <2>1
    <2> QED
        BY <1>1, <2>2, <2>3, ArgumentsLower
<1>3. CASE t.base = "function"
    <2>1. arity[t.base] # 0
        BY <1>3 DEF IInv, Arities
    <2> DEFINE ts == Arguments(t)
               n  == Len(ts) - 1
    <2>2. ts \in Seq(Type) /\ Len(ts) >= 1
        BY <1>1, <1>3, <2>1, Templated
    <2>3. Parts(t) = ts \/ Parts(t) = SubSeq(ts, 1, n)
        BY <1>3, Bases DEF Parts
    <2>4. k \in DOMAIN ts /\ Parts(t)[k] = ts[k]
        <3> HIDE DEF ts
        <3>1. n \in Nat /\ \A j \in 1..n : ts[j] \in Type
            BY <2>2, LenProperties
        <3> HIDE DEF n
        <3>2. /\ SubSeq(ts, 1, n) \in Seq(Type)
              /\ Len(SubSeq(ts, 1, n)) = IF 1 <= n THEN n - 1 + 1 ELSE 0
              /\ \A j \in 1..(n - 1 + 1) : SubSeq(ts, 1, n)[j] = ts[1 + j - 1]
            BY <3>1, SubSeqProperties
        <3>3. DOMAIN SubSeq(ts, 1, n) = 1..n /\ \A j \in 1..n : SubSeq(ts, 1, n)[j] = ts[j]
            <4>1. n - 1 + 1 = n /\ \A j \in 1..n : 1 + j - 1 = j
                BY <3>1
            <4>2. Len(SubSeq(ts, 1, n)) = n
                BY <3>1, <3>2
            <4> QED
                BY <3>2, <4>1, <4>2, LenProperties
        <3>4. \A j \in 1..n : j \in DOMAIN ts
            BY <2>2, LenProperties DEF n
        <3> QED
            BY <2>3, <3>3, <3>4
    <2> QED
        BY <1>1, <2>1, <2>4, ArgumentsLower
<1>4. CASE t.base \in Structs
    <2>1. Parts(t) = [i \in DOMAIN fields[t.base] |-> Field(t, i)]
        BY <1>4, Bases DEF Parts
    <2>2. k \in DOMAIN fields[t.base] /\ Parts(t)[k] = Field(t, k)
        BY <2>1
    <2> QED
        BY <1>1, <1>4, <2>2, FieldLower
<1>5. CASE t.base \in Scalars
    <2>1. Parts(t) = <<>>
        BY <1>5, Bases DEF Parts
    <2> QED
        BY <2>1
<1> QED
    BY <1>2, <1>3, <1>4, <1>5, Bases DEF Type, RejectCodegen

\* The stack without its innermost call, and with that call one part further.
LEMMA StackPlaces ==
    ASSUME IInv, stack # <<>>
    PROVE  /\ Len(stack) \in Nat \ {0} /\ DOMAIN stack = 1..Len(stack)
           /\ Top = stack[Len(stack)] /\ Top.type \in Type
           /\ \A i \in DOMAIN stack : stack[i].type \in Type
           /\ DOMAIN Under = 1..(Len(stack) - 1)
           /\ \A i \in 1..(Len(stack) - 1) : Under[i] = stack[i]
           /\ Advanced \in Seq(CallType) /\ Len(Advanced) = Len(stack)
           /\ DOMAIN Advanced = 1..Len(stack)
           /\ \A i \in 1..Len(stack) : Advanced[i].type = stack[i].type
<1>1. stack \in Seq(CallType)
    BY StackTyped
<1>2. Len(stack) \in Nat \ {0} /\ DOMAIN stack = 1..Len(stack) /\ Top = stack[Len(stack)]
    BY <1>1, EmptySeq, LenProperties DEF Top
<1>3. \A i \in DOMAIN stack : stack[i] \in CallType /\ stack[i].type \in Type
    <2>1. \A i \in DOMAIN stack : stack[i] \in CallType
        BY <1>1
    <2> QED
        BY <2>1 DEF CallType
<1>4. Top \in CallType
    BY <1>2, <1>3
<1> DEFINE n == Len(stack) - 1
<1>5. n \in Nat /\ Len(stack) = n + 1 /\ \A i \in 1..n : stack[i] \in CallType
    BY <1>2, <1>3
<1>6. Under = SubSeq(stack, 1, n)
    BY DEF Under
<1> HIDE DEF n
<1>7. /\ Under \in Seq(CallType)
      /\ Len(Under) = IF 1 <= n THEN n - 1 + 1 ELSE 0
      /\ \A i \in 1..(n - 1 + 1) : Under[i] = stack[1 + i - 1]
    BY <1>5, <1>6, SubSeqProperties
<1>8. Len(Under) = n /\ n - 1 + 1 = n /\ \A i \in 1..n : 1 + i - 1 = i
    BY <1>5, <1>7
<1>9. DOMAIN Under = 1..n /\ \A i \in 1..n : Under[i] = stack[i]
    BY <1>7, <1>8, LenProperties
<1> DEFINE c == [Top EXCEPT !.next = @ + 1]
<1>10. c \in CallType /\ c.type = Top.type
    BY <1>4 DEF CallType
<1>11. Advanced = Append(Under, c)
    BY <1>7, <1>10 DEF Advanced
<1> HIDE DEF c
<1>12. /\ Append(Under, c) \in Seq(CallType)
       /\ Len(Append(Under, c)) = n + 1
       /\ \A i \in 1..n : Append(Under, c)[i] = Under[i]
       /\ Append(Under, c)[n + 1] = c
    BY <1>7, <1>8, <1>10, AppendProperties
<1>13. DOMAIN Advanced = 1..(n + 1)
    BY <1>11, <1>12, LenProperties
<1>14. \A i \in 1..(n + 1) : i \in 1..n \/ i = n + 1
    BY <1>5
<1>15. \A i \in 1..(n + 1) : Advanced[i].type = stack[i].type
    BY <1>2, <1>5, <1>9, <1>10, <1>11, <1>12, <1>14
<1> QED
    BY <1>2, <1>3, <1>4, <1>5, <1>9, <1>11, <1>12, <1>13, <1>15 DEF n, CallType

\* A step that makes no type and generates nothing, and leaves calls of the same types.
LEMMA WalkStays ==
    ASSUME Walk, UNCHANGED <<fields, generic_types, generated>>,
           \A i \in DOMAIN stack' : i \in DOMAIN stack /\ stack'[i].type = stack[i].type
    PROVE  Walk'
<1>1. \A r : PartsBelow(r)' => PartsBelow(r)
    BY DEF PartsBelow, Positions, Instance, KeyAt
<1>2. Descending'
    BY <1>1 DEF Walk, Descending, Instance
<1>3. NotYet' /\ GeneratedOnce'
    BY DEF Walk, NotYet, GeneratedOnce, IsGenerated, Instance
<1> QED
    BY <1>2, <1>3 DEF Walk

\* One more call, of a part of the innermost one's type.
LEMMA WalkDown ==
    ASSUME IInv, Walk, CodegenPart
    PROVE  Walk'
<1>1. stack # <<>> /\ More /\ ~Ready(NextPart) /\ stack' = Append(Advanced, Call(NextPart))
    BY DEF CodegenPart, More
<1>2. UNCHANGED <<fields, generic_types, generated>>
    BY DEF CodegenPart
<1> DEFINE n == Len(stack)
<1>3. /\ n \in Nat \ {0} /\ DOMAIN stack = 1..n
      /\ Top = stack[n] /\ Top.type \in Type
      /\ \A i \in DOMAIN stack : stack[i].type \in Type
      /\ Advanced \in Seq(CallType) /\ Len(Advanced) = n
      /\ \A i \in 1..n : Advanced[i].type = stack[i].type
    BY <1>1, StackPlaces
<1> HIDE DEF n
<1>4. NextPart \in Type /\ Fits(NextPart) /\ Fits(Top.type) /\ ~RejectCodegen(Top.type)
    BY <1>1, NextPartTyped, TopTyped
<1>5. Top.next \in DOMAIN Parts(Top.type) /\ NextPart = Parts(Top.type)[Top.next]
    <2>1. Top \in CallType
        BY <1>1, TopTyped
    <2>2. Parts(Top.type) \in Seq(Type)
        BY <1>3, <1>4, PartsTyped
    <2>3. Top.next \in Nat \ {0} /\ Top.next <= Len(Parts(Top.type))
        BY <1>1, <2>1 DEF More, CallType
    <2> QED
        BY <2>2, <2>3, LenProperties DEF NextPart
<1>6. \A r \in [Key -> Nat] : PartsBelow(r) => r[Instance(NextPart)] < r[Instance(Top.type)]
    BY <1>3, <1>4, <1>5, PartsLower
<1> DEFINE c == Call(NextPart)
<1>7. c \in CallType /\ c.type = NextPart
    BY <1>4 DEF Call, CallType
<1>8. /\ DOMAIN stack' = 1..(n + 1)
      /\ \A i \in 1..n : stack'[i].type = stack[i].type
      /\ stack'[n + 1].type = NextPart
    <2> HIDE DEF c
    <2>1. /\ Append(Advanced, c) \in Seq(CallType)
          /\ Len(Append(Advanced, c)) = n + 1
          /\ \A i \in 1..n : Append(Advanced, c)[i] = Advanced[i]
          /\ Append(Advanced, c)[n + 1] = c
        BY <1>3, <1>7, AppendProperties
    <2>2. DOMAIN Append(Advanced, c) = 1..(n + 1)
        BY <2>1, LenProperties
    <2>3. stack' = Append(Advanced, c)
        BY <1>1 DEF c
    <2> QED
        BY <1>3, <1>7, <2>1, <2>2, <2>3
<1>9. \A i \in 1..(n + 1) : i \in 1..n \/ i = n + 1
    BY <1>3
<1>10. \A t \in Type : Instance(t) \in Key
    BY DEF Instance, Key, Type
<1>11. \A r : PartsBelow(r)' => PartsBelow(r)
    BY <1>2 DEF PartsBelow, Positions, Instance, KeyAt
<1> HIDE DEF c
<1>12. ASSUME NEW r \in [Key -> Nat], PartsBelow(r), NEW i \in 1..(n + 1), NEW j \in 1..(n + 1), i < j
       PROVE  r[Instance(stack'[j].type)] < r[Instance(stack'[i].type)]
    <2>1. i \in 1..n
        BY <1>3, <1>12
    <2>2. \A x, y \in 1..n : x < y => r[Instance(stack[y].type)] < r[Instance(stack[x].type)]
        BY <1>3, <1>12 DEF Walk, Descending
    <2>3. CASE j \in 1..n
        BY <1>8, <2>1, <2>2, <2>3, <1>12
    <2>4. CASE j = n + 1
        <3> DEFINE x == r[Instance(NextPart)]
                   y == r[Instance(Top.type)]
                   z == r[Instance(stack[i].type)]
        <3>1. x \in Nat /\ y \in Nat /\ z \in Nat
            BY <1>3, <1>4, <1>10, <2>1
        <3>2. x < y
            BY <1>6, <1>12
        <3>3. y = z \/ y < z
            <4>1. i = n \/ i < n
                BY <1>3, <2>1
            <4>2. n \in 1..n
                BY <1>3
            <4> QED
                BY <1>3, <2>1, <2>2, <4>1, <4>2
        <3>4. x < z
            <4> HIDE DEF x, y, z
            <4> QED
                BY <3>1, <3>2, <3>3
        <3> QED
            BY <1>8, <2>1, <2>4, <3>4
    <2> QED
        BY <1>9, <2>3, <2>4
<1>13. Descending'
    BY <1>8, <1>11, <1>12 DEF Descending, Instance
<1>14. NotYet'
    <2>1. NextPart.base \in Structs => ~IsGenerated(NextPart)
        BY <1>1 DEF Ready
    <2> QED
        BY <1>2, <1>3, <1>8, <1>9, <2>1 DEF Walk, NotYet, IsGenerated, Instance
<1> QED
    BY <1>2, <1>13, <1>14 DEF Walk, GeneratedOnce

\* The innermost call returns.
LEMMA WalkUp ==
    ASSUME IInv, Walk, EndCodegen
    PROVE  Walk'
<1>1. stack # <<>> /\ stack' = Under /\ UNCHANGED <<fields, generic_types>>
    BY DEF EndCodegen
<1> DEFINE n == Len(stack)
<1>2. /\ n \in Nat \ {0} /\ DOMAIN stack = 1..n
      /\ Top = stack[n] /\ Top.type \in Type
      /\ \A i \in DOMAIN stack : stack[i].type \in Type
      /\ DOMAIN stack' = 1..(n - 1)
      /\ \A i \in 1..(n - 1) : stack'[i] = stack[i]
    BY <1>1, StackPlaces
<1> HIDE DEF n
<1>3. \A i \in 1..(n - 1) : i \in 1..n /\ i < n /\ n \in 1..n
    BY <1>2
<1>4. CASE Top.type.base \notin Structs
    <2>1. UNCHANGED generated
        BY <1>4 DEF EndCodegen
    <2> QED
        BY <1>1, <1>2, <1>3, <2>1, WalkStays
<1>5. CASE Top.type.base \in Structs
    <2> DEFINE g == Instance(Top.type)
               m == Len(generated)
    <2>1. generated' = Append(generated, g)
        BY <1>5 DEF EndCodegen
    <2>2. g \in [base : Structs, id : Nat] /\ generated \in Seq([base : Structs, id : Nat])
        BY <1>2, <1>5, StackTyped DEF Instance, Type
    <2>3. \A i \in DOMAIN generated : generated[i] # g
        BY <1>2, <1>3, <1>5 DEF Walk, NotYet, IsGenerated
    <2> HIDE DEF g
    <2>4. /\ m \in Nat /\ DOMAIN generated = 1..m
          /\ Len(generated') = m + 1 /\ generated' \in Seq([base : Structs, id : Nat])
          /\ \A i \in 1..m : generated'[i] = generated[i]
          /\ generated'[m + 1] = g
        BY <2>1, <2>2, AppendProperties, LenProperties
    <2>5. DOMAIN generated' = 1..(m + 1)
        BY <2>4, LenProperties
    <2> HIDE DEF m
    <2>6. \A i \in 1..(m + 1) : i \in 1..m \/ i = m + 1
        BY <2>4
    <2>7. GeneratedOnce'
        BY <2>3, <2>4, <2>5, <2>6 DEF Walk, GeneratedOnce
    <2>8. \A i \in 1..(n - 1) : Instance(stack[i].type) # g
        <3>1. PICK M \in Nat : \E r \in [Key -> 0..M] : PartsBelow(r)
            BY DEF IInv, Ranked
        <3>2. PICK r \in [Key -> 0..M] : PartsBelow(r)
            BY <3>1
        <3>3. r \in [Key -> Nat]
            BY <3>2
        <3>4. \A i \in 1..(n - 1) : r[Instance(Top.type)] < r[Instance(stack[i].type)]
            BY <1>2, <1>3, <3>2, <3>3 DEF Walk, Descending
        <3>5. Instance(Top.type) \in Key
            BY <1>2 DEF Instance, Key, Type
        <3>6. r[Instance(Top.type)] \in Nat
            BY <3>3, <3>5
        <3> QED
            BY <3>4, <3>6 DEF g
    <2>9. NotYet'
        <3>1. ASSUME NEW i \in 1..(n - 1), stack[i].type.base \in Structs,
                     NEW j \in DOMAIN generated', generated'[j] = Instance(stack[i].type)
              PROVE  FALSE
            <4>1. CASE j \in 1..m
                BY <1>2, <1>3, <2>4, <3>1, <4>1 DEF Walk, NotYet, IsGenerated
            <4>2. CASE j = m + 1
                BY <2>4, <2>8, <3>1, <4>2
            <4> QED
                BY <2>5, <2>6, <3>1, <4>1, <4>2
        <3> QED
            BY <1>2, <3>1 DEF NotYet, IsGenerated, Instance
    <2>10. Descending'
        <3>1. \A r : PartsBelow(r)' => PartsBelow(r)
            BY <1>1 DEF PartsBelow, Positions, Instance, KeyAt
        <3> QED
            BY <1>2, <1>3, <3>1 DEF Walk, Descending, Instance
    <2> QED
        BY <2>7, <2>9, <2>10 DEF Walk
<1> QED
    BY <1>4, <1>5

\* While there are no calls, only what has been generated matters.
LEMMA NoWalk ==
    ASSUME Walk, UNCHANGED generated, stack' = <<>>
    PROVE  Walk'
<1>1. DOMAIN stack' = {}
    OBVIOUS
<1> QED
    BY <1>1 DEF Walk, Descending, NotYet, GeneratedOnce

LEMMA Walks ==
    ASSUME IInv, Walk, [Next]_vars
    PROVE  Walk'
<1>1. CASE Parsing /\ UNCHANGED <<stack, generated>>
    BY <1>1, NoWalk DEF IInv, Idle, Parsing
<1>2. CASE UNCHANGED <<fields, generic_types, stack, generated>>
    BY <1>2, WalkStays
<1>3. CASE Parse
    BY <1>1, <1>3 DEF Parse, ParseNamedType, RejectTemplate, ParseFunctionType, ParseTypedef,
                      DefineStruct, DefineFunction, Making, Parsing, Reject
<1>4. CASE Derive
    BY <1>1, <1>4 DEF Derive, AddressOf, Dereference, RejectOperand, Subscript, ReturnOf, Dot,
                      RejectUntemplated, PartOf, Making, Parsing, Reject
<1>5. CASE Codegen
    <2>1. CASE StartCodegen \/ RejectRoot \/ RejectPart
        BY <1>2, <2>1 DEF StartCodegen, RejectRoot, RejectPart, Reject
    <2>2. CASE CodegenOf
        <3>1. PICK t \in types : ~Ready(t) /\ stack' = <<Call(t)>>
            BY <2>2 DEF CodegenOf
        <3>2. UNCHANGED generated
            BY <2>2 DEF CodegenOf
        <3>3. DOMAIN stack' = {1} /\ stack'[1].type = t
            BY <3>1 DEF Call
        <3>4. NotYet'
            BY <3>1, <3>2, <3>3 DEF NotYet, Ready, IsGenerated, Instance
        <3>5. Descending'
            BY <3>3 DEF Descending
        <3> QED
            BY <3>2, <3>4, <3>5 DEF Walk, GeneratedOnce
    <2>3. CASE PartReady
        <3>1. stack # <<>> /\ stack' = Advanced
            BY <2>3 DEF PartReady, More
        <3>2. \A i \in DOMAIN stack' : i \in DOMAIN stack /\ stack'[i].type = stack[i].type
            BY <3>1, StackPlaces
        <3> QED
            BY <2>3, <3>2, WalkStays DEF PartReady
    <2> QED
        BY <1>5, <2>1, <2>2, <2>3, WalkDown, WalkUp DEF Codegen
<1>6. CASE Stopped \/ UNCHANGED vars
    BY <1>2, <1>6 DEF Stopped, vars
<1> QED
    BY <1>3, <1>4, <1>5, <1>6 DEF Next
-----------------------------------------------------------------------------
(* The theorems *)

LEMMA Starts == Init => IInv
<1> SUFFICES ASSUME Init PROVE IInv
    OBVIOUS
<1>1. \A t \in types : t \in Type /\ Fits(t) /\ Rooted(t)
    <2>1. \A b \in Written : b \in Base \ Structs
        BY Bases, TypesAssumption DEF Fundamental
    <2> QED
        BY <2>1, PlainFits DEF Init
<1>2. \A b \in Base : generic_types[b] = <<>> /\ Positions(b) = {}
    BY DEF Init, Positions
<1>3. TypeOK
    BY <1>1, Bases DEF Init, TypeOK
<1>4. TemplatesFit
    BY <1>1, <1>2 DEF Init, TemplatesFit
<1>5. AllRooted
    BY <1>1, <1>2 DEF Init, AllRooted
<1>6. Undefined
    BY <1>2, Bases DEF Init, Undefined
<1>7. Arities
    BY Bases DEF Init, Arities
<1>8. StackOK /\ Idle /\ InstancesUnique /\ named \subseteq types
    BY <1>2 DEF Init, StackOK, Idle, InstancesUnique
<1>9. Ranked
    <2>1. PartsBelow([x \in Key |-> 0])
        BY <1>2 DEF Init, PartsBelow
    <2>2. [x \in Key |-> 0] \in [Key -> 0..0]
        OBVIOUS
    <2> QED
        BY <2>1, <2>2 DEF Ranked
<1> QED
    BY <1>3, <1>4, <1>5, <1>6, <1>7, <1>8, <1>9 DEF IInv

LEMMA Steps ==
    ASSUME IInv, [Next]_vars
    PROVE  IInv' /\ Keeps
<1>1. CASE Parse
    BY <1>1, Parses
<1>2. CASE Derive
    BY <1>2, Derives
<1>3. CASE Codegen
    BY <1>3, Generates
<1>4. CASE Stopped \/ UNCHANGED vars
    BY <1>4, StackTyped, Resting DEF Stopped, vars
<1> QED
    BY <1>1, <1>2, <1>3, <1>4 DEF Next

LEMMA Invariance == Spec => []IInv
<1>1. IInv /\ [Next]_vars => IInv'
    BY Steps
<1> QED
    BY <1>1, Starts, PTL DEF Spec

\* Every type a program makes is one, whatever it makes them of: the parts that
\* the code takes out of a type with at() are always there.
THEOREM TypeCorrect == Spec => []TypeOK
<1>1. IInv => TypeOK
    BY DEF IInv
<1> QED
    BY <1>1, Invariance, PTL

\* add_generic_instance() never keeps a list of template arguments twice, so that
\* operator== is right to compare positions.
THEOREM Interned == Spec => []InstancesUnique
<1>1. IInv => InstancesUnique
    BY DEF IInv
<1> QED
    BY <1>1, Invariance, PTL

\* No position is out of the range of its list, and no list shorter than the
\* struct, pointer or function it is for.
THEOREM PositionsFit == Spec => []TemplatesFit
<1>1. IInv => TemplatesFit
    BY DEF IInv
<1> QED
    BY <1>1, Invariance, PTL

\* No step changes what the types made before it mean.
THEOREM TypesKept == Spec => MeaningKept
<1>1. IInv /\ [Next]_vars => [\A t \in types : t \in types' /\ Meaning(t) = Meaning(t)']_vars
    BY Steps DEF Keeps
<1> QED
    BY <1>1, Invariance, PTL DEF Spec, MeaningKept

\* However types are made of one another, no type is among the parts of its own parts,
\* so that code generation of a type never comes back to it, and each instance of a
\* struct becomes one LLVM type.
THEOREM GeneratedInTurn == Spec => []CodegenOnce
<1>1. Init => Walk
    BY DEF Init, Walk, Descending, NotYet, GeneratedOnce
<1>2. IInv /\ Walk /\ [Next]_vars => Walk'
    BY Walks
<1>3. IInv /\ Walk => CodegenOnce
    <2> SUFFICES ASSUME IInv, Walk, NEW i \in DOMAIN stack, NEW j \in DOMAIN stack,
                        stack[i].type = stack[j].type, i # j
                 PROVE  FALSE
        BY DEF CodegenOnce, NoTypeInItself, Walk
    <2>1. PICK M \in Nat : \E r \in [Key -> 0..M] : PartsBelow(r)
        BY DEF IInv, Ranked
    <2>2. PICK r \in [Key -> 0..M] : PartsBelow(r)
        BY <2>1
    <2>3. r \in [Key -> Nat]
        BY <2>2
    <2>4. stack \in Seq(CallType) /\ stack[i].type \in Type
        <3>1. stack \in Seq(CallType)
            BY StackTyped
        <3>2. stack[i] \in CallType
            BY <3>1
        <3> QED
            BY <3>1, <3>2 DEF CallType
    <2>5. i \in Nat /\ j \in Nat
        BY <2>4, LenProperties
    <2>6. i < j \/ j < i
        BY <2>5
    <2>7. r[Instance(stack[i].type)] < r[Instance(stack[i].type)]
        BY <2>2, <2>3, <2>6 DEF Walk, Descending
    <2>8. Instance(stack[i].type) \in Key
        BY <2>4 DEF Instance, Key, Type
    <2>9. r[Instance(stack[i].type)] \in Nat
        BY <2>3, <2>8
    <2> QED
        BY <2>7, <2>9
<1> QED
    BY <1>1, <1>2, <1>3, Invariance, PTL DEF Spec
=============================================================================
