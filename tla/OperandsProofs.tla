--------------------------- MODULE OperandsProofs ---------------------------
(***************************************************************************)
(* Theorems about Operands, for every expression and every bound: Gen is   *)
(* defined for every node, and what it generates is well formed, runs each *)
(* call in its turn, computes an address after the value it takes, and     *)
(* tells a variadic function how many arguments it is given.               *)
(***************************************************************************)
EXTENDS Operands, FiniteSetTheorems, SequenceTheorems, WellFoundedInduction, TLAPS

(* Numbers and sequences. *)

LEMMA SmallestMember ==
    ASSUME NEW S, S \subseteq Nat, S # {}
    PROVE  \E i \in S : \A j \in S : i <= j
<1> DEFINE R == OpToRel(<, Nat)
<1>1. PICK i \in S : \A j \in S : <<j, i>> \notin R
    <2>1. IsWellFoundedOn(R, Nat)
        BY NatLessThanWellFounded, Zenon
    <2> HIDE DEF R
    <2> QED
        BY <2>1, WFMin
<1>2. \A j \in S : ~(j < i)
    BY <1>1 DEF OpToRel
<1> QED
    BY <1>2

LEMMA ListIsSeq ==
    ASSUME NEW S, NEW n \in Nat, NEW f \in [1..n -> S]
    PROVE  f \in Seq(S) /\ Len(f) = n
OBVIOUS

LEMMA SeqIsList ==
    ASSUME NEW S, NEW s \in Seq(S)
    PROVE  /\ Len(s) \in Nat
           /\ DOMAIN s = 1..Len(s)
           /\ \A i \in 1..Len(s) : s[i] \in S
OBVIOUS

LEMMA Appended ==
    ASSUME NEW S, NEW s \in Seq(S), NEW x \in S, NEW u, u = Append(s, x)
    PROVE  /\ u \in Seq(S)
           /\ Len(u) = Len(s) + 1
           /\ \A i \in 1..Len(s) : u[i] = s[i]
           /\ u[Len(s) + 1] = x
BY AppendProperties

LEMMA Joined ==
    ASSUME NEW S, NEW s \in Seq(S), NEW t \in Seq(S), NEW u, u = s \o t
    PROVE  /\ u \in Seq(S)
           /\ Len(u) = Len(s) + Len(t)
           /\ \A i \in 1..Len(s) : u[i] = s[i]
           /\ \A i \in 1..Len(t) : u[Len(s) + i] = t[i]
<1> DEFINE m == Len(s)
           n == Len(t)
<1>1. /\ m \in Nat /\ n \in Nat /\ u \in Seq(S) /\ Len(u) = m + n
      /\ \A i \in 1..(m + n) : u[i] = IF i <= m THEN s[i] ELSE t[i - m]
    BY SeqIsList, ConcatProperties
<1> HIDE DEF m, n
<1>2. \A i \in 1..m : i \in 1..(m + n) /\ i <= m
    BY <1>1
<1>3. \A i \in 1..n : m + i \in 1..(m + n) /\ ~(m + i <= m) /\ m + i - m = i
    BY <1>1
<1> QED
    BY <1>1, <1>2, <1>3 DEF m, n
-----------------------------------------------------------------------------
(* Pieces of code. *)

Ops   == {"load", "store", "gep", "op", "call", "spill"}
Ends  == {"", "throws", "undefined"}
Piece == [code : Seq(Inst), vals : Seq(Value), fails : Ends]

\* Generating p did not fail, or an argument was missing.
Passes(p)    == p.fails = ""
Undefined(p) == p.fails = "undefined"

LEMMA PieceIs ==
    ASSUME NEW p \in Piece
    PROVE  /\ p.code \in Seq(Inst) /\ Len(p.code) \in Nat
           /\ p.vals \in Seq(Value) /\ Len(p.vals) \in Nat
           /\ p.fails \in Ends
           /\ \A i \in 1..Len(p.code) : p.code[i] \in Inst
           /\ \A i \in 1..Len(p.vals) : p.vals[i] \in Value
<1>1. p.code \in Seq(Inst) /\ p.vals \in Seq(Value) /\ p.fails \in Ends
    BY DEF Piece
<1> QED
    BY <1>1, SeqIsList

LEMMA InstIs ==
    ASSUME NEW i \in Inst
    PROVE  /\ i.op \in Ops /\ i.node \in Nat
           /\ i.uses \in Seq(Value) /\ Len(i.uses) \in Nat
           /\ \A u \in 1..Len(i.uses) : i.uses[u] \in Value /\ i.uses[u].at \in Nat
<1>1. i.op \in Ops /\ i.node \in Nat /\ i.uses \in Seq(Value)
    BY DEF Inst, Ops
<1>2. Len(i.uses) \in Nat /\ \A u \in 1..Len(i.uses) : i.uses[u] \in Value
    BY <1>1, SeqIsList
<1> QED
    BY <1>1, <1>2 DEF Value

\* A value of a piece that comes k instructions later.
Later(v, k) == IF v.at = 0 THEN v ELSE [v EXCEPT !.at = @ + k]

LEMMA LaterIs ==
    ASSUME NEW v \in Value, NEW k \in Nat
    PROVE  /\ Later(v, k) \in Value
           /\ Later(v, k).count = v.count
           /\ Later(v, k).at = IF v.at = 0 THEN 0 ELSE v.at + k
BY DEF Later, Value

LEMMA MovedIs ==
    ASSUME NEW vals \in Seq(Value), NEW k \in Nat
    PROVE  /\ Moved(vals, k) \in Seq(Value)
           /\ Len(Moved(vals, k)) = Len(vals)
           /\ \A i \in 1..Len(vals) : Moved(vals, k)[i] = Later(vals[i], k)
<1> DEFINE n == Len(vals)
           f == Moved(vals, k)
<1>1. n \in Nat /\ DOMAIN vals = 1..n /\ \A i \in 1..n : vals[i] \in Value
    BY SeqIsList
<1>2. f = [i \in 1..n |-> Later(vals[i], k)]
    BY <1>1 DEF Moved, Later
<1>3. \A i \in 1..n : Later(vals[i], k) \in Value
    BY <1>1, LaterIs
<1> HIDE DEF n, f
<1>4. f \in [1..n -> Value] /\ \A i \in 1..n : f[i] = Later(vals[i], k)
    BY <1>2, <1>3
<1>5. f \in Seq(Value) /\ Len(f) = n
    BY <1>1, <1>4, ListIsSeq
<1> QED
    BY <1>4, <1>5 DEF n, f

LEMMA NothingIs ==
    Nothing \in Piece /\ Nothing.code = <<>> /\ Nothing.vals = <<>> /\ Passes(Nothing)
BY DEF Nothing, Piece, Ends, Passes

LEMMA ConstantIs ==
    ASSUME NEW n \in Nat
    PROVE  /\ Constant(n) \in Piece
           /\ Constant(n).code = <<>>
           /\ Constant(n).vals = <<[at |-> 0, count |-> n]>>
           /\ Passes(Constant(n))
<1>1. [at |-> 0, count |-> n] \in Value
    BY DEF Value
<1>2. <<[at |-> 0, count |-> n]>> \in Seq(Value)
    BY <1>1
<1> QED
    BY <1>2 DEF Constant, Piece, Ends, Passes

LEMMA ThrowsIs ==
    /\ Throws \in Piece /\ Throws.code = <<>> /\ Throws.vals = <<>>
    /\ ~Passes(Throws) /\ Throws.fails # "undefined"
<1>1. PICK n \in Piece : n = Nothing
    BY NothingIs
<1>2. Throws = [n EXCEPT !.fails = "throws"]
    BY <1>1 DEF Throws
<1>3. [n EXCEPT !.fails = "throws"] \in Piece
    BY DEF Piece, Ends
<1> QED
    BY <1>1, <1>2, <1>3, NothingIs DEF Piece, Passes

\* The instructions of c, k positions further on: as they are in a longer piece.
Shifted(i, j, k) ==
    /\ j.op = i.op /\ j.node = i.node
    /\ Len(j.uses) = Len(i.uses)
    /\ \A u \in 1..Len(i.uses) : /\ j.uses[u].count = i.uses[u].count
                                 /\ j.uses[u].at = IF i.uses[u].at = 0 THEN 0
                                                   ELSE i.uses[u].at + k
Holds(d, c, k) ==
    /\ k + Len(c) <= Len(d)
    /\ \A i \in 1..Len(c) : Shifted(c[i], d[k + i], k)

LEMMA Unshifted ==
    ASSUME NEW i \in Inst
    PROVE  Shifted(i, i, 0)
BY InstIs DEF Shifted

LEMMA MovedInst ==
    ASSUME NEW i \in Inst, NEW k \in Nat
    PROVE  /\ [i EXCEPT !.uses = Moved(@, k)] \in Inst
           /\ Shifted(i, [i EXCEPT !.uses = Moved(@, k)], k)
<1>1. i.uses \in Seq(Value)
    BY InstIs
<1>2. PICK m : m = Moved(i.uses, k)
    OBVIOUS
<1>3. /\ m \in Seq(Value) /\ Len(m) = Len(i.uses)
      /\ \A u \in 1..Len(i.uses) : m[u] = Later(i.uses[u], k)
    BY <1>1, <1>2, MovedIs
<1>4. PICK j : j = [i EXCEPT !.uses = m]
    OBVIOUS
<1>5. j \in Inst /\ j.op = i.op /\ j.node = i.node /\ j.uses = m
    BY <1>3, <1>4 DEF Inst
<1>6. \A u \in 1..Len(i.uses) : /\ m[u].count = i.uses[u].count
                                /\ m[u].at = IF i.uses[u].at = 0 THEN 0 ELSE i.uses[u].at + k
    <2> SUFFICES ASSUME NEW u \in 1..Len(i.uses)
                 PROVE  /\ m[u].count = i.uses[u].count
                        /\ m[u].at = IF i.uses[u].at = 0 THEN 0 ELSE i.uses[u].at + k
        OBVIOUS
    <2>1. PICK v \in Value : v = i.uses[u]
        BY InstIs
    <2>2. PICK l : l = Later(v, k)
        OBVIOUS
    <2>3. l.count = v.count /\ l.at = IF v.at = 0 THEN 0 ELSE v.at + k
        BY <2>2, LaterIs
    <2>4. m[u] = l
        BY <1>3, <2>1, <2>2
    <2> QED
        BY <2>1, <2>3, <2>4
<1>7. Shifted(i, j, k)
    BY <1>3, <1>5, <1>6 DEF Shifted
<1> QED
    BY <1>2, <1>4, <1>5, <1>7

\* The code of piece q after k instructions.
After(q, k) == [i \in DOMAIN q.code |-> [q.code[i] EXCEPT !.uses = Moved(@, k)]]

LEMMA AfterIs ==
    ASSUME NEW q \in Piece, NEW k \in Nat
    PROVE  /\ After(q, k) \in Seq(Inst)
           /\ Len(After(q, k)) = Len(q.code)
           /\ \A i \in 1..Len(q.code) : Shifted(q.code[i], After(q, k)[i], k)
<1> DEFINE n == Len(q.code)
           f == After(q, k)
           M(i) == [q.code[i] EXCEPT !.uses = Moved(@, k)]
<1>1. n \in Nat /\ DOMAIN q.code = 1..n /\ \A i \in 1..n : q.code[i] \in Inst
    BY PieceIs, SeqIsList
<1>2. f = [i \in 1..n |-> M(i)]
    BY <1>1 DEF After
<1>3. \A i \in 1..n : M(i) \in Inst /\ Shifted(q.code[i], M(i), k)
    BY <1>1, MovedInst
<1> HIDE DEF n, f, M
<1>4. f \in [1..n -> Inst] /\ \A i \in 1..n : f[i] = M(i)
    BY <1>2, <1>3
<1>5. f \in Seq(Inst) /\ Len(f) = n
    BY <1>1, <1>4, ListIsSeq
<1> QED
    BY <1>3, <1>4, <1>5 DEF n, f

LEMMA PieceOf ==
    ASSUME NEW c \in Seq(Inst), NEW v \in Seq(Value), NEW f \in Ends,
           NEW r, r = [code |-> c, vals |-> v, fails |-> f]
    PROVE  r \in Piece /\ r.code = c /\ r.vals = v /\ r.fails = f
BY DEF Piece

LEMMA HoldsFirst ==
    ASSUME NEW a \in Seq(Inst), NEW c \in Seq(Inst), Len(a) <= Len(c),
           \A i \in 1..Len(a) : c[i] = a[i]
    PROVE  Holds(c, a, 0)
<1>1. 0 + Len(a) <= Len(c)
    BY SeqIsList
<1>2. ASSUME NEW i \in 1..Len(a)
      PROVE  Shifted(a[i], c[0 + i], 0)
    <2>1. 0 + i = i
        OBVIOUS
    <2>2. PICK x \in Inst : x = a[i]
        BY SeqIsList
    <2>3. c[0 + i] = x
        BY <2>1, <2>2
    <2> QED
        BY <2>2, <2>3, Unshifted
<1> QED
    BY <1>1, <1>2 DEF Holds

\* The code c of a piece with code a and then one with code b.
CodeJoin(c, a, b) == /\ Len(c) = Len(a) + Len(b)
                     /\ Holds(c, a, 0)
                     /\ Holds(c, b, Len(a))

\* The values z of two pieces, the second of them k instructions later.
ValsJoin(z, x, y, k) ==
    /\ Len(z) = Len(x) + Len(y)
    /\ \A i \in 1..Len(x) : z[i] = x[i]
    /\ \A i \in 1..Len(y) : z[Len(x) + i] = Later(y[i], k)

LEMMA ThenIs ==
    ASSUME NEW p \in Piece, NEW q \in Piece, Passes(p), NEW r, r = Then(p, q)
    PROVE  /\ r \in Piece
           /\ (Passes(r) <=> Passes(q)) /\ (Undefined(r) <=> Undefined(q))
           /\ CodeJoin(r.code, p.code, q.code)
           /\ ValsJoin(r.vals, p.vals, q.vals, Len(p.code))
<1>1. PICK a, b, x, y, k, n : /\ a = p.code /\ b = q.code /\ x = p.vals /\ y = q.vals
                              /\ k = Len(a) /\ n = Len(b)
    OBVIOUS
<1>2. /\ a \in Seq(Inst) /\ b \in Seq(Inst) /\ k \in Nat /\ n \in Nat
      /\ x \in Seq(Value) /\ y \in Seq(Value) /\ q.fails \in Ends
      /\ \A i \in 1..k : a[i] \in Inst
    BY <1>1, PieceIs
<1>3. PICK d, z : d = After(q, k) /\ z = Moved(y, k)
    OBVIOUS
<1>4. /\ d \in Seq(Inst) /\ Len(d) = n
      /\ \A i \in 1..n : Shifted(b[i], d[i], k)
    BY <1>1, <1>2, <1>3, AfterIs
<1>5. /\ z \in Seq(Value) /\ Len(z) = Len(y)
      /\ \A i \in 1..Len(y) : z[i] = Later(y[i], k)
    BY <1>2, <1>3, MovedIs
<1>6. PICK c, v : c = a \o d /\ v = x \o z
    OBVIOUS
<1>7. /\ c \in Seq(Inst) /\ Len(c) = k + n
      /\ \A i \in 1..k : c[i] = a[i]
      /\ \A i \in 1..n : c[k + i] = d[i]
    <2>1. a \in Seq(Inst) /\ d \in Seq(Inst) /\ c = a \o d
        BY <1>2, <1>4, <1>6
    <2>2. /\ c \in Seq(Inst) /\ Len(c) = Len(a) + Len(d)
          /\ \A i \in 1..Len(a) : c[i] = a[i]
          /\ \A i \in 1..Len(d) : c[Len(a) + i] = d[i]
        BY <2>1, Joined
    <2>3. Len(a) = k /\ Len(d) = n
        BY <1>1, <1>4
    <2> QED
        BY <2>2, <2>3
<1>8. /\ v \in Seq(Value) /\ Len(v) = Len(x) + Len(y)
      /\ \A i \in 1..Len(x) : v[i] = x[i]
      /\ \A i \in 1..Len(y) : v[Len(x) + i] = Later(y[i], k)
    <2>1. x \in Seq(Value) /\ z \in Seq(Value) /\ v = x \o z
        BY <1>2, <1>5, <1>6
    <2>2. /\ v \in Seq(Value) /\ Len(v) = Len(x) + Len(z)
          /\ \A i \in 1..Len(x) : v[i] = x[i]
          /\ \A i \in 1..Len(z) : v[Len(x) + i] = z[i]
        BY <2>1, Joined
    <2> QED
        BY <1>5, <2>2
<1>9. r = [code |-> c, vals |-> v, fails |-> q.fails]
    BY <1>1, <1>3, <1>6 DEF Then, After, Passes
<1>10. r \in Piece /\ r.code = c /\ r.vals = v /\ r.fails = q.fails
    BY <1>2, <1>7, <1>8, <1>9, PieceOf
<1>13. (Passes(r) <=> Passes(q)) /\ (Undefined(r) <=> Undefined(q))
    BY <1>10 DEF Passes, Undefined
<1>11. Holds(c, a, 0)
    <2>1. Len(a) <= Len(c)
        <3>1. Len(a) = k /\ k \in Nat /\ n \in Nat /\ Len(c) = k + n
            BY <1>1, <1>2, <1>7
        <3> QED
            BY <3>1
    <2>2. \A i \in 1..Len(a) : c[i] = a[i]
        BY <1>1, <1>7
    <2>3. c \in Seq(Inst) /\ a \in Seq(Inst)
        BY <1>2, <1>7
    <2> QED
        BY <2>1, <2>2, <2>3, HoldsFirst
<1>12. Holds(c, b, k)
    <2>1. k + Len(b) <= Len(c)
        BY <1>1, <1>2, <1>7
    <2>2. ASSUME NEW i \in 1..Len(b)
          PROVE  Shifted(b[i], c[k + i], k)
        <3>1. i \in 1..n
            BY <1>1
        <3>2. Shifted(b[i], d[i], k) /\ c[k + i] = d[i]
            BY <3>1, <1>4, <1>7
        <3> QED
            BY <3>2
    <2> QED
        BY <2>1, <2>2 DEF Holds
<1>14. CodeJoin(c, a, b)
    BY <1>1, <1>7, <1>11, <1>12 DEF CodeJoin
<1>15. ValsJoin(v, x, y, Len(a))
    BY <1>1, <1>8 DEF ValsJoin
<1>16. a = p.code /\ b = q.code /\ x = p.vals /\ y = q.vals
    BY <1>1
<1> HIDE <1>1
<1> QED
    BY <1>10, <1>13, <1>14, <1>15, <1>16, Zenon

\* The code c of one more instruction than a.
CodeAdd(c, a, op, n, uses) ==
    /\ Len(c) = Len(a) + 1
    /\ Holds(c, a, 0)
    /\ \A i \in {Len(a) + 1} : c[i].op = op /\ c[i].node = n /\ c[i].uses = uses

LEMMA EmitIs ==
    ASSUME NEW p \in Piece, Passes(p), NEW op \in Ops, NEW n \in Nat, NEW r, r = Emit(p, op, n)
    PROVE  /\ r \in Piece
           /\ Passes(r)
           /\ CodeAdd(r.code, p.code, op, n, p.vals)
           /\ r.vals = <<[at |-> Len(p.code) + 1, count |-> 0]>>
<1>1. PICK a, k, x, i : /\ a = p.code /\ k = Len(a)
                        /\ x = [at |-> k + 1, count |-> 0]
                        /\ i = [op |-> op, node |-> n, uses |-> p.vals]
    OBVIOUS
<1>2. a \in Seq(Inst) /\ k \in Nat /\ \A j \in 1..k : a[j] \in Inst
    BY <1>1, PieceIs
<1>3. i \in Inst
    BY <1>1, PieceIs DEF Inst, Ops
<1>4. x \in Value
    BY <1>1, <1>2 DEF Value
<1>5. PICK c, v : c = Append(a, i) /\ v = <<x>>
    OBVIOUS
<1>6. v \in Seq(Value)
    BY <1>4, <1>5
<1>7. c \in Seq(Inst) /\ Len(c) = k + 1 /\ c[k + 1] = i /\ \A j \in 1..k : c[j] = a[j]
    BY <1>1, <1>2, <1>3, <1>5, Appended
<1>8. r = [p EXCEPT !.code = c, !.vals = v]
    BY <1>1, <1>5 DEF Emit, Passes
<1>9. r \in Piece /\ r.code = c /\ r.vals = v /\ Passes(r)
    BY <1>6, <1>7, <1>8 DEF Piece, Passes
<1>10. Holds(c, a, 0)
    <2>1. Len(a) <= Len(c) /\ \A j \in 1..Len(a) : c[j] = a[j]
        BY <1>1, <1>2, <1>7
    <2> QED
        BY <2>1, <1>2, <1>7, HoldsFirst
<1>11. v = <<[at |-> Len(a) + 1, count |-> 0]>>
    BY <1>1, <1>5
<1>12. CodeAdd(c, a, op, n, p.vals)
    BY <1>1, <1>7, <1>10 DEF CodeAdd
<1>13. a = p.code
    BY <1>1
<1> QED
    BY <1>9, <1>11, <1>12, <1>13, Zenon

\* What does not go on after a failure.
LEMMA FailureStays ==
    ASSUME NEW p, ~Passes(p), NEW q, NEW op, NEW n
    PROVE  Then(p, q) = p /\ Emit(p, op, n) = p /\ LastVal(p) = p
BY DEF Then, Emit, LastVal, Passes

LEMMA LastValIs ==
    ASSUME NEW p \in Piece, Passes(p), Len(p.vals) > 0, NEW r, r = LastVal(p)
    PROVE  /\ r \in Piece /\ r.code = p.code /\ Passes(r)
           /\ Len(r.vals) = 1 /\ r.vals[1] = p.vals[Len(p.vals)]
<1>1. PICK y, x : y = p.vals /\ x = y[Len(y)]
    OBVIOUS
<1>2. Last(y) = x
    BY <1>1 DEF Last
<1>3. x \in Value
    <2>1. Len(y) \in 1..Len(y) /\ \A i \in 1..Len(y) : y[i] \in Value
        BY <1>1, PieceIs
    <2> QED
        BY <1>1, <2>1
<1>4. PICK v : v = <<x>>
    OBVIOUS
<1>5. v \in Seq(Value) /\ Len(v) = 1 /\ v[1] = x
    BY <1>3, <1>4
<1>6. r = [p EXCEPT !.vals = v]
    BY <1>1, <1>2, <1>4 DEF LastVal, Passes
<1>7. r \in Piece /\ r.code = p.code /\ Passes(r) /\ r.vals = v
    BY <1>5, <1>6 DEF Piece, Passes
<1> QED
    BY <1>1, <1>5, <1>7
-----------------------------------------------------------------------------
(* What every instruction of a piece is. *)

\* A call of a variadic function leaves out an argument.
Missing == \E n \in CallNodes : IsVariadic(tree[n].fn) /\ Given(n) < Parameters[tree[n].fn]

\* A call of a variadic function says how many arguments it has.
CountedFor(i, f) == /\ Len(i.uses) >= Parameters[f] + 2
                    /\ i.uses[Parameters[f] + 2].count = Len(i.uses) - Parameters[f] - 2
Counted(i)       == i.op = "call" /\ IsVariadic(tree[i.node].fn)
                        => CountedFor(i, tree[i.node].fn)

\* Instruction i of c stores a value of the nodes under r, found before `cut`, at an
\* address of those under l, for which nothing before `cut` is used.
Cuts(c, i, l, r, L, cut) ==
    /\ cut < i
    /\ Len(c[i].uses) >= 2
    /\ c[i].uses[1].at <= cut
    /\ c[i].uses[1].at # 0 => c[c[i].uses[1].at].node \in L[r]..r
    /\ c[i].uses[2].at # 0 => /\ cut < c[i].uses[2].at /\ c[i].uses[2].at < i
                              /\ c[c[i].uses[2].at].node \in L[l]..l
    /\ \A j \in 1..i : cut < j /\ j < i =>
          \A u \in 1..Len(c[j].uses) : c[j].uses[u].at = 0 \/ cut < c[j].uses[u].at
Stores(c, i, l, r, L) == \E cut \in Nat : Cuts(c, i, l, r, L, cut)

\* L[n] is the first of the nodes under n.
Fine(c, i, L) ==
    /\ \A u \in 1..Len(c[i].uses) : c[i].uses[u].at < i
    /\ c[i].op = "call" => Kind(c[i].node) = "call"
    /\ Counted(c[i])
    /\ Kind(c[i].node) = "assign" =>
          Stores(c, i, tree[c[i].node].operands[1], tree[c[i].node].operands[2], L)

LEMMA CutsLater ==
    ASSUME NEW c \in Seq(Inst), NEW d \in Seq(Inst), NEW k \in Nat, Holds(d, c, k),
           NEW i \in 1..Len(c), NEW l, NEW r, NEW L, NEW cut \in Nat,
           Cuts(c, i, l, r, L, cut)
    PROVE  Cuts(d, k + i, l, r, L, k + cut)
<1>1. /\ Len(c) \in Nat /\ Len(d) \in Nat /\ k + Len(c) <= Len(d)
      /\ \A j \in 1..Len(c) : c[j] \in Inst
      /\ \A j \in 1..Len(d) : d[j] \in Inst
    BY SeqIsList DEF Holds
<1>2. PICK n \in Nat : n = Len(c)
    BY <1>1
<1>3. ASSUME NEW j \in 1..n
      PROVE  /\ Len(c[j].uses) \in Nat /\ Len(d[k + j].uses) = Len(c[j].uses)
             /\ d[k + j].node = c[j].node
             /\ \A u \in 1..Len(c[j].uses) :
                   /\ c[j].uses[u].at \in Nat
                   /\ d[k + j].uses[u].at = IF c[j].uses[u].at = 0 THEN 0
                                            ELSE c[j].uses[u].at + k
    <2>1. PICK x, y : x = c[j] /\ y = d[k + j]
        OBVIOUS
    <2>2. x \in Inst /\ Shifted(x, y, k)
        BY <1>1, <1>2, <2>1 DEF Holds
    <2>3. /\ Len(x.uses) \in Nat /\ Len(y.uses) = Len(x.uses) /\ y.node = x.node
          /\ \A u \in 1..Len(x.uses) :
                /\ x.uses[u].at \in Nat
                /\ y.uses[u].at = IF x.uses[u].at = 0 THEN 0 ELSE x.uses[u].at + k
        BY <2>2, InstIs DEF Shifted
    <2> QED
        BY <2>1, <2>3
<1>4. PICK m \in Nat : m = Len(c[i].uses)
    BY <1>2, <1>3
<1>5. /\ cut < i /\ m >= 2
      /\ c[i].uses[1].at <= cut
      /\ c[i].uses[1].at # 0 => c[c[i].uses[1].at].node \in L[r]..r
      /\ c[i].uses[2].at # 0 => /\ cut < c[i].uses[2].at /\ c[i].uses[2].at < i
                                /\ c[c[i].uses[2].at].node \in L[l]..l
    BY <1>4 DEF Cuts
<1>6. i \in 1..n /\ 1 \in 1..m /\ 2 \in 1..m
    BY <1>2, <1>5
<1>7. PICK v, w \in Nat : v = c[i].uses[1].at /\ w = c[i].uses[2].at
    BY <1>3, <1>4, <1>6
<1>8. /\ d[k + i].uses[1].at = IF v = 0 THEN 0 ELSE v + k
      /\ d[k + i].uses[2].at = IF w = 0 THEN 0 ELSE w + k
      /\ Len(d[k + i].uses) = m
    BY <1>3, <1>4, <1>6, <1>7
<1>9. /\ v <= cut
      /\ v # 0 => c[v].node \in L[r]..r
      /\ w # 0 => cut < w /\ w < i /\ c[w].node \in L[l]..l
    BY <1>5, <1>7
<1>10. v # 0 => d[v + k].node \in L[r]..r
    <2> SUFFICES ASSUME v # 0
                 PROVE  d[v + k].node \in L[r]..r
        OBVIOUS
    <2>1. v \in 1..n /\ v + k = k + v
        BY <1>5, <1>6, <1>9
    <2> QED
        BY <1>3, <1>9, <2>1
<1>11. w # 0 => d[w + k].node \in L[l]..l
    <2> SUFFICES ASSUME w # 0
                 PROVE  d[w + k].node \in L[l]..l
        OBVIOUS
    <2>1. w \in 1..n /\ w + k = k + w
        BY <1>6, <1>9
    <2> QED
        BY <1>3, <1>9, <2>1
<1>14. \A j \in 1..i : cut < j /\ j < i =>
          \A u \in 1..Len(c[j].uses) : c[j].uses[u].at = 0 \/ cut < c[j].uses[u].at
    BY Zenon DEF Cuts
<1>12. ASSUME NEW j \in 1..(k + i), k + cut < j, j < k + i, NEW u \in 1..Len(d[j].uses)
       PROVE  d[j].uses[u].at = 0 \/ k + cut < d[j].uses[u].at
    <2>1. PICK h \in 1..n : j = k + h /\ cut < h /\ h < i
        BY <1>6, <1>12
    <2>2. h \in 1..i /\ \A x \in 1..Len(c[h].uses) : c[h].uses[x].at = 0 \/ cut < c[h].uses[x].at
        <3>1. h \in 1..i
            BY <1>6, <2>1
        <3>2. \A x \in 1..Len(c[h].uses) : c[h].uses[x].at = 0 \/ cut < c[h].uses[x].at
            BY <1>14, <2>1, <3>1, Zenon
        <3> QED
            BY <3>1, <3>2
    <2>3. /\ u \in 1..Len(c[h].uses)
          /\ c[h].uses[u].at \in Nat
          /\ d[j].uses[u].at = IF c[h].uses[u].at = 0 THEN 0 ELSE c[h].uses[u].at + k
        BY <1>3, <2>1
    <2>4. PICK y \in Nat : y = c[h].uses[u].at
        BY <2>3
    <2>5. y = 0 \/ cut < y
        BY <2>2, <2>3, <2>4
    <2>6. d[j].uses[u].at = IF y = 0 THEN 0 ELSE y + k
        BY <2>3, <2>4
    <2> QED
        BY <2>5, <2>6
<1>13. /\ k + cut < k + i
       /\ Len(d[k + i].uses) >= 2
       /\ d[k + i].uses[1].at <= k + cut
       /\ d[k + i].uses[1].at # 0 => d[d[k + i].uses[1].at].node \in L[r]..r
       /\ d[k + i].uses[2].at # 0 =>
             /\ k + cut < d[k + i].uses[2].at /\ d[k + i].uses[2].at < k + i
             /\ d[d[k + i].uses[2].at].node \in L[l]..l
    BY <1>5, <1>6, <1>8, <1>9, <1>10, <1>11
<1> QED
    BY <1>12, <1>13 DEF Cuts

LEMMA FineLater ==
    ASSUME NEW c \in Seq(Inst), NEW d \in Seq(Inst), NEW k \in Nat, Holds(d, c, k),
           NEW i \in 1..Len(c), NEW L, Fine(c, i, L)
    PROVE  Fine(d, k + i, L) /\ d[k + i].node = c[i].node
<1>1. PICK x, y : x = c[i] /\ y = d[k + i]
    OBVIOUS
<1>2. x \in Inst /\ Shifted(x, y, k)
    BY <1>1, SeqIsList DEF Holds
<1>3. /\ y.op = x.op /\ y.node = x.node /\ Len(y.uses) = Len(x.uses) /\ Len(x.uses) \in Nat
      /\ \A u \in 1..Len(x.uses) :
            /\ x.uses[u].at \in Nat
            /\ y.uses[u].count = x.uses[u].count
            /\ y.uses[u].at = IF x.uses[u].at = 0 THEN 0 ELSE x.uses[u].at + k
    BY <1>2, InstIs DEF Shifted
<1>4. /\ \A u \in 1..Len(x.uses) : x.uses[u].at < i
      /\ x.op = "call" => Kind(x.node) = "call"
      /\ Counted(x)
    BY <1>1 DEF Fine
<1>5. \A u \in 1..Len(y.uses) : y.uses[u].at < k + i
    <2> SUFFICES ASSUME NEW u \in 1..Len(y.uses)
                 PROVE  y.uses[u].at < k + i
        OBVIOUS
    <2>1. PICK v \in Nat : v = x.uses[u].at
        BY <1>3
    <2>2. v < i /\ i \in Nat /\ y.uses[u].at = IF v = 0 THEN 0 ELSE v + k
        BY <1>3, <1>4, <2>1, SeqIsList
    <2> QED
        BY <2>1, <2>2
<1>6. y.op = "call" => Kind(y.node) = "call"
    BY <1>3, <1>4
<1>7. Counted(y)
    <2> SUFFICES ASSUME x.op = "call", IsVariadic(tree[x.node].fn)
                 PROVE  CountedFor(y, tree[x.node].fn)
        BY <1>3 DEF Counted
    <2>1. PICK f : f = tree[x.node].fn
        OBVIOUS
    <2>2. CountedFor(x, f) /\ Parameters[f] \in Nat
        BY <1>4, <2>1, OperandsAssumption DEF Counted, IsVariadic
    <2>3. PICK k1 \in Nat : k1 = Parameters[f]
        BY <2>2
    <2>4. k1 + 2 \in 1..Len(x.uses)
        BY <1>3, <2>2, <2>3 DEF CountedFor
    <2>5. y.uses[k1 + 2].count = x.uses[k1 + 2].count
        <3>1. PICK j : j = k1 + 2
            OBVIOUS
        <3>2. j \in 1..Len(x.uses)
            BY <2>4, <3>1, Zenon
        <3>3. y.uses[j].count = x.uses[j].count
            BY <1>3, <3>2, Zenon
        <3> QED
            BY <3>1, <3>3, Zenon
    <2> QED
        BY <1>3, <2>1, <2>2, <2>3, <2>5 DEF CountedFor
<1>8. ASSUME Kind(x.node) = "assign"
      PROVE  Stores(d, k + i, tree[x.node].operands[1], tree[x.node].operands[2], L)
    <2>1. PICK l, r : l = tree[x.node].operands[1] /\ r = tree[x.node].operands[2]
        OBVIOUS
    <2>2. Stores(c, i, l, r, L)
        BY <1>1, <1>8, <2>1 DEF Fine
    <2>3. PICK cut \in Nat : Cuts(c, i, l, r, L, cut)
        BY <2>2 DEF Stores
    <2>4. Cuts(d, k + i, l, r, L, k + cut)
        BY <2>3, CutsLater
    <2>5. k + cut \in Nat
        BY <2>3
    <2>6. Stores(d, k + i, l, r, L)
        BY <2>4, <2>5 DEF Stores
    <2> QED
        BY <2>1, <2>6
<1>9. Fine(d, k + i, L)
    BY <1>1, <1>3, <1>5, <1>6, <1>7, <1>8 DEF Fine
<1> QED
    BY <1>1, <1>3, <1>9
-----------------------------------------------------------------------------
(* A piece of the code of the nodes lo..hi, that has k values. *)

Plain(p, L, lo, hi, k) ==
    /\ p \in Piece
    /\ \A v \in 1..Len(p.vals) : p.vals[v].at <= Len(p.code)
    /\ \A i \in 1..Len(p.code) : p.code[i].node \in lo..hi /\ Fine(p.code, i, L)
    /\ Undefined(p) => Missing
    /\ Passes(p) => Len(p.vals) = k

LEMMA PlainWider ==
    ASSUME NEW p, NEW L, NEW lo \in Nat, NEW hi \in Nat, NEW k, Plain(p, L, lo, hi, k),
           NEW a \in Nat, NEW b \in Nat, a <= lo, hi <= b
    PROVE  Plain(p, L, a, b, k)
<1>1. \A x \in lo..hi : x \in a..b
    OBVIOUS
<1> QED
    BY <1>1 DEF Plain

LEMMA PlainThen ==
    ASSUME NEW p, NEW q, NEW L, NEW lo \in Nat, NEW hi \in Nat, NEW k \in Nat, NEW m \in Nat,
           Plain(p, L, lo, hi, k), Plain(q, L, lo, hi, m)
    PROVE  Plain(Then(p, q), L, lo, hi, k + m)
<1>1. PICK r : r = Then(p, q)
    OBVIOUS
<1>2. CASE ~Passes(p)
    <2>1. r = p
        BY <1>1, <1>2, FailureStays
    <2> QED
        BY <1>1, <1>2, <2>1 DEF Plain
<1>3. CASE Passes(p)
    <2>1. p \in Piece /\ q \in Piece
        BY DEF Plain
    <2>2. /\ r \in Piece /\ (Passes(r) <=> Passes(q)) /\ (Undefined(r) <=> Undefined(q))
          /\ CodeJoin(r.code, p.code, q.code)
          /\ ValsJoin(r.vals, p.vals, q.vals, Len(p.code))
        BY <1>1, <1>3, <2>1, ThenIs
    <2>3. PICK a, b, c, x, y, z : /\ a = p.code /\ b = q.code /\ c = r.code
                                  /\ x = p.vals /\ y = q.vals /\ z = r.vals
        OBVIOUS
    <2>4. PICK n, o, g, h : n = Len(a) /\ o = Len(b) /\ g = Len(x) /\ h = Len(y)
        OBVIOUS
    <2>5. /\ n \in Nat /\ o \in Nat /\ g \in Nat /\ h \in Nat
          /\ a \in Seq(Inst) /\ b \in Seq(Inst) /\ c \in Seq(Inst)
          /\ \A i \in 1..g : x[i] \in Value
          /\ \A i \in 1..h : y[i] \in Value
        BY <2>1, <2>2, <2>3, <2>4, PieceIs
    <2>6. /\ Len(c) = n + o /\ Holds(c, a, 0) /\ Holds(c, b, n)
          /\ Len(z) = g + h
          /\ \A i \in 1..g : z[i] = x[i]
          /\ \A i \in 1..h : z[g + i] = Later(y[i], n)
        BY <2>2, <2>3, <2>4 DEF CodeJoin, ValsJoin
    <2>7. /\ \A i \in 1..g : x[i].at <= n
          /\ \A i \in 1..h : y[i].at <= o
          /\ \A i \in 1..n : a[i].node \in lo..hi /\ Fine(a, i, L)
          /\ \A i \in 1..o : b[i].node \in lo..hi /\ Fine(b, i, L)
        BY <2>3, <2>4 DEF Plain
    <2> HIDE <2>3
    <2>8. ASSUME NEW i \in 1..Len(c)
          PROVE  c[i].node \in lo..hi /\ Fine(c, i, L)
        <3>1. CASE i \in 1..n
            <4>1. i \in 1..Len(a) /\ 0 \in Nat /\ Fine(a, i, L) /\ 0 + i = i
                BY <2>4, <2>5, <2>7, <3>1
            <4>2. Fine(c, 0 + i, L) /\ c[0 + i].node = a[i].node
                BY <2>5, <2>6, <4>1, FineLater
            <4> QED
                BY <2>7, <3>1, <4>1, <4>2
        <3>2. CASE i \notin 1..n
            <4>1. PICK j \in 1..o : i = n + j
                <5>1. Len(c) = n + o /\ n \in Nat /\ o \in Nat
                    BY <2>5, <2>6
                <5>2. i - n \in 1..o /\ i = n + (i - n)
                    BY <3>2, <5>1
                <5> QED
                    BY <5>2
            <4>2. j \in 1..Len(b) /\ Fine(b, j, L)
                BY <2>4, <2>7
            <4>3. Fine(c, n + j, L) /\ c[n + j].node = b[j].node
                <5>1. b \in Seq(Inst) /\ c \in Seq(Inst) /\ n \in Nat /\ Holds(c, b, n)
                    BY <2>5, <2>6
                <5> QED
                    BY <4>2, <5>1, FineLater
            <4> QED
                BY <2>7, <4>1, <4>3
        <3> QED
            BY <3>1, <3>2
    <2>9. ASSUME NEW v \in 1..Len(z)
          PROVE  z[v].at <= Len(c)
        <3>1. CASE v \in 1..g
            <4>1. x[v].at \in Nat /\ z[v] = x[v] /\ x[v].at <= n
                BY <2>5, <2>6, <2>7, <3>1 DEF Value
            <4> QED
                BY <2>5, <2>6, <4>1
        <3>2. CASE v \notin 1..g
            <4>1. PICK j \in 1..h : v = g + j
                <5>1. v - g \in 1..h /\ v = g + (v - g)
                    BY <2>5, <2>6, <3>2
                <5> QED
                    BY <5>1
            <4>2. PICK w \in Value : w = y[j]
                BY <2>5
            <4>3. PICK l : l = Later(w, n)
                OBVIOUS
            <4>4. l.at = IF w.at = 0 THEN 0 ELSE w.at + n
                BY <2>5, <4>3, LaterIs
            <4>5. w.at <= o /\ w.at \in Nat
                BY <2>7, <4>2 DEF Value
            <4>6. z[v] = l
                BY <2>6, <4>1, <4>2, <4>3
            <4> QED
                BY <2>5, <2>6, <4>4, <4>5, <4>6
        <3> QED
            BY <3>1, <3>2
    <2>10. Undefined(r) => Missing
        BY <2>2 DEF Plain
    <2>11. Passes(r) => Len(z) = k + m
        <3>1. Passes(r) => g = k /\ h = m
            BY <1>3, <2>2, <2>3, <2>4 DEF Plain
        <3> QED
            BY <2>6, <3>1
    <2>12. c = r.code /\ z = r.vals
        BY <2>3
    <2>13. Plain(r, L, lo, hi, k + m)
        BY <2>2, <2>8, <2>9, <2>10, <2>11, <2>12 DEF Plain
    <2> QED
        BY <1>1, <2>13
<1> QED
    BY <1>2, <1>3

LEMMA OneEnd ==
    ASSUME NEW p, Passes(p)
    PROVE  ~Undefined(p)
BY DEF Passes, Undefined

LEMMA PlainEmit ==
    ASSUME NEW p, NEW L, NEW lo \in Nat, NEW hi \in Nat, NEW k, Plain(p, L, lo, hi, k),
           NEW op \in Ops, NEW n \in lo..hi, NEW r, r = Emit(p, op, n),
           Passes(p) => Fine(r.code, Len(p.code) + 1, L)
    PROVE  Plain(r, L, lo, hi, 1)
<1>1. CASE ~Passes(p)
    <2>1. r = p
        BY <1>1, FailureStays
    <2> QED
        BY <1>1, <2>1 DEF Plain
<1>2. CASE Passes(p)
    <2>1. p \in Piece /\ n \in Nat
        BY DEF Plain
    <2>2. /\ r \in Piece /\ Passes(r)
          /\ CodeAdd(r.code, p.code, op, n, p.vals)
          /\ r.vals = <<[at |-> Len(p.code) + 1, count |-> 0]>>
        BY <1>2, <2>1, EmitIs
    <2>3. PICK a, c, m, z : a = p.code /\ c = r.code /\ m = Len(p.code) /\ z = r.vals
        OBVIOUS
    <2>4. /\ a \in Seq(Inst) /\ c \in Seq(Inst) /\ m \in Nat
          /\ Len(a) = m /\ Len(c) = m + 1 /\ Holds(c, a, 0)
          /\ c[m + 1].node = n
          /\ z = <<[at |-> m + 1, count |-> 0]>>
        BY <2>1, <2>2, <2>3, PieceIs DEF CodeAdd
    <2>5. Fine(c, m + 1, L)
        BY <1>2, <2>3
    <2>6. \A i \in 1..m : a[i].node \in lo..hi /\ Fine(a, i, L)
        BY <2>3 DEF Plain
    <2>7. ASSUME NEW i \in 1..Len(c)
          PROVE  c[i].node \in lo..hi /\ Fine(c, i, L)
        <3>1. CASE i \in 1..m
            <4>1. i \in 1..Len(a) /\ Fine(a, i, L) /\ 0 + i = i /\ 0 \in Nat
                BY <2>4, <2>6, <3>1
            <4>2. Fine(c, 0 + i, L) /\ c[0 + i].node = a[i].node
                BY <2>4, <4>1, FineLater
            <4> QED
                BY <2>6, <3>1, <4>1, <4>2
        <3>2. CASE i \notin 1..m
            <4>1. i = m + 1
                BY <2>4, <3>2
            <4> QED
                BY <2>4, <2>5, <4>1
        <3> QED
            BY <3>1, <3>2
    <2>8. Len(z) = 1 /\ \A v \in 1..Len(z) : z[v].at <= Len(c)
        BY <2>4
    <2>9. c = r.code /\ z = r.vals /\ ~Undefined(r)
        BY <2>2, <2>3, OneEnd
    <2> QED
        BY <2>2, <2>7, <2>8, <2>9 DEF Plain
<1> QED
    BY <1>1, <1>2

\* An instruction that is neither a call nor the store of an assignment.
LEMMA PlainOp ==
    ASSUME NEW p, NEW L, NEW lo \in Nat, NEW hi \in Nat, NEW k, Plain(p, L, lo, hi, k),
           NEW op \in Ops \ {"call"}, NEW n \in lo..hi, Kind(n) # "assign"
    PROVE  Plain(Emit(p, op, n), L, lo, hi, 1)
<1>1. PICK r : r = Emit(p, op, n)
    OBVIOUS
<1>2. ASSUME Passes(p)
      PROVE  Fine(r.code, Len(p.code) + 1, L)
    <2>1. p \in Piece /\ n \in Nat /\ op \in Ops
        BY DEF Plain
    <2>2. CodeAdd(r.code, p.code, op, n, p.vals)
        BY <1>1, <1>2, <2>1, EmitIs
    <2>3. PICK c, m : c = r.code /\ m = Len(p.code)
        OBVIOUS
    <2>4. PICK i : i = c[m + 1]
        OBVIOUS
    <2>5. i.op # "call" /\ i.uses = p.vals /\ i.node = n
        BY <2>2, <2>3, <2>4 DEF CodeAdd
    <2>6. m \in Nat /\ \A v \in 1..Len(p.vals) : p.vals[v].at \in Nat /\ p.vals[v].at <= m
        <3>1. m \in Nat /\ \A v \in 1..Len(p.vals) : p.vals[v] \in Value
            BY <2>1, <2>3, PieceIs
        <3>2. \A v \in 1..Len(p.vals) : p.vals[v].at <= m
            BY <2>3 DEF Plain
        <3> QED
            BY <3>1, <3>2 DEF Value
    <2>7. \A u \in 1..Len(i.uses) : i.uses[u].at < m + 1
        BY <2>5, <2>6
    <2>9. Counted(i) /\ Kind(i.node) # "assign"
        BY <2>5 DEF Counted
    <2>10. Fine(c, m + 1, L)
        BY <2>4, <2>5, <2>7, <2>9 DEF Fine
    <2> QED
        BY <2>3, <2>10
<1> QED
    BY <1>1, <1>2, PlainEmit

LEMMA PlainLast ==
    ASSUME NEW p, NEW L, NEW lo, NEW hi, NEW k \in Nat \ {0}, Plain(p, L, lo, hi, k)
    PROVE  Plain(LastVal(p), L, lo, hi, 1)
<1>1. PICK r : r = LastVal(p)
    OBVIOUS
<1>2. CASE ~Passes(p)
    <2>1. r = p
        BY <1>1, <1>2, FailureStays
    <2> QED
        BY <1>1, <1>2, <2>1 DEF Plain
<1>3. CASE Passes(p)
    <2>1. p \in Piece /\ Len(p.vals) > 0
        BY <1>3 DEF Plain
    <2>2. /\ r \in Piece /\ r.code = p.code /\ Passes(r)
          /\ Len(r.vals) = 1 /\ r.vals[1] = p.vals[Len(p.vals)]
        BY <1>1, <1>3, <2>1, LastValIs
    <2>3. PICK x, z, m : x = p.vals /\ z = r.vals /\ m = Len(p.code)
        OBVIOUS
    <2>4. Len(x) \in 1..Len(x) /\ \A v \in 1..Len(x) : x[v].at <= m
        <3>1. Len(x) \in Nat /\ Len(x) > 0
            BY <2>1, <2>3, PieceIs
        <3> QED
            BY <2>3, <3>1 DEF Plain
    <2>5. Len(z) = 1 /\ z[1] = x[Len(x)]
        BY <2>2, <2>3
    <2>6. \A v \in 1..Len(z) : z[v].at <= m
        BY <2>4, <2>5
    <2>7. ~Undefined(r) /\ z = r.vals /\ Len(r.code) = m
        BY <2>2, <2>3, OneEnd
    <2>8. \A i \in 1..Len(r.code) : r.code[i].node \in lo..hi /\ Fine(r.code, i, L)
        BY <2>2 DEF Plain
    <2>9. Plain(r, L, lo, hi, 1)
        BY <2>2, <2>5, <2>6, <2>7, <2>8 DEF Plain
    <2> QED
        BY <1>1, <2>9
<1> QED
    BY <1>2, <1>3

LEMMA PlainConstant ==
    ASSUME NEW L, NEW lo, NEW hi, NEW n \in Nat
    PROVE  Plain(Constant(n), L, lo, hi, 1)
<1>1. PICK p : p = Constant(n)
    OBVIOUS
<1>2. /\ p \in Piece /\ p.code = <<>> /\ p.vals = <<[at |-> 0, count |-> n]>> /\ Passes(p)
    BY <1>1, ConstantIs
<1>3. PICK z, c : z = p.vals /\ c = p.code
    OBVIOUS
<1>4. Len(z) = 1 /\ Len(c) = 0 /\ \A v \in 1..Len(z) : z[v].at <= Len(c)
    BY <1>2, <1>3
<1>5. \A i \in 1..Len(c) : c[i].node \in lo..hi /\ Fine(c, i, L)
    BY <1>4
<1> QED
    BY <1>1, <1>2, <1>3, <1>4, <1>5, OneEnd DEF Plain

LEMMA PlainNothing ==
    ASSUME NEW L, NEW lo, NEW hi
    PROVE  Plain(Nothing, L, lo, hi, 0)
<1>1. PICK p : p = Nothing
    OBVIOUS
<1>2. /\ p \in Piece /\ Len(p.code) = 0 /\ Len(p.vals) = 0 /\ Passes(p)
    BY <1>1, NothingIs
<1> QED
    BY <1>1, <1>2, OneEnd DEF Plain

LEMMA PlainThrows ==
    ASSUME NEW L, NEW lo, NEW hi, NEW k
    PROVE  Plain(Throws, L, lo, hi, k)
<1>1. PICK p : p = Throws
    OBVIOUS
<1>2. /\ p \in Piece /\ Len(p.code) = 0 /\ Len(p.vals) = 0 /\ ~Passes(p) /\ ~Undefined(p)
    BY <1>1, ThrowsIs DEF Undefined
<1> QED
    BY <1>1, <1>2 DEF Plain
-----------------------------------------------------------------------------
(* The calls that a piece of code makes, in their order. *)

\* The node of every call, and 0 for other instructions.
Marks(c) == [i \in 1..Len(c) |-> IF c[i].op = "call" THEN c[i].node ELSE 0]

\* All calls of the nodes a..b are made, for the first time in order, and only those
\* that are exposed more than once.
Whole(z, a, b) ==
    /\ \A i \in 1..Len(z) : z[i] # 0 => z[i] \in a..b
    /\ \A n \in a..b : n \in CallNodes => \E i \in 1..Len(z) : z[i] = n
    /\ \A i \in 1..Len(z), m \in a..b :
          m \in CallNodes /\ m < z[i] => \E j \in 1..Len(z) : j < i /\ z[j] = m
    /\ \A i, j \in 1..Len(z) : z[i] # 0 /\ z[i] = z[j] /\ z[i] \notin Exposed => i = j

MarksJoin(z, x, y) ==
    /\ Len(z) = Len(x) + Len(y)
    /\ \A i \in 1..Len(x) : z[i] = x[i]
    /\ \A i \in 1..Len(y) : z[Len(x) + i] = y[i]

LEMMA MarksAre ==
    ASSUME NEW c \in Seq(Inst)
    PROVE  /\ Marks(c) \in Seq(Nat) /\ Len(Marks(c)) = Len(c)
           /\ \A i \in 1..Len(c) : Marks(c)[i] = IF c[i].op = "call" THEN c[i].node ELSE 0
<1>1. PICK f, n : f = Marks(c) /\ n = Len(c)
    OBVIOUS
<1>2. n \in Nat /\ \A i \in 1..n : c[i] \in Inst
    BY <1>1, SeqIsList
<1>3. \A i \in 1..n : (IF c[i].op = "call" THEN c[i].node ELSE 0) \in Nat
    BY <1>2, InstIs
<1>4. f = [i \in 1..n |-> IF c[i].op = "call" THEN c[i].node ELSE 0]
    BY <1>1 DEF Marks
<1>5. f \in [1..n -> Nat]
    BY <1>3, <1>4
<1>6. f \in Seq(Nat) /\ Len(f) = n
    BY <1>2, <1>5, ListIsSeq
<1> QED
    BY <1>1, <1>4, <1>6

LEMMA MarksLater ==
    ASSUME NEW c \in Seq(Inst), NEW d \in Seq(Inst), NEW k \in Nat, Holds(d, c, k),
           NEW i \in 1..Len(c)
    PROVE  Marks(d)[k + i] = Marks(c)[i]
<1>1. PICK x, y : x = c[i] /\ y = d[k + i]
    OBVIOUS
<1>2. Shifted(x, y, k)
    BY <1>1 DEF Holds
<1>3. y.op = x.op /\ y.node = x.node
    BY <1>2 DEF Shifted
<1>4. k + i \in 1..Len(d)
    <2>1. Len(c) \in Nat /\ Len(d) \in Nat /\ k + Len(c) <= Len(d)
        BY SeqIsList DEF Holds
    <2> QED
        BY <2>1
<1>5. Marks(d)[k + i] = IF y.op = "call" THEN y.node ELSE 0
    BY <1>1, <1>4, MarksAre
<1>6. Marks(c)[i] = IF x.op = "call" THEN x.node ELSE 0
    BY <1>1, MarksAre
<1> QED
    BY <1>3, <1>5, <1>6

\* Code for the next nodes.
LEMMA WholeNext ==
    ASSUME NEW x \in Seq(Nat), NEW y \in Seq(Nat), NEW z, MarksJoin(z, x, y),
           NEW a \in Nat, NEW b \in Nat, NEW e \in Nat, 0 < a, a <= b + 1, b <= e,
           Whole(x, a, b), Whole(y, b + 1, e)
    PROVE  Whole(z, a, e)
<1>1. PICK n \in Nat, m \in Nat : n = Len(x) /\ m = Len(y)
    BY SeqIsList
<1>2. /\ Len(z) = n + m
      /\ \A i \in 1..n : z[i] = x[i] /\ x[i] \in Nat
      /\ \A i \in 1..m : z[n + i] = y[i] /\ y[i] \in Nat
    BY <1>1, SeqIsList DEF MarksJoin
<1>3. \A i \in 1..(n + m) : i \in 1..n \/ \E j \in 1..m : i = n + j
    <2> TAKE i \in 1..(n + m)
    <2>1. i \notin 1..n => i - n \in 1..m /\ i = n + (i - n)
        BY <1>1
    <2> QED
        BY <2>1
<1>4. /\ \A i \in 1..n : x[i] # 0 => x[i] \in a..b
      /\ \A c \in a..b : c \in CallNodes => \E i \in 1..n : x[i] = c
      /\ \A i \in 1..n, c \in a..b : c \in CallNodes /\ c < x[i]
            => \E j \in 1..n : j < i /\ x[j] = c
      /\ \A i, j \in 1..n : x[i] # 0 /\ x[i] = x[j] /\ x[i] \notin Exposed => i = j
    BY <1>1 DEF Whole
<1>5. /\ \A i \in 1..m : y[i] # 0 => y[i] \in b + 1..e
      /\ \A c \in b + 1..e : c \in CallNodes => \E i \in 1..m : y[i] = c
      /\ \A i \in 1..m, c \in b + 1..e : c \in CallNodes /\ c < y[i]
            => \E j \in 1..m : j < i /\ y[j] = c
      /\ \A i, j \in 1..m : y[i] # 0 /\ y[i] = y[j] /\ y[i] \notin Exposed => i = j
    BY <1>1 DEF Whole
<1>6. \A i \in 1..n : i \in 1..(n + m)
    OBVIOUS
<1>7. \A i \in 1..m : n + i \in 1..(n + m)
    OBVIOUS
<1>8. ASSUME NEW i \in 1..(n + m), z[i] # 0
      PROVE  z[i] \in a..e
    <2>1. CASE i \in 1..n
        BY <1>2, <1>4, <1>8, <2>1
    <2>2. CASE \E j \in 1..m : i = n + j
        <3>1. PICK j \in 1..m : i = n + j
            BY <2>2
        <3>2. z[i] = y[j] /\ y[j] \in b + 1..e
            BY <1>2, <1>5, <1>8, <3>1
        <3> QED
            BY <3>2
    <2> QED
        BY <1>3, <2>1, <2>2
<1>9. ASSUME NEW c \in a..e, c \in CallNodes
      PROVE  \E i \in 1..(n + m) : z[i] = c
    <2>1. CASE c \in a..b
        <3>1. PICK i \in 1..n : x[i] = c
            BY <1>4, <1>9, <2>1
        <3> QED
            BY <1>2, <1>6, <3>1
    <2>2. CASE c \in b + 1..e
        <3>1. PICK i \in 1..m : y[i] = c
            BY <1>5, <1>9, <2>2
        <3> QED
            BY <1>2, <1>7, <3>1
    <2> QED
        BY <2>1, <2>2
<1>10. ASSUME NEW i \in 1..(n + m), NEW c \in a..e, c \in CallNodes, c < z[i]
       PROVE  \E j \in 1..(n + m) : j < i /\ z[j] = c
    <2>1. CASE i \in 1..n
        <3>1. z[i] = x[i] /\ x[i] \in Nat
            BY <1>2, <2>1
        <3>2. x[i] \in a..b
            BY <1>4, <1>10, <2>1, <3>1
        <3>3. c \in a..b
            BY <1>10, <3>1, <3>2
        <3>4. PICK j \in 1..n : j < i /\ x[j] = c
            BY <1>4, <1>10, <2>1, <3>1, <3>3
        <3> QED
            BY <1>2, <1>6, <3>4
    <2>2. CASE \E j \in 1..m : i = n + j
        <3>1. PICK h \in 1..m : i = n + h
            BY <2>2
        <3>2. z[i] = y[h]
            BY <1>2, <3>1
        <3>3. CASE c \in a..b
            <4>1. PICK j \in 1..n : x[j] = c
                BY <1>4, <1>10, <3>3
            <4>2. j < i /\ z[j] = c /\ j \in 1..(n + m)
                BY <1>2, <1>6, <3>1, <4>1
            <4> QED
                BY <4>2
        <3>4. CASE c \in b + 1..e
            <4>1. PICK j \in 1..m : j < h /\ y[j] = c
                BY <1>5, <1>10, <3>2, <3>4
            <4>2. n + j < i /\ z[n + j] = c /\ n + j \in 1..(n + m)
                BY <1>2, <1>7, <3>1, <4>1
            <4> QED
                BY <4>2
        <3> QED
            BY <3>3, <3>4
    <2> QED
        BY <1>3, <2>1, <2>2
<1>11. ASSUME NEW i \in 1..(n + m), NEW j \in 1..(n + m),
              z[i] # 0, z[i] = z[j], z[i] \notin Exposed
       PROVE  i = j
    <2>1. CASE i \in 1..n /\ j \in 1..n
        BY <1>2, <1>4, <1>11, <2>1
    <2>2. ASSUME NEW g \in 1..(n + m), NEW h \in 1..(n + m), g \in 1..n,
                 NEW k \in 1..m, h = n + k, z[g] # 0
          PROVE  z[g] # z[h]
        <3>1. z[g] \in a..b
            BY <1>2, <1>4, <2>2
        <3>2. z[h] = y[k] /\ (y[k] # 0 => y[k] \in b + 1..e)
            BY <1>2, <1>5, <2>2
        <3> QED
            BY <3>1, <3>2
    <2>3. CASE (\E k \in 1..m : i = n + k) /\ \E k \in 1..m : j = n + k
        <3>1. PICK g \in 1..m, h \in 1..m : i = n + g /\ j = n + h
            BY <2>3
        <3>2. y[g] # 0 /\ y[g] = y[h] /\ y[g] \notin Exposed
            BY <1>2, <1>11, <3>1
        <3> QED
            BY <1>5, <3>1, <3>2
    <2> QED
        BY <1>3, <1>11, <2>1, <2>2, <2>3
<1> QED
    BY <1>2, <1>8, <1>9, <1>10, <1>11 DEF Whole

\* Code that runs again, of nodes that are exposed.
LEMMA WholeAgain ==
    ASSUME NEW x \in Seq(Nat), NEW y \in Seq(Nat), NEW z, MarksJoin(z, x, y),
           NEW a \in Nat, NEW b \in Nat, 0 < a, Whole(x, a, b),
           \A i \in 1..Len(y) : y[i] # 0 => y[i] \in a..b /\ y[i] \in Exposed
    PROVE  Whole(z, a, b)
<1>1. PICK n \in Nat, m \in Nat : n = Len(x) /\ m = Len(y)
    BY SeqIsList
<1>2. /\ Len(z) = n + m
      /\ \A i \in 1..n : z[i] = x[i] /\ x[i] \in Nat
      /\ \A i \in 1..m : z[n + i] = y[i] /\ y[i] \in Nat
    BY <1>1, SeqIsList DEF MarksJoin
<1>3. \A i \in 1..(n + m) : i \in 1..n \/ \E j \in 1..m : i = n + j
    <2> TAKE i \in 1..(n + m)
    <2>1. i \notin 1..n => i - n \in 1..m /\ i = n + (i - n)
        BY <1>1
    <2> QED
        BY <2>1
<1>4. /\ \A i \in 1..n : x[i] # 0 => x[i] \in a..b
      /\ \A c \in a..b : c \in CallNodes => \E i \in 1..n : x[i] = c
      /\ \A i \in 1..n, c \in a..b : c \in CallNodes /\ c < x[i]
            => \E j \in 1..n : j < i /\ x[j] = c
      /\ \A i, j \in 1..n : x[i] # 0 /\ x[i] = x[j] /\ x[i] \notin Exposed => i = j
    BY <1>1 DEF Whole
<1>5. \A i \in 1..m : y[i] # 0 => y[i] \in a..b /\ y[i] \in Exposed
    BY <1>1
<1>6. \A i \in 1..n : i \in 1..(n + m)
    OBVIOUS
<1>7. ASSUME NEW i \in 1..(n + m), z[i] # 0
      PROVE  z[i] \in a..b
    <2>1. CASE i \in 1..n
        BY <1>2, <1>4, <1>7, <2>1
    <2>2. CASE \E j \in 1..m : i = n + j
        BY <1>2, <1>5, <1>7, <2>2
    <2> QED
        BY <1>3, <2>1, <2>2
<1>8. ASSUME NEW c \in a..b, c \in CallNodes
      PROVE  \E i \in 1..(n + m) : z[i] = c
    <2>1. PICK i \in 1..n : x[i] = c
        BY <1>4, <1>8
    <2> QED
        BY <1>2, <1>6, <2>1
<1>9. ASSUME NEW i \in 1..(n + m), NEW c \in a..b, c \in CallNodes, c < z[i]
      PROVE  \E j \in 1..(n + m) : j < i /\ z[j] = c
    <2>1. CASE i \in 1..n
        <3>1. PICK j \in 1..n : j < i /\ x[j] = c
            BY <1>2, <1>4, <1>9, <2>1
        <3> QED
            BY <1>2, <1>6, <3>1
    <2>2. CASE \E j \in 1..m : i = n + j
        <3>1. PICK j \in 1..n : x[j] = c
            BY <1>4, <1>9
        <3>2. j < i /\ z[j] = c /\ j \in 1..(n + m)
            BY <1>2, <1>6, <2>2, <3>1
        <3> QED
            BY <3>2
    <2> QED
        BY <1>3, <2>1, <2>2
<1>10. ASSUME NEW i \in 1..(n + m), NEW j \in 1..(n + m),
              z[i] # 0, z[i] = z[j], z[i] \notin Exposed
       PROVE  i = j
    <2>1. \A k \in 1..m : z[n + k] # 0 => z[n + k] \in Exposed
        BY <1>2, <1>5
    <2>2. i \in 1..n /\ j \in 1..n
        BY <1>3, <1>10, <2>1
    <2> QED
        BY <1>2, <1>4, <1>10, <2>2
<1> QED
    BY <1>2, <1>7, <1>8, <1>9, <1>10 DEF Whole

LEMMA WholeOfOne ==
    ASSUME NEW n \in Nat \ {0}
    PROVE  <<n>> \in Seq(Nat) /\ Whole(<<n>>, n, n)
<1>1. PICK z : z = <<n>>
    OBVIOUS
<1>2. z \in Seq(Nat) /\ Len(z) = 1 /\ z[1] = n
    BY <1>1
<1>3. /\ \A i \in 1..Len(z) : i = 1 /\ z[i] = n
      /\ 1 \in 1..Len(z) /\ \A c \in n..n : c = n
    BY <1>2
<1>4. \A i \in 1..Len(z) : z[i] \in n..n
    BY <1>3
<1>5. \A c \in n..n : \E i \in 1..Len(z) : z[i] = c
    BY <1>2, <1>3
<1>6. \A i \in 1..Len(z), c \in n..n : ~(c < z[i])
    BY <1>3
<1> QED
    BY <1>1, <1>2, <1>3, <1>4, <1>5, <1>6 DEF Whole

LEMMA WholeOfNone ==
    ASSUME NEW a \in Nat, NEW z, Len(z) = 0
    PROVE  Whole(z, a + 1, a)
<1>1. 1..Len(z) = {} /\ a + 1..a = {}
    OBVIOUS
<1> QED
    BY <1>1 DEF Whole

\* Nodes that are no calls.
LEMMA WholeBeyond ==
    ASSUME NEW z, NEW a \in Nat, NEW b \in Nat, Whole(z, a, b), b + 1 \notin CallNodes,
           \A i \in 1..Len(z) : z[i] \in Nat
    PROVE  Whole(z, a, b + 1)
<1>1. \A c \in a..b + 1 : c \in CallNodes => c \in a..b
    BY SMT
<1>2. \A c \in a..b : c \in a..b + 1
    OBVIOUS
<1> QED
    BY <1>1, <1>2 DEF Whole

LEMMA MarksThen ==
    ASSUME NEW p \in Piece, NEW q \in Piece, Passes(p)
    PROVE  /\ Marks(p.code) \in Seq(Nat) /\ Marks(q.code) \in Seq(Nat)
           /\ MarksJoin(Marks(Then(p, q).code), Marks(p.code), Marks(q.code))
<1>1. PICK r : r = Then(p, q)
    OBVIOUS
<1>2. r \in Piece /\ CodeJoin(r.code, p.code, q.code)
    BY <1>1, ThenIs
<1>3. PICK a, b, c, n : a = p.code /\ b = q.code /\ c = r.code /\ n = Len(p.code)
    OBVIOUS
<1>4. /\ a \in Seq(Inst) /\ b \in Seq(Inst) /\ c \in Seq(Inst) /\ n \in Nat
      /\ n = Len(a) /\ Len(c) = n + Len(b) /\ Holds(c, a, 0) /\ Holds(c, b, n)
    BY <1>2, <1>3, PieceIs DEF CodeJoin
<1>5. PICK x, y, z : x = Marks(a) /\ y = Marks(b) /\ z = Marks(c)
    OBVIOUS
<1>6. /\ x \in Seq(Nat) /\ y \in Seq(Nat)
      /\ Len(x) = n /\ Len(y) = Len(b) /\ Len(z) = Len(c)
    BY <1>4, <1>5, MarksAre
<1>7. \A i \in 1..Len(x) : z[i] = x[i]
    <2> TAKE i \in 1..Len(x)
    <2>1. i \in 1..Len(a) /\ 0 \in Nat /\ 0 + i = i
        BY <1>4, <1>6
    <2>2. z[0 + i] = x[i]
        BY <1>4, <1>5, <2>1, MarksLater
    <2> QED
        BY <2>1, <2>2
<1>8. \A i \in 1..Len(y) : z[n + i] = y[i]
    <2> TAKE i \in 1..Len(y)
    <2>1. i \in 1..Len(b)
        BY <1>6
    <2> QED
        BY <1>4, <1>5, <2>1, MarksLater
<1>9. MarksJoin(z, x, y)
    BY <1>4, <1>6, <1>7, <1>8 DEF MarksJoin
<1> QED
    BY <1>1, <1>3, <1>5, <1>6, <1>9

\* The mark of an instruction that Emit adds.
MarkOf(op, n) == IF op = "call" THEN n ELSE 0

LEMMA MarksEmit ==
    ASSUME NEW p \in Piece, Passes(p), NEW op \in Ops, NEW n \in Nat
    PROVE  /\ Marks(p.code) \in Seq(Nat) /\ <<MarkOf(op, n)>> \in Seq(Nat)
           /\ MarksJoin(Marks(Emit(p, op, n).code), Marks(p.code), <<MarkOf(op, n)>>)
<1>1. PICK r : r = Emit(p, op, n)
    OBVIOUS
<1>2. r \in Piece /\ CodeAdd(r.code, p.code, op, n, p.vals)
    BY <1>1, EmitIs
<1>3. PICK a, c, m : a = p.code /\ c = r.code /\ m = Len(p.code)
    OBVIOUS
<1>4. /\ a \in Seq(Inst) /\ c \in Seq(Inst) /\ m \in Nat
      /\ m = Len(a) /\ Len(c) = m + 1 /\ Holds(c, a, 0)
      /\ c[m + 1].op = op /\ c[m + 1].node = n
    BY <1>2, <1>3, PieceIs DEF CodeAdd
<1>5. PICK x, y, z, k : x = Marks(a) /\ k = MarkOf(op, n) /\ y = <<k>> /\ z = Marks(c)
    OBVIOUS
<1>6. k \in Nat
    BY <1>5 DEF MarkOf
<1>7. /\ x \in Seq(Nat) /\ y \in Seq(Nat)
      /\ Len(x) = m /\ Len(y) = 1 /\ y[1] = k /\ Len(z) = m + 1
    BY <1>4, <1>5, <1>6, MarksAre
<1>8. \A i \in 1..Len(x) : z[i] = x[i]
    <2> TAKE i \in 1..Len(x)
    <2>1. i \in 1..Len(a) /\ 0 \in Nat /\ 0 + i = i
        BY <1>4, <1>7
    <2>2. z[0 + i] = x[i]
        BY <1>4, <1>5, <2>1, MarksLater
    <2> QED
        BY <2>1, <2>2
<1>9. z[m + 1] = k
    <2>1. m + 1 \in 1..Len(c)
        BY <1>4
    <2>2. z[m + 1] = IF c[m + 1].op = "call" THEN c[m + 1].node ELSE 0
        BY <1>4, <1>5, <2>1, MarksAre
    <2> QED
        BY <1>4, <1>5, <2>2 DEF MarkOf
<1>10. \A i \in 1..Len(y) : z[m + i] = y[i]
    BY <1>7, <1>9
<1>11. MarksJoin(z, x, y)
    BY <1>7, <1>8, <1>10 DEF MarksJoin
<1> QED
    BY <1>1, <1>3, <1>5, <1>7, <1>11
-----------------------------------------------------------------------------
(* A piece that makes all calls of the nodes a..b. *)

\* No call of the nodes a..b leaves out an argument.
Enough(a, b) ==
    \A n \in a..b : n \in CallNodes /\ IsVariadic(tree[n].fn) => ~(Given(n) < Parameters[tree[n].fn])

Runs(p, L, lo, hi, k, a, b) ==
    /\ Plain(p, L, lo, hi, k)
    /\ Passes(p) => Whole(Marks(p.code), a, b) /\ Enough(a, b)

\* Code of p that may run again.
Repeats(p, a, b) ==
    \A i \in 1..Len(p.code) :
        p.code[i].node \in CallNodes => p.code[i].node \in a..b /\ p.code[i].node \in Exposed

\* What makes a call is the code of one.
LEMMA PlainCalls ==
    ASSUME NEW p, NEW L, NEW lo \in Nat, NEW hi \in Nat, NEW k, Plain(p, L, lo, hi, k),
           lo..hi \subseteq DOMAIN tree, NEW i \in 1..Len(p.code), p.code[i].op = "call"
    PROVE  p.code[i].node \in CallNodes
<1>1. PICK x : x = p.code[i]
    OBVIOUS
<1>2. x.node \in lo..hi /\ Kind(x.node) = "call"
    BY <1>1 DEF Plain, Fine
<1> QED
    BY <1>1, <1>2 DEF CallNodes

LEMMA RunsThen ==
    ASSUME NEW p, NEW q, NEW L, NEW lo \in Nat, NEW hi \in Nat, NEW k \in Nat, NEW m \in Nat,
           NEW a \in Nat, NEW b \in Nat, NEW e \in Nat, 0 < a, a <= b + 1, b <= e,
           Runs(p, L, lo, hi, k, a, b), Runs(q, L, lo, hi, m, b + 1, e)
    PROVE  Runs(Then(p, q), L, lo, hi, k + m, a, e)
<1>1. PICK r : r = Then(p, q)
    OBVIOUS
<1>2. Plain(p, L, lo, hi, k) /\ Plain(q, L, lo, hi, m)
    BY DEF Runs
<1>3. Plain(r, L, lo, hi, k + m)
    BY <1>1, <1>2, PlainThen
<1>4. ASSUME Passes(r)
      PROVE  Whole(Marks(r.code), a, e) /\ Enough(a, e)
    <2>1. p \in Piece /\ q \in Piece
        BY <1>2 DEF Plain
    <2>2. Passes(p)
        BY <1>1, <1>4, FailureStays
    <2>3. Passes(q)
        BY <1>1, <1>4, <2>1, <2>2, ThenIs
    <2>4. /\ Whole(Marks(p.code), a, b) /\ Enough(a, b)
          /\ Whole(Marks(q.code), b + 1, e) /\ Enough(b + 1, e)
        BY <2>2, <2>3 DEF Runs
    <2>5. PICK x, y, z : x = Marks(p.code) /\ y = Marks(q.code) /\ z = Marks(r.code)
        OBVIOUS
    <2>6. x \in Seq(Nat) /\ y \in Seq(Nat) /\ MarksJoin(z, x, y)
        BY <1>1, <2>1, <2>2, <2>5, MarksThen
    <2>7. Whole(z, a, e)
        BY <2>4, <2>5, <2>6, WholeNext
    <2>8. \A n \in a..e : n \in a..b \/ n \in b + 1..e
        OBVIOUS
    <2>9. Enough(a, e)
        BY <2>4, <2>8 DEF Enough
    <2> QED
        BY <2>5, <2>7, <2>9
<1>5. Runs(r, L, lo, hi, k + m, a, e)
    BY <1>3, <1>4 DEF Runs
<1> QED
    BY <1>1, <1>5

LEMMA RunsAgain ==
    ASSUME NEW p, NEW q, NEW L, NEW lo \in Nat, NEW hi \in Nat, NEW k \in Nat, NEW m \in Nat,
           NEW a \in Nat, NEW b \in Nat, 0 < a, lo..hi \subseteq DOMAIN tree,
           Runs(p, L, lo, hi, k, a, b), Plain(q, L, lo, hi, m), Repeats(q, a, b)
    PROVE  Runs(Then(p, q), L, lo, hi, k + m, a, b)
<1>1. PICK r : r = Then(p, q)
    OBVIOUS
<1>2. Plain(p, L, lo, hi, k)
    BY DEF Runs
<1>3. Plain(r, L, lo, hi, k + m)
    BY <1>1, <1>2, PlainThen
<1>4. ASSUME Passes(r)
      PROVE  Whole(Marks(r.code), a, b) /\ Enough(a, b)
    <2>1. p \in Piece /\ q \in Piece
        BY <1>2 DEF Plain
    <2>2. Passes(p)
        BY <1>1, <1>4, FailureStays
    <2>3. Whole(Marks(p.code), a, b) /\ Enough(a, b)
        BY <2>2 DEF Runs
    <2>4. PICK x, y, z : x = Marks(p.code) /\ y = Marks(q.code) /\ z = Marks(r.code)
        OBVIOUS
    <2>5. x \in Seq(Nat) /\ y \in Seq(Nat) /\ MarksJoin(z, x, y)
        BY <1>1, <2>1, <2>2, <2>4, MarksThen
    <2>6. ASSUME NEW i \in 1..Len(y), y[i] # 0
          PROVE  y[i] \in a..b /\ y[i] \in Exposed
        <3>1. PICK c, d : c = q.code /\ d = c[i]
            OBVIOUS
        <3>2. c \in Seq(Inst)
            BY <2>1, <3>1, PieceIs
        <3>3. i \in 1..Len(c) /\ y[i] = IF d.op = "call" THEN d.node ELSE 0
            BY <2>4, <3>1, <3>2, MarksAre
        <3>4. d.op = "call" /\ y[i] = d.node
            BY <2>6, <3>3
        <3>5. d.node \in CallNodes
            BY <3>1, <3>3, <3>4, PlainCalls
        <3>6. d.node \in a..b /\ d.node \in Exposed
            BY <3>1, <3>3, <3>5 DEF Repeats
        <3> QED
            BY <3>4, <3>6
    <2>7. Whole(z, a, b)
        BY <2>3, <2>4, <2>5, <2>6, WholeAgain
    <2> QED
        BY <2>3, <2>4, <2>7
<1>5. Runs(r, L, lo, hi, k + m, a, b)
    BY <1>3, <1>4 DEF Runs
<1> QED
    BY <1>1, <1>5

LEMMA RunsLast ==
    ASSUME NEW p, NEW L, NEW lo, NEW hi, NEW k \in Nat \ {0}, NEW a, NEW b,
           Runs(p, L, lo, hi, k, a, b)
    PROVE  Runs(LastVal(p), L, lo, hi, 1, a, b)
<1>1. PICK r : r = LastVal(p)
    OBVIOUS
<1>2. Plain(p, L, lo, hi, k) /\ (Passes(p) => Whole(Marks(p.code), a, b) /\ Enough(a, b))
    BY DEF Runs
<1>3. Plain(r, L, lo, hi, 1)
    BY <1>1, <1>2, PlainLast
<1>4. ASSUME Passes(r)
      PROVE  r.code = p.code /\ Passes(p)
    <2>1. Passes(p)
        BY <1>1, <1>4, FailureStays
    <2>2. p \in Piece /\ Len(p.vals) > 0
        BY <1>2, <2>1 DEF Plain
    <2> QED
        BY <1>1, <2>1, <2>2, LastValIs
<1>5. Runs(r, L, lo, hi, 1, a, b)
    BY <1>2, <1>3, <1>4 DEF Runs
<1> QED
    BY <1>1, <1>5

LEMMA RunsEmit ==
    ASSUME NEW p, NEW L, NEW lo, NEW hi, NEW k, NEW a \in Nat, NEW b \in Nat,
           0 < a, Runs(p, L, lo, hi, k, a, b), NEW op \in Ops \ {"call"}, NEW n \in Nat,
           Plain(Emit(p, op, n), L, lo, hi, 1)
    PROVE  Runs(Emit(p, op, n), L, lo, hi, 1, a, b)
<1>1. PICK r : r = Emit(p, op, n)
    OBVIOUS
<1>2. Plain(p, L, lo, hi, k) /\ (Passes(p) => Whole(Marks(p.code), a, b) /\ Enough(a, b))
    BY DEF Runs
<1>3. Plain(r, L, lo, hi, 1)
    BY <1>1
<1>4. ASSUME Passes(r)
      PROVE  Whole(Marks(r.code), a, b) /\ Enough(a, b)
    <2>1. p \in Piece /\ op \in Ops /\ MarkOf(op, n) = 0
        BY <1>2 DEF Plain, MarkOf
    <2>2. Passes(p)
        BY <1>1, <1>4, FailureStays
    <2>3. PICK x, y, z : x = Marks(p.code) /\ y = <<MarkOf(op, n)>> /\ z = Marks(r.code)
        OBVIOUS
    <2>4. x \in Seq(Nat) /\ y \in Seq(Nat) /\ MarksJoin(z, x, y)
        BY <1>1, <2>1, <2>2, <2>3, MarksEmit
    <2>5. \A i \in 1..Len(y) : y[i] = 0
        BY <2>1, <2>3
    <2>6. Whole(z, a, b)
        BY <1>2, <2>2, <2>3, <2>4, <2>5, WholeAgain
    <2> QED
        BY <1>2, <2>2, <2>3, <2>6
<1>5. Runs(r, L, lo, hi, 1, a, b)
    BY <1>3, <1>4 DEF Runs
<1> QED
    BY <1>1, <1>5

LEMMA RunsOp ==
    ASSUME NEW p, NEW L, NEW lo \in Nat, NEW hi \in Nat, NEW k, NEW a \in Nat, NEW b \in Nat,
           0 < a, Runs(p, L, lo, hi, k, a, b),
           NEW op \in Ops \ {"call"}, NEW n \in lo..hi, Kind(n) # "assign"
    PROVE  Runs(Emit(p, op, n), L, lo, hi, 1, a, b)
<1>1. Plain(p, L, lo, hi, k)
    BY DEF Runs
<1>2. Plain(Emit(p, op, n), L, lo, hi, 1)
    BY <1>1, PlainOp
<1>3. n \in Nat
    OBVIOUS
<1> QED
    BY <1>2, <1>3, RunsEmit

\* A node that is no call makes none.
LEMMA RunsBeyond ==
    ASSUME NEW p, NEW L, NEW lo, NEW hi, NEW k, NEW a \in Nat, NEW b \in Nat,
           Runs(p, L, lo, hi, k, a, b), Kind(b + 1) # "call"
    PROVE  Runs(p, L, lo, hi, k, a, b + 1)
<1>1. b + 1 \notin CallNodes
    BY DEF CallNodes
<1>2. ASSUME Passes(p)
      PROVE  Whole(Marks(p.code), a, b + 1) /\ Enough(a, b + 1)
    <2>1. Whole(Marks(p.code), a, b) /\ Enough(a, b) /\ p.code \in Seq(Inst)
        BY <1>2, PieceIs DEF Runs, Plain
    <2>2. PICK z : z = Marks(p.code)
        OBVIOUS
    <2>3. z \in Seq(Nat) /\ Whole(z, a, b)
        BY <2>1, <2>2, MarksAre
    <2>4. \A i \in 1..Len(z) : z[i] \in Nat
        BY <2>3, SeqIsList
    <2>5. Whole(z, a, b + 1)
        BY <1>1, <2>3, <2>4, WholeBeyond
    <2>6. \A n \in a..b + 1 : n \in CallNodes => n \in a..b
        BY <1>1, SMT
    <2>7. Enough(a, b + 1)
        BY <2>1, <2>6 DEF Enough
    <2> QED
        BY <2>2, <2>5, <2>7
<1> QED
    BY <1>2 DEF Runs
-----------------------------------------------------------------------------
(* The tree: L[n] is the first of the nodes under n, which are L[n]..n. *)

\* The nodes under the members of s follow one another, and are those of a..b.
Chain(L, s, a, b) ==
    /\ Len(s) = 0 => a = b + 1
    /\ Len(s) > 0 => L[s[1]] = a /\ s[Len(s)] = b
    /\ \A i \in 1..Len(s) : L[s[i]] <= s[i]
    /\ \A i \in 1..Len(s) : i > 1 => L[s[i]] = s[i - 1] + 1
    /\ \A i, j \in 1..Len(s) : i < j => s[i] < L[s[j]]

Arity(n) ==
    /\ Kind(n) \in {"literal", "variable", "function"} => Len(tree[n].operands) = 0
    /\ Kind(n) \in {"dot", "method", "star", "ampersand", "let"} => Len(tree[n].operands) = 1
    /\ Kind(n) \in {"plus", "assign", "subscript"} => Len(tree[n].operands) = 2
    /\ Kind(n) = "call" => Len(tree[n].operands) > 0

Shape(L) ==
    /\ tree \in Seq(Node)
    /\ L \in [DOMAIN tree -> Nat \ {0}]
    /\ \A n \in DOMAIN tree : /\ Arity(n)
                              /\ tree[n].operands \in Seq(DOMAIN tree)
                              /\ Chain(L, tree[n].operands, L[n], n - 1)

LEMMA ChainIn ==
    ASSUME NEW D, D \subseteq Nat, NEW L \in [D -> Nat \ {0}], NEW s \in Seq(D),
           NEW a \in Nat, NEW b \in Nat, Chain(L, s, a, b), NEW i \in 1..Len(s)
    PROVE  a <= L[s[i]] /\ L[s[i]] <= s[i] /\ s[i] <= b
<1>1. PICK n \in Nat : n = Len(s)
    BY SeqIsList
<1>2. /\ i \in 1..n /\ 1 \in 1..n /\ n \in 1..n
      /\ \A j \in 1..n : s[j] \in Nat /\ L[s[j]] \in Nat
    <2>1. i \in 1..n /\ 1 \in 1..n /\ n \in 1..n
        BY <1>1
    <2>2. \A j \in 1..n : s[j] \in D
        BY <1>1, SeqIsList
    <2>3. \A x \in D : x \in Nat /\ L[x] \in Nat
        OBVIOUS
    <2> QED
        BY <2>1, <2>2, <2>3
<1>3. /\ L[s[1]] = a /\ s[n] = b
      /\ \A j \in 1..n : L[s[j]] <= s[j]
      /\ \A j, h \in 1..n : j < h => s[j] < L[s[h]]
    BY <1>1, <1>2 DEF Chain
<1>4. a <= L[s[i]]
    <2>1. CASE i = 1
        BY <1>2, <1>3, <2>1
    <2>2. CASE 1 < i
        <3>1. s[1] < L[s[i]] /\ L[s[1]] <= s[1] /\ s[1] \in Nat
            BY <1>2, <1>3, <2>2
        <3> QED
            BY <1>2, <1>3, <3>1
    <2> QED
        BY <1>2, <2>1, <2>2
<1>5. s[i] <= b
    <2>1. CASE i = n
        BY <1>2, <1>3, <2>1
    <2>2. CASE i < n
        <3>1. s[i] < L[s[n]] /\ L[s[n]] <= s[n] /\ L[s[n]] \in Nat
            BY <1>2, <1>3, <2>2
        <3> QED
            BY <1>2, <1>3, <3>1
    <2> QED
        BY <1>2, <2>1, <2>2
<1> QED
    BY <1>2, <1>3, <1>4, <1>5

LEMMA ChainCovers ==
    ASSUME NEW D, D \subseteq Nat, NEW L \in [D -> Nat \ {0}], NEW s \in Seq(D),
           NEW a \in Nat, NEW b \in Nat, Chain(L, s, a, b), NEW x \in a..b
    PROVE  \E i \in 1..Len(s) : x \in L[s[i]]..s[i]
<1>1. PICK n \in Nat : n = Len(s)
    BY SeqIsList
<1>2. n > 0
    BY <1>1 DEF Chain
<1>3. \A j \in 1..n : s[j] \in Nat /\ L[s[j]] \in Nat
    BY <1>1, SeqIsList
<1>4. /\ L[s[1]] = a /\ s[n] = b
      /\ \A j \in 1..n : j > 1 => L[s[j]] = s[j - 1] + 1
    BY <1>1, <1>2 DEF Chain
<1>5. PICK S : S = {j \in 1..n : x <= s[j]}
    OBVIOUS
<1>6. n \in S /\ S \subseteq Nat
    BY <1>2, <1>4, <1>5
<1>7. PICK i \in S : \A j \in S : i <= j
    BY <1>6, SmallestMember
<1>8. i \in 1..n /\ x <= s[i]
    BY <1>5, <1>7
<1>9. L[s[i]] <= x
    <2>1. CASE i = 1
        BY <1>4, <2>1
    <2>2. CASE i > 1
        <3>1. i - 1 \in 1..n /\ i - 1 \notin S
            BY <1>7, <1>8, <2>2
        <3>2. s[i - 1] < x
            BY <1>3, <1>5, <3>1
        <3>3. L[s[i]] = s[i - 1] + 1 /\ s[i - 1] \in Nat
            BY <1>3, <1>4, <1>8, <2>2, <3>1
        <3> QED
            BY <3>2, <3>3
    <2> QED
        BY <1>8, <2>1, <2>2
<1>10. x \in L[s[i]]..s[i]
    BY <1>3, <1>8, <1>9
<1> QED
    BY <1>1, <1>8, <1>10

LEMMA NodeIs ==
    ASSUME NEW L, Shape(L), NEW n \in DOMAIN tree
    PROVE  /\ n \in Nat \ {0} /\ n <= Len(tree) /\ Len(tree) \in Nat
           /\ DOMAIN tree = 1..Len(tree) /\ DOMAIN tree \subseteq Nat
           /\ tree[n].operands \in Seq(DOMAIN tree) /\ Len(tree[n].operands) \in Nat
           /\ L[n] \in Nat \ {0}
           /\ Chain(L, tree[n].operands, L[n], n - 1)
           /\ Kind(n) \in Kinds
<1>1. tree \in Seq(Node) /\ L \in [DOMAIN tree -> Nat \ {0}]
    BY DEF Shape
<1>2. Len(tree) \in Nat /\ DOMAIN tree = 1..Len(tree) /\ tree[n] \in Node
    BY <1>1, SeqIsList
<1>3. tree[n].operands \in Seq(DOMAIN tree) /\ Chain(L, tree[n].operands, L[n], n - 1)
    BY DEF Shape
<1>4. Len(tree[n].operands) \in Nat
    BY <1>3, SeqIsList
<1>5. Kind(n) \in Kinds
    BY <1>2 DEF Kind, Node
<1>6. n \in Nat \ {0} /\ n <= Len(tree) /\ DOMAIN tree \subseteq Nat
    BY <1>2
<1>7. L[n] \in Nat \ {0}
    BY <1>1
<1> QED
    BY <1>2, <1>3, <1>4, <1>5, <1>6, <1>7

LEMMA OperandIs ==
    ASSUME NEW L, Shape(L), NEW n \in DOMAIN tree, NEW i \in 1..Len(tree[n].operands)
    PROVE  /\ tree[n].operands[i] \in DOMAIN tree
           /\ tree[n].operands[i] \in Nat
           /\ tree[n].operands[i] < n
           /\ L[tree[n].operands[i]] \in Nat
           /\ L[n] <= L[tree[n].operands[i]]
           /\ L[tree[n].operands[i]] <= tree[n].operands[i]
<1>1. PICK s, D : s = tree[n].operands /\ D = DOMAIN tree
    OBVIOUS
<1>2. /\ n \in Nat \ {0} /\ D \subseteq Nat /\ s \in Seq(D)
      /\ L[n] \in Nat /\ Chain(L, s, L[n], n - 1)
    BY <1>1, NodeIs
<1>3. L \in [D -> Nat \ {0}]
    BY <1>1 DEF Shape
<1>4. n - 1 \in Nat /\ i \in 1..Len(s)
    BY <1>1, <1>2
<1>5. L[n] <= L[s[i]] /\ L[s[i]] <= s[i] /\ s[i] <= n - 1
    BY <1>2, <1>3, <1>4, ChainIn
<1>6. s[i] \in D /\ s[i] \in Nat /\ L[s[i]] \in Nat
    BY <1>2, <1>3, <1>4, SeqIsList
<1>7. s[i] < n
    BY <1>2, <1>5, <1>6
<1> QED
    BY <1>1, <1>5, <1>6, <1>7

LEMMA FirstIs ==
    ASSUME NEW L, Shape(L), NEW n \in DOMAIN tree
    PROVE  /\ L[n] <= n
           /\ Len(tree[n].operands) = 0 => L[n] = n
           /\ L[n]..n \subseteq DOMAIN tree
<1>1. PICK s : s = tree[n].operands
    OBVIOUS
<1>2. /\ n \in Nat \ {0} /\ n <= Len(tree) /\ Len(tree) \in Nat /\ DOMAIN tree = 1..Len(tree)
      /\ Len(s) \in Nat /\ L[n] \in Nat \ {0} /\ Chain(L, s, L[n], n - 1)
    BY <1>1, NodeIs
<1>3. Len(s) = 0 => L[n] = n
    BY <1>2 DEF Chain
<1>4. CASE Len(s) > 0
    <2>1. 1 \in 1..Len(s)
        BY <1>2, <1>4
    <2>2. /\ L[n] <= L[s[1]] /\ L[s[1]] <= s[1] /\ s[1] < n
          /\ L[s[1]] \in Nat /\ s[1] \in Nat
        BY <1>1, <2>1, OperandIs
    <2>3. L[n] <= n
        BY <1>2, <2>2
    <2> QED
        BY <1>1, <1>2, <1>3, <2>3
<1> QED
    BY <1>1, <1>2, <1>3, <1>4

\* What an interval over the operands is.
LEMMA Covered ==
    ASSUME NEW L, Shape(L), NEW n \in DOMAIN tree, NEW x
    PROVE  x \in L[n]..n <=>
              \/ x = n
              \/ \E i \in 1..Len(tree[n].operands) :
                    x \in L[tree[n].operands[i]]..tree[n].operands[i]
<1>1. PICK s, D : s = tree[n].operands /\ D = DOMAIN tree
    OBVIOUS
<1>2. /\ n \in Nat \ {0} /\ D \subseteq Nat /\ s \in Seq(D)
      /\ L[n] \in Nat /\ Chain(L, s, L[n], n - 1)
    BY <1>1, NodeIs
<1>3. L \in [D -> Nat \ {0}] /\ n - 1 \in Nat
    BY <1>1, <1>2 DEF Shape
<1>4. ASSUME x \in L[n]..n, x # n
      PROVE  \E i \in 1..Len(s) : x \in L[s[i]]..s[i]
    <2>1. x \in L[n]..(n - 1)
        BY <1>2, <1>4
    <2> QED
        BY <1>2, <1>3, <2>1, ChainCovers
<1>5. ASSUME NEW i \in 1..Len(s), x \in L[s[i]]..s[i]
      PROVE  x \in L[n]..n
    <2>1. /\ s[i] \in Nat /\ s[i] < n /\ L[s[i]] \in Nat /\ L[n] <= L[s[i]]
        BY <1>1, OperandIs
    <2> QED
        BY <1>2, <1>5, <2>1
<1>6. x = n => x \in L[n]..n
    BY <1>2, FirstIs
<1> QED
    BY <1>1, <1>4, <1>5, <1>6

LEMMA InUnion ==
    ASSUME NEW f, NEW s, NEW I, NEW x
    PROVE  x \in UNION {f[s[i]] : i \in I} <=> \E i \in I : x \in f[s[i]]
OBVIOUS

\* The equation of Subtree, and the function that solves it.
Below(f, n) == {n} \cup UNION {f[tree[n].operands[i]] : i \in DOMAIN tree[n].operands}

LEMMA SubtreeMeans ==
    ASSUME NEW L, Shape(L)
    PROVE  \A n \in DOMAIN tree : Subtree[n] = L[n]..n
<1>1. ASSUME NEW f, NEW n \in DOMAIN tree,
             \A i \in 1..Len(tree[n].operands) :
                f[tree[n].operands[i]] = L[tree[n].operands[i]]..tree[n].operands[i]
      PROVE  Below(f, n) = L[n]..n
    <2>1. PICK s : s = tree[n].operands
        OBVIOUS
    <2>2. DOMAIN s = 1..Len(s)
        BY <2>1, NodeIs, SeqIsList
    <2>3. \A i \in 1..Len(s) : f[s[i]] = L[s[i]]..s[i]
        BY <1>1, <2>1
    <2>4. Below(f, n) = {n} \cup UNION {f[s[i]] : i \in 1..Len(s)}
        BY <2>1, <2>2 DEF Below
    <2>5. \A x : x \in Below(f, n) <=> x = n \/ \E i \in 1..Len(s) : x \in L[s[i]]..s[i]
        <3> TAKE x
        <3>1. x \in UNION {f[s[i]] : i \in 1..Len(s)} <=> \E i \in 1..Len(s) : x \in f[s[i]]
            BY InUnion
        <3>2. x \in Below(f, n) <=> x = n \/ x \in UNION {f[s[i]] : i \in 1..Len(s)}
            BY <2>4
        <3>3. (\E i \in 1..Len(s) : x \in f[s[i]]) <=> \E i \in 1..Len(s) : x \in L[s[i]]..s[i]
            BY <2>3
        <3> QED
            BY <3>1, <3>2, <3>3
    <2>6. \A x : x \in L[n]..n <=> x = n \/ \E i \in 1..Len(s) : x \in L[s[i]]..s[i]
        BY <2>1, Covered
    <2> QED
        BY <2>5, <2>6
<1>2. PICK g : g = [n \in DOMAIN tree |-> L[n]..n]
    OBVIOUS
<1>3. ASSUME NEW n \in DOMAIN tree
      PROVE  g[n] = Below(g, n)
    <2>1. \A i \in 1..Len(tree[n].operands) :
             g[tree[n].operands[i]] = L[tree[n].operands[i]]..tree[n].operands[i]
        <3> TAKE i \in 1..Len(tree[n].operands)
        <3>1. PICK o : o = tree[n].operands[i]
            OBVIOUS
        <3>2. o \in DOMAIN tree
            BY <3>1, OperandIs
        <3>3. g[o] = L[o]..o
            BY <1>2, <3>2
        <3> QED
            BY <3>1, <3>3
    <2>2. Below(g, n) = L[n]..n
        BY <1>1, <2>1
    <2> QED
        BY <1>2, <2>2
<1>4. g = [n \in DOMAIN tree |-> Below(g, n)]
    BY <1>2, <1>3
<1>5. Subtree = [n \in DOMAIN tree |-> Below(Subtree, n)]
    BY <1>4 DEF Subtree, Below
<1>6. SUFFICES ASSUME \E n \in DOMAIN tree : Subtree[n] # L[n]..n
               PROVE  FALSE
    OBVIOUS
<1>7. PICK S : S = {n \in DOMAIN tree : Subtree[n] # L[n]..n}
    OBVIOUS
<1>8. S # {} /\ S \subseteq Nat
    BY <1>6, <1>7, NodeIs
<1>9. PICK n \in S : \A m \in S : n <= m
    BY <1>8, SmallestMember
<1>10. n \in DOMAIN tree /\ Subtree[n] # L[n]..n
    BY <1>7, <1>9
<1>11. ASSUME NEW i \in 1..Len(tree[n].operands)
       PROVE  Subtree[tree[n].operands[i]] = L[tree[n].operands[i]]..tree[n].operands[i]
    <2>1. PICK o : o = tree[n].operands[i]
        OBVIOUS
    <2>2. o \in DOMAIN tree /\ o \in Nat /\ o < n /\ n \in Nat
        BY <1>8, <1>10, <2>1, OperandIs
    <2>3. o \notin S
        BY <1>9, <2>2
    <2> QED
        BY <1>7, <2>1, <2>2, <2>3
<1>12. Below(Subtree, n) = L[n]..n
    BY <1>1, <1>10, <1>11
<1> QED
    BY <1>5, <1>10, <1>12

LEMMA ExposedHas ==
    ASSUME NEW L, Shape(L), NEW n \in DOMAIN tree, NEW i \in Repeated(n),
           i \in 1..Len(tree[n].operands),
           NEW x \in L[tree[n].operands[i]]..tree[n].operands[i]
    PROVE  x \in Exposed
<1>1. tree[n].operands[i] \in DOMAIN tree
    BY OperandIs
<1>2. Subtree[tree[n].operands[i]] = L[tree[n].operands[i]]..tree[n].operands[i]
    BY <1>1, SubtreeMeans
<1>3. x \in UNION {Subtree[tree[n].operands[j]] : j \in Repeated(n)}
    BY <1>2
<1> QED
    BY <1>3 DEF Exposed
-----------------------------------------------------------------------------
(* What an instruction needs. *)

\* The equation of Needs.
NeededBy(f, i) == {i} \cup UNION {f[v.at] : v \in {u \in ToSet(code[i].uses) : u.at # 0}}

\* Instruction j uses the value of instruction x.
UsedBy(x, j) == \E u \in 1..Len(code[j].uses) : x # 0 /\ code[j].uses[u].at = x

Backward == \A x : \A j \in 1..Len(code) : UsedBy(x, j) => x \in 1..(j - 1)

LEMMA NeededIs ==
    ASSUME code \in Seq(Inst), NEW f, NEW i \in 1..Len(code), NEW x
    PROVE  x \in NeededBy(f, i) <=> x = i \/ \E y : UsedBy(y, i) /\ x \in f[y]
<1>1. PICK s : s = code[i].uses
    OBVIOUS
<1>2. s \in Seq(Value)
    <2>1. PICK c : c = code[i]
        OBVIOUS
    <2>2. c \in Inst
        BY <2>1, SeqIsList
    <2> QED
        BY <1>1, <2>1, <2>2, InstIs
<1>3. DOMAIN s = 1..Len(s)
    BY <1>2, SeqIsList
<1>4. ToSet(s) = {s[u] : u \in 1..Len(s)}
    BY <1>3 DEF ToSet
<1>5. PICK T : T = {v \in ToSet(s) : v.at # 0}
    OBVIOUS
<1>6. \A v : v \in T <=> \E u \in 1..Len(s) : v = s[u] /\ v.at # 0
    BY <1>4, <1>5
<1>7. x \in UNION {f[v.at] : v \in T} <=> \E v \in T : x \in f[v.at]
    OBVIOUS
<1>8. (\E v \in T : x \in f[v.at]) <=> \E y : UsedBy(y, i) /\ x \in f[y]
    <2>1. ASSUME NEW v \in T, x \in f[v.at]
          PROVE  UsedBy(v.at, i)
        BY <1>1, <1>6 DEF UsedBy
    <2>2. ASSUME NEW y, UsedBy(y, i), x \in f[y]
          PROVE  \E v \in T : x \in f[v.at]
        <3>1. PICK u \in 1..Len(s) : y # 0 /\ s[u].at = y
            BY <1>1, <2>2 DEF UsedBy
        <3>2. s[u] \in T
            BY <1>6, <3>1
        <3> QED
            BY <2>2, <3>1, <3>2
    <2> QED
        BY <2>1, <2>2
<1>9. x \in NeededBy(f, i) <=> x = i \/ x \in UNION {f[v.at] : v \in T}
    BY <1>1, <1>5 DEF NeededBy
<1> QED
    BY <1>7, <1>8, <1>9

LEMMA NeedsMeans ==
    ASSUME code \in Seq(Inst), Backward
    PROVE  \A i \in DOMAIN code : Needs[i] = NeededBy(Needs, i)
<1>1. PICK D : D = 1..Len(code)
    OBVIOUS
<1>2. /\ DOMAIN code = D
      /\ \A j \in D : \A x : UsedBy(x, j) => x \in D
    BY <1>1, SeqIsList DEF Backward
<1> DEFINE Closed(S) == \A j \in S : \A x : UsedBy(x, j) => x \in S
           R(i) == {x \in D : \A S \in SUBSET D : i \in S /\ Closed(S) => x \in S}
<1>3. PICK g : g = [i \in D |-> R(i)]
    OBVIOUS
<1>4. ASSUME NEW i \in D
      PROVE  g[i] = NeededBy(g, i)
    <2>1. \A x : x \in NeededBy(g, i) <=> x = i \/ \E y : UsedBy(y, i) /\ x \in g[y]
        BY <1>1, NeededIs
    <2>2. ASSUME NEW x, x \in NeededBy(g, i)
          PROVE  x \in R(i)
        <3>1. CASE x = i
            BY <3>1
        <3>2. ASSUME NEW y, UsedBy(y, i), x \in g[y]
              PROVE  x \in R(i)
            <4>1. y \in D
                BY <1>2, <3>2
            <4>2. x \in R(y)
                BY <1>3, <3>2, <4>1
            <4>3. ASSUME NEW S \in SUBSET D, i \in S, Closed(S)
                  PROVE  x \in S
                <5>1. y \in S
                    BY <3>2, <4>3
                <5> QED
                    BY <4>2, <4>3, <5>1
            <4> QED
                BY <4>2, <4>3
        <3> QED
            BY <2>1, <2>2, <3>1, <3>2
    <2>3. ASSUME NEW x \in R(i)
          PROVE  x \in NeededBy(g, i)
        <3>1. PICK T : T = NeededBy(g, i)
            OBVIOUS
        <3>2. i \in T
            BY <2>1, <3>1
        <3>3. T \subseteq D
            <4>1. ASSUME NEW y, UsedBy(y, i), NEW z \in g[y]
                  PROVE  z \in D
                <5>1. y \in D
                    BY <1>2, <4>1
                <5> QED
                    BY <1>3, <4>1, <5>1
            <4> QED
                BY <2>1, <3>1, <4>1
        <3>4. ASSUME NEW j \in T, NEW z, UsedBy(z, j)
              PROVE  z \in T
            <4>1. CASE j = i
                <5>1. UsedBy(z, i) /\ z \in D
                    BY <1>2, <3>4, <4>1
                <5>2. z \in R(z)
                    BY <5>1
                <5>3. z \in g[z]
                    BY <1>3, <5>1, <5>2
                <5> QED
                    BY <2>1, <3>1, <5>1, <5>3
            <4>2. ASSUME NEW y, UsedBy(y, i), j \in g[y]
                  PROVE  z \in T
                <5>1. y \in D
                    BY <1>2, <4>2
                <5>2. j \in R(y)
                    BY <1>3, <4>2, <5>1
                <5>3. z \in D
                    BY <1>2, <3>3, <3>4
                <5>4. ASSUME NEW S \in SUBSET D, y \in S, Closed(S)
                      PROVE  z \in S
                    <6>1. j \in S
                        BY <5>2, <5>4
                    <6> QED
                        BY <3>4, <5>4, <6>1
                <5>5. z \in R(y)
                    BY <5>3, <5>4
                <5>6. z \in g[y]
                    BY <1>3, <5>1, <5>5
                <5> QED
                    BY <2>1, <3>1, <4>2, <5>6
            <4> QED
                BY <2>1, <3>1, <3>4, <4>1, <4>2
        <3>5. Closed(T)
            BY <3>4
        <3> HIDE DEF Closed
        <3> QED
            BY <3>1, <3>2, <3>3, <3>5
    <2>4. g[i] = R(i)
        BY <1>3
    <2> HIDE DEF R
    <2> QED
        BY <2>2, <2>3, <2>4
<1>5. g = [i \in D |-> NeededBy(g, i)]
    <2> HIDE DEF R
    <2> QED
        BY <1>3, <1>4
<1>6. g = [i \in DOMAIN code |-> NeededBy(g, i)]
    BY <1>2, <1>5
<1>7. Needs = [i \in DOMAIN code |-> NeededBy(Needs, i)]
    BY <1>6 DEF Needs, NeededBy
<1> QED
    BY <1>7

\* Nothing that comes before `cut` is needed after it.
LEMMA NeedsAfter ==
    ASSUME code \in Seq(Inst), Backward, NEW cut \in Nat, NEW e \in Nat, e <= Len(code),
           \A j \in 1..e : cut < j => \A x : UsedBy(x, j) => cut < x
    PROVE  \A i \in 1..e : cut < i => \A x \in Needs[i] : x \in Nat /\ cut < x
<1>1. SUFFICES ASSUME \E i \in 1..e : cut < i /\ ~(\A x \in Needs[i] : x \in Nat /\ cut < x)
               PROVE  FALSE
    OBVIOUS
<1>2. PICK S : S = {i \in 1..e : cut < i /\ ~(\A x \in Needs[i] : x \in Nat /\ cut < x)}
    OBVIOUS
<1>3. S # {} /\ S \subseteq Nat
    BY <1>1, <1>2
<1>4. PICK i \in S : \A j \in S : i <= j
    BY <1>3, SmallestMember
<1>5. i \in 1..e /\ cut < i
    BY <1>2, <1>4
<1>6. PICK x \in Needs[i] : ~(x \in Nat /\ cut < x)
    BY <1>2, <1>4
<1>7. Len(code) \in Nat /\ DOMAIN code = 1..Len(code)
    BY SeqIsList
<1>8. i \in 1..Len(code)
    BY <1>5, <1>7
<1>9. Needs[i] = NeededBy(Needs, i)
    BY <1>7, <1>8, NeedsMeans
<1>10. x = i \/ \E y : UsedBy(y, i) /\ x \in Needs[y]
    BY <1>6, <1>8, <1>9, NeededIs
<1>11. PICK y : UsedBy(y, i) /\ x \in Needs[y]
    BY <1>5, <1>6, <1>10
<1>12. y \in 1..(i - 1) /\ cut < y
    BY <1>5, <1>8, <1>11 DEF Backward
<1>13. y \in 1..e /\ ~(i <= y)
    BY <1>5, <1>12
<1>14. y \in S
    BY <1>2, <1>6, <1>11, <1>12, <1>13
<1> QED
    BY <1>4, <1>13, <1>14
-----------------------------------------------------------------------------
(* Pieces in turn. *)

Turns(f, ps, k) == f = [i \in 0..k |-> IF i = 0 THEN Nothing ELSE Then(f[i - 1], ps[i])]

LEMMA TurnsIs ==
    ASSUME NEW f, NEW ps, NEW k \in Nat, Turns(f, ps, k)
    PROVE  f[0] = Nothing /\ \A i \in 1..k : f[i] = Then(f[i - 1], ps[i])
<1>1. PICK g : g = [i \in 0..k |-> IF i = 0 THEN Nothing ELSE Then(f[i - 1], ps[i])]
    OBVIOUS
<1>2. 0 \in 0..k /\ \A i \in 1..k : i \in 0..k /\ i # 0
    OBVIOUS
<1>3. g[0] = Nothing /\ \A i \in 1..k : g[i] = Then(f[i - 1], ps[i])
    BY <1>1, <1>2
<1>4. f = g
    BY <1>1 DEF Turns
<1> QED
    BY <1>3, <1>4

LEMMA TurnsExist ==
    ASSUME NEW ps
    PROVE  \A k \in Nat : \E f : Turns(f, ps, k)
<1>1. SUFFICES ASSUME \E k \in Nat : ~\E f : Turns(f, ps, k)
               PROVE  FALSE
    OBVIOUS
<1>2. PICK S : S = {k \in Nat : ~\E f : Turns(f, ps, k)}
    OBVIOUS
<1>3. S # {} /\ S \subseteq Nat
    BY <1>1, <1>2
<1>4. PICK k \in S : \A j \in S : k <= j
    BY <1>3, SmallestMember
<1>5. k \in Nat /\ ~\E f : Turns(f, ps, k)
    BY <1>2, <1>4
<1>6. CASE k = 0
    <2>1. PICK f : f = [i \in 0..0 |-> Nothing]
        OBVIOUS
    <2>2. f = [i \in 0..0 |-> IF i = 0 THEN Nothing ELSE Then(f[i - 1], ps[i])]
        BY <2>1
    <2> QED
        BY <1>5, <1>6, <2>2 DEF Turns
<1>7. CASE k > 0
    <2>1. k - 1 \in Nat /\ k - 1 \notin S
        BY <1>4, <1>5, <1>7
    <2>2. PICK f : Turns(f, ps, k - 1)
        BY <1>2, <2>1
    <2>3. f[0] = Nothing /\ \A i \in 1..(k - 1) : f[i] = Then(f[i - 1], ps[i])
        BY <2>1, <2>2, TurnsIs
    <2>4. PICK g : g = [i \in 0..k |-> IF i = k THEN Then(f[k - 1], ps[k]) ELSE f[i]]
        OBVIOUS
    <2>5. \A i \in 0..(k - 1) : g[i] = f[i]
        BY <1>5, <2>4
    <2>6. g[k] = Then(f[k - 1], ps[k])
        BY <1>5, <2>4
    <2>7. k - 1 \in 0..(k - 1) /\ 0 \in 0..(k - 1)
        BY <2>1
    <2>8. ASSUME NEW i \in 0..k
          PROVE  g[i] = IF i = 0 THEN Nothing ELSE Then(g[i - 1], ps[i])
        <3>1. CASE i = 0
            BY <2>3, <2>5, <2>7, <3>1
        <3>2. CASE i = k
            <4>1. g[k - 1] = f[k - 1]
                BY <2>5, <2>7
            <4> QED
                BY <1>7, <2>6, <3>2, <4>1
        <3>3. CASE i # 0 /\ i # k
            <4>1. i \in 1..(k - 1) /\ i \in 0..(k - 1) /\ i - 1 \in 0..(k - 1)
                BY <1>5, <3>3
            <4>2. g[i] = f[i] /\ g[i - 1] = f[i - 1]
                BY <2>5, <4>1
            <4> QED
                BY <2>3, <3>3, <4>1, <4>2
        <3> QED
            BY <3>1, <3>2, <3>3
    <2>9. g = [i \in 0..k |-> IF i = 0 THEN Nothing ELSE Then(g[i - 1], ps[i])]
        BY <2>4, <2>8
    <2> QED
        BY <1>5, <2>9 DEF Turns
<1> QED
    BY <1>5, <1>6, <1>7

LEMMA InTurnIs ==
    ASSUME NEW ps, NEW k \in Nat, Len(ps) = k
    PROVE  \E f : /\ f[0] = Nothing /\ \A i \in 1..k : f[i] = Then(f[i - 1], ps[i])
                 /\ InTurn(ps) = f[k]
<1>1. \E f : Turns(f, ps, k)
    BY TurnsExist
<1>2. PICK f : f = CHOOSE g : Turns(g, ps, k)
    OBVIOUS
<1>3. Turns(f, ps, k)
    BY <1>1, <1>2
<1>4. InTurn(ps) = f[k]
    BY <1>2 DEF InTurn, Turns
<1>5. f[0] = Nothing /\ \A i \in 1..k : f[i] = Then(f[i - 1], ps[i])
    BY <1>3, TurnsIs
<1> QED
    BY <1>4, <1>5

\* Piece i makes all calls of the nodes after e[i-1], up to e[i].
LEMMA RunsInTurn ==
    ASSUME NEW L, NEW lo \in Nat, NEW hi \in Nat, NEW m \in Nat, NEW ps, Len(ps) = m,
           NEW e \in [0..m -> Nat],
           \A i \in 1..m : /\ e[i - 1] <= e[i] /\ e[0] <= e[i - 1]
                           /\ Runs(ps[i], L, lo, hi, 1, e[i - 1] + 1, e[i])
    PROVE  Runs(InTurn(ps), L, lo, hi, m, e[0] + 1, e[m])
<1>1. PICK f : /\ f[0] = Nothing /\ \A i \in 1..m : f[i] = Then(f[i - 1], ps[i])
               /\ InTurn(ps) = f[m]
    BY InTurnIs
<1>2. f[0] = Nothing /\ \A i \in 1..m : f[i] = Then(f[i - 1], ps[i])
    BY <1>1, Zenon
<1>3. \A i \in 0..m : Runs(f[i], L, lo, hi, i, e[0] + 1, e[i])
    <2>1. SUFFICES ASSUME \E i \in 0..m : ~Runs(f[i], L, lo, hi, i, e[0] + 1, e[i])
                   PROVE  FALSE
        OBVIOUS
    <2>2. PICK S : S = {i \in 0..m : ~Runs(f[i], L, lo, hi, i, e[0] + 1, e[i])}
        OBVIOUS
    <2>3. S # {} /\ S \subseteq Nat
        <3>1. S # {}
            BY <2>1, <2>2, Zenon
        <3>2. S \subseteq 0..m
            BY <2>2, Zenon
        <3> QED
            BY <3>1, <3>2
    <2>4. PICK i \in S : \A j \in S : i <= j
        BY <2>3, SmallestMember
    <2>5. i \in 0..m /\ ~Runs(f[i], L, lo, hi, i, e[0] + 1, e[i])
        BY <2>2, <2>4, Zenon
    <2>6. CASE i = 0
        <3>1. PICK p : p = Nothing
            OBVIOUS
        <3>2. Plain(p, L, lo, hi, 0)
            BY <3>1, PlainNothing
        <3>3. e[0] \in Nat
            OBVIOUS
        <3>4. PICK z : z = Marks(p.code)
            OBVIOUS
        <3>5. Len(z) = 0
            <4>1. p.code \in Seq(Inst) /\ Len(p.code) = 0
                BY <3>1, NothingIs, PieceIs
            <4> QED
                BY <3>4, <4>1, MarksAre
        <3>6. Whole(z, e[0] + 1, e[0])
            BY <3>3, <3>5, WholeOfNone
        <3>7. Enough(e[0] + 1, e[0])
            <4>1. e[0] + 1..e[0] = {}
                BY <3>3
            <4> QED
                BY <4>1 DEF Enough
        <3>8. Runs(p, L, lo, hi, 0, e[0] + 1, e[0])
            BY <3>2, <3>4, <3>6, <3>7 DEF Runs
        <3> QED
            BY <1>2, <2>5, <2>6, <3>1, <3>8
    <2>7. CASE i # 0
        <3>1. i \in 1..m /\ i - 1 \in 0..m /\ i - 1 \in Nat /\ i - 1 \notin S
            <4>1. i \in 1..m /\ i - 1 \in 0..m /\ i - 1 \in Nat /\ ~(i <= i - 1)
                BY <2>5, <2>7
            <4>2. i - 1 \notin S
                BY <2>4, <4>1, Zenon
            <4> QED
                BY <4>1, <4>2
        <3>9. PICK j \in Nat : j = i - 1
            BY <3>1
        <3>2. PICK p, q, b, c, a : /\ j = i - 1 /\ p = f[j] /\ q = ps[i]
                                   /\ b = e[j] /\ c = e[i] /\ a = e[0]
            BY <3>9
        <3>3. Runs(p, L, lo, hi, j, a + 1, b)
            BY <2>2, <3>1, <3>2
        <3>4. Runs(q, L, lo, hi, 1, b + 1, c) /\ b <= c /\ a <= b
            BY <3>1, <3>2
        <3>5. a \in Nat /\ b \in Nat /\ c \in Nat
            BY <3>1, <3>2
        <3>6. a + 1 \in Nat /\ 0 < a + 1 /\ a + 1 <= b + 1
            BY <3>4, <3>5
        <3>7. Runs(Then(p, q), L, lo, hi, j + 1, a + 1, c)
            BY <3>3, <3>4, <3>5, <3>6, RunsThen
        <3>8. f[i] = Then(p, q) /\ j + 1 = i
            BY <1>2, <3>1, <3>2
        <3> QED
            BY <2>5, <3>2, <3>7, <3>8
    <2> QED
        BY <2>6, <2>7
<1>4. m \in 0..m
    OBVIOUS
<1> QED
    BY <1>1, <1>3, <1>4
-----------------------------------------------------------------------------
(* Gen is defined for every node. *)

LEMMA ValueIs ==
    ASSUME NEW G, NEW n
    PROVE  /\ Kind(n) = "literal"   => ValueCode(G, n) = Constant(0)
           /\ Kind(n) = "function"  => ValueCode(G, n) = Slot
           /\ Kind(n) = "variable"  => ValueCode(G, n) = Emit(Slot, "load", n)
           /\ Kind(n) = "plus"      =>
                 ValueCode(G, n) = Emit(Then(V(G, n, 1), V(G, n, 2)), "op", n)
           /\ Kind(n) = "assign"    => ValueCode(G, n) = Assign(G, n)
           /\ Kind(n) = "subscript" =>
                 ValueCode(G, n) = Emit(LastVal(Then(Then(V(G, n, 1), V(G, n, 2)),
                                                     Element(G, n))), "load", n)
           /\ Kind(n) = "dot"       =>
                 ValueCode(G, n) = LastVal(Then(Then(V(G, n, 1), FieldRef(G, n)),
                                                FieldRef(G, n)))
           /\ Kind(n) = "method"    =>
                 ValueCode(G, n) = LastVal(Then(Then(V(G, n, 1), Slot), Slot))
           /\ Kind(n) = "star"      => ValueCode(G, n) = Emit(V(G, n, 1), "load", n)
           /\ Kind(n) = "ampersand" =>
                 ValueCode(G, n) = LastVal(Then(V(G, n, 1), P(G, n, 1)))
           /\ Kind(n) = "let"       =>
                 ValueCode(G, n) = Emit(Emit(V(G, n, 1), "store", n), "load", n)
           /\ Kind(n) = "call"      => ValueCode(G, n) = CallCode(G, n)
BY DEF ValueCode, Kind

LEMMA PtrIs ==
    ASSUME NEW G, NEW n
    PROVE  /\ Kind(n) \in {"literal", "ampersand", "let"} => PtrCode(G, n) = Throws
           /\ Kind(n) \in {"variable", "function", "method"} => PtrCode(G, n) = Slot
           /\ Kind(n) \in {"plus", "assign"} => PtrCode(G, n) = P(G, n, 2)
           /\ Kind(n) = "subscript" => PtrCode(G, n) = Element(G, n)
           /\ Kind(n) = "dot"       => PtrCode(G, n) = GEP(G, n)
           /\ Kind(n) = "star"      => PtrCode(G, n) = V(G, n, 1)
           /\ Kind(n) = "call"      => PtrCode(G, n) = Emit(CallCode(G, n), "spill", n)
BY DEF PtrCode, Kind

\* G and H are the same for the nodes before n.
Agree(G, H, n) == \A m \in DOMAIN tree : m < n => /\ G[<<"value", m>>] = H[<<"value", m>>]
                                                  /\ G[<<"ptr", m>>] = H[<<"ptr", m>>]

LEMMA AgreeOperands ==
    ASSUME NEW L, Shape(L), NEW n \in DOMAIN tree, NEW G, NEW H, Agree(G, H, n),
           NEW i \in 1..Len(tree[n].operands)
    PROVE  V(G, n, i) = V(H, n, i) /\ P(G, n, i) = P(H, n, i)
<1>1. PICK o : o = tree[n].operands[i]
    OBVIOUS
<1>2. o \in DOMAIN tree /\ o < n
    BY <1>1, OperandIs
<1>3. G[<<"value", o>>] = H[<<"value", o>>] /\ G[<<"ptr", o>>] = H[<<"ptr", o>>]
    BY <1>2 DEF Agree
<1> QED
    BY <1>1, <1>3 DEF V, P

LEMMA AgreeCall ==
    ASSUME NEW L, Shape(L), NEW n \in DOMAIN tree, NEW G, NEW H, Agree(G, H, n),
           Len(tree[n].operands) > 0
    PROVE  CallCode(G, n) = CallCode(H, n)
<1>1. PICK k \in Nat : k = Len(tree[n].operands)
    BY NodeIs
<1>2. \A i \in 1..k : V(G, n, i) = V(H, n, i) /\ P(G, n, i) = P(H, n, i)
    BY <1>1, AgreeOperands
<1>3. 1 \in 1..k /\ \A i \in 1..(k - 1) : i + 1 \in 1..k
    BY <1>1
<1>4. [i \in 1..(k - 1) |-> V(G, n, i + 1)] = [i \in 1..(k - 1) |-> V(H, n, i + 1)]
    BY <1>2, <1>3
<1>5. Self(G, n) = Self(H, n)
    <2>1. PICK o : o = tree[n].operands[1]
        OBVIOUS
    <2>2. o \in DOMAIN tree /\ o < n /\ o \in Nat /\ n \in Nat
        BY <1>1, <1>3, <2>1, OperandIs, NodeIs
    <2>3. Kind(o) = "method" => P(G, o, 1) = P(H, o, 1)
        <3>1. SUFFICES ASSUME Kind(o) = "method"
                       PROVE  P(G, o, 1) = P(H, o, 1)
            OBVIOUS
        <3>2. Len(tree[o].operands) = 1
            BY <2>2, <3>1 DEF Shape, Arity
        <3>3. Agree(G, H, o)
            <4> SUFFICES ASSUME NEW m \in DOMAIN tree, m < o
                         PROVE  /\ G[<<"value", m>>] = H[<<"value", m>>]
                                /\ G[<<"ptr", m>>] = H[<<"ptr", m>>]
                BY DEF Agree
            <4>1. m < n
                BY <2>2, NodeIs
            <4> QED
                BY <4>1 DEF Agree
        <3>4. 1 \in 1..Len(tree[o].operands)
            BY <3>2
        <3> QED
            BY <2>2, <3>3, <3>4, AgreeOperands
    <2> QED
        BY <2>1, <2>3 DEF Self, Kind
<1> QED
    BY <1>1, <1>2, <1>3, <1>4, <1>5 DEF CallCode

LEMMA AgreeGen ==
    ASSUME NEW L, Shape(L), NEW n \in DOMAIN tree, NEW G, NEW H, Agree(G, H, n)
    PROVE  ValueCode(G, n) = ValueCode(H, n) /\ PtrCode(G, n) = PtrCode(H, n)
<1>1. PICK k \in Nat : k = Len(tree[n].operands)
    BY NodeIs
<1>2. \A i \in 1..k : V(G, n, i) = V(H, n, i) /\ P(G, n, i) = P(H, n, i)
    BY <1>1, AgreeOperands
<1>3. Kind(n) \in Kinds /\ Arity(n)
    BY NodeIs DEF Shape
<1>4. CASE Kind(n) \in {"literal", "function", "variable"}
    BY <1>4, ValueIs, PtrIs
<1>5. CASE Kind(n) \in {"star", "let", "method", "ampersand", "dot"}
    <2>1. 1 \in 1..k
        BY <1>1, <1>3, <1>5 DEF Arity
    <2>2. PICK v, p : v = V(G, n, 1) /\ p = P(G, n, 1)
        OBVIOUS
    <2>3. V(G, n, 1) = V(H, n, 1) /\ P(G, n, 1) = P(H, n, 1)
        BY <1>2, <2>1
    <2>4. GEP(G, n) = GEP(H, n)
        BY <2>3 DEF GEP
    <2>5. FieldRef(G, n) = FieldRef(H, n)
        BY <2>4 DEF FieldRef
    <2>6. CASE Kind(n) = "star"
        BY <2>3, <2>6, ValueIs, PtrIs
    <2>7. CASE Kind(n) = "let"
        BY <2>3, <2>7, ValueIs, PtrIs
    <2>8. CASE Kind(n) = "method"
        BY <2>3, <2>8, ValueIs, PtrIs
    <2>9. CASE Kind(n) = "ampersand"
        BY <2>3, <2>9, ValueIs, PtrIs
    <2>10. CASE Kind(n) = "dot"
        BY <2>3, <2>4, <2>5, <2>10, ValueIs, PtrIs
    <2> QED
        BY <1>5, <2>6, <2>7, <2>8, <2>9, <2>10
<1>6. CASE Kind(n) \in {"plus", "assign", "subscript"}
    <2>1. 1 \in 1..k /\ 2 \in 1..k
        BY <1>1, <1>3, <1>6 DEF Arity
    <2>2. /\ V(G, n, 1) = V(H, n, 1) /\ P(G, n, 1) = P(H, n, 1)
          /\ V(G, n, 2) = V(H, n, 2) /\ P(G, n, 2) = P(H, n, 2)
        BY <1>2, <2>1
    <2>3. Element(G, n) = Element(H, n)
        BY <2>2 DEF Element
    <2>4. Assign(G, n) = Assign(H, n)
        BY <2>2 DEF Assign
    <2>5. CASE Kind(n) = "plus"
        BY <2>2, <2>5, ValueIs, PtrIs
    <2>6. CASE Kind(n) = "assign"
        BY <2>2, <2>4, <2>6, ValueIs, PtrIs
    <2>7. CASE Kind(n) = "subscript"
        BY <2>2, <2>3, <2>7, ValueIs, PtrIs
    <2> QED
        BY <1>6, <2>5, <2>6, <2>7
<1>7. CASE Kind(n) = "call"
    <2>1. Len(tree[n].operands) > 0
        BY <1>3, <1>7 DEF Arity
    <2>2. CallCode(G, n) = CallCode(H, n)
        BY <2>1, AgreeCall
    <2> QED
        BY <1>7, <2>2, ValueIs, PtrIs
<1> QED
    BY <1>3, <1>4, <1>5, <1>6, <1>7 DEF Kinds

\* Gen solves its equation.
Names == {"value", "ptr"} \X DOMAIN tree

Solved(g, k) ==
    /\ g = [x \in Names |-> g[x]]
    /\ \A n \in DOMAIN tree : n <= k => /\ g[<<"value", n>>] = ValueCode(g, n)
                                        /\ g[<<"ptr", n>>] = PtrCode(g, n)

LEMMA NamesAre ==
    /\ \A n \in DOMAIN tree : <<"value", n>> \in Names /\ <<"ptr", n>> \in Names
    /\ \A x \in Names : \E n \in DOMAIN tree : x = <<"value", n>> \/ x = <<"ptr", n>>
BY DEF Names

LEMMA SolvedNext ==
    ASSUME NEW L, Shape(L), NEW k \in DOMAIN tree, NEW g, Solved(g, k - 1)
    PROVE  \E h : Solved(h, k)
<1>1. PICK v, p : v = ValueCode(g, k) /\ p = PtrCode(g, k)
    OBVIOUS
<1>2. PICK h : h = [x \in Names |-> IF x = <<"value", k>> THEN v
                                    ELSE IF x = <<"ptr", k>> THEN p ELSE g[x]]
    OBVIOUS
<1>3. h = [x \in Names |-> h[x]]
    BY <1>2
<1>4. h[<<"value", k>>] = v /\ h[<<"ptr", k>>] = p
    BY <1>2, NamesAre
<1>5. ASSUME NEW n \in DOMAIN tree, n # k
      PROVE  h[<<"value", n>>] = g[<<"value", n>>] /\ h[<<"ptr", n>>] = g[<<"ptr", n>>]
    <2>1. PICK x, y : x = <<"value", n>> /\ y = <<"ptr", n>>
        OBVIOUS
    <2>2. /\ x \in Names /\ y \in Names
          /\ x # <<"value", k>> /\ x # <<"ptr", k>> /\ y # <<"value", k>> /\ y # <<"ptr", k>>
        BY <1>5, <2>1, NamesAre
    <2>3. h[x] = g[x] /\ h[y] = g[y]
        BY <1>2, <2>2
    <2> QED
        BY <2>1, <2>3
<1>6. ASSUME NEW n \in DOMAIN tree, n <= k
      PROVE  /\ h[<<"value", n>>] = ValueCode(h, n)
             /\ h[<<"ptr", n>>] = PtrCode(h, n)
    <2>1. n \in Nat /\ k \in Nat
        BY NodeIs
    <2>2. \A m \in DOMAIN tree : m < n => m # k
        BY <1>6, <2>1, NodeIs
    <2>3. Agree(g, h, n)
        BY <1>5, <2>2 DEF Agree
    <2>4. ValueCode(g, n) = ValueCode(h, n) /\ PtrCode(g, n) = PtrCode(h, n)
        BY <2>3, AgreeGen
    <2>5. CASE n = k
        BY <1>1, <1>4, <2>4, <2>5
    <2>6. CASE n # k
        <3>1. n <= k - 1
            BY <1>6, <2>1, <2>6
        <3>2. g[<<"value", n>>] = ValueCode(g, n) /\ g[<<"ptr", n>>] = PtrCode(g, n)
            BY <3>1 DEF Solved
        <3> QED
            BY <1>5, <2>4, <2>6, <3>2
    <2> QED
        BY <2>5, <2>6
<1>7. Solved(h, k)
    BY <1>3, <1>6 DEF Solved
<1> QED
    BY <1>7

LEMMA GenMeans ==
    ASSUME NEW L, Shape(L)
    PROVE  \A n \in DOMAIN tree : /\ Gen[<<"value", n>>] = ValueCode(Gen, n)
                                  /\ Gen[<<"ptr", n>>] = PtrCode(Gen, n)
<1>1. PICK N \in Nat : N = Len(tree) /\ DOMAIN tree = 1..N
    BY SeqIsList DEF Shape
<1>2. \A k \in 0..N : \E g : Solved(g, k)
    <2>1. SUFFICES ASSUME \E k \in 0..N : ~\E g : Solved(g, k)
                   PROVE  FALSE
        OBVIOUS
    <2>2. PICK S : S = {k \in 0..N : ~\E g : Solved(g, k)}
        OBVIOUS
    <2>3. S # {} /\ S \subseteq Nat
        <3>1. S # {}
            BY <2>1, <2>2, Zenon
        <3>2. S \subseteq 0..N
            BY <2>2, Zenon
        <3> QED
            BY <3>1, <3>2
    <2>4. PICK k \in S : \A j \in S : k <= j
        BY <2>3, SmallestMember
    <2>5. k \in 0..N /\ ~\E g : Solved(g, k)
        BY <2>2, <2>4
    <2>6. CASE k = 0
        <3>1. PICK g : g = [x \in Names |-> 0]
            OBVIOUS
        <3>2. g = [x \in Names |-> g[x]]
            BY <3>1
        <3>3. \A n \in DOMAIN tree : ~(n <= k)
            BY <1>1, <2>6
        <3> QED
            BY <2>5, <3>2, <3>3 DEF Solved
    <2>7. CASE k > 0
        <3>1. k - 1 \in 0..N /\ k - 1 \notin S /\ k \in DOMAIN tree
            BY <1>1, <2>4, <2>5, <2>7
        <3>2. PICK g : Solved(g, k - 1)
            BY <2>2, <3>1
        <3> QED
            BY <2>5, <3>1, <3>2, SolvedNext
    <2> QED
        BY <2>5, <2>6, <2>7
<1>3. PICK g : Solved(g, N)
    BY <1>1, <1>2
<1>4. \A x \in Names : g[x] = IF x[1] = "value" THEN ValueCode(g, x[2]) ELSE PtrCode(g, x[2])
    <2> TAKE x \in Names
    <2>1. PICK n \in DOMAIN tree : x = <<"value", n>> \/ x = <<"ptr", n>>
        BY NamesAre
    <2>2. n <= N
        BY <1>1
    <2>3. g[<<"value", n>>] = ValueCode(g, n) /\ g[<<"ptr", n>>] = PtrCode(g, n)
        BY <1>3, <2>2 DEF Solved
    <2> QED
        BY <2>1, <2>3
<1>5. g = [x \in Names |-> IF x[1] = "value" THEN ValueCode(g, x[2]) ELSE PtrCode(g, x[2])]
    BY <1>3, <1>4 DEF Solved
<1>6. Gen = [x \in Names |-> IF x[1] = "value" THEN ValueCode(Gen, x[2])
                             ELSE PtrCode(Gen, x[2])]
    BY <1>5 DEF Gen, Names
<1>7. ASSUME NEW n \in DOMAIN tree
      PROVE  /\ Gen[<<"value", n>>] = ValueCode(Gen, n)
             /\ Gen[<<"ptr", n>>] = PtrCode(Gen, n)
    <2>1. <<"value", n>> \in Names /\ <<"ptr", n>> \in Names
        BY NamesAre
    <2>2. PICK G : G = Gen
        OBVIOUS
    <2>3. G = [x \in Names |-> IF x[1] = "value" THEN ValueCode(G, x[2]) ELSE PtrCode(G, x[2])]
        BY <1>6, <2>2
    <2>4. G[<<"value", n>>] = ValueCode(G, n) /\ G[<<"ptr", n>>] = PtrCode(G, n)
        BY <2>1, <2>3
    <2> QED
        BY <2>2, <2>4
<1> QED
    BY <1>7
-----------------------------------------------------------------------------
(* What is generated for a node is a piece of the code of the nodes under it. *)

Good(G, L, m) == /\ Runs(G[<<"value", m>>], L, L[m], m, 1, L[m], m)
                 /\ Plain(G[<<"ptr", m>>], L, L[m], m, 1)

\* The operands of n are generated as they should be.
Ready(G, L, n) == \A m \in DOMAIN tree : m < n => Good(G, L, m)

LEMMA RunsWider ==
    ASSUME NEW p, NEW L, NEW lo \in Nat, NEW hi \in Nat, NEW k, NEW x, NEW y,
           Runs(p, L, lo, hi, k, x, y), NEW a \in Nat, NEW b \in Nat, a <= lo, hi <= b
    PROVE  Runs(p, L, a, b, k, x, y)
BY PlainWider DEF Runs

LEMMA RunsEmpty ==
    ASSUME NEW p, NEW L, NEW lo, NEW hi, NEW k, NEW a \in Nat, Plain(p, L, lo, hi, k),
           Len(p.code) = 0
    PROVE  Runs(p, L, lo, hi, k, a + 1, a)
<1>1. PICK z : z = Marks(p.code)
    OBVIOUS
<1>2. p.code \in Seq(Inst)
    BY PieceIs DEF Plain
<1>3. Len(z) = 0
    BY <1>1, <1>2, MarksAre
<1>4. Whole(z, a + 1, a)
    BY <1>3, WholeOfNone
<1>5. a + 1..a = {}
    OBVIOUS
<1>6. Enough(a + 1, a)
    BY <1>5 DEF Enough
<1> QED
    BY <1>1, <1>4, <1>6 DEF Runs

LEMMA RunsSlot ==
    ASSUME NEW L, NEW lo, NEW hi, NEW a \in Nat
    PROVE  Runs(Slot, L, lo, hi, 1, a + 1, a) /\ Plain(Slot, L, lo, hi, 1)
<1>1. PICK p : p = Constant(0)
    OBVIOUS
<1>2. Plain(p, L, lo, hi, 1)
    BY <1>1, PlainConstant
<1>4. Len(p.code) = 0
    <2>1. p.code = <<>>
        BY <1>1, ConstantIs
    <2> QED
        BY <2>1
<1>3. Runs(p, L, lo, hi, 1, a + 1, a)
    BY <1>2, <1>4, RunsEmpty
<1> QED
    BY <1>1, <1>2, <1>3 DEF Slot

LEMMA OperandRuns ==
    ASSUME NEW L, Shape(L), NEW n \in DOMAIN tree, NEW G, Ready(G, L, n),
           NEW i \in 1..Len(tree[n].operands), NEW o, o = tree[n].operands[i]
    PROVE  /\ Runs(V(G, n, i), L, L[n], n, 1, L[o], o)
           /\ Plain(V(G, n, i), L, L[n], n, 1)
           /\ Plain(P(G, n, i), L, L[n], n, 1)
           /\ Plain(V(G, n, i), L, L[o], o, 1)
           /\ Plain(P(G, n, i), L, L[o], o, 1)
<1>1. PICK v, p : v = V(G, n, i) /\ p = P(G, n, i)
    OBVIOUS
<1>2. /\ o \in DOMAIN tree /\ o \in Nat /\ o < n /\ L[o] \in Nat
      /\ L[n] <= L[o] /\ L[o] <= o
    BY OperandIs
<1>3. L[n] \in Nat /\ n \in Nat /\ o <= n
    <2>1. n \in Nat /\ L[n] \in Nat
        BY NodeIs
    <2> QED
        BY <1>2, <2>1
<1>4. Runs(v, L, L[o], o, 1, L[o], o) /\ Plain(p, L, L[o], o, 1)
    BY <1>1, <1>2 DEF Ready, Good, V, P
<1>5. Plain(v, L, L[o], o, 1)
    BY <1>4 DEF Runs
<1>6. Runs(v, L, L[n], n, 1, L[o], o)
    BY <1>2, <1>3, <1>4, RunsWider
<1>7. Plain(p, L, L[n], n, 1)
    BY <1>2, <1>3, <1>4, PlainWider
<1>8. Plain(v, L, L[n], n, 1)
    BY <1>6 DEF Runs
<1> QED
    BY <1>1, <1>4, <1>5, <1>6, <1>7, <1>8

\* The nodes under one operand, and under two.
LEMMA OneOperand ==
    ASSUME NEW L, Shape(L), NEW n \in DOMAIN tree, Len(tree[n].operands) = 1, NEW o,
           o = tree[n].operands[1]
    PROVE  1 \in 1..Len(tree[n].operands) /\ L[o] = L[n] /\ o = n - 1 /\ o \in Nat
<1>1. PICK s : s = tree[n].operands
    OBVIOUS
<1>2. Len(s) = 1 /\ 1 \in 1..Len(s) /\ Chain(L, s, L[n], n - 1)
    <2>1. Chain(L, s, L[n], n - 1)
        BY <1>1, NodeIs
    <2>2. Len(s) = 1
        BY <1>1
    <2> QED
        BY <2>1, <2>2
<1>3. L[o] = L[n] /\ o = n - 1
    BY <1>1, <1>2 DEF Chain
<1> QED
    BY <1>1, <1>2, <1>3, OperandIs

LEMMA TwoOperands ==
    ASSUME NEW L, Shape(L), NEW n \in DOMAIN tree, Len(tree[n].operands) = 2, NEW l, NEW r,
           l = tree[n].operands[1], r = tree[n].operands[2]
    PROVE  /\ 1 \in 1..Len(tree[n].operands) /\ 2 \in 1..Len(tree[n].operands)
           /\ L[l] = L[n] /\ L[r] = l + 1 /\ r = n - 1 /\ l <= r
           /\ l \in Nat /\ r \in Nat
<1>1. PICK s : s = tree[n].operands
    OBVIOUS
<1>2. Len(s) = 2 /\ 1 \in 1..Len(s) /\ 2 \in 1..Len(s) /\ Chain(L, s, L[n], n - 1)
    <2>1. Chain(L, s, L[n], n - 1)
        BY <1>1, NodeIs
    <2>2. Len(s) = 2
        BY <1>1
    <2> QED
        BY <2>1, <2>2
<1>3. L[l] = L[n] /\ r = n - 1
    BY <1>1, <1>2 DEF Chain
<1>4. L[r] = l + 1
    <2>1. L[s[2]] = s[2 - 1] + 1
        BY <1>2 DEF Chain
    <2> QED
        BY <1>1, <2>1
<1>5. l \in Nat /\ r \in Nat /\ L[r] <= r /\ L[r] \in Nat
    BY <1>1, <1>2, OperandIs
<1> QED
    BY <1>1, <1>2, <1>3, <1>4, <1>5

LEMMA RepeatsOperand ==
    ASSUME NEW L, Shape(L), NEW n \in DOMAIN tree, NEW i \in Repeated(n),
           i \in 1..Len(tree[n].operands), NEW o, o = tree[n].operands[i],
           NEW p, NEW k, Plain(p, L, L[o], o, k),
           NEW a \in Nat, NEW b \in Nat, a <= L[o], o <= b
    PROVE  Repeats(p, a, b)
<1>1. o \in Nat /\ L[o] \in Nat
    BY OperandIs
<1>2. ASSUME NEW j \in 1..Len(p.code)
      PROVE  p.code[j].node \in a..b /\ p.code[j].node \in Exposed
    <2>1. PICK x : x = p.code[j].node
        OBVIOUS
    <2>2. x \in L[o]..o
        BY <2>1 DEF Plain
    <2>3. x \in Exposed
        BY <2>2, ExposedHas
    <2>4. x \in a..b
        BY <1>1, <2>2
    <2> QED
        BY <2>1, <2>3, <2>4
<1> QED
    BY <1>2 DEF Repeats

\* All operands of n are repeated.
LEMMA RepeatsAll ==
    ASSUME NEW L, Shape(L), NEW n \in DOMAIN tree, Kind(n) # "call",
           \A i \in 1..Len(tree[n].operands) : i \in Repeated(n),
           NEW p, NEW k, Plain(p, L, L[n], n, k)
    PROVE  Repeats(p, L[n], n - 1)
<1>1. n \in Nat \ {0} /\ L[n] \in Nat
    BY NodeIs
<1>2. n \notin CallNodes
    BY DEF CallNodes
<1>3. ASSUME NEW j \in 1..Len(p.code), p.code[j].node \in CallNodes
      PROVE  p.code[j].node \in L[n]..(n - 1) /\ p.code[j].node \in Exposed
    <2>1. PICK x : x = p.code[j].node
        OBVIOUS
    <2>2. x \in L[n]..n /\ x # n
        BY <1>2, <1>3, <2>1 DEF Plain
    <2>3. PICK i \in 1..Len(tree[n].operands) :
             x \in L[tree[n].operands[i]]..tree[n].operands[i]
        BY <2>2, Covered
    <2>4. x \in Exposed
        BY <2>3, ExposedHas
    <2>5. x \in L[n]..(n - 1)
        BY <1>1, <2>2
    <2> QED
        BY <2>1, <2>4, <2>5
<1> QED
    BY <1>3 DEF Repeats

\* The node n as a place of instructions.
LEMMA PlaceIs ==
    ASSUME NEW L, Shape(L), NEW n \in DOMAIN tree
    PROVE  /\ n \in Nat /\ 0 < n /\ L[n] \in Nat /\ 0 < L[n] /\ n \in L[n]..n
           /\ L[n]..n \subseteq DOMAIN tree
           /\ n - 1 \in Nat /\ n - 1 + 1 = n
<1>1. n \in Nat \ {0} /\ L[n] \in Nat \ {0}
    BY NodeIs
<1>2. L[n] <= n /\ L[n]..n \subseteq DOMAIN tree
    BY FirstIs
<1> QED
    BY <1>1, <1>2

LEMMA GEPRuns ==
    ASSUME NEW L, Shape(L), NEW n \in DOMAIN tree, NEW G, Ready(G, L, n), Kind(n) = "dot",
           1 \in 1..Len(tree[n].operands)
    PROVE  Plain(GEP(G, n), L, L[n], n, 1) /\ Plain(FieldRef(G, n), L, L[n], n, 1)
<1>1. PICK p, g, a : p = P(G, n, 1) /\ g = GEP(G, n) /\ a = L[n]
    OBVIOUS
<1>2. n \in Nat /\ a \in Nat /\ n \in a..n
    BY <1>1, PlaceIs
<1>3. Plain(p, L, a, n, 1)
    BY <1>1, OperandRuns
<1>4. "gep" \in Ops \ {"call"} /\ "load" \in Ops \ {"call"} /\ Kind(n) # "assign"
    BY DEF Ops
<1>5. g = Emit(p, "gep", n)
    BY <1>1 DEF GEP
<1>6. Plain(g, L, a, n, 1)
    BY <1>2, <1>3, <1>4, <1>5, PlainOp
<1>7. PICK t : t = Then(g, g)
    OBVIOUS
<1>8. Plain(t, L, a, n, 1 + 1)
    BY <1>2, <1>6, <1>7, PlainThen
<1>9. 1 + 1 \in Nat \ {0}
    OBVIOUS
<1>10. Plain(LastVal(t), L, a, n, 1)
    BY <1>8, <1>9, PlainLast
<1>11. Plain(Emit(LastVal(t), "load", n), L, a, n, 1)
    BY <1>2, <1>4, <1>10, PlainOp
<1>12. FieldRef(G, n) = Emit(LastVal(t), "load", n)
    BY <1>1, <1>7 DEF FieldRef
<1> QED
    BY <1>1, <1>6, <1>11, <1>12

LEMMA ElementRuns ==
    ASSUME NEW L, Shape(L), NEW n \in DOMAIN tree, NEW G, Ready(G, L, n),
           Kind(n) = "subscript", Len(tree[n].operands) = 2
    PROVE  Plain(Element(G, n), L, L[n], n, 1)
<1>1. PICK v, p, a : v = V(G, n, 2) /\ p = P(G, n, 1) /\ a = L[n]
    OBVIOUS
<1>2. n \in Nat /\ a \in Nat /\ n \in a..n
    BY <1>1, PlaceIs
<1>3. 1 \in 1..Len(tree[n].operands) /\ 2 \in 1..Len(tree[n].operands)
    OBVIOUS
<1>4. Plain(v, L, a, n, 1) /\ Plain(p, L, a, n, 1)
    BY <1>1, <1>3, OperandRuns
<1>5. Plain(Then(v, p), L, a, n, 1 + 1)
    BY <1>2, <1>4, PlainThen
<1>6. "gep" \in Ops \ {"call"} /\ Kind(n) # "assign"
    BY DEF Ops
<1>7. Plain(Emit(Then(v, p), "gep", n), L, a, n, 1)
    BY <1>2, <1>5, <1>6, PlainOp
<1> QED
    BY <1>1, <1>7 DEF Element

\* Literals, functions and variables.
LEMMA LeafGood ==
    ASSUME NEW L, Shape(L), NEW n \in DOMAIN tree, NEW G,
           Kind(n) \in {"literal", "function", "variable"}
    PROVE  /\ Runs(ValueCode(G, n), L, L[n], n, 1, L[n], n)
           /\ Plain(PtrCode(G, n), L, L[n], n, 1)
<1>1. PICK a, b : a = L[n] /\ b = n - 1
    OBVIOUS
<1>2. n \in Nat /\ a \in Nat /\ n \in a..n /\ b \in Nat /\ b + 1 = n
    BY <1>1, PlaceIs
<1>3. a = n
    <2>1. Len(tree[n].operands) = 0
        BY DEF Shape, Arity
    <2> QED
        BY <1>1, <2>1, FirstIs
<1>4. Kind(n) # "call" /\ Kind(n) # "assign" /\ "load" \in Ops \ {"call"}
    BY DEF Ops
<1>5. Runs(Slot, L, a, n, 1, b + 1, b) /\ Plain(Slot, L, a, n, 1)
    BY <1>2, RunsSlot
<1>6. Runs(Slot, L, a, n, 1, a, b) /\ 0 < a
    BY <1>2, <1>3, <1>5
<1>7. Runs(Emit(Slot, "load", n), L, a, n, 1, a, b)
    BY <1>2, <1>4, <1>6, RunsOp
<1>8. ASSUME NEW p, Runs(p, L, a, n, 1, a, b)
      PROVE  Runs(p, L, a, n, 1, a, n)
    <2>1. Kind(b + 1) # "call"
        BY <1>2, <1>4
    <2>2. Runs(p, L, a, n, 1, a, b + 1)
        BY <1>2, <1>8, <2>1, RunsBeyond
    <2> QED
        BY <1>2, <2>2
<1>9. Runs(Slot, L, a, n, 1, a, n) /\ Runs(Emit(Slot, "load", n), L, a, n, 1, a, n)
    BY <1>6, <1>7, <1>8
<1>10. ValueCode(G, n) = Slot \/ ValueCode(G, n) = Emit(Slot, "load", n)
    BY ValueIs DEF Slot
<1>11. Plain(Throws, L, a, n, 1)
    BY PlainThrows
<1>12. PtrCode(G, n) = Throws \/ PtrCode(G, n) = Slot
    BY PtrIs
<1> QED
    BY <1>1, <1>5, <1>9, <1>10, <1>11, <1>12

\* Nodes that are no calls make none.
LEMMA NodeEnds ==
    ASSUME NEW L, Shape(L), NEW n \in DOMAIN tree, Kind(n) # "call",
           NEW p, NEW k, Runs(p, L, L[n], n, k, L[n], n - 1)
    PROVE  Runs(p, L, L[n], n, k, L[n], n)
<1>1. PICK a, b : a = L[n] /\ b = n - 1
    OBVIOUS
<1>2. a \in Nat /\ b \in Nat /\ b + 1 = n
    BY <1>1, PlaceIs
<1>3. Runs(p, L, a, n, k, a, b) /\ Kind(b + 1) # "call"
    BY <1>1, <1>2
<1>4. Runs(p, L, a, n, k, a, b + 1)
    BY <1>2, <1>3, RunsBeyond
<1> QED
    BY <1>1, <1>2, <1>4

\* Operators of one operand.
LEMMA UnaryGood ==
    ASSUME NEW L, Shape(L), NEW n \in DOMAIN tree, NEW G, Ready(G, L, n),
           Kind(n) \in {"star", "let", "method", "ampersand", "dot"}
    PROVE  /\ Runs(ValueCode(G, n), L, L[n], n, 1, L[n], n)
           /\ Plain(PtrCode(G, n), L, L[n], n, 1)
<1>1. PICK o, a, b, v, p : /\ o = tree[n].operands[1] /\ a = L[n] /\ b = n - 1
                           /\ v = V(G, n, 1) /\ p = P(G, n, 1)
    OBVIOUS
<1>2. n \in Nat /\ a \in Nat /\ 0 < a /\ n \in a..n /\ b \in Nat /\ a..n \subseteq DOMAIN tree
    BY <1>1, PlaceIs
<1>3. Len(tree[n].operands) = 1
    BY DEF Shape, Arity
<1>4. 1 \in 1..Len(tree[n].operands) /\ L[o] = a /\ o = b
    BY <1>1, <1>3, OneOperand
<1>5. /\ Runs(v, L, a, n, 1, L[o], o) /\ Plain(v, L, a, n, 1)
      /\ Plain(p, L, a, n, 1) /\ Plain(p, L, L[o], o, 1)
    BY <1>1, <1>4, OperandRuns
<1>6. Runs(v, L, a, n, 1, a, b)
    BY <1>4, <1>5
<1>7. Kind(n) # "call" /\ Kind(n) # "assign" /\ {"load", "store"} \subseteq Ops \ {"call"}
    BY DEF Ops
<1>8. 1 + 1 \in Nat \ {0} /\ 1 + 1 + 1 \in Nat \ {0}
    OBVIOUS
<1>9. SUFFICES /\ Runs(ValueCode(G, n), L, a, n, 1, a, b)
               /\ Plain(PtrCode(G, n), L, a, n, 1)
    BY <1>1, <1>7, NodeEnds
<1>10. Plain(Slot, L, a, n, 1) /\ Plain(Throws, L, a, n, 1)
    BY RunsSlot, PlainThrows
<1>11. CASE Kind(n) = "star"
    <2>1. Runs(Emit(v, "load", n), L, a, n, 1, a, b)
        BY <1>2, <1>6, <1>7, RunsOp
    <2> QED
        BY <1>1, <1>5, <1>11, <2>1, ValueIs, PtrIs
<1>12. CASE Kind(n) = "let"
    <2>1. Runs(Emit(v, "store", n), L, a, n, 1, a, b)
        BY <1>2, <1>6, <1>7, RunsOp
    <2>2. Runs(Emit(Emit(v, "store", n), "load", n), L, a, n, 1, a, b)
        BY <1>2, <1>7, <2>1, RunsOp
    <2> QED
        BY <1>1, <1>10, <1>12, <2>2, ValueIs, PtrIs
<1>13. CASE Kind(n) = "method"
    <2>1. Repeats(Slot, a, b)
        <3>1. Len(Slot.code) = 0
            <4>1. Slot.code = <<>>
                BY ConstantIs DEF Slot
            <4> QED
                BY <4>1
        <3> QED
            BY <3>1 DEF Repeats
    <2>2. Runs(Then(v, Slot), L, a, n, 1 + 1, a, b)
        BY <1>2, <1>6, <1>10, <2>1, RunsAgain
    <2>3. Runs(Then(Then(v, Slot), Slot), L, a, n, 1 + 1 + 1, a, b)
        BY <1>2, <1>8, <1>10, <2>1, <2>2, RunsAgain
    <2>4. Runs(LastVal(Then(Then(v, Slot), Slot)), L, a, n, 1, a, b)
        BY <1>8, <2>3, RunsLast
    <2> QED
        BY <1>1, <1>10, <1>13, <2>4, ValueIs, PtrIs
<1>14. CASE Kind(n) = "ampersand"
    <2>1. 1 \in Repeated(n)
        BY <1>14 DEF Repeated
    <2>2. a <= L[o] /\ o <= b /\ o = tree[n].operands[1]
        BY <1>1, <1>2, <1>4
    <2>3. Repeats(p, a, b)
        BY <1>2, <1>4, <1>5, <2>1, <2>2, RepeatsOperand
    <2>4. Runs(Then(v, p), L, a, n, 1 + 1, a, b)
        BY <1>2, <1>5, <1>6, <2>3, RunsAgain
    <2>5. Runs(LastVal(Then(v, p)), L, a, n, 1, a, b)
        BY <1>8, <2>4, RunsLast
    <2> QED
        BY <1>1, <1>10, <1>14, <2>5, ValueIs, PtrIs
<1>15. CASE Kind(n) = "dot"
    <2>1. PICK r, g : r = FieldRef(G, n) /\ g = GEP(G, n)
        OBVIOUS
    <2>2. Plain(g, L, a, n, 1) /\ Plain(r, L, a, n, 1)
        BY <1>1, <1>4, <1>15, <2>1, GEPRuns
    <2>3. \A i \in 1..Len(tree[n].operands) : i \in Repeated(n)
        BY <1>3, <1>15 DEF Repeated
    <2>4. Repeats(r, a, b)
        BY <1>1, <1>7, <2>2, <2>3, RepeatsAll
    <2>5. Runs(Then(v, r), L, a, n, 1 + 1, a, b)
        BY <1>2, <1>6, <2>2, <2>4, RunsAgain
    <2>6. Runs(Then(Then(v, r), r), L, a, n, 1 + 1 + 1, a, b)
        BY <1>2, <1>8, <2>2, <2>4, <2>5, RunsAgain
    <2>7. Runs(LastVal(Then(Then(v, r), r)), L, a, n, 1, a, b)
        BY <1>8, <2>6, RunsLast
    <2> QED
        BY <1>1, <1>15, <2>1, <2>2, <2>7, ValueIs, PtrIs
<1> QED
    BY <1>11, <1>12, <1>13, <1>14, <1>15

\* Operators of two operands, whose values are generated one after the other.
LEMMA BothRun ==
    ASSUME NEW L, Shape(L), NEW n \in DOMAIN tree, NEW G, Ready(G, L, n),
           Len(tree[n].operands) = 2
    PROVE  Runs(Then(V(G, n, 1), V(G, n, 2)), L, L[n], n, 2, L[n], n - 1)
<1>1. PICK l, r, a, b, v, w : /\ l = tree[n].operands[1] /\ r = tree[n].operands[2]
                              /\ a = L[n] /\ b = n - 1 /\ v = V(G, n, 1) /\ w = V(G, n, 2)
    OBVIOUS
<1>2. n \in Nat /\ a \in Nat /\ 0 < a /\ b \in Nat
    BY <1>1, PlaceIs
<1>3. /\ 1 \in 1..Len(tree[n].operands) /\ 2 \in 1..Len(tree[n].operands)
      /\ L[l] = a /\ L[r] = l + 1 /\ r = b /\ l <= r /\ l \in Nat
    BY <1>1, TwoOperands
<1>4. Runs(v, L, a, n, 1, L[l], l) /\ Runs(w, L, a, n, 1, L[r], r)
    BY <1>1, <1>3, OperandRuns
<1>5. Runs(v, L, a, n, 1, a, l) /\ Runs(w, L, a, n, 1, l + 1, b)
    BY <1>3, <1>4
<1>6. a <= l + 1
    <2>1. L[l] <= l
        BY <1>1, <1>3, OperandIs
    <2> QED
        BY <1>2, <1>3, <2>1
<1>7. Runs(Then(v, w), L, a, n, 1 + 1, a, b)
    BY <1>2, <1>3, <1>5, <1>6, RunsThen
<1> QED
    BY <1>1, <1>7

LEMMA PlusGood ==
    ASSUME NEW L, Shape(L), NEW n \in DOMAIN tree, NEW G, Ready(G, L, n),
           Kind(n) \in {"plus", "subscript"}
    PROVE  /\ Runs(ValueCode(G, n), L, L[n], n, 1, L[n], n)
           /\ Plain(PtrCode(G, n), L, L[n], n, 1)
<1>1. PICK a, b, p : a = L[n] /\ b = n - 1 /\ p = Then(V(G, n, 1), V(G, n, 2))
    OBVIOUS
<1>2. n \in Nat /\ a \in Nat /\ 0 < a /\ n \in a..n /\ b \in Nat /\ a..n \subseteq DOMAIN tree
    BY <1>1, PlaceIs
<1>3. Len(tree[n].operands) = 2
    BY DEF Shape, Arity
<1>4. Runs(p, L, a, n, 2, a, b)
    BY <1>1, <1>3, BothRun
<1>5. Kind(n) # "call" /\ Kind(n) # "assign" /\ {"load", "op"} \subseteq Ops \ {"call"}
    BY DEF Ops
<1>6. SUFFICES /\ Runs(ValueCode(G, n), L, a, n, 1, a, b)
               /\ Plain(PtrCode(G, n), L, a, n, 1)
    BY <1>1, <1>5, NodeEnds
<1>7. CASE Kind(n) = "plus"
    <2>1. Runs(Emit(p, "op", n), L, a, n, 1, a, b)
        BY <1>2, <1>4, <1>5, RunsOp
    <2>2. Plain(P(G, n, 2), L, a, n, 1)
        <3>1. 2 \in 1..Len(tree[n].operands)
            BY <1>3
        <3> QED
            BY <1>1, <3>1, OperandRuns
    <2> QED
        BY <1>1, <1>7, <2>1, <2>2, ValueIs, PtrIs
<1>8. CASE Kind(n) = "subscript"
    <2>1. PICK e : e = Element(G, n)
        OBVIOUS
    <2>2. Plain(e, L, a, n, 1)
        BY <1>1, <1>3, <1>8, <2>1, ElementRuns
    <2>3. \A i \in 1..Len(tree[n].operands) : i \in Repeated(n)
        BY <1>3, <1>8 DEF Repeated
    <2>4. Repeats(e, a, b)
        BY <1>1, <1>5, <2>2, <2>3, RepeatsAll
    <2>5. Runs(Then(p, e), L, a, n, 2 + 1, a, b)
        BY <1>2, <1>4, <2>2, <2>4, RunsAgain
    <2>6. 2 + 1 \in Nat \ {0}
        OBVIOUS
    <2>7. Runs(LastVal(Then(p, e)), L, a, n, 1, a, b)
        BY <2>5, <2>6, RunsLast
    <2>8. Runs(Emit(LastVal(Then(p, e)), "load", n), L, a, n, 1, a, b)
        BY <1>2, <1>5, <2>7, RunsOp
    <2> QED
        BY <1>1, <1>8, <2>1, <2>2, <2>8, ValueIs, PtrIs
<1> QED
    BY <1>7, <1>8
-----------------------------------------------------------------------------
(* Assignments: the value first, and then the address. *)

\* The last two values of p.
Kept(p) == IF p.fails = "" THEN [p EXCEPT !.vals = SubSeq(@, Len(p.vals) - 1, Len(p.vals))]
           ELSE p

LEMMA KeptIs ==
    ASSUME NEW p \in Piece, Passes(p), Len(p.vals) = 3, NEW r, r = Kept(p)
    PROVE  /\ r \in Piece /\ r.code = p.code /\ Passes(r)
           /\ Len(r.vals) = 2 /\ r.vals[1] = p.vals[2] /\ r.vals[2] = p.vals[3]
<1>1. PICK x : x = p.vals
    OBVIOUS
<1>2. x \in Seq(Value) /\ Len(x) = 3
    BY <1>1, PieceIs
<1>3. PICK y : y = SubSeq(x, 2, 3)
    OBVIOUS
<1>4. y \in Seq(Value) /\ Len(y) = 2 /\ y[1] = x[2] /\ y[2] = x[3]
    BY <1>2, <1>3
<1>5. Len(x) - 1 = 2
    BY <1>2
<1>6. r = [p EXCEPT !.vals = y]
    BY <1>1, <1>2, <1>3, <1>5 DEF Kept, Passes
<1>7. r \in Piece /\ r.code = p.code /\ Passes(r) /\ r.vals = y
    BY <1>4, <1>6 DEF Piece, Passes
<1> QED
    BY <1>1, <1>4, <1>7

LEMMA AssignIs ==
    ASSUME NEW G, NEW n
    PROVE  Assign(G, n) =
              Emit(Kept(Then(Then(V(G, n, 1), V(G, n, 2)), P(G, n, 1))), "store", n)
<1>1. PICK p : p = Then(Then(V(G, n, 1), V(G, n, 2)), P(G, n, 1))
    OBVIOUS
<1>2. AssignParts(P(G, n, 1), V(G, n, 1), V(G, n, 2)) = p
    BY <1>1 DEF AssignParts
<1>3. Assign(G, n) = Emit(Kept(p), "store", n)
    BY <1>2 DEF Assign, Kept
<1> QED
    BY <1>1, <1>3

LEMMA KeptPlain ==
    ASSUME NEW p, NEW L, NEW lo, NEW hi, Plain(p, L, lo, hi, 3)
    PROVE  Plain(Kept(p), L, lo, hi, 2)
<1>1. PICK r : r = Kept(p)
    OBVIOUS
<1>2. CASE ~Passes(p)
    <2>1. r = p
        BY <1>1, <1>2 DEF Kept, Passes
    <2> QED
        BY <1>1, <1>2, <2>1 DEF Plain
<1>3. CASE Passes(p)
    <2>1. p \in Piece /\ Len(p.vals) = 3
        BY <1>3 DEF Plain
    <2>2. /\ r \in Piece /\ r.code = p.code /\ Passes(r)
          /\ Len(r.vals) = 2 /\ r.vals[1] = p.vals[2] /\ r.vals[2] = p.vals[3]
        BY <1>1, <1>3, <2>1, KeptIs
    <2>3. PICK x, y, m : x = p.vals /\ y = r.vals /\ m = Len(p.code)
        OBVIOUS
    <2>4. /\ Len(x) = 3 /\ \A v \in 1..Len(x) : x[v].at <= m
        BY <2>1, <2>3 DEF Plain
    <2>5. Len(y) = 2 /\ y[1] = x[2] /\ y[2] = x[3]
        BY <2>2, <2>3
    <2>6. y[1].at <= m /\ y[2].at <= m
        BY <2>4, <2>5
    <2>7. \A v \in 1..Len(y) : y[v].at <= m
        <3>1. \A v \in 1..Len(y) : v = 1 \/ v = 2
            BY <2>5
        <3> QED
            BY <2>6, <3>1
    <2>8. y = r.vals /\ m = Len(r.code) /\ ~Undefined(r)
        BY <2>2, <2>3, OneEnd
    <2>9. \A i \in 1..Len(r.code) : r.code[i].node \in lo..hi /\ Fine(r.code, i, L)
        BY <2>2 DEF Plain
    <2>10. Plain(r, L, lo, hi, 2)
        BY <2>2, <2>5, <2>7, <2>8, <2>9 DEF Plain
    <2> QED
        BY <1>1, <2>10
<1> QED
    BY <1>2, <1>3

LEMMA HoldsOn ==
    ASSUME NEW c \in Seq(Inst), NEW d \in Seq(Inst), NEW e \in Seq(Inst), NEW k \in Nat,
           Holds(d, c, k), Holds(e, d, 0)
    PROVE  Holds(e, c, k)
<1>1. /\ Len(c) \in Nat /\ Len(d) \in Nat /\ Len(e) \in Nat
      /\ k + Len(c) <= Len(d) /\ Len(d) <= Len(e)
    <2>1. Len(c) \in Nat /\ Len(d) \in Nat /\ Len(e) \in Nat
        BY SeqIsList
    <2>2. k + Len(c) <= Len(d) /\ 0 + Len(d) <= Len(e)
        BY DEF Holds
    <2> QED
        BY <2>1, <2>2
<1>2. ASSUME NEW i \in 1..Len(c)
      PROVE  Shifted(c[i], e[k + i], k)
    <2>1. Shifted(c[i], d[k + i], k)
        BY DEF Holds
    <2>2. k + i \in 1..Len(d) /\ 0 + (k + i) = k + i
        BY <1>1
    <2>3. Shifted(d[k + i], e[k + i], 0)
        <3>1. PICK j : j = k + i
            OBVIOUS
        <3>2. j \in 1..Len(d) /\ 0 + j = j
            BY <2>2, <3>1
        <3>3. Shifted(d[j], e[0 + j], 0)
            BY <3>2 DEF Holds
        <3> QED
            BY <3>1, <3>2, <3>3
    <2>4. PICK x, y, z : x = c[i] /\ y = d[k + i] /\ z = e[k + i]
        OBVIOUS
    <2>5. Shifted(x, y, k) /\ Shifted(y, z, 0) /\ x \in Inst /\ y \in Inst
        BY <2>1, <2>2, <2>3, <2>4, SeqIsList
    <2>6. z.op = x.op /\ z.node = x.node /\ Len(z.uses) = Len(x.uses)
        BY <2>5 DEF Shifted
    <2>7. ASSUME NEW u \in 1..Len(x.uses)
          PROVE  /\ z.uses[u].count = x.uses[u].count
                 /\ z.uses[u].at = IF x.uses[u].at = 0 THEN 0 ELSE x.uses[u].at + k
        <3>1. u \in 1..Len(y.uses)
            BY <2>5 DEF Shifted
        <3>2. PICK f \in Nat, g \in Nat : f = x.uses[u].at /\ g = y.uses[u].at
            BY <2>5, <3>1, InstIs
        <3>3. y.uses[u].count = x.uses[u].count /\ g = IF f = 0 THEN 0 ELSE f + k
            BY <2>5, <3>2 DEF Shifted
        <3>4. z.uses[u].count = y.uses[u].count /\ z.uses[u].at = IF g = 0 THEN 0 ELSE g + 0
            BY <2>5, <3>1, <3>2 DEF Shifted
        <3> QED
            BY <3>2, <3>3, <3>4
    <2>8. Shifted(x, z, k)
        BY <2>6, <2>7 DEF Shifted
    <2> QED
        BY <2>4, <2>8
<1>3. k + Len(c) <= Len(e)
    BY <1>1
<1> QED
    BY <1>2, <1>3 DEF Holds

LEMMA HeldIs ==
    ASSUME NEW c \in Seq(Inst), NEW d, NEW k \in Nat, Holds(d, c, k), NEW i \in 1..Len(c)
    PROVE  /\ d[k + i].node = c[i].node
           /\ \A u \in 1..Len(d[k + i].uses) :
                 d[k + i].uses[u].at = 0 \/ k < d[k + i].uses[u].at
<1>1. PICK x, y : x = c[i] /\ y = d[k + i]
    OBVIOUS
<1>2. x \in Inst /\ Shifted(x, y, k)
    BY <1>1, SeqIsList DEF Holds
<1>3. y.node = x.node /\ Len(y.uses) = Len(x.uses)
    BY <1>2 DEF Shifted
<1>4. ASSUME NEW u \in 1..Len(y.uses)
      PROVE  y.uses[u].at = 0 \/ k < y.uses[u].at
    <2>1. PICK f \in Nat : f = x.uses[u].at
        BY <1>2, <1>3, InstIs
    <2>2. y.uses[u].at = IF f = 0 THEN 0 ELSE f + k
        BY <1>2, <1>3, <2>1 DEF Shifted
    <2> QED
        BY <2>1, <2>2
<1> QED
    BY <1>1, <1>3, <1>4

LEMMA StoreCuts ==
    ASSUME NEW L, NEW lo, NEW hi, NEW l, NEW r, NEW n \in Nat,
           NEW v, Plain(v, L, lo, hi, 1), NEW w, Plain(w, L, L[r], r, 1),
           NEW p, Plain(p, L, L[l], l, 1),
           NEW t, t = Then(v, w), NEW s, s = Then(t, p), Passes(s),
           NEW e, e = Emit(Kept(s), "store", n)
    PROVE  /\ Len(t.code) \in Nat
           /\ Cuts(e.code, Len(s.code) + 1, l, r, L, Len(t.code))
<1>1. v \in Piece /\ w \in Piece /\ p \in Piece
    BY DEF Plain
<1>2. Passes(t) /\ Passes(v)
    <2>1. Passes(t)
        BY FailureStays
    <2> QED
        BY <2>1, FailureStays
<1>3. /\ t \in Piece /\ (Passes(t) <=> Passes(w))
      /\ CodeJoin(t.code, v.code, w.code) /\ ValsJoin(t.vals, v.vals, w.vals, Len(v.code))
    BY <1>1, <1>2, ThenIs
<1>4. /\ s \in Piece /\ (Passes(s) <=> Passes(p))
      /\ CodeJoin(s.code, t.code, p.code) /\ ValsJoin(s.vals, t.vals, p.vals, Len(t.code))
    BY <1>1, <1>2, <1>3, ThenIs
<1>5. Len(v.vals) = 1 /\ Len(w.vals) = 1 /\ Len(p.vals) = 1
    BY <1>2, <1>3, <1>4 DEF Plain
<1>6. PICK A \in Nat, B \in Nat, C \in Nat :
         A = Len(v.code) /\ B = Len(w.code) /\ C = Len(p.code)
    BY <1>1, PieceIs
<1>7. PICK x, y : x = w.vals[1] /\ y = p.vals[1]
    OBVIOUS
<1>8. x \in Value /\ y \in Value
    <2>1. 1 \in 1..Len(w.vals) /\ 1 \in 1..Len(p.vals)
        BY <1>5
    <2> QED
        BY <1>1, <1>7, <2>1, PieceIs
<1>9. x.at \in Nat /\ y.at \in Nat /\ x.at <= B /\ y.at <= C
    <2>1. 1 \in 1..Len(w.vals) /\ 1 \in 1..Len(p.vals)
        BY <1>5
    <2>2. x.at <= B /\ y.at <= C
        BY <1>6, <1>7, <2>1 DEF Plain
    <2> QED
        BY <1>8, <2>2 DEF Value
<1>10. Len(t.code) = A + B
    BY <1>3, <1>6 DEF CodeJoin
<1>11. Len(t.vals) = 2 /\ t.vals[2] = Later(x, A)
    <2>1. Len(t.vals) = 1 + 1 /\ t.vals[1 + 1] = Later(x, A)
        BY <1>3, <1>5, <1>6, <1>7 DEF ValsJoin
    <2> QED
        BY <2>1
<1>12. PICK cut \in Nat : cut = A + B
    OBVIOUS
<1>13. Len(s.vals) = 3 /\ s.vals[2] = Later(x, A) /\ s.vals[3] = Later(y, cut)
    <2>1. Len(s.vals) = 2 + 1 /\ s.vals[2 + 1] = Later(y, cut)
        BY <1>4, <1>5, <1>7, <1>10, <1>11, <1>12 DEF ValsJoin
    <2>2. s.vals[2] = t.vals[2]
        BY <1>4, <1>11 DEF ValsJoin
    <2> QED
        BY <1>11, <2>1, <2>2
<1>14. PICK q : q = Kept(s)
    OBVIOUS
<1>15. /\ q \in Piece /\ q.code = s.code /\ Passes(q)
       /\ Len(q.vals) = 2 /\ q.vals[1] = Later(x, A) /\ q.vals[2] = Later(y, cut)
    BY <1>4, <1>13, <1>14, KeptIs
<1>16. "store" \in Ops
    BY DEF Ops
<1>17. e \in Piece /\ CodeAdd(e.code, q.code, "store", n, q.vals)
    BY <1>14, <1>15, <1>16, EmitIs
<1>18. PICK a, c, d : a = t.code /\ c = s.code /\ d = e.code
    OBVIOUS
<1>19. PICK i \in Nat : i = Len(c) + 1
    BY <1>4, <1>18, PieceIs
<1>20. /\ a \in Seq(Inst) /\ c \in Seq(Inst) /\ d \in Seq(Inst)
       /\ w.code \in Seq(Inst) /\ p.code \in Seq(Inst)
    BY <1>1, <1>3, <1>4, <1>17, <1>18, PieceIs
<1>21. /\ Holds(a, w.code, A) /\ Holds(c, a, 0) /\ Holds(c, p.code, cut) /\ Holds(d, c, 0)
    BY <1>3, <1>4, <1>6, <1>10, <1>12, <1>15, <1>17, <1>18 DEF CodeJoin, CodeAdd
<1>22. Holds(c, w.code, A)
    BY <1>20, <1>21, HoldsOn
<1>23. Holds(d, w.code, A) /\ Holds(d, p.code, cut)
    BY <1>20, <1>21, <1>22, HoldsOn
<1>24. i = cut + C + 1
    <2>1. Len(c) = cut + C
        BY <1>4, <1>6, <1>10, <1>12, <1>18 DEF CodeJoin
    <2> QED
        BY <1>19, <2>1
<1>25. d[i].uses = q.vals
    BY <1>15, <1>17, <1>18, <1>19 DEF CodeAdd
<1>26. PICK f, g : f = Later(x, A) /\ g = Later(y, cut)
    OBVIOUS
<1>27. f.at = (IF x.at = 0 THEN 0 ELSE x.at + A) /\ g.at = IF y.at = 0 THEN 0 ELSE y.at + cut
    BY <1>8, <1>26, LaterIs
<1>28. Len(d[i].uses) = 2 /\ d[i].uses[1] = f /\ d[i].uses[2] = g
    BY <1>15, <1>25, <1>26
<1>29. f.at # 0 => d[f.at].node \in L[r]..r
    <2> SUFFICES ASSUME f.at # 0
                 PROVE  d[f.at].node \in L[r]..r
        OBVIOUS
    <2>1. PICK z \in 1..B : f.at = A + z
        BY <1>9, <1>27
    <2>2. z \in 1..Len(w.code)
        BY <1>6, <2>1
    <2>3. d[A + z].node = w.code[z].node
        BY <1>20, <1>23, <2>2, HeldIs
    <2>4. w.code[z].node \in L[r]..r
        BY <2>2 DEF Plain
    <2> QED
        BY <2>1, <2>3, <2>4
<1>30. g.at # 0 => cut < g.at /\ g.at < i /\ d[g.at].node \in L[l]..l
    <2> SUFFICES ASSUME g.at # 0
                 PROVE  cut < g.at /\ g.at < i /\ d[g.at].node \in L[l]..l
        OBVIOUS
    <2>1. PICK z \in 1..C : g.at = cut + z
        BY <1>9, <1>27
    <2>5. cut < g.at /\ g.at < i
        <3>1. cut < cut + z /\ cut + z < i
            BY <1>24, <2>1
        <3> QED
            BY <2>1, <3>1
    <2>2. z \in 1..Len(p.code)
        BY <1>6, <2>1
    <2>3. d[cut + z].node = p.code[z].node
        BY <1>20, <1>23, <2>2, HeldIs
    <2>4. p.code[z].node \in L[l]..l
        BY <2>2 DEF Plain
    <2> QED
        BY <2>1, <2>3, <2>4, <2>5
<1>31. ASSUME NEW j \in 1..i, cut < j, j < i, NEW u \in 1..Len(d[j].uses)
       PROVE  d[j].uses[u].at = 0 \/ cut < d[j].uses[u].at
    <2>1. PICK z \in 1..C : j = cut + z
        <3>1. j - cut \in 1..C /\ j = cut + (j - cut)
            BY <1>24, <1>31
        <3> QED
            BY <3>1
    <2>2. z \in 1..Len(p.code)
        BY <1>6, <2>1
    <2> QED
        BY <1>20, <1>23, <1>31, <2>1, <2>2, HeldIs
<1>32. f.at <= cut /\ cut < i
    BY <1>9, <1>12, <1>24, <1>27
<1>33. Cuts(d, i, l, r, L, cut)
    BY <1>28, <1>29, <1>30, <1>31, <1>32 DEF Cuts
<1> QED
    BY <1>10, <1>12, <1>18, <1>19, <1>33

\* s generates v, w and p, in this order, and e stores the last two of their values.
Stored(v, w, p, t, s, e, n) ==
    t = Then(v, w) /\ s = Then(t, p) /\ e = Emit(Kept(s), "store", n)

CutsAt(e, s, t, l, r, L) == /\ Len(t.code) \in Nat
                            /\ Cuts(e.code, Len(s.code) + 1, l, r, L, Len(t.code))

LEMMA StoreSplits ==
    ASSUME NEW L, NEW lo, NEW hi, NEW l, NEW r, NEW n \in Nat,
           NEW v, Plain(v, L, lo, hi, 1), NEW w, Plain(w, L, L[r], r, 1),
           NEW p, Plain(p, L, L[l], l, 1), NEW t, NEW s, NEW e,
           Stored(v, w, p, t, s, e, n), Passes(s)
    PROVE  CutsAt(e, s, t, l, r, L)
BY StoreCuts DEF Stored, CutsAt

LEMMA AssignGood ==
    ASSUME NEW L, Shape(L), NEW n \in DOMAIN tree, NEW G, Ready(G, L, n),
           Kind(n) = "assign"
    PROVE  /\ Runs(ValueCode(G, n), L, L[n], n, 1, L[n], n)
           /\ Plain(PtrCode(G, n), L, L[n], n, 1)
<1>1. PICK l, r, a, b, v, w, p : /\ l = tree[n].operands[1] /\ r = tree[n].operands[2]
                                 /\ a = L[n] /\ b = n - 1
                                 /\ v = V(G, n, 1) /\ w = V(G, n, 2) /\ p = P(G, n, 1)
    OBVIOUS
<1>2. n \in Nat /\ a \in Nat /\ 0 < a /\ n \in a..n /\ b \in Nat /\ a..n \subseteq DOMAIN tree
    BY <1>1, PlaceIs
<1>3. Len(tree[n].operands) = 2
    BY DEF Shape, Arity
<1>4. /\ 1 \in 1..Len(tree[n].operands) /\ 2 \in 1..Len(tree[n].operands)
      /\ L[l] = a /\ r = b /\ l <= r
    BY <1>1, <1>3, TwoOperands
<1>5. /\ Plain(v, L, a, n, 1) /\ Plain(w, L, L[r], r, 1)
      /\ Plain(p, L, a, n, 1) /\ Plain(p, L, L[l], l, 1) /\ Plain(P(G, n, 2), L, a, n, 1)
    BY <1>1, <1>4, OperandRuns
<1>6. PICK t, s, q, e : /\ t = Then(v, w) /\ s = Then(t, p) /\ q = Kept(s)
                        /\ e = Emit(q, "store", n)
    OBVIOUS
<1>7. Runs(t, L, a, n, 2, a, b)
    BY <1>1, <1>3, <1>6, BothRun
<1>8. Runs(s, L, a, n, 3, a, b)
    <2>1. 1 \in Repeated(n)
        BY DEF Repeated
    <2>2. a <= L[l] /\ l <= b
        BY <1>2, <1>4
    <2>3. Repeats(p, a, b)
        BY <1>1, <1>2, <1>4, <1>5, <2>1, <2>2, RepeatsOperand
    <2>4. Runs(s, L, a, n, 2 + 1, a, b)
        BY <1>2, <1>5, <1>6, <1>7, <2>3, RunsAgain
    <2> QED
        BY <2>4
<1>9. Plain(s, L, a, n, 3) /\ (Passes(s) => Whole(Marks(s.code), a, b) /\ Enough(a, b))
    BY <1>8 DEF Runs
<1>10. Plain(q, L, a, n, 2)
    BY <1>6, <1>9, KeptPlain
<1>11. Passes(q) => q.code = s.code /\ Passes(s)
    <2>1. CASE ~Passes(s)
        BY <1>6, <2>1 DEF Kept, Passes
    <2>2. CASE Passes(s)
        <3>1. s \in Piece /\ Len(s.vals) = 3
            BY <1>9, <2>2 DEF Plain
        <3> QED
            BY <1>6, <2>2, <3>1, KeptIs
    <2> QED
        BY <2>1, <2>2
<1>12. Runs(q, L, a, n, 2, a, b)
    BY <1>9, <1>10, <1>11 DEF Runs
<1>13. "store" \in Ops \ {"call"} /\ "store" \in Ops /\ Kind(n) # "call"
    BY DEF Ops
<1>14. ASSUME Passes(q)
       PROVE  Fine(e.code, Len(q.code) + 1, L)
    <2>1. Passes(s) /\ q.code = s.code
        BY <1>11, <1>14
    <2>2. Len(t.code) \in Nat /\ Cuts(e.code, Len(s.code) + 1, l, r, L, Len(t.code))
        <3>1. Stored(v, w, p, t, s, e, n)
            BY <1>6 DEF Stored
        <3>2. Passes(s)
            BY <2>1
        <3>3. Plain(v, L, a, n, 1) /\ Plain(w, L, L[r], r, 1) /\ Plain(p, L, L[l], l, 1)
            BY <1>5
        <3>4. CutsAt(e, s, t, l, r, L)
            BY <1>2, <3>1, <3>2, <3>3, StoreSplits
        <3> QED
            BY <3>4 DEF CutsAt
    <2>3. PICK m \in Nat : m = Len(s.code)
        BY <1>9, PieceIs DEF Plain
    <2>4. Stores(e.code, m + 1, l, r, L)
        BY <2>2, <2>3 DEF Stores
    <2>5. q \in Piece
        BY <1>10 DEF Plain
    <2>6. CodeAdd(e.code, q.code, "store", n, q.vals)
        BY <1>2, <1>6, <1>13, <1>14, <2>5, EmitIs
    <2>7. PICK i, x : i = e.code[m + 1] /\ x = q.vals
        OBVIOUS
    <2>8. i.op = "store" /\ i.node = n /\ i.uses = x
        BY <2>1, <2>3, <2>6, <2>7 DEF CodeAdd
    <2>9. \A u \in 1..Len(x) : x[u].at < m + 1
        <3>1. \A u \in 1..Len(x) : x[u].at <= m
            BY <1>10, <2>1, <2>3, <2>7 DEF Plain
        <3>2. \A u \in 1..Len(x) : x[u].at \in Nat
            BY <2>5, <2>7, PieceIs DEF Value
        <3> QED
            BY <3>1, <3>2
    <2>10. Counted(i) /\ i.op # "call"
        BY <2>8 DEF Counted
    <2>11. \A u \in 1..Len(i.uses) : i.uses[u].at < m + 1
        BY <2>8, <2>9
    <2>12. Stores(e.code, m + 1, tree[i.node].operands[1], tree[i.node].operands[2], L)
        BY <1>1, <2>4, <2>8
    <2>13. Fine(e.code, m + 1, L)
        BY <2>7, <2>10, <2>11, <2>12 DEF Fine
    <2> QED
        BY <2>1, <2>3, <2>13
<1>15. Plain(e, L, a, n, 1)
    BY <1>2, <1>6, <1>10, <1>13, <1>14, PlainEmit
<1>16. Runs(e, L, a, n, 1, a, b)
    BY <1>2, <1>6, <1>12, <1>13, <1>15, RunsEmit
<1>17. Runs(e, L, a, n, 1, a, n)
    BY <1>1, <1>13, <1>16, NodeEnds
<1>18. ValueCode(G, n) = e
    BY <1>1, <1>6, AssignIs, ValueIs
<1>19. PtrCode(G, n) = P(G, n, 2)
    BY PtrIs
<1> QED
    BY <1>1, <1>5, <1>17, <1>18, <1>19
-----------------------------------------------------------------------------
(* Calls: what is called, `self`, the arguments, and how many there are. *)

\* x is the first `left` elements of s, and y the others of its m.
FrontOf(x, s, left)   == Len(x) = left /\ \A i \in 1..left : x[i] = s[i]
BackOf(y, s, left, m) == /\ Len(y) = m - left
                         /\ \A i \in 1..(m - left) : y[i] = s[left + i]

LEMMA FrontIs ==
    ASSUME NEW S, NEW s \in Seq(S), NEW m \in Nat, m = Len(s), NEW left \in 0..m,
           NEW x, x = SubSeq(s, 1, left)
    PROVE  x \in Seq(S) /\ FrontOf(x, s, left)
<1>1. \A i \in 1..left : s[i] \in S
    BY SeqIsList
<1>2. /\ x \in Seq(S) /\ Len(x) = IF 1 <= left THEN left - 1 + 1 ELSE 0
      /\ \A i \in 1..(left - 1 + 1) : x[i] = s[1 + i - 1]
    BY <1>1, SubSeqProperties
<1>3. Len(x) = left
    BY <1>2
<1>4. \A i \in 1..left : x[i] = s[i]
    BY <1>2
<1> QED
    BY <1>2, <1>3, <1>4 DEF FrontOf

LEMMA BackIs ==
    ASSUME NEW S, NEW s \in Seq(S), NEW m \in Nat, m = Len(s), NEW left \in 0..m,
           NEW y, y = SubSeq(s, left + 1, m)
    PROVE  y \in Seq(S) /\ BackOf(y, s, left, m)
<1>1. \A i \in (left + 1)..m : s[i] \in S
    BY SeqIsList
<1>2. PICK k : k = left + 1
    OBVIOUS
<1>3. k \in Nat /\ \A i \in k..m : s[i] \in S
    BY <1>1, <1>2
<1>4. /\ y \in Seq(S) /\ Len(y) = IF k <= m THEN m - k + 1 ELSE 0
      /\ \A i \in 1..(m - k + 1) : y[i] = s[k + i - 1]
    BY <1>2, <1>3, SubSeqProperties
<1>5. m - k + 1 = m - left /\ (k <= m <=> left < m)
    BY <1>2
<1>6. Len(y) = m - left
    BY <1>4, <1>5
<1>7. \A i \in 1..(m - left) : y[i] = s[left + i]
    <2>1. \A i \in 1..(m - left) : k + i - 1 = left + i
        BY <1>2
    <2> QED
        BY <1>4, <1>5, <2>1
<1> QED
    BY <1>4, <1>6, <1>7 DEF BackOf

\* u is s, of length m, with x at i.
Inserted(u, s, m, i, x) ==
    /\ Len(u) = m + 1 /\ u[i] = x
    /\ \A j \in 1..(m + 1) : u[j] = x \/ \E k \in 1..m : u[j] = s[k]

LEMMA InsertedIs ==
    ASSUME NEW S, NEW s \in Seq(S), NEW m \in Nat, m = Len(s), NEW i \in 1..(m + 1),
           NEW x \in S, NEW u, u = InsertAt(s, i, x)
    PROVE  u \in Seq(S) /\ Inserted(u, s, m, i, x)
<1>1. PICK y, z, w, v : /\ y = SubSeq(s, 1, i - 1) /\ z = SubSeq(s, i, m) /\ w = <<x>>
                        /\ v = y \o w
    OBVIOUS
<1>2. \A j \in 1..m : s[j] \in S
    BY SeqIsList
<1>3. y \in Seq(S) /\ Len(y) = i - 1 /\ \A j \in 1..(i - 1) : y[j] = s[j]
    <2>1. PICK k : k = i - 1
        OBVIOUS
    <2>2. k \in 0..m /\ y = SubSeq(s, 1, k)
        BY <1>1, <2>1
    <2>3. y \in Seq(S) /\ FrontOf(y, s, k)
        BY <2>2, FrontIs
    <2>4. Len(y) = k /\ \A j \in 1..k : y[j] = s[j]
        BY <2>3 DEF FrontOf
    <2> QED
        BY <2>1, <2>3, <2>4
<1>4. z \in Seq(S) /\ Len(z) = m - i + 1 /\ \A j \in 1..(m - i + 1) : z[j] = s[i + j - 1]
    <2>1. PICK k : k = i - 1
        OBVIOUS
    <2>2. k \in 0..m /\ k + 1 = i
        BY <2>1
    <2>3. z \in Seq(S) /\ BackOf(z, s, k, m)
        BY <1>1, <2>2, BackIs
    <2>4. Len(z) = m - k /\ \A j \in 1..(m - k) : z[j] = s[k + j]
        BY <2>3 DEF BackOf
    <2>5. m - k = m - i + 1 /\ \A j \in 1..(m - k) : k + j = i + j - 1
        BY <2>1
    <2> QED
        BY <2>3, <2>4, <2>5
<1>5. w \in Seq(S) /\ Len(w) = 1 /\ w[1] = x
    BY <1>1
<1>6. /\ v \in Seq(S) /\ Len(v) = i /\ v[i] = x
      /\ \A j \in 1..(i - 1) : v[j] = s[j]
    <2>1. /\ v \in Seq(S) /\ Len(v) = Len(y) + Len(w)
          /\ \A j \in 1..Len(y) : v[j] = y[j]
          /\ \A j \in 1..Len(w) : v[Len(y) + j] = w[j]
        BY <1>1, <1>3, <1>5, Joined
    <2>2. Len(v) = i - 1 + 1 /\ v[i - 1 + 1] = w[1]
        BY <1>3, <1>5, <2>1
    <2>3. i - 1 + 1 = i
        OBVIOUS
    <2> QED
        BY <1>3, <1>5, <2>1, <2>2, <2>3
<1>7. u = v \o z
    BY <1>1 DEF InsertAt
<1>8. /\ u \in Seq(S) /\ Len(u) = Len(v) + Len(z)
      /\ \A j \in 1..Len(v) : u[j] = v[j]
      /\ \A j \in 1..Len(z) : u[Len(v) + j] = z[j]
    <2>1. v \in Seq(S) /\ z \in Seq(S)
        BY <1>4, <1>6
    <2> QED
        BY <1>7, <2>1, Joined
<1>9. Len(u) = m + 1
    BY <1>4, <1>6, <1>8
<1>10. /\ \A j \in 1..i : u[j] = v[j]
       /\ \A j \in 1..(m - i + 1) : u[i + j] = s[i + j - 1]
    <2>1. \A j \in 1..i : u[j] = v[j]
        BY <1>6, <1>8
    <2>2. \A j \in 1..(m - i + 1) : u[i + j] = z[j]
        BY <1>4, <1>6, <1>8
    <2> QED
        BY <1>4, <2>1, <2>2
<1>11. ASSUME NEW j \in 1..(m + 1)
       PROVE  u[j] = x \/ \E k \in 1..m : u[j] = s[k]
    <2>1. CASE j < i
        <3>1. u[j] = s[j] /\ j \in 1..m
            BY <1>6, <1>10, <2>1
        <3> QED
            BY <3>1
    <2>2. CASE j = i
        BY <1>6, <1>10, <2>2
    <2>3. CASE i < j
        <3>1. PICK k \in 1..(m - i + 1) : j = i + k
            <4>1. j - i \in 1..(m - i + 1) /\ j = i + (j - i)
                BY <2>3
            <4> QED
                BY <4>1
        <3>2. u[j] = s[i + k - 1] /\ i + k - 1 \in 1..m
            BY <1>10, <3>1
        <3> QED
            BY <3>2
    <2> QED
        BY <2>1, <2>2, <2>3
<1> QED
    BY <1>6, <1>8, <1>9, <1>10, <1>11 DEF Inserted

\* There are no values for all of the arguments of f that have a name.
Few(vals, f) == Len(vals) < NormalArgs(f) + 1

\* The values y of a call say how many follow those that f names.
Told(y, f) == /\ Len(y) >= Parameters[f] + 2
              /\ y[Parameters[f] + 2].count = Len(y) - Parameters[f] - 2

\* The values y are those of x, and numbers.
From(y, x) == \A j \in 1..Len(y) : y[j].at = 0 \/ \E k \in 1..Len(x) : y[j] = x[k]

LEMMA CountIs ==
    ASSUME NEW p \in Piece, Passes(p), NEW f, IsVariadic(f), NEW r, r = WithCount(f, p)
    PROVE  /\ r \in Piece /\ r.code = p.code /\ From(r.vals, p.vals)
           /\ ~Passes(r) => Few(p.vals, f)
           /\ Passes(r) => ~Few(p.vals, f) /\ Told(r.vals, f)
<1>1. PICK N, x, m : N = Parameters[f] /\ x = p.vals /\ m = Len(x)
    OBVIOUS
<1>2. N \in Nat
    BY <1>1, OperandsAssumption DEF OperandsAssumption, IsVariadic
<1>3. x \in Seq(Value) /\ m \in Nat
    BY <1>1, PieceIs
<1>4. r = IF m < N + 1 THEN [p EXCEPT !.fails = "undefined"]
          ELSE [p EXCEPT !.vals = InsertAt(x, N + 1 + 1,
                                           [at |-> 0, count |-> m - 1 - N])]
    BY <1>1 DEF WithCount, NormalArgs, VarArgsCount, IsVariadic, Passes
<1>5. Few(p.vals, f) <=> m < N + 1
    BY <1>1 DEF Few, NormalArgs
<1>6. CASE m < N + 1
    <2>1. r = [p EXCEPT !.fails = "undefined"]
        BY <1>4, <1>6
    <2>2. r \in Piece /\ r.code = p.code /\ r.vals = p.vals /\ r.fails = "undefined"
        BY <2>1 DEF Piece, Ends
    <2>3. From(r.vals, p.vals)
        BY <2>2 DEF From
    <2>4. ~Passes(r)
        BY <2>2 DEF Passes
    <2> QED
        BY <1>5, <1>6, <2>2, <2>3, <2>4
<1>7. CASE ~(m < N + 1)
    <2>1. PICK v, y : v = [at |-> 0, count |-> m - 1 - N] /\ y = InsertAt(x, N + 1 + 1, v)
        OBVIOUS
    <2>2. m - 1 - N \in Nat /\ N + 1 + 1 \in 1..(m + 1) /\ N + 1 + 1 = N + 2
        BY <1>2, <1>3, <1>7
    <2>3. v \in Value /\ v.at = 0 /\ v.count = m - 1 - N
        BY <2>1, <2>2 DEF Value
    <2>4. /\ y \in Seq(Value) /\ Len(y) = m + 1 /\ y[N + 2] = v
          /\ \A j \in 1..(m + 1) : y[j] = v \/ \E k \in 1..m : y[j] = x[k]
        <3>1. PICK i : i = N + 1 + 1
            OBVIOUS
        <3>2. i = N + 2 /\ i \in 1..(m + 1) /\ y = InsertAt(x, i, v) /\ v \in Value
            BY <2>1, <2>2, <2>3, <3>1
        <3>3. x \in Seq(Value) /\ m \in Nat /\ m = Len(x)
            BY <1>1, <1>3
        <3>4. y \in Seq(Value) /\ Inserted(y, x, m, i, v)
            BY <3>2, <3>3, InsertedIs
        <3> QED
            BY <3>2, <3>4 DEF Inserted
    <2>5. r = [p EXCEPT !.vals = y]
        BY <1>4, <1>7, <2>1
    <2>6. r \in Piece /\ r.code = p.code /\ r.vals = y /\ r.fails = p.fails
        BY <2>4, <2>5 DEF Piece
    <2>7. Passes(r)
        BY <2>6 DEF Passes
    <2>8. From(y, x)
        BY <1>1, <2>3, <2>4 DEF From
    <2>9. Len(y) >= N + 2 /\ y[N + 2].count = Len(y) - N - 2
        BY <1>2, <1>3, <1>7, <2>3, <2>4
    <2>10. Told(y, f)
        BY <1>1, <2>9 DEF Told
    <2> QED
        BY <1>1, <1>5, <1>7, <2>6, <2>7, <2>8, <2>10
<1> QED
    BY <1>6, <1>7

LEMMA NotCounted ==
    ASSUME NEW p, NEW f, ~Passes(p) \/ ~IsVariadic(f)
    PROVE  WithCount(f, p) = p
BY DEF WithCount, Passes, IsVariadic

\* The values that self is.
Selves(n) == IF Kind(tree[n].operands[1]) = "method" /\ tree[n].fn \in Members THEN 1 ELSE 0

LEMMA SelfRuns ==
    ASSUME NEW L, Shape(L), NEW n \in DOMAIN tree, NEW G, Ready(G, L, n),
           1 \in 1..Len(tree[n].operands), NEW o, o = tree[n].operands[1]
    PROVE  Runs(Then(V(G, n, 1), Self(G, n)), L, L[n], n, 1 + Selves(n), L[n], o)
<1>1. PICK a, v, s : a = L[n] /\ v = V(G, n, 1) /\ s = Self(G, n)
    OBVIOUS
<1>2. n \in Nat /\ a \in Nat /\ 0 < a /\ a..n \subseteq DOMAIN tree
    BY <1>1, PlaceIs
<1>3. o \in DOMAIN tree /\ o \in Nat /\ o < n /\ o <= n /\ L[o] \in Nat
    <2>1. o \in DOMAIN tree /\ o \in Nat /\ o < n /\ L[o] \in Nat
        BY OperandIs
    <2> QED
        BY <1>2, <2>1
<1>4. L[o] = a
    BY <1>1, NodeIs DEF Chain
<1>5. Runs(v, L, a, n, 1, a, o)
    <2>1. Runs(v, L, a, n, 1, L[o], o)
        BY <1>1, OperandRuns
    <2> QED
        BY <1>4, <2>1
<1>6. CASE Kind(o) = "method" /\ tree[n].fn \in Members
    <2>1. s = P(G, o, 1) /\ Selves(n) = 1
        BY <1>1, <1>6 DEF Self, Selves, Kind
    <2>2. Len(tree[o].operands) = 1 /\ 1 \in Repeated(o)
        BY <1>3, <1>6 DEF Shape, Arity, Repeated
    <2>3. PICK c : c = tree[o].operands[1]
        OBVIOUS
    <2>4. 1 \in 1..Len(tree[o].operands) /\ L[c] = L[o] /\ c = o - 1 /\ c \in Nat
        BY <1>3, <2>2, <2>3, OneOperand
    <2>5. Ready(G, L, o)
        <3>1. DOMAIN tree \subseteq Nat
            BY NodeIs
        <3> QED
            BY <1>2, <1>3, <3>1 DEF Ready
    <2>6. Plain(s, L, L[c], c, 1)
        BY <1>3, <2>1, <2>3, <2>4, <2>5, OperandRuns
    <2>7. a <= L[c] /\ c <= o /\ c <= n /\ L[c] \in Nat
        BY <1>2, <1>3, <1>4, <2>4
    <2>8. Plain(s, L, a, n, 1)
        BY <1>2, <2>4, <2>6, <2>7, PlainWider
    <2>9. Repeats(s, a, o)
        BY <1>2, <1>3, <2>2, <2>3, <2>4, <2>6, <2>7, RepeatsOperand
    <2>10. Runs(Then(v, s), L, a, n, 1 + 1, a, o)
        BY <1>2, <1>3, <1>5, <2>8, <2>9, RunsAgain
    <2> QED
        BY <1>1, <2>1, <2>10
<1>7. CASE ~(Kind(o) = "method" /\ tree[n].fn \in Members)
    <2>1. s = Nothing /\ Selves(n) = 0
        BY <1>1, <1>7 DEF Self, Selves, Kind
    <2>2. Plain(s, L, a, n, 0)
        BY <2>1, PlainNothing
    <2>3. Repeats(s, a, o)
        BY <2>1, NothingIs DEF Repeats
    <2>4. Runs(Then(v, s), L, a, n, 1 + 0, a, o)
        BY <1>2, <1>3, <1>5, <2>2, <2>3, RunsAgain
    <2> QED
        BY <1>1, <2>1, <2>4
<1> QED
    BY <1>6, <1>7

\* The arguments of a call.
Args(G, n) == [i \in 1..(Len(tree[n].operands) - 1) |-> V(G, n, i + 1)]

LEMMA ArgsRun ==
    ASSUME NEW L, Shape(L), NEW n \in DOMAIN tree, NEW G, Ready(G, L, n),
           NEW m \in Nat, Len(tree[n].operands) = m + 1
    PROVE  Runs(InTurn(Args(G, n)), L, L[n], n, m, tree[n].operands[1] + 1, n - 1)
<1>1. PICK s, ps, a : s = tree[n].operands /\ ps = Args(G, n) /\ a = L[n]
    OBVIOUS
<1>2. PICK e : e = [i \in 0..m |-> s[i + 1]]
    OBVIOUS
<1>3. n \in Nat /\ a \in Nat
    BY <1>1, PlaceIs
<1>4. Len(s) = m + 1 /\ Chain(L, s, a, n - 1)
    BY <1>1, NodeIs
<1>5. /\ s[m + 1] = n - 1
      /\ \A i \in 1..(m + 1) : i > 1 => L[s[i]] = s[i - 1] + 1
      /\ \A i, j \in 1..(m + 1) : i < j => s[i] < L[s[j]]
    BY <1>4 DEF Chain
<1>6. \A i \in 1..(m + 1) : s[i] \in Nat /\ L[s[i]] \in Nat /\ L[s[i]] <= s[i]
    BY <1>1, <1>4, OperandIs
<1>7. e \in [0..m -> Nat] /\ \A i \in 0..m : e[i] = s[i + 1]
    <2>1. \A i \in 0..m : i + 1 \in 1..(m + 1)
        OBVIOUS
    <2> QED
        BY <1>2, <1>6, <2>1
<1>8. Len(ps) = m /\ \A i \in 1..m : ps[i] = V(G, n, i + 1)
    <2>1. Len(s) - 1 = m
        BY <1>4
    <2>2. ps = [i \in 1..m |-> V(G, n, i + 1)]
        BY <1>1, <2>1 DEF Args
    <2> QED
        BY <2>2
<1>9. ASSUME NEW i \in 1..m
      PROVE  /\ e[i - 1] <= e[i] /\ e[0] <= e[i - 1]
             /\ Runs(ps[i], L, a, n, 1, e[i - 1] + 1, e[i])
    <2>1. PICK j, x, y : j = i + 1 /\ x = s[i] /\ y = s[j]
        OBVIOUS
    <2>2. j \in 1..(m + 1) /\ i \in 1..(m + 1) /\ 1 \in 1..(m + 1) /\ j > 1 /\ j - 1 = i
        BY <2>1
    <2>3. e[i] = y /\ e[i - 1] = x /\ e[0] = s[1]
        <3>1. i \in 0..m /\ i - 1 \in 0..m /\ 0 \in 0..m /\ i - 1 + 1 = i /\ 0 + 1 = 1
            OBVIOUS
        <3> QED
            BY <1>7, <2>1, <3>1
    <2>4. L[y] = x + 1 /\ x \in Nat /\ y \in Nat /\ L[y] <= y /\ s[1] \in Nat
        BY <1>5, <1>6, <2>1, <2>2
    <2>5. s[1] <= x
        <3>1. CASE i = 1
            BY <2>1, <2>4, <3>1
        <3>2. CASE i # 1
            <4>1. 1 < i
                BY <3>2
            <4>2. s[1] < L[x] /\ L[x] \in Nat /\ L[x] <= x
                BY <1>5, <1>6, <2>1, <2>2, <4>1
            <4> QED
                BY <2>4, <4>2
        <3> QED
            BY <3>1, <3>2
    <2>6. Runs(V(G, n, j), L, a, n, 1, L[y], y)
        <3>1. j \in 1..Len(tree[n].operands) /\ y = tree[n].operands[j]
            BY <1>1, <1>4, <2>1, <2>2
        <3> QED
            BY <1>1, <3>1, OperandRuns
    <2>7. Runs(ps[i], L, a, n, 1, x + 1, y)
        BY <1>8, <2>1, <2>4, <2>6
    <2> QED
        BY <2>3, <2>4, <2>5, <2>7
<1>10. Runs(InTurn(ps), L, a, n, m, e[0] + 1, e[m])
    BY <1>3, <1>7, <1>8, <1>9, RunsInTurn
<1>11. e[0] = s[1] /\ e[m] = n - 1
    <2>1. 0 \in 0..m /\ m \in 0..m /\ 0 + 1 = 1
        OBVIOUS
    <2> QED
        BY <1>5, <1>7, <2>1
<1> QED
    BY <1>1, <1>10, <1>11

\* What a call is given, without the number of its arguments.
Parts(G, n) == CallParts(V(G, n, 1), Self(G, n), Args(G, n))

LEMMA PartsRun ==
    ASSUME NEW L, Shape(L), NEW n \in DOMAIN tree, NEW G, Ready(G, L, n), Kind(n) = "call"
    PROVE  /\ Given(n) \in Nat
           /\ Runs(Parts(G, n), L, L[n], n, 1 + Given(n), L[n], n - 1)
<1>1. PICK a, b, o, m, w, z, k : /\ a = L[n] /\ b = n - 1 /\ o = tree[n].operands[1]
                                 /\ m = Len(tree[n].operands) - 1
                                 /\ w = Then(V(G, n, 1), Self(G, n))
                                 /\ z = InTurn(Args(G, n)) /\ k = Selves(n)
    OBVIOUS
<1>2. n \in Nat /\ a \in Nat /\ 0 < a /\ b \in Nat
    BY <1>1, PlaceIs
<1>3. /\ m \in Nat /\ Len(tree[n].operands) = m + 1 /\ 1 \in 1..Len(tree[n].operands)
      /\ m + 1 \in 1..Len(tree[n].operands)
    <2>1. Len(tree[n].operands) \in Nat
        BY NodeIs
    <2>2. Len(tree[n].operands) > 0
        BY DEF Shape, Arity
    <2> QED
        BY <1>1, <2>1, <2>2
<1>4. k \in {0, 1}
    BY <1>1 DEF Selves
<1>5. Runs(w, L, a, n, 1 + k, a, o)
    BY <1>1, <1>3, SelfRuns
<1>6. Runs(z, L, a, n, m, o + 1, b)
    BY <1>1, <1>3, ArgsRun
<1>7. o \in Nat /\ a <= o + 1 /\ o <= b
    <2>1. o \in Nat /\ o < n /\ L[o] \in Nat /\ a <= L[o] /\ L[o] <= o
        BY <1>1, <1>3, OperandIs
    <2>2. a \in Nat /\ n \in Nat /\ b = n - 1
        BY <1>1, <1>2
    <2>3. PICK h : h = L[o]
        OBVIOUS
    <2>4. o \in Nat /\ o < n /\ h \in Nat /\ a <= h /\ h <= o
        BY <2>1, <2>3
    <2> QED
        BY <2>2, <2>4
<1>8. 1 + k \in Nat
    BY <1>4
<1>9. Runs(Then(w, z), L, a, n, 1 + k + m, a, b)
    BY <1>2, <1>3, <1>5, <1>6, <1>7, <1>8, RunsThen
<1>10. Given(n) = m + k
    BY <1>1 DEF Given, Selves
<1>11. Given(n) \in Nat /\ 1 + Given(n) = 1 + k + m
    BY <1>3, <1>4, <1>10
<1>12. Parts(G, n) = Then(w, z)
    BY <1>1 DEF Parts, CallParts
<1> QED
    BY <1>1, <1>9, <1>11, <1>12

\* What a call is given, with their number.
LEMMA CountPlain ==
    ASSUME NEW L, NEW lo, NEW hi, NEW n \in CallNodes, Given(n) \in Nat,
           NEW p, Plain(p, L, lo, hi, 1 + Given(n)), NEW q, q = WithCount(tree[n].fn, p)
    PROVE  /\ Plain(q, L, lo, hi, Len(q.vals))
           /\ Passes(q) => /\ Passes(p) /\ q.code = p.code
                           /\ IsVariadic(tree[n].fn) =>
                                 /\ Told(q.vals, tree[n].fn)
                                 /\ ~(Given(n) < Parameters[tree[n].fn])
<1>1. PICK f : f = tree[n].fn
    OBVIOUS
<1>2. p \in Piece
    BY DEF Plain
<1>3. CASE ~Passes(p)
    <2>1. q = p
        BY <1>1, <1>3, NotCounted
    <2> QED
        BY <1>3, <2>1 DEF Plain
<1>4. CASE Passes(p) /\ ~IsVariadic(f)
    <2>1. q = p
        BY <1>1, <1>4, NotCounted
    <2>2. Plain(p, L, lo, hi, Len(p.vals))
        BY DEF Plain
    <2> QED
        BY <1>1, <1>4, <2>1, <2>2
<1>5. CASE Passes(p) /\ IsVariadic(f)
    <2>1. PICK g, N, m, k, y, x : /\ g = Given(n) /\ N = Parameters[f] /\ x = p.vals
                                  /\ m = Len(x) /\ k = Len(p.code) /\ y = q.vals
        OBVIOUS
    <2>2. /\ q \in Piece /\ q.code = p.code /\ From(y, x)
          /\ ~Passes(q) => Few(x, f)
          /\ Passes(q) => ~Few(x, f) /\ Told(y, f)
        BY <1>1, <1>2, <1>5, <2>1, CountIs
    <2>3. N \in Nat
        BY <1>5, <2>1, OperandsAssumption DEF OperandsAssumption, IsVariadic
    <2>4. m = 1 + g /\ g \in Nat
        BY <1>5, <2>1 DEF Plain
    <2>5. Few(x, f) <=> g < N
        <3>1. Few(x, f) <=> m < N + 1
            BY <2>1 DEF Few, NormalArgs
        <3>2. m < N + 1 <=> g < N
            BY <2>3, <2>4
        <3> QED
            BY <3>1, <3>2
    <2>6. Undefined(q) => Missing
        <3>1. SUFFICES ASSUME Undefined(q)
                       PROVE  Missing
            OBVIOUS
        <3>2. ~Passes(q)
            BY <3>1, OneEnd
        <3>3. g < N
            BY <2>2, <2>5, <3>2
        <3> QED
            BY <1>1, <1>5, <2>1, <3>3 DEF Missing
    <2>7. \A v \in 1..Len(y) : y[v].at <= k
        <3>1. k \in Nat /\ \A v \in 1..Len(x) : x[v].at <= k
            <4>1. k \in Nat
                BY <1>2, <2>1, PieceIs
            <4> QED
                BY <2>1, <4>1 DEF Plain
        <3>2. TAKE v \in 1..Len(y)
        <3>3. y[v].at = 0 \/ \E j \in 1..Len(x) : y[v] = x[j]
            BY <2>2 DEF From
        <3>4. CASE y[v].at = 0
            BY <3>1, <3>4
        <3>5. CASE \E j \in 1..Len(x) : y[v] = x[j]
            BY <3>1, <3>5
        <3> QED
            BY <3>3, <3>4, <3>5
    <2>8. \A i \in 1..Len(q.code) : q.code[i].node \in lo..hi /\ Fine(q.code, i, L)
        BY <2>2 DEF Plain
    <2>9. \A v \in 1..Len(q.vals) : q.vals[v].at <= Len(q.code)
        BY <2>1, <2>2, <2>7
    <2>10. Plain(q, L, lo, hi, Len(q.vals))
        BY <2>2, <2>6, <2>8, <2>9 DEF Plain
    <2> QED
        BY <1>1, <1>5, <2>1, <2>2, <2>5, <2>10
<1> QED
    BY <1>3, <1>4, <1>5

LEMMA CallCodeIs ==
    ASSUME NEW G, NEW n
    PROVE  CallCode(G, n) = Emit(WithCount(tree[n].fn, Parts(G, n)), "call", n)
BY DEF CallCode, Parts, Args

\* The instruction of a call.
LEMMA CallFine ==
    ASSUME NEW q \in Piece, Passes(q), \A v \in 1..Len(q.vals) : q.vals[v].at <= Len(q.code),
           NEW n \in CallNodes, n \in Nat, IsVariadic(tree[n].fn) => Told(q.vals, tree[n].fn),
           NEW L, NEW e, e = Emit(q, "call", n)
    PROVE  Fine(e.code, Len(q.code) + 1, L)
<1>1. PICK m, i, x, f : /\ m = Len(q.code) /\ i = e.code[m + 1] /\ x = q.vals
                        /\ f = tree[n].fn
    OBVIOUS
<1>2. m \in Nat /\ x \in Seq(Value)
    BY <1>1, PieceIs
<1>3. CodeAdd(e.code, q.code, "call", n, x)
    <2>1. "call" \in Ops
        BY DEF Ops
    <2> QED
        BY <1>1, <2>1, EmitIs
<1>4. i.op = "call" /\ i.node = n /\ i.uses = x
    BY <1>1, <1>2, <1>3 DEF CodeAdd
<1>5. Kind(i.node) = "call" /\ ~(Kind(i.node) = "assign")
    BY <1>4 DEF CallNodes
<1>6. \A u \in 1..Len(x) : x[u].at < m + 1
    <2>1. \A u \in 1..Len(x) : x[u].at <= m
        BY <1>1
    <2>2. \A u \in 1..Len(x) : x[u].at \in Nat
        <3>1. \A u \in 1..Len(x) : x[u] \in Value
            BY <1>1, PieceIs
        <3> QED
            BY <3>1 DEF Value
    <2> QED
        BY <1>2, <2>1, <2>2
<1>7. Counted(i)
    <2>1. ASSUME IsVariadic(f)
          PROVE  CountedFor(i, f)
        <3>1. Told(x, f)
            BY <1>1, <2>1
        <3> QED
            BY <1>4, <3>1 DEF Told, CountedFor
    <2>2. tree[i.node].fn = f
        BY <1>1, <1>4
    <2> QED
        BY <2>1, <2>2 DEF Counted
<1>8. \A u \in 1..Len(i.uses) : i.uses[u].at < m + 1
    BY <1>4, <1>6
<1>9. Fine(e.code, m + 1, L)
    BY <1>1, <1>5, <1>7, <1>8 DEF Fine
<1> QED
    BY <1>1, <1>9

LEMMA CallGood ==
    ASSUME NEW L, Shape(L), NEW n \in DOMAIN tree, NEW G, Ready(G, L, n), Kind(n) = "call"
    PROVE  /\ Runs(ValueCode(G, n), L, L[n], n, 1, L[n], n)
           /\ Plain(PtrCode(G, n), L, L[n], n, 1)
<1>1. PICK a, b, p, q, e, f : /\ a = L[n] /\ b = n - 1 /\ f = tree[n].fn
                              /\ p = Parts(G, n) /\ q = WithCount(f, p)
                              /\ e = Emit(q, "call", n)
    OBVIOUS
<1>2. /\ n \in Nat /\ 0 < n /\ a \in Nat /\ 0 < a /\ n \in a..n /\ b \in Nat /\ b + 1 = n
      /\ a <= n
    BY <1>1, PlaceIs
<1>3. n \in CallNodes
    BY DEF CallNodes
<1>4. Given(n) \in Nat /\ Runs(p, L, a, n, 1 + Given(n), a, b)
    BY <1>1, PartsRun
<1>5. Plain(p, L, a, n, 1 + Given(n)) /\ (Passes(p) => Whole(Marks(p.code), a, b) /\ Enough(a, b))
    BY <1>4 DEF Runs
<1>6. /\ Plain(q, L, a, n, Len(q.vals))
      /\ Passes(q) => /\ Passes(p) /\ q.code = p.code
                      /\ IsVariadic(f) => Told(q.vals, f) /\ ~(Given(n) < Parameters[f])
    BY <1>1, <1>3, <1>4, <1>5, CountPlain
<1>7. ASSUME Passes(q)
      PROVE  Fine(e.code, Len(q.code) + 1, L)
    <2>1. q \in Piece /\ \A v \in 1..Len(q.vals) : q.vals[v].at <= Len(q.code)
        BY <1>6 DEF Plain
    <2> QED
        BY <1>1, <1>2, <1>3, <1>6, <1>7, <2>1, CallFine
<1>8. Plain(e, L, a, n, 1)
    <2>1. "call" \in Ops
        BY DEF Ops
    <2> QED
        BY <1>1, <1>2, <1>6, <1>7, <2>1, PlainEmit
<1>9. ASSUME Passes(e)
      PROVE  Whole(Marks(e.code), a, n) /\ Enough(a, n)
    <2>1. Passes(q)
        BY <1>1, <1>9, FailureStays
    <2>2. q \in Piece /\ "call" \in Ops /\ MarkOf("call", n) = n
        BY <1>6 DEF Plain, Ops, MarkOf
    <2>3. PICK x, y, z : x = Marks(q.code) /\ y = <<n>> /\ z = Marks(e.code)
        OBVIOUS
    <2>4. x \in Seq(Nat) /\ y \in Seq(Nat) /\ MarksJoin(z, x, y)
        <3>1. /\ Marks(q.code) \in Seq(Nat) /\ <<MarkOf("call", n)>> \in Seq(Nat)
              /\ MarksJoin(Marks(Emit(q, "call", n).code), Marks(q.code), <<MarkOf("call", n)>>)
            BY <1>2, <2>1, <2>2, MarksEmit
        <3> QED
            BY <1>1, <2>2, <2>3, <3>1
    <2>5. Whole(x, a, b)
        BY <1>5, <1>6, <2>1, <2>3
    <2>6. Whole(y, b + 1, n)
        <3>1. Whole(y, n, n)
            BY <1>2, <2>3, WholeOfOne
        <3> QED
            BY <1>2, <3>1
    <2>7. Whole(z, a, n)
        <3>1. a <= b + 1 /\ b <= n
            BY <1>2
        <3> QED
            BY <1>2, <2>4, <2>5, <2>6, <3>1, WholeNext
    <2>8. Enough(a, n)
        <3>1. Enough(a, b)
            BY <1>5, <1>6, <2>1
        <3>2. IsVariadic(tree[n].fn) => ~(Given(n) < Parameters[tree[n].fn])
            BY <1>1, <1>6, <2>1
        <3>3. \A m \in a..n : m = n \/ m \in a..b
            BY <1>1, <1>2
        <3> QED
            BY <3>1, <3>2, <3>3 DEF Enough
    <2> QED
        BY <2>3, <2>7, <2>8
<1>10. Runs(e, L, a, n, 1, a, n)
    BY <1>8, <1>9 DEF Runs
<1>11. CallCode(G, n) = e
    BY <1>1, CallCodeIs
<1>12. Plain(Emit(e, "spill", n), L, a, n, 1)
    <2>1. "spill" \in Ops \ {"call"} /\ Kind(n) # "assign"
        BY DEF Ops
    <2> QED
        BY <1>2, <1>8, <2>1, PlainOp
<1> QED
    BY <1>1, <1>10, <1>11, <1>12, ValueIs, PtrIs

\* Whatever the expression, every node of it is generated as it should be.
LEMMA AllGood ==
    ASSUME NEW L, Shape(L)
    PROVE  \A n \in DOMAIN tree : Good(Gen, L, n)
<1> DEFINE Bad == {n \in DOMAIN tree : ~Good(Gen, L, n)}
<1>1. SUFFICES ASSUME Bad # {}
               PROVE  FALSE
    OBVIOUS
<1>2. Bad \subseteq Nat
    <2>1. \A n \in DOMAIN tree : n \in Nat
        BY NodeIs
    <2> QED
        BY <2>1
<1>3. PICK n \in Bad : \A m \in Bad : n <= m
    BY <1>1, <1>2, SmallestMember
<1>4. n \in DOMAIN tree /\ n \in Nat
    BY <1>2
<1>5. Ready(Gen, L, n)
    <2>1. ASSUME NEW m \in DOMAIN tree, m < n
          PROVE  Good(Gen, L, m)
        <3>1. SUFFICES ASSUME m \in Bad
                       PROVE  FALSE
            OBVIOUS
        <3>2. m \in Nat /\ n <= m
            BY <1>2, <1>3, <3>1
        <3> QED
            BY <1>4, <2>1, <3>2
    <2> QED
        BY <2>1 DEF Ready
<1>6. Kind(n) \in Kinds
    BY <1>4, NodeIs
<1>7. /\ Runs(ValueCode(Gen, n), L, L[n], n, 1, L[n], n)
      /\ Plain(PtrCode(Gen, n), L, L[n], n, 1)
    <2>1. \/ Kind(n) \in {"literal", "function", "variable"}
          \/ Kind(n) \in {"star", "let", "method", "ampersand", "dot"}
          \/ Kind(n) \in {"plus", "subscript"}
          \/ Kind(n) = "assign" \/ Kind(n) = "call"
        BY <1>6 DEF Kinds
    <2>2. CASE Kind(n) \in {"literal", "function", "variable"}
        BY <1>4, <2>2, LeafGood
    <2>3. CASE Kind(n) \in {"star", "let", "method", "ampersand", "dot"}
        BY <1>4, <1>5, <2>3, UnaryGood
    <2>4. CASE Kind(n) \in {"plus", "subscript"}
        BY <1>4, <1>5, <2>4, PlusGood
    <2>5. CASE Kind(n) = "assign"
        BY <1>4, <1>5, <2>5, AssignGood
    <2>6. CASE Kind(n) = "call"
        BY <1>4, <1>5, <2>6, CallGood
    <2> QED
        BY <2>1, <2>2, <2>3, <2>4, <2>5, <2>6
<1>8. Good(Gen, L, n)
    BY <1>4, <1>7, GenMeans DEF Good
<1> QED
    BY <1>3, <1>8
-----------------------------------------------------------------------------
(* What is said of the expression stays as it is when the expression does. *)

LEMMA NodesStay ==
    ASSUME tree' = tree
    PROVE  /\ CallNodes' = CallNodes
           /\ Subtree' = Subtree
           /\ \A n : Repeated(n)' = Repeated(n)
           /\ \A n : Given(n)' = Given(n)
<1>1. CallNodes' = CallNodes
    BY DEF CallNodes, Kind
<1>2. Subtree' = Subtree
    BY DEF Subtree
<1>3. ASSUME NEW n
      PROVE  Repeated(n)' = Repeated(n)
    BY Zenon DEF Repeated, Kind
<1>4. ASSUME NEW n
      PROVE  Given(n)' = Given(n)
    BY DEF Given, Kind
<1> QED
    BY <1>1, <1>2, <1>3, <1>4

LEMMA ExposedStay ==
    ASSUME tree' = tree
    PROVE  Exposed' = Exposed
<1>1. ASSUME NEW x
      PROVE  x \in Exposed <=> \E n \in DOMAIN tree : \E i \in Repeated(n) :
                                   x \in Subtree[tree[n].operands[i]]
    BY DEF Exposed
<1>2. ASSUME NEW x
      PROVE  x \in Exposed' <=> \E n \in DOMAIN tree' : \E i \in Repeated(n)' :
                                    x \in Subtree'[tree'[n].operands[i]]
    BY DEF Exposed
<1>3. ASSUME NEW x
      PROVE  x \in Exposed' <=> x \in Exposed
    <2>1. PICK a, b, c, d : a = tree' /\ b = tree /\ c = Subtree' /\ d = Subtree
        OBVIOUS
    <2>2. a = b /\ c = d /\ \A n : Repeated(n)' = Repeated(n)
        BY <2>1, NodesStay
    <2>3. x \in Exposed <=> \E n \in DOMAIN b : \E i \in Repeated(n) : x \in d[b[n].operands[i]]
        BY <1>1, <2>1
    <2>4. x \in Exposed' <=> \E n \in DOMAIN a : \E i \in Repeated(n)' : x \in c[a[n].operands[i]]
        BY <1>2, <2>1
    <2> QED
        BY <2>2, <2>3, <2>4, Zenon
<1> QED
    BY <1>3

LEMMA PlainStays ==
    ASSUME tree' = tree, NEW p, NEW L, NEW lo, NEW hi, NEW k, Plain(p, L, lo, hi, k)
    PROVE  Plain(p, L, lo, hi, k)'
<1>1. Missing' = Missing
    BY NodesStay DEF Missing
<1>2. ASSUME NEW i \in 1..Len(p.code)
      PROVE  p.code[i].node \in lo..hi /\ Fine(p.code, i, L)'
    <2>1. p.code[i].node \in lo..hi /\ Fine(p.code, i, L)
        BY DEF Plain
    <2> QED
        BY <2>1 DEF Fine, Counted, Kind
<1> QED
    BY <1>1, <1>2 DEF Plain

LEMMA RunsStay ==
    ASSUME tree' = tree, NEW p, NEW L, NEW lo, NEW hi, NEW k, NEW a, NEW b,
           Runs(p, L, lo, hi, k, a, b)
    PROVE  Runs(p, L, lo, hi, k, a, b)'
<1>1. Plain(p, L, lo, hi, k)'
    BY PlainStays DEF Runs
<1>2. ASSUME Passes(p)
      PROVE  Whole(Marks(p.code), a, b)' /\ Enough(a, b)'
    <2>1. Whole(Marks(p.code), a, b) /\ Enough(a, b)
        BY <1>2 DEF Runs
    <2>2. PICK z : z = Marks(p.code)
        OBVIOUS
    <2>3. Whole(z, a, b)'
        <3>1. Whole(z, a, b)
            BY <2>1, <2>2
        <3> QED
            BY <3>1, NodesStay, ExposedStay DEF Whole
    <2>4. Enough(a, b)'
        BY <2>1, NodesStay DEF Enough
    <2> QED
        BY <2>2, <2>3, <2>4
<1> QED
    BY <1>1, <1>2 DEF Runs

LEMMA ShapeStays ==
    ASSUME tree' = tree, NEW L, Shape(L)
    PROVE  Shape(L)'
BY DEF Shape, Arity, Kind
-----------------------------------------------------------------------------
(* A new node over the youngest roots. *)

\* z is the first `left` elements of s and then e.
OverOf(z, s, left, e) == /\ Len(z) = left + 1 /\ z[left + 1] = e
                         /\ \A i \in 1..left : z[i] = s[i]

LEMMA OverIs ==
    ASSUME NEW N \in Nat, NEW s \in Seq(1..N), NEW m \in Nat, m = Len(s),
           NEW left \in 0..m, NEW x, x = SubSeq(s, 1, left),
           NEW e, e = N + 1, NEW z, z = Append(x, e)
    PROVE  z \in Seq(1..(N + 1)) /\ OverOf(z, s, left, N + 1)
<1>2. x \in Seq(1..N) /\ FrontOf(x, s, left)
    BY FrontIs
<1>3. Len(x) = left /\ \A i \in 1..left : x[i] = s[i]
    BY <1>2 DEF FrontOf
<1>4. \A i \in 1..left : x[i] \in 1..N
    BY <1>2, <1>3, SeqIsList
<1>5. \A i \in 1..left : x[i] \in 1..(N + 1)
    BY <1>4
<1>6. x \in [1..left -> 1..(N + 1)]
    <2>1. x = [i \in 1..left |-> x[i]]
        BY <1>2, <1>3
    <2> QED
        BY <1>5, <2>1
<1>7. left \in Nat /\ N + 1 \in 1..(N + 1)
    OBVIOUS
<1>8. x \in Seq(1..(N + 1))
    BY <1>6, <1>7, ListIsSeq
<1>9. PICK S : S = 1..(N + 1)
    OBVIOUS
<1>10. e \in S /\ x \in Seq(S)
    BY <1>7, <1>8, <1>9
<1>11. /\ z \in Seq(S) /\ Len(z) = Len(x) + 1
       /\ \A i \in 1..Len(x) : z[i] = x[i]
       /\ z[Len(x) + 1] = e
    BY <1>10, Appended
<1> QED
    BY <1>3, <1>9, <1>11 DEF OverOf

\* The first node under the roots from the one after `left`, or under a new one.
OpensAt(c, L, s, left, m, N) == c = IF left < m THEN L[s[left + 1]] ELSE N + 1

\* M is L, and c for a new node after the first N.
GrownTo(M, L, N, c) == M[N + 1] = c /\ \A i \in 1..N : M[i] = L[i]

LEMMA GrownIs ==
    ASSUME NEW N \in Nat, NEW L \in [1..N -> Nat \ {0}], NEW c \in Nat \ {0}
    PROVE  \E M \in [1..(N + 1) -> Nat \ {0}] : GrownTo(M, L, N, c)
<1>6. PICK M : M = [i \in 1..(N + 1) |-> IF i = N + 1 THEN c ELSE L[i]]
    OBVIOUS
<1>1. \A i \in 1..N : i # N + 1 /\ i \in 1..(N + 1)
    OBVIOUS
<1>2. \A i \in 1..(N + 1) : i = N + 1 \/ i \in 1..N
    OBVIOUS
<1>3. \A i \in 1..(N + 1) : (IF i = N + 1 THEN c ELSE L[i]) \in Nat \ {0}
    BY <1>2
<1>4. M \in [1..(N + 1) -> Nat \ {0}]
    BY <1>3, <1>6
<1>5. N + 1 \in 1..(N + 1)
    OBVIOUS
<1>7. GrownTo(M, L, N, c)
    BY <1>1, <1>5, <1>6 DEF GrownTo
<1> QED
    BY <1>4, <1>7

LEMMA ChainOver ==
    ASSUME NEW N \in Nat, NEW L \in [1..N -> Nat \ {0}], NEW s \in Seq(1..N),
           NEW m \in Nat, m = Len(s), Chain(L, s, 1, N), NEW left \in 0..m,
           NEW c, OpensAt(c, L, s, left, m, N), NEW M, GrownTo(M, L, N, c),
           NEW y, BackOf(y, s, left, m), NEW z, OverOf(z, s, left, N + 1)
    PROVE  c \in Nat \ {0} /\ Chain(M, y, c, N) /\ Chain(M, z, 1, N + 1)
<1>1. \A i \in 1..m : s[i] \in 1..N /\ L[s[i]] \in Nat \ {0}
    BY SeqIsList
<1>2. /\ m = 0 => 1 = N + 1
      /\ m > 0 => L[s[1]] = 1 /\ s[m] = N
      /\ \A i \in 1..m : L[s[i]] <= s[i]
      /\ \A i \in 1..m : i > 1 => L[s[i]] = s[i - 1] + 1
      /\ \A i, j \in 1..m : i < j => s[i] < L[s[j]]
    BY DEF Chain
<1>3. left < m => left + 1 \in 1..m
    OBVIOUS
<1>15. (left < m => c = L[s[left + 1]]) /\ (~(left < m) => c = N + 1)
    BY DEF OpensAt
<1>4. c \in Nat \ {0} /\ c <= N + 1
    <2>1. CASE left < m
        <3>1. c = L[s[left + 1]] /\ L[s[left + 1]] \in Nat \ {0}
                 /\ L[s[left + 1]] <= s[left + 1] /\ s[left + 1] \in 1..N
            BY <1>1, <1>2, <1>3, <1>15, <2>1
        <3> QED
            BY <3>1
    <2>2. CASE ~(left < m)
        BY <1>15, <2>2
    <2> QED
        BY <2>1, <2>2
<1>5. M[N + 1] = c /\ \A i \in 1..N : M[i] = L[i]
    BY DEF GrownTo
<1>7. Len(y) = m - left /\ \A i \in 1..(m - left) : y[i] = s[left + i]
    BY DEF BackOf
<1>8. /\ Len(z) = left + 1 /\ z[left + 1] = N + 1
      /\ \A i \in 1..left : z[i] = s[i]
    BY DEF OverOf
<1>9. \A i \in 1..m : M[s[i]] = L[s[i]]
    BY <1>1, <1>5
<1>10. Chain(M, y, c, N)
    <2>1. PICK k : k = m - left
        OBVIOUS
    <2>2. k \in Nat /\ k = Len(y) /\ \A i \in 1..k : y[i] = s[left + i] /\ left + i \in 1..m
        <3>1. k \in Nat /\ k = Len(y)
            BY <1>7, <2>1
        <3>2. \A i \in 1..k : y[i] = s[left + i]
            BY <1>7, <2>1
        <3>3. \A i \in 1..k : left + i \in 1..m
            BY <2>1
        <3> QED
            BY <3>1, <3>2, <3>3
    <2>3. \A i \in 1..k : M[y[i]] = L[s[left + i]]
        BY <1>9, <2>2
    <2>4. k = 0 => c = N + 1
        BY <1>15, <2>1
    <2>5. k > 0 => M[y[1]] = c /\ y[k] = N
        <3>1. SUFFICES ASSUME k > 0
                       PROVE  M[y[1]] = c /\ y[k] = N
            OBVIOUS
        <3>2. left < m /\ 1 \in 1..k /\ k \in 1..k /\ left + k = m /\ m > 0
            <4>1. k \in Nat
                BY <2>2, Zenon
            <4> QED
                BY <2>1, <3>1, <4>1
        <3>3. M[y[1]] = L[s[left + 1]]
            BY <2>3, <3>2
        <3>4. y[k] = s[m]
            BY <2>2, <3>2
        <3>5. c = L[s[left + 1]] /\ s[m] = N
            BY <1>2, <1>15, <3>2
        <3> QED
            BY <3>3, <3>4, <3>5
    <2>6. \A i \in 1..k : M[y[i]] <= y[i]
        BY <1>2, <2>2, <2>3
    <2>7. ASSUME NEW i \in 1..k, i > 1
          PROVE  M[y[i]] = y[i - 1] + 1
        <3>1. i - 1 \in 1..k /\ left + (i - 1) = left + i - 1 /\ left + i \in 1..m /\ left + i > 1
            BY <2>2, <2>7
        <3>2. L[s[left + i]] = s[left + i - 1] + 1
            BY <1>2, <3>1
        <3>3. y[i - 1] = s[left + (i - 1)]
            BY <2>2, <3>1
        <3> QED
            BY <2>3, <3>1, <3>2, <3>3
    <2>8. ASSUME NEW i \in 1..k, NEW j \in 1..k, i < j
          PROVE  y[i] < M[y[j]]
        <3>1. left + i \in 1..m /\ left + j \in 1..m /\ left + i < left + j
            BY <2>2, <2>8
        <3>2. s[left + i] < L[s[left + j]]
            BY <1>2, <3>1
        <3> QED
            BY <2>2, <2>3, <3>2
    <2> QED
        BY <2>2, <2>4, <2>5, <2>6, <2>7, <2>8 DEF Chain
<1>11. \A i \in 1..left : i \in 1..m
    OBVIOUS
<1>12. ASSUME NEW i \in 1..left
       PROVE  s[i] < c
    <2>1. CASE left < m
        <3>1. i \in 1..m /\ left + 1 \in 1..m /\ i < left + 1
            BY <1>3, <2>1
        <3>2. s[i] < L[s[left + 1]]
            BY <1>2, <3>1
        <3> QED
            BY <1>15, <2>1, <3>2
    <2>2. CASE ~(left < m)
        BY <1>1, <1>11, <1>15, <2>2
    <2> QED
        BY <2>1, <2>2
<1>13. left > 0 => c = s[left] + 1
    <2>1. SUFFICES ASSUME left > 0
                   PROVE  c = s[left] + 1
        OBVIOUS
    <2>2. CASE left < m
        <3>1. left + 1 \in 1..m /\ left + 1 > 1 /\ left + 1 - 1 = left
            BY <1>3, <2>1, <2>2
        <3>2. L[s[left + 1]] = s[left + 1 - 1] + 1
            BY <1>2, <3>1
        <3> QED
            BY <1>15, <2>2, <3>1, <3>2
    <2>3. CASE ~(left < m)
        <3>1. left = m /\ m > 0
            BY <2>1, <2>3
        <3> QED
            BY <1>2, <1>15, <2>3, <3>1
    <2> QED
        BY <2>2, <2>3
<1>14. Chain(M, z, 1, N + 1)
    <2>1. Len(z) = left + 1 /\ Len(z) > 0 /\ Len(z) # 0
        BY <1>8
    <2>2. \A i \in 1..(left + 1) : i = left + 1 \/ i \in 1..left
        OBVIOUS
    <2>3. \A i \in 1..left : z[i] = s[i] /\ M[z[i]] = L[s[i]]
        BY <1>8, <1>9, <1>11
    <2>4. z[left + 1] = N + 1 /\ M[z[left + 1]] = c
        BY <1>5, <1>8
    <2>5. M[z[1]] = 1
        <3>1. CASE left = 0
            <4>1. M[z[1]] = c
                <5>1. left + 1 = 1
                    BY <3>1
                <5> QED
                    BY <2>4, <5>1
            <4>2. CASE m = 0
                BY <1>2, <1>15, <3>1, <4>1, <4>2
            <4>3. CASE m > 0
                <5>1. left < m /\ left + 1 = 1
                    BY <3>1, <4>3
                <5> QED
                    BY <1>2, <1>15, <4>1, <4>3, <5>1
            <4> QED
                BY <4>2, <4>3
        <3>2. CASE left # 0
            <4>1. 1 \in 1..left /\ m > 0
                BY <3>2
            <4> QED
                BY <1>2, <2>3, <4>1
        <3> QED
            BY <3>1, <3>2
    <2>6. ASSUME NEW i \in 1..(left + 1)
          PROVE  M[z[i]] <= z[i]
        <3>1. CASE i = left + 1
            BY <1>4, <2>4, <3>1
        <3>2. CASE i \in 1..left
            BY <1>2, <1>11, <2>3, <3>2
        <3> QED
            BY <2>2, <3>1, <3>2
    <2>7. ASSUME NEW i \in 1..(left + 1), i > 1
          PROVE  M[z[i]] = z[i - 1] + 1
        <3>1. CASE i = left + 1
            <4>1. left > 0 /\ i - 1 = left /\ left \in 1..left
                BY <2>7, <3>1
            <4> QED
                BY <1>13, <2>3, <2>4, <3>1, <4>1
        <3>2. CASE i \in 1..left
            <4>1. i - 1 \in 1..left
                BY <2>7, <3>2
            <4> QED
                BY <1>2, <1>11, <2>3, <2>7, <3>2, <4>1
        <3> QED
            BY <2>2, <3>1, <3>2
    <2>8. ASSUME NEW i \in 1..(left + 1), NEW j \in 1..(left + 1), i < j
          PROVE  z[i] < M[z[j]]
        <3>1. i \in 1..left
            BY <2>8
        <3>2. CASE j = left + 1
            BY <1>12, <2>3, <2>4, <3>1, <3>2
        <3>3. CASE j \in 1..left
            BY <1>2, <1>11, <2>3, <2>8, <3>1, <3>3
        <3> QED
            BY <2>2, <3>2, <3>3
    <2> QED
        BY <2>1, <2>4, <2>5, <2>6, <2>7, <2>8 DEF Chain
<1> QED
    BY <1>4, <1>10, <1>14

LEMMA ChainStays ==
    ASSUME NEW N \in Nat, NEW L, NEW c, NEW M, GrownTo(M, L, N, c), NEW s \in Seq(1..N),
           NEW a, NEW b, Chain(L, s, a, b)
    PROVE  Chain(M, s, a, b)
<1>1. \A i \in 1..Len(s) : s[i] \in 1..N
    BY SeqIsList
<1>2. \A i \in 1..Len(s) : M[s[i]] = L[s[i]]
    BY <1>1 DEF GrownTo
<1>3. Len(s) > 0 => M[s[1]] = L[s[1]]
    <2>1. Len(s) \in Nat
        BY SeqIsList
    <2>2. Len(s) > 0 => 1 \in 1..Len(s)
        BY <2>1
    <2> QED
        BY <1>2, <2>2
<1> QED
    BY <1>2, <1>3 DEF Chain

LEMMA LongerSeq ==
    ASSUME NEW N \in Nat, NEW s \in Seq(1..N)
    PROVE  s \in Seq(1..(N + 1))
<1>1. Len(s) \in Nat /\ \A i \in 1..Len(s) : s[i] \in 1..N
    BY SeqIsList
<1>2. \A i \in 1..Len(s) : s[i] \in 1..(N + 1)
    BY <1>1
<1>3. PICK k : k = Len(s)
    OBVIOUS
<1>4. s = [i \in 1..k |-> s[i]]
    BY <1>3
<1>5. s \in [1..k -> 1..(N + 1)]
    BY <1>2, <1>3, <1>4
<1> QED
    BY <1>1, <1>3, <1>5, ListIsSeq

\* A node of the kind has k operands.
Suits(kind, k) ==
    /\ kind \in {"literal", "variable", "function"} => k = 0
    /\ kind \in {"dot", "method", "star", "ampersand", "let"} => k = 1
    /\ kind \in {"plus", "assign", "subscript"} => k = 2
    /\ kind = "call" => k > 0

\* The nodes L[n]..n are those of which node n is built.
Drawn(L) == Shape(L) /\ Chain(L, roots, 1, Len(tree))

LEMMA NodeAdded ==
    ASSUME NEW L, Drawn(L), roots \in Seq(DOMAIN tree), NEW N \in Nat, N = Len(tree),
           NEW m \in Nat, m = Len(roots), NEW left \in 0..m,
           NEW x \in Node, tree' = Append(tree, x), Suits(x.kind, m - left),
           x.operands \in Seq(1..N), BackOf(x.operands, roots, left, m),
           roots' \in Seq(1..(N + 1)), OverOf(roots', roots, left, N + 1)
    PROVE  tree' \in Seq(Node) /\ roots' \in Seq(DOMAIN tree') /\ \E M : Drawn(M)'
<1>1. tree \in Seq(Node) /\ Shape(L) /\ Chain(L, roots, 1, N)
    BY DEF Drawn, Shape
<1>2. DOMAIN tree = 1..N
    BY <1>1, SeqIsList
<1>3. /\ L \in [1..N -> Nat \ {0}] /\ roots \in Seq(1..N)
      /\ \A n \in 1..N : /\ Arity(n) /\ tree[n].operands \in Seq(1..N)
                         /\ Chain(L, tree[n].operands, L[n], n - 1)
    BY <1>1, <1>2 DEF Shape
<1>4. PICK t, o, r : t = tree' /\ o = x.operands /\ r = roots'
    OBVIOUS
<1>5. /\ t \in Seq(Node) /\ Len(t) = N + 1 /\ t[N + 1] = x
      /\ \A n \in 1..N : t[n] = tree[n]
    <2>1. t = Append(tree, x)
        BY <1>4
    <2>2. /\ t \in Seq(Node) /\ Len(t) = Len(tree) + 1
          /\ \A n \in 1..Len(tree) : t[n] = tree[n]
          /\ t[Len(tree) + 1] = x
        BY <1>1, <2>1, Appended
    <2> QED
        BY <2>2
<1>6. DOMAIN t = 1..(N + 1)
    BY <1>5, SeqIsList
<1>7. PICK c : OpensAt(c, L, roots, left, m, N)
    BY DEF OpensAt
<1>9. c \in Nat \ {0}
    <2>2. CASE left < m
        <3>1. c = L[roots[left + 1]]
            BY <1>7, <2>2 DEF OpensAt
        <3>2. left + 1 \in 1..m
            BY <2>2
        <3>3. roots[left + 1] \in 1..N
            BY <1>3, <3>2, SeqIsList
        <3> QED
            BY <1>3, <3>1, <3>3
    <2>3. CASE ~(left < m)
        <3>1. c = N + 1
            BY <1>7, <2>3 DEF OpensAt
        <3> QED
            BY <3>1
    <2> QED
        BY <2>2, <2>3
<1>10. PICK M \in [1..(N + 1) -> Nat \ {0}] : GrownTo(M, L, N, c)
    BY <1>3, <1>9, GrownIs
<1>11. Chain(M, o, c, N) /\ Chain(M, r, 1, N + 1)
    <2>1. BackOf(o, roots, left, m) /\ OverOf(r, roots, left, N + 1)
        BY <1>4
    <2> QED
        BY <1>1, <1>3, <1>7, <1>10, <2>1, ChainOver
<1>12. ASSUME NEW n \in 1..(N + 1)
       PROVE  /\ Arity(n)'
              /\ t[n].operands \in Seq(1..(N + 1))
              /\ Chain(M, t[n].operands, M[n], n - 1)
    <2>1. CASE n \in 1..N
        <3>1. t[n] = tree[n] /\ M[n] = L[n]
            BY <1>5, <1>10, <2>1 DEF GrownTo
        <3>2. Chain(M, tree[n].operands, L[n], n - 1)
            BY <1>3, <1>10, <2>1, ChainStays
        <3>3. tree[n].operands \in Seq(1..(N + 1))
            <4>1. PICK s : s = tree[n].operands
                OBVIOUS
            <4>2. s \in Seq(1..N)
                BY <1>3, <2>1, <4>1
            <4> QED
                BY <4>1, <4>2, LongerSeq
        <3>4. Arity(n)'
            <4>1. Arity(n) /\ tree'[n] = tree[n]
                BY <1>3, <1>4, <2>1, <3>1
            <4> QED
                BY <4>1 DEF Arity, Kind
        <3> QED
            BY <3>1, <3>2, <3>3, <3>4
    <2>2. CASE n = N + 1
        <3>1. t[n] = x /\ M[n] = c /\ n - 1 = N
            BY <1>5, <1>10, <2>2 DEF GrownTo
        <3>2. Len(o) = m - left
            BY <1>4 DEF BackOf
        <3>3. Arity(n)'
            <4>1. tree'[n].kind = x.kind /\ Len(tree'[n].operands) = m - left
                BY <1>4, <3>1, <3>2
            <4> QED
                BY <4>1 DEF Arity, Kind, Suits
        <3>4. o \in Seq(1..(N + 1))
            BY <1>4, LongerSeq
        <3> QED
            BY <1>4, <1>11, <3>1, <3>3, <3>4
    <2> QED
        BY <2>1, <2>2
<1>13. Shape(M)'
    BY <1>4, <1>5, <1>6, <1>10, <1>12 DEF Shape
<1>14. Chain(M, roots', 1, Len(tree'))
    BY <1>4, <1>5, <1>11
<1> QED
    BY <1>4, <1>5, <1>6, <1>13, <1>14 DEF Drawn
-----------------------------------------------------------------------------
(* The steps of the parser. *)

KeptNumber(x) ==
    /\ x.written < 2^Precision => HasValue(x, x.written)
    /\ (\A d \in ToDouble[x.written] : d < 2^(Long - 1))
           => \E d \in ToDouble[x.written] : HasValue(x, d)

LiteralHeld(x) == x.kind = "literal" /\ x.suffix = "none" => KeptNumber(x)

LEMMA LiteralsStay ==
    ASSUME tree \in Seq(Node), LiteralKept, NEW x \in Node, LiteralHeld(x),
           tree' = Append(tree, x)
    PROVE  LiteralKept'
<1>1. PICK t, N : t = tree' /\ N = Len(tree)
    OBVIOUS
<1>2. /\ t \in Seq(Node) /\ Len(t) = N + 1 /\ t[N + 1] = x /\ N \in Nat
      /\ \A n \in 1..N : t[n] = tree[n]
    <2>1. /\ t \in Seq(Node) /\ Len(t) = Len(tree) + 1
          /\ \A n \in 1..Len(tree) : t[n] = tree[n]
          /\ t[Len(tree) + 1] = x
        BY <1>1, Appended
    <2>2. Len(tree) \in Nat
        BY SeqIsList
    <2> QED
        BY <1>1, <2>1, <2>2
<1>3. DOMAIN t = 1..(N + 1) /\ DOMAIN tree = 1..N
    BY <1>1, <1>2, SeqIsList
<1>4. \A n \in DOMAIN tree : LiteralHeld(tree[n])
    BY Zenon DEF LiteralKept, LiteralHeld, KeptNumber, Kind
<1>5. \A n \in DOMAIN t : LiteralHeld(t[n])
    <2>1. \A n \in DOMAIN t : n = N + 1 \/ n \in 1..N
        BY <1>2, <1>3
    <2> QED
        BY <1>2, <1>3, <1>4, <2>1
<1>6. \A n \in DOMAIN tree' : LiteralHeld(tree'[n])
    BY <1>1, <1>5
<1> QED
    BY <1>6, Zenon DEF LiteralKept, LiteralHeld, KeptNumber, Kind

\* What a step of the parser leaves.
Parsed == /\ tree \in Seq(Node) /\ roots \in Seq(DOMAIN tree)
          /\ \E L : Drawn(L)
          /\ LiteralKept

LEMMA TreeIs ==
    ASSUME Parsed
    PROVE  /\ Len(tree) \in Nat /\ DOMAIN tree = 1..Len(tree) /\ Len(roots) \in Nat
           /\ roots \in Seq(1..Len(tree)) /\ roots \in Seq(Nat)
           /\ \A i \in 1..Len(roots) : roots[i] \in 1..Len(tree)
<1>1. PICK N : N = Len(tree)
    OBVIOUS
<1>2. tree \in Seq(Node) /\ roots \in Seq(DOMAIN tree)
    BY DEF Parsed
<1>3. N \in Nat /\ DOMAIN tree = 1..N
    BY <1>1, <1>2, SeqIsList
<1>4. roots \in Seq(1..N)
    BY <1>2, <1>3
<1>5. Len(roots) \in Nat /\ \A i \in 1..Len(roots) : roots[i] \in 1..N
    BY <1>4, SeqIsList
<1>6. PICK k : k = Len(roots)
    OBVIOUS
<1>7. roots = [i \in 1..k |-> roots[i]]
    BY <1>4, <1>6
<1>8. roots \in [1..k -> Nat]
    <2>1. \A i \in 1..k : roots[i] \in Nat
        <3>1. \A j \in 1..N : j \in Nat
            BY <1>3
        <3> QED
            BY <1>5, <1>6, <3>1
    <2> QED
        BY <1>7, <2>1
<1>9. roots \in Seq(Nat)
    BY <1>5, <1>6, <1>8, ListIsSeq
<1> QED
    BY <1>1, <1>3, <1>4, <1>5, <1>9

\* What New is given.
Operator(kind, fn) == kind \in Kinds \ {"literal"} /\ fn \in Functions \cup {""}

LEMMA NewStep ==
    ASSUME Parsed, NEW kind, NEW fn, Operator(kind, fn), NEW k \in Nat, Suits(kind, k),
           New(kind, k, fn)
    PROVE  Parsed' /\ UNCHANGED <<code, status>>
<1>1. PICK N, m, left : N = Len(tree) /\ m = Len(roots) /\ left = m - k
    OBVIOUS
<1>2. PICK o, z : o = SubSeq(roots, left + 1, m) /\ z = SubSeq(roots, 1, left)
    OBVIOUS
<1>3. PICK x : x = [kind |-> kind, fn |-> fn, written |-> 0, value |-> 0, operands |-> o,
                    bits |-> 0, suffix |-> "none"]
    OBVIOUS
<1>4. /\ m >= k /\ tree' = Append(tree, x) /\ roots' = Append(z, N + 1)
      /\ UNCHANGED <<code, status>>
    BY <1>1, <1>2, <1>3 DEF New
<1>5. /\ N \in Nat /\ m \in Nat /\ DOMAIN tree = 1..N /\ roots \in Seq(1..N)
      /\ roots \in Seq(Nat) /\ tree \in Seq(Node)
    BY <1>1, TreeIs DEF Parsed
<1>6. left \in 0..m /\ m - left = k
    <2>1. left = m - k
        BY <1>1
    <2>2. m >= k
        BY <1>4
    <2>3. m \in Nat
        BY <1>5
    <2> QED
        BY <2>1, <2>2, <2>3
<1>7. o \in Seq(1..N) /\ BackOf(o, roots, left, m)
    BY <1>1, <1>2, <1>5, <1>6, BackIs
<1>8. o \in Seq(Nat)
    BY <1>1, <1>2, <1>5, <1>6, BackIs
<1>9. x.kind = kind /\ x.operands = o
    BY <1>3
<1>10. x \in Node
    BY <1>3, <1>8 DEF Node, Letters, Operator
<1>11. roots' \in Seq(1..(N + 1)) /\ OverOf(roots', roots, left, N + 1)
    BY <1>1, <1>2, <1>4, <1>5, <1>6, OverIs
<1>12. PICK L : Drawn(L)
    BY DEF Parsed
<1>13. Suits(x.kind, m - left) /\ x.operands \in Seq(1..N)
       /\ BackOf(x.operands, roots, left, m)
    BY <1>6, <1>7, <1>9
<1>14. tree' \in Seq(Node) /\ roots' \in Seq(DOMAIN tree') /\ \E M : Drawn(M)'
    <2>1. roots \in Seq(DOMAIN tree)
        BY DEF Parsed
    <2> QED
        BY <1>1, <1>4, <1>5, <1>6, <1>10, <1>11, <1>12, <1>13, <2>1, NodeAdded
<1>15. LiteralKept'
    <2>1. LiteralHeld(x)
        BY <1>9 DEF LiteralHeld, Operator
    <2> QED
        BY <1>4, <1>5, <1>10, <2>1, LiteralsStay DEF Parsed
<1> QED
    BY <1>4, <1>14, <1>15 DEF Parsed

LEMMA ParsedStays ==
    ASSUME Parsed, UNCHANGED <<tree, roots>>
    PROVE  Parsed'
<1>1. PICK L : Drawn(L)
    BY DEF Parsed
<1>2. Drawn(L)'
    <2>1. Shape(L)'
        BY <1>1, ShapeStays DEF Drawn
    <2> QED
        BY <1>1, <2>1 DEF Drawn
<1>3. LiteralKept'
    BY Zenon DEF Parsed, LiteralKept, HasValue, Kind
<1>4. tree' \in Seq(Node) /\ roots' \in Seq(DOMAIN tree')
    BY DEF Parsed
<1> QED
    BY <1>2, <1>3, <1>4 DEF Parsed

\* What is written has a nearest double, itself if it has no more than the bits that a
\* double holds.
LEMMA DoublesAre ==
    ASSUME NEW v \in Values, NEW d \in ToDouble[v]
    PROVE  v \in Nat /\ d \in Nat /\ (v < 2^Precision => d = v)
<1>1. v \in Nat
    BY OperandsAssumption DEF OperandsAssumption
<1>2. d \in 0..(2 * v) /\ \A c \in 0..(2 * v) : IsDouble(c) => Distance(d, v) <= Distance(c, v)
    BY DEF ToDouble
<1>3. ASSUME v < 2^Precision
      PROVE  d = v
    <2>1. IsDouble(v)
        BY <1>3 DEF IsDouble
    <2>2. v \in 0..(2 * v)
        BY <1>1
    <2>3. Distance(d, v) <= Distance(v, v)
        BY <1>2, <2>1, <2>2
    <2> QED
        BY <1>1, <1>2, <2>3 DEF Distance
<1> QED
    BY <1>1, <1>2, <1>3

LEMMA StoredIs ==
    ASSUME NEW d \in Nat, NEW suffix, NEW value \in StoredNumber(d, suffix)
    PROVE  value \in Nat /\ (d < 2^(Long - 1) => value = d)
<1>1. PICK a, b : a = 2^Long /\ b = 2^(Long - 1)
    OBVIOUS
<1>2. a \in Nat /\ b \in Nat /\ b < a
    BY <1>1, OperandsAssumption DEF OperandsAssumption
<1>3. value \in IF suffix = "f" THEN {d} ELSE IF d < a THEN {d} ELSE 0..(a - 1)
    BY <1>1 DEF StoredNumber, ToUnsigned
<1>4. CASE suffix = "f" \/ d < a
    BY <1>1, <1>2, <1>3, <1>4
<1>5. CASE suffix # "f" /\ ~(d < a)
    <2>1. value \in 0..(a - 1) /\ ~(d < b)
        BY <1>2, <1>3, <1>5
    <2> QED
        BY <1>1, <1>2, <2>1
<1> QED
    BY <1>4, <1>5

\* A default length keeps the number, if an i64 does.
LEMMA DefaultKeeps ==
    ASSUME NEW d \in Nat, NEW bits, bits = DefaultBits(d), d < 2^(Long - 1)
    PROVE  d < 2^(bits - 1)
<1>1. PICK a, b : a = 2^(Short - 1) /\ b = 2^(Long - 1)
    OBVIOUS
<1>2. a \in Nat /\ b \in Nat
    BY <1>1, OperandsAssumption DEF OperandsAssumption
<1>3. bits = IF d > a - 1 THEN Long ELSE Short
    BY <1>1 DEF DefaultBits
<1>4. CASE d > a - 1
    BY <1>3, <1>4
<1>5. CASE ~(d > a - 1)
    <2>1. bits = Short /\ d < a
        BY <1>2, <1>3, <1>5
    <2> QED
        BY <1>1, <2>1
<1> QED
    BY <1>4, <1>5

\* A number that i64 has as a double is stored as that.
LEMMA DefaultHolds ==
    ASSUME NEW x, NEW v \in Values, x.written = v,
           NEW d \in ToDouble[v], NEW suffix, x.value \in StoredNumber(d, suffix),
           x.bits = DefaultBits(d)
    PROVE  KeptNumber(x)
<1>1. v \in Nat /\ d \in Nat /\ (v < 2^Precision => d = v)
    BY DoublesAre
<1>2. ASSUME d < 2^(Long - 1)
      PROVE  HasValue(x, d)
    <2>1. x.value = d
        BY <1>1, <1>2, StoredIs
    <2>2. d < 2^(x.bits - 1)
        BY <1>1, <1>2, DefaultKeeps
    <2> QED
        BY <2>1, <2>2 DEF HasValue
<1>3. ASSUME v < 2^Precision
      PROVE  HasValue(x, v)
    <2>1. d = v
        BY <1>1, <1>3
    <2>2. PICK a, b : a = 2^Precision /\ b = 2^(Long - 1)
        OBVIOUS
    <2>3. a \in Nat /\ b \in Nat /\ a <= b
        BY <2>2, OperandsAssumption DEF OperandsAssumption
    <2>4. v < b
        BY <1>1, <1>3, <2>2, <2>3
    <2> QED
        BY <1>2, <2>1, <2>2, <2>4
<1> QED
    BY <1>2, <1>3, Zenon DEF KeptNumber

LEMMA NumberIs ==
    ASSUME NEW v \in Values, NEW contains_dp \in BOOLEAN, NEW s \in Modifiers,
           NEW d \in ToDouble[v], NEW bits \in LiteralBits(d, contains_dp, s),
           NEW suffix, suffix = SuffixOf(contains_dp, s),
           NEW value \in StoredNumber(d, suffix), NEW x, x = Number(v, value, bits, suffix)
    PROVE  x \in Node /\ LiteralHeld(x)
<1>1. v \in Nat /\ s.letter \in Letters /\ value \in Nat
    <2>1. d \in Nat
        BY DoublesAre
    <2>2. value \in Nat
        BY <2>1, StoredIs
    <2> QED
        BY <2>2, OperandsAssumption DEF OperandsAssumption
<1>2. suffix \in Letters
    BY <1>1 DEF Letters, SuffixOf
<1>3. bits \in {0} \cup IntBits \cup FloatBits
    <2>1. {Long, Short} \subseteq IntBits
        BY OperandsAssumption DEF OperandsAssumption
    <2>2. CASE s.letter = "none"
        <3>1. bits \in {Long, Short}
            BY <2>2, Zenon DEF LiteralBits, DefaultBits
        <3> QED
            BY <2>1, <3>1
    <2>3. CASE s.letter \in {"u", "i"}
        <3>1. s.letter # "none"
            BY <2>3
        <3>2. LiteralBits(d, contains_dp, s) = IntBits \cap {s.len}
            BY <2>3, <3>1 DEF LiteralBits
        <3> QED
            BY <3>2
    <2>4. CASE s.letter = "f"
        <3>1. LiteralBits(d, contains_dp, s) = FloatBits \cap {s.len}
            BY <2>4 DEF LiteralBits
        <3> QED
            BY <3>1
    <2>5. CASE s.letter = "other"
        <3>1. LiteralBits(d, contains_dp, s) = {}
            BY <2>5 DEF LiteralBits
        <3> QED
            BY <3>1
    <2> QED
        BY <1>1, <2>2, <2>3, <2>4, <2>5 DEF Letters
<1>4. x \in Node
    <2>1. <<>> \in Seq(Nat)
        OBVIOUS
    <2> QED
        BY <1>1, <1>2, <1>3, <2>1 DEF Number, Node, Kinds
<1>5. x.suffix = suffix /\ x.written = v /\ x.value = value /\ x.bits = bits
    BY DEF Number
<1>6. ASSUME suffix = "none"
      PROVE  KeptNumber(x)
    <2>1. s.letter = "none" /\ ~contains_dp
        BY <1>6 DEF SuffixOf
    <2>2. LiteralBits(d, contains_dp, s) = {DefaultBits(d)}
        BY <2>1 DEF LiteralBits
    <2>3. bits = DefaultBits(d)
        BY <2>2
    <2> QED
        BY <1>5, <2>3, DefaultHolds
<1>7. LiteralHeld(x)
    BY <1>5, <1>6 DEF LiteralHeld
<1> QED
    BY <1>4, <1>7

LEMMA NumberStep ==
    ASSUME Parsed, NEW x \in Node, LiteralHeld(x), x.kind = "literal", x.operands = <<>>,
           tree' = Append(tree, x), roots' = Append(roots, Len(tree) + 1)
    PROVE  Parsed'
<1>1. PICK N, m : N = Len(tree) /\ m = Len(roots)
    OBVIOUS
<1>2. /\ N \in Nat /\ m \in Nat /\ DOMAIN tree = 1..N /\ roots \in Seq(1..N)
      /\ tree \in Seq(Node) /\ roots \in Seq(DOMAIN tree)
    BY <1>1, TreeIs DEF Parsed
<1>3. m \in 0..m /\ m - m = 0
    BY <1>2
<1>4. SubSeq(roots, 1, m) = roots
    BY <1>1, <1>2
<1>5. roots' \in Seq(1..(N + 1)) /\ OverOf(roots', roots, m, N + 1)
    <2>1. PICK z, e : z = SubSeq(roots, 1, m) /\ e = N + 1
        OBVIOUS
    <2>2. roots' = Append(z, e)
        BY <1>1, <1>4, <2>1
    <2>3. PICK r : r = roots'
        OBVIOUS
    <2>4. /\ N \in Nat /\ m \in Nat /\ roots \in Seq(1..N) /\ m \in 0..m
          /\ m = Len(roots)
        BY <1>1, <1>2, <1>3
    <2>5. r = Append(z, e)
        BY <2>2, <2>3
    <2>6. r \in Seq(1..(N + 1)) /\ OverOf(r, roots, m, N + 1)
        BY <2>1, <2>4, <2>5, OverIs
    <2> QED
        BY <2>3, <2>6
<1>6. x.operands \in Seq(1..N) /\ BackOf(x.operands, roots, m, m)
    <2>1. PICK o : o = x.operands
        OBVIOUS
    <2>2. o = <<>> /\ o \in Seq(1..N) /\ Len(o) = 0
        BY <2>1
    <2>3. BackOf(o, roots, m, m)
        BY <1>3, <2>2 DEF BackOf
    <2> QED
        BY <2>1, <2>2, <2>3
<1>7. Suits(x.kind, m - m)
    BY <1>3 DEF Suits
<1>8. PICK L : Drawn(L)
    BY DEF Parsed
<1>9. tree' \in Seq(Node) /\ roots' \in Seq(DOMAIN tree') /\ \E M : Drawn(M)'
    BY <1>1, <1>2, <1>3, <1>5, <1>6, <1>7, <1>8, NodeAdded
<1>10. LiteralKept'
    BY <1>2, LiteralsStay DEF Parsed
<1> QED
    BY <1>9, <1>10 DEF Parsed

LEMMA LiteralStep ==
    ASSUME Parsed, NumericLiteral
    PROVE  Parsed' /\ code' = code /\ status' \in {status, "rejected"}
<1>1. PICK v \in Values, contains_dp \in BOOLEAN, s \in Modifiers :
         \E d \in ToDouble[v] :
             \/ status' = "rejected" /\ UNCHANGED <<tree, roots, code>>
             \/ /\ \E bits \in LiteralBits(d, contains_dp, s),
                      value \in StoredNumber(d, SuffixOf(contains_dp, s)) :
                      tree' = Append(tree, Number(v, value, bits, SuffixOf(contains_dp, s)))
                /\ roots' = Append(roots, Len(tree) + 1)
                /\ UNCHANGED <<code, status>>
    BY Zenon DEF NumericLiteral
<1>2. CASE status' = "rejected" /\ UNCHANGED <<tree, roots, code>>
    BY <1>2, ParsedStays
<1>3. CASE \E d \in ToDouble[v] :
             /\ \E bits \in LiteralBits(d, contains_dp, s),
                   value \in StoredNumber(d, SuffixOf(contains_dp, s)) :
                   tree' = Append(tree, Number(v, value, bits, SuffixOf(contains_dp, s)))
             /\ roots' = Append(roots, Len(tree) + 1)
             /\ UNCHANGED <<code, status>>
    <2>1. PICK suffix : suffix = SuffixOf(contains_dp, s)
        OBVIOUS
    <2>2. PICK d \in ToDouble[v] :
             /\ \E bits \in LiteralBits(d, contains_dp, s), value \in StoredNumber(d, suffix) :
                   tree' = Append(tree, Number(v, value, bits, suffix))
             /\ roots' = Append(roots, Len(tree) + 1)
             /\ UNCHANGED <<code, status>>
        BY <1>3, <2>1
    <2>3. PICK bits \in LiteralBits(d, contains_dp, s), value \in StoredNumber(d, suffix) :
             tree' = Append(tree, Number(v, value, bits, suffix))
        BY <2>2
    <2>4. PICK x : x = Number(v, value, bits, suffix)
        OBVIOUS
    <2>5. x \in Node /\ LiteralHeld(x)
        BY <2>1, <2>4, NumberIs
    <2>6. x.kind = "literal" /\ x.operands = <<>>
        BY <2>4 DEF Number
    <2>7. Parsed'
        BY <2>2, <2>3, <2>4, <2>5, <2>6, NumberStep
    <2> QED
        BY <2>2, <2>7
<1> QED
    BY <1>1, <1>2, <1>3
-----------------------------------------------------------------------------
(* The invariant *)

Statuses == {"parsing", "rejected", "generated", "throws", "undefined"}
Unmade   == {"parsing", "rejected"}

\* The code is that of a piece in which every node runs.
Made(L, p) == /\ Shape(L) /\ Runs(p, L, 1, Len(tree), 1, 1, Len(tree))
              /\ code = p.code
              /\ status = "generated" => Passes(p)
              /\ status = "undefined" => Undefined(p)

IInv == /\ Parsed
        /\ status \in Statuses
        /\ status \in Unmade => code = <<>>
        /\ status \notin Unmade => \E L, p : Made(L, p)

LEMMA GenerateStep ==
    ASSUME Parsed, Generate
    PROVE  IInv'
<1>1. PICK L, N, r : Drawn(L) /\ N = Len(tree) /\ r = roots[1]
    BY DEF Parsed
<1>2. PICK p : p = Gen[<<"value", r>>]
    OBVIOUS
<1>3. /\ Len(roots) = 1 /\ UNCHANGED <<tree, roots>> /\ code' = p.code
      /\ status' = IF p.fails = "" THEN "generated" ELSE p.fails
    BY <1>1, <1>2 DEF Generate
<1>4. Parsed'
    BY <1>3, ParsedStays
<1>5. N \in Nat /\ r \in DOMAIN tree
    <2>1. Len(roots) = 1
        BY <1>3
    <2>2. 1 \in 1..Len(roots)
        BY <2>1
    <2>3. Len(tree) \in Nat /\ roots[1] \in 1..Len(tree) /\ DOMAIN tree = 1..Len(tree)
        BY <2>2, TreeIs
    <2> QED
        BY <1>1, <2>3
<1>6. L[r] = 1 /\ r = N
    <2>1. Len(roots) = 1
        BY <1>3
    <2>2. Chain(L, roots, 1, N)
        BY <1>1 DEF Drawn
    <2>3. Len(roots) > 0 => L[roots[1]] = 1 /\ roots[Len(roots)] = N
        BY <2>2 DEF Chain
    <2>4. L[roots[1]] = 1 /\ roots[1] = N
        BY <2>1, <2>3
    <2> QED
        BY <1>1, <2>4
<1>7. Shape(L)
    BY <1>1 DEF Drawn
<1>8. Runs(p, L, 1, N, 1, 1, N)
    <2>1. Good(Gen, L, r)
        BY <1>5, <1>7, AllGood
    <2>2. Runs(Gen[<<"value", r>>], L, L[r], r, 1, L[r], r)
        BY <2>1 DEF Good
    <2>3. Runs(p, L, L[r], r, 1, L[r], r)
        BY <1>2, <2>2
    <2> QED
        BY <1>6, <2>3
<1>9. Shape(L)' /\ Runs(p, L, 1, N, 1, 1, N)'
    BY <1>3, <1>7, <1>8, ShapeStays, RunsStay
<1>10. p.fails \in Ends
    <2>1. Plain(p, L, 1, N, 1)
        BY <1>8 DEF Runs
    <2>2. p \in Piece
        BY <2>1 DEF Plain
    <2> QED
        BY <2>2, PieceIs
<1>11. /\ status' \in Statuses /\ status' \notin Unmade
       /\ status' = "generated" => Passes(p)
       /\ status' = "undefined" => Undefined(p)
    BY <1>3, <1>10 DEF Ends, Statuses, Unmade, Passes, Undefined
<1>12. Made(L, p)'
    <2>1. Len(tree') = N
        BY <1>1, <1>3
    <2>2. Runs(p, L, 1, Len(tree), 1, 1, Len(tree))'
        BY <1>9, <2>1
    <2> QED
        BY <1>3, <1>9, <1>11, <2>2 DEF Made
<1> QED
    BY <1>4, <1>11, <1>12 DEF IInv

LEMMA MadeStays ==
    ASSUME UNCHANGED vars, NEW L, NEW p, Made(L, p)
    PROVE  Made(L, p)'
<1>1. tree' = tree /\ code' = code /\ status' = status
    BY DEF vars
<1>2. PICK N : N = Len(tree)
    OBVIOUS
<1>3. Shape(L) /\ Runs(p, L, 1, N, 1, 1, N)
    BY <1>2 DEF Made
<1>4. Shape(L)' /\ Runs(p, L, 1, N, 1, 1, N)'
    BY <1>1, <1>3, ShapeStays, RunsStay
<1>5. Len(tree') = N
    BY <1>1, <1>2
<1>6. Runs(p, L, 1, Len(tree), 1, 1, Len(tree))'
    BY <1>4, <1>5
<1> QED
    BY <1>1, <1>4, <1>6 DEF Made

\* A step of the parser that adds a node.
LEMMA NodeStep ==
    ASSUME Parsed, Variable \/ Function \/ Prefix \/ Binary \/ Assignment \/ Dot \/ Call
    PROVE  Parsed' /\ UNCHANGED <<code, status>>
<1>1. \A f \in Functions : f \in Functions \cup {""}
    OBVIOUS
<1>2. "" \in Functions \cup {""}
    OBVIOUS
<1>3. CASE Variable
    <2>1. New("variable", 0, "")
        BY <1>3 DEF Variable
    <2>2. Operator("variable", "") /\ Suits("variable", 0) /\ 0 \in Nat
        BY DEF Operator, Suits, Kinds
    <2> QED
        BY <2>1, <2>2, NewStep
<1>4. CASE Function
    <2>1. PICK f \in Functions : New("function", 0, f)
        BY <1>4 DEF Function
    <2>2. Operator("function", f) /\ Suits("function", 0) /\ 0 \in Nat
        BY DEF Operator, Suits, Kinds
    <2> QED
        BY <2>1, <2>2, NewStep
<1>5. CASE Prefix
    <2>1. PICK op \in {"star", "ampersand", "let"} : New(op, 1, "")
        BY <1>5 DEF Prefix
    <2>2. Operator(op, "") /\ Suits(op, 1) /\ 1 \in Nat
        BY DEF Operator, Suits, Kinds
    <2> QED
        BY <2>1, <2>2, NewStep
<1>6. CASE Binary
    <2>1. PICK op \in {"plus", "subscript"} : New(op, 2, "")
        BY <1>6 DEF Binary
    <2>2. Operator(op, "") /\ Suits(op, 2) /\ 2 \in Nat
        BY DEF Operator, Suits, Kinds
    <2> QED
        BY <2>1, <2>2, NewStep
<1>7. CASE Assignment
    <2>1. New("assign", 2, "")
        BY <1>7 DEF Assignment
    <2>2. Operator("assign", "") /\ Suits("assign", 2) /\ 2 \in Nat
        BY DEF Operator, Suits, Kinds
    <2> QED
        BY <2>1, <2>2, NewStep
<1>8. CASE Dot
    <2>1. New("dot", 1, "") \/ \E f \in Functions : New("method", 1, f)
        BY <1>8 DEF Dot
    <2>2. CASE New("dot", 1, "")
        <3>1. Operator("dot", "") /\ Suits("dot", 1) /\ 1 \in Nat
            BY DEF Operator, Suits, Kinds
        <3> QED
            BY <2>2, <3>1, NewStep
    <2>3. CASE \E f \in Functions : New("method", 1, f)
        <3>1. PICK f \in Functions : New("method", 1, f)
            BY <2>3
        <3>2. Operator("method", f) /\ Suits("method", 1) /\ 1 \in Nat
            BY DEF Operator, Suits, Kinds
        <3> QED
            BY <3>1, <3>2, NewStep
    <2> QED
        BY <2>1, <2>2, <2>3
<1>9. CASE Call
    <2>1. PICK k \in 0..MaxArgs : /\ Len(roots) > k
                                  /\ New("call", k + 1, tree[Youngest(k + 1)].fn)
        BY <1>9 DEF Call
    <2>2. k \in Nat /\ k + 1 \in Nat /\ k + 1 > 0
        BY OperandsAssumption DEF OperandsAssumption
    <2>3. tree[Youngest(k + 1)].fn \in Functions \cup {""}
        <3>1. PICK m, j : m = Len(roots) /\ j = m - (k + 1) + 1
            OBVIOUS
        <3>2. m \in Nat /\ m > k
            BY <2>1, <3>1, TreeIs
        <3>3. j \in 1..m
            BY <2>2, <3>1, <3>2
        <3>4. PICK r : r = roots[j]
            OBVIOUS
        <3>5. r \in DOMAIN tree
            BY <3>1, <3>3, <3>4, TreeIs
        <3>6. tree[r] \in Node
            <4>1. tree \in Seq(Node)
                BY DEF Parsed
            <4> QED
                BY <3>5, <4>1, SeqIsList
        <3>7. tree[r].fn \in Functions \cup {""}
            BY <3>6 DEF Node
        <3>8. Youngest(k + 1) = r
            BY <3>1, <3>4 DEF Youngest
        <3> QED
            BY <3>7, <3>8
    <2>4. PICK f, i : f = tree[Youngest(k + 1)].fn /\ i = k + 1
        OBVIOUS
    <2>5. Operator("call", f)
        BY <2>3, <2>4 DEF Operator, Kinds
    <2>6. Suits("call", i) /\ i \in Nat
        BY <2>2, <2>4 DEF Suits
    <2>7. New("call", i, f)
        BY <2>1, <2>4
    <2> QED
        BY <2>5, <2>6, <2>7, NewStep
<1> QED
    BY <1>3, <1>4, <1>5, <1>6, <1>7, <1>8, <1>9

LEMMA Begins ==
    ASSUME Init
    PROVE  IInv
<1>1. tree = <<>> /\ roots = <<>> /\ code = <<>> /\ status = "parsing"
    BY DEF Init
<1>2. PICK L : L = [n \in DOMAIN tree |-> 1]
    OBVIOUS
<1>3. tree \in Seq(Node) /\ Len(tree) = 0 /\ DOMAIN tree = {}
    BY <1>1
<1>4. roots \in Seq(DOMAIN tree) /\ Len(roots) = 0
    BY <1>1
<1>5. L \in [DOMAIN tree -> Nat \ {0}]
    BY <1>2
<1>6. Shape(L)
    BY <1>3, <1>5 DEF Shape
<1>7. Chain(L, roots, 1, 0)
    BY <1>4 DEF Chain
<1>8. Drawn(L)
    BY <1>3, <1>6, <1>7 DEF Drawn
<1>9. LiteralKept
    BY <1>3 DEF LiteralKept
<1>10. Parsed
    BY <1>3, <1>4, <1>8, <1>9 DEF Parsed
<1> QED
    BY <1>1, <1>10 DEF IInv, Statuses, Unmade

\* The invariant: the nodes under the roots follow one another, and the code is that
\* of a piece in which every node runs (pratt_parser.cpp, pratt_parser.hpp,
\* numeric_literal.hpp).
THEOREM Invariant == Spec => []IInv
<1>1. Init => IInv
    BY Begins
<1>2. ASSUME IInv, [Next]_vars
      PROVE  IInv'
    <2>1. Parsed /\ status \in Statuses
        BY <1>2 DEF IInv
    <2>2. CASE Variable \/ Function \/ Prefix \/ Binary \/ Assignment \/ Dot \/ Call
        <3>1. Parsed' /\ UNCHANGED <<code, status>>
            BY <2>1, <2>2, NodeStep
        <3>2. status = "parsing"
            BY <2>2 DEF Variable, Function, Prefix, Binary, Assignment, Dot, Call, New, Parsing
        <3>3. status \in Unmade /\ code = <<>>
            BY <1>2, <3>2 DEF IInv, Unmade
        <3> QED
            BY <2>1, <3>1, <3>3 DEF IInv
    <2>3. CASE NumericLiteral
        <3>1. Parsed' /\ code' = code /\ status' \in {status, "rejected"}
            BY <2>1, <2>3, LiteralStep
        <3>2. status = "parsing"
            BY <2>3 DEF NumericLiteral, Parsing
        <3>3. status' \in Unmade /\ status' \in Statuses
            BY <3>1, <3>2 DEF Unmade, Statuses
        <3>4. code = <<>>
            BY <1>2, <3>2 DEF IInv, Unmade
        <3> QED
            BY <3>1, <3>3, <3>4 DEF IInv
    <2>4. CASE Generate
        BY <2>1, <2>4, GenerateStep
    <2>5. CASE UNCHANGED vars
        <3>1. /\ tree' = tree /\ roots' = roots /\ code' = code /\ status' = status
            BY <2>5 DEF vars
        <3>2. Parsed'
            BY <2>1, <3>1, ParsedStays
        <3>3. status \notin Unmade => \E L, p : Made(L, p)'
            BY <1>2, <2>5, MadeStays DEF IInv
        <3>4. status \in Unmade => code = <<>>
            BY <1>2 DEF IInv
        <3> QED
            BY <2>1, <3>1, <3>2, <3>3, <3>4 DEF IInv
    <2> QED
        BY <1>2, <2>2, <2>3, <2>4, <2>5 DEF Next
<1> QED
    BY <1>1, <1>2, PTL DEF Spec
-----------------------------------------------------------------------------
(* What the invariant says of the code. *)

LEMMA MadeIs ==
    ASSUME NEW L, NEW p, Made(L, p)
    PROVE  /\ Plain(p, L, 1, Len(tree), 1) /\ code = p.code /\ p \in Piece
           /\ code \in Seq(Inst) /\ Len(code) \in Nat /\ DOMAIN code = 1..Len(code)
           /\ Len(tree) \in Nat /\ DOMAIN tree = 1..Len(tree)
           /\ \A i \in 1..Len(code) : code[i].node \in DOMAIN tree /\ Fine(code, i, L)
<1>1. Plain(p, L, 1, Len(tree), 1) /\ code = p.code
    BY DEF Made, Runs
<1>2. p \in Piece
    BY <1>1 DEF Plain
<1>3. code \in Seq(Inst)
    BY <1>1, <1>2, PieceIs
<1>4. Len(code) \in Nat /\ DOMAIN code = 1..Len(code)
    BY <1>3, SeqIsList
<1>5. tree \in Seq(Node)
    BY DEF Made, Shape
<1>6. Len(tree) \in Nat /\ DOMAIN tree = 1..Len(tree)
    BY <1>5, SeqIsList
<1>7. \A i \in 1..Len(code) : code[i].node \in 1..Len(tree) /\ Fine(code, i, L)
    BY <1>1 DEF Plain
<1> QED
    BY <1>1, <1>2, <1>3, <1>4, <1>6, <1>7

\* The variables have their types: whatever the parser builds, Gen is a piece of code
\* (pratt_parser.cpp, pratt_parser.hpp).
THEOREM TypeCorrect == Spec => []TypeOK
<1>1. ASSUME IInv
      PROVE  TypeOK
    <2>1. tree \in Seq(Node) /\ roots \in Seq(DOMAIN tree) /\ status \in Statuses
        BY <1>1 DEF IInv, Parsed
    <2>2. code \in Seq(Inst)
        <3>1. CASE status \in Unmade
            <4>1. code = <<>>
                BY <1>1, <3>1 DEF IInv
            <4> QED
                BY <4>1
        <3>2. CASE status \notin Unmade
            <4>1. PICK L, p : Made(L, p)
                BY <1>1, <3>2 DEF IInv
            <4> QED
                BY <4>1, MadeIs
        <3> QED
            BY <3>1, <3>2
    <2> QED
        BY <2>1, <2>2 DEF TypeOK, Statuses
<1> QED
    BY <1>1, Invariant, PTL

\* A number without a suffix keeps its value below 2^53, and is the nearest double if
\* i64 has that (numeric_literal.hpp:64-74, parsing.cpp:128).
THEOREM NumbersKept == Spec => []LiteralKept
<1>1. IInv => LiteralKept
    BY DEF IInv, Parsed
<1> QED
    BY <1>1, Invariant, PTL

\* The hidden argument of a variadic call is right, or an argument is missing
\* (pratt_parser.cpp:493-497).
THEOREM ArgumentsCounted == Spec => []VariadicCount
<1>1. ASSUME IInv
      PROVE  CountTells
    <2>1. ASSUME NEW i \in DOMAIN code
          PROVE  Counted(code[i])
        <3>1. status \notin Unmade
            BY <1>1, <2>1 DEF IInv
        <3>2. PICK L, p : Made(L, p)
            BY <1>1, <3>1 DEF IInv
        <3>3. Fine(code, i, L)
            BY <2>1, <3>2, MadeIs
        <3> QED
            BY <3>3 DEF Fine
    <2> QED
        BY <2>1 DEF CountTells, Counted, CountedFor
<1>2. ASSUME IInv, status = "undefined"
      PROVE  Missing
    <2>1. status \notin Unmade
        BY <1>2 DEF Unmade
    <2>2. PICK L, p : Made(L, p)
        BY <1>2, <2>1 DEF IInv
    <2>3. Undefined(p) /\ Plain(p, L, 1, Len(tree), 1)
        BY <1>2, <2>2, MadeIs DEF Made
    <2> QED
        BY <2>3 DEF Plain
<1>3. ASSUME IInv, status = "generated", Missing
      PROVE  FALSE
    <2>1. status \notin Unmade
        BY <1>3 DEF Unmade
    <2>2. PICK L, p : Made(L, p)
        BY <1>3, <2>1 DEF IInv
    <2>3. Enough(1, Len(tree))
        BY <1>3, <2>2 DEF Made, Runs
    <2>4. PICK n \in CallNodes : IsVariadic(tree[n].fn) /\ Given(n) < Parameters[tree[n].fn]
        BY <1>3 DEF Missing
    <2>5. n \in 1..Len(tree)
        <3>1. n \in DOMAIN tree
            BY DEF CallNodes
        <3> QED
            BY <2>2, <3>1, MadeIs
    <2> QED
        BY <2>3, <2>4, <2>5 DEF Enough
<1>4. IInv => UndefinedIfMissing
    BY <1>2, <1>3 DEF UndefinedIfMissing, Missing, Generated
<1> QED
    BY <1>1, <1>4, Invariant, PTL DEF VariadicCount

\* No instruction uses the value of a later one.
LEMMA MadeBackward ==
    ASSUME NEW L, NEW p, Made(L, p)
    PROVE  Backward
<1>1. ASSUME NEW j \in 1..Len(code), NEW x, UsedBy(x, j)
      PROVE  x \in 1..(j - 1)
    <2>1. PICK i : i = code[j]
        OBVIOUS
    <2>2. i \in Inst /\ Fine(code, j, L)
        <3>1. code \in Seq(Inst)
            BY MadeIs
        <3> QED
            BY <2>1, <3>1, SeqIsList, MadeIs
    <2>3. PICK u \in 1..Len(i.uses) : x # 0 /\ i.uses[u].at = x
        BY <1>1, <2>1 DEF UsedBy
    <2>4. i.uses[u].at \in Nat
        BY <2>2, <2>3, InstIs
    <2>5. i.uses[u].at < j
        BY <2>1, <2>2, <2>3 DEF Fine
    <2> QED
        BY <2>3, <2>4, <2>5
<1> QED
    BY <1>1 DEF Backward

\* Whatever is needed after `cut`, by an instruction before s, comes after it.
LEMMA CutNeeds ==
    ASSUME NEW L, NEW p, Made(L, p), NEW s \in 1..Len(code), NEW l, NEW r, NEW cut \in Nat,
           Cuts(code, s, l, r, L, cut), NEW i \in 1..Len(code), cut < i, i < s,
           NEW x \in Needs[i]
    PROVE  x \in Nat /\ cut < x
<1>1. code \in Seq(Inst) /\ Len(code) \in Nat /\ Backward
    BY MadeIs, MadeBackward
<1>2. PICK e : e = s - 1
    OBVIOUS
<1>3. e \in Nat /\ e <= Len(code) /\ i \in 1..e
    BY <1>1, <1>2
<1>4. ASSUME NEW j \in 1..e, cut < j, NEW y, UsedBy(y, j)
      PROVE  cut < y
    <2>1. PICK u \in 1..Len(code[j].uses) : y # 0 /\ code[j].uses[u].at = y
        BY <1>4 DEF UsedBy
    <2>2. j \in 1..s /\ j < s
        BY <1>2, <1>3
    <2>3. code[j].uses[u].at = 0 \/ cut < code[j].uses[u].at
        BY <1>4, <2>1, <2>2 DEF Cuts
    <2> QED
        BY <2>1, <2>3
<1> QED
    BY <1>1, <1>3, <1>4, NeedsAfter

\* An assignment stores the value of its right side, and finds the address after it
\* (pratt_parser.cpp:402-404).
THEOREM AddressFoundLast == Spec => []AddressAfterValue
<1>1. ASSUME IInv, status = "generated", NEW s \in DOMAIN code,
             Kind(code[s].node) = "assign",
             NEW value, value = code[s].uses[1].at, NEW place, place = code[s].uses[2].at,
             NEW sides, sides = tree[code[s].node].operands
      PROVE  /\ value # 0 => code[value].node \in Subtree[sides[2]]
             /\ place # 0 => /\ code[place].node \in Subtree[sides[1]]
                             /\ \A i \in Needs[place] : value < i
    <2>1. status \notin Unmade
        BY <1>1 DEF Unmade
    <2>2. PICK L, p : Made(L, p)
        BY <1>1, <2>1 DEF IInv
    <2>3. PICK n, l, r : n = code[s].node /\ l = sides[1] /\ r = sides[2]
        OBVIOUS
    <2>4. /\ code \in Seq(Inst) /\ s \in 1..Len(code) /\ n \in DOMAIN tree
          /\ Fine(code, s, L) /\ Len(code) \in Nat
        BY <1>1, <2>2, <2>3, MadeIs
    <2>5. Shape(L)
        BY <2>2 DEF Made
    <2>6. Len(tree[n].operands) = 2
        BY <1>1, <2>3, <2>4, <2>5 DEF Shape, Arity
    <2>7. l \in DOMAIN tree /\ r \in DOMAIN tree
        <3>1. 1 \in 1..Len(tree[n].operands) /\ 2 \in 1..Len(tree[n].operands)
            BY <2>6
        <3> QED
            BY <1>1, <2>3, <2>4, <2>5, <3>1, OperandIs
    <2>8. Subtree[l] = L[l]..l /\ Subtree[r] = L[r]..r
        BY <2>5, <2>7, SubtreeMeans
    <2>9. PICK cut \in Nat : Cuts(code, s, l, r, L, cut)
        <3>1. Stores(code, s, l, r, L)
            BY <1>1, <2>3, <2>4 DEF Fine
        <3> QED
            BY <3>1 DEF Stores
    <2>10. /\ Len(code[s].uses) >= 2 /\ value <= cut
           /\ value # 0 => code[value].node \in L[r]..r
           /\ place # 0 => cut < place /\ place < s /\ code[place].node \in L[l]..l
        BY <1>1, <2>9 DEF Cuts
    <2>11. ASSUME place # 0, NEW i \in Needs[place]
           PROVE  value < i
        <3>1. cut < place /\ place < s
            BY <2>10, <2>11
        <3>2. value \in Nat /\ place \in Nat
            <4>1. code[s] \in Inst
                BY <2>4, SeqIsList
            <4>2. PICK m : m = Len(code[s].uses)
                OBVIOUS
            <4>3. m \in Nat /\ m >= 2 /\ \A u \in 1..m : code[s].uses[u].at \in Nat
                BY <2>10, <4>1, <4>2, InstIs
            <4>4. 1 \in 1..m /\ 2 \in 1..m
                BY <4>3
            <4> QED
                BY <1>1, <4>3, <4>4
        <3>3. place \in 1..Len(code)
            BY <2>4, <3>1, <3>2
        <3>4. i \in Nat /\ cut < i
            BY <2>2, <2>4, <2>9, <2>11, <3>1, <3>3, CutNeeds
        <3> QED
            BY <2>10, <3>2, <3>4
    <2> QED
        BY <2>3, <2>8, <2>10, <2>11
<1>2. IInv => AddressAfterValue
    BY <1>1, Zenon DEF AddressAfterValue, Generated
<1> QED
    BY <1>2, Invariant, PTL

\* The calls of a node are where it is marked.
LEMMA CallsMarked ==
    ASSUME code \in Seq(Inst), NEW z, z = Marks(code), NEW n \in CallNodes, n \in Nat, n # 0
    PROVE  /\ CallsOf(n) \subseteq 1..Len(z)
           /\ \A i \in 1..Len(z) : i \in CallsOf(n) <=> z[i] = n
<1>1. /\ Len(z) = Len(code)
      /\ \A i \in 1..Len(code) : z[i] = IF code[i].op = "call" THEN code[i].node ELSE 0
    BY MarksAre
<1>2. DOMAIN code = 1..Len(code)
    BY SeqIsList
<1>3. CallsOf(n) \subseteq 1..Len(z)
    BY <1>1, <1>2 DEF CallsOf
<1>4. ASSUME NEW i \in 1..Len(z)
      PROVE  i \in CallsOf(n) <=> z[i] = n
    <2>1. i \in 1..Len(code) /\ i \in DOMAIN code
        BY <1>1, <1>2
    <2>2. i \in CallsOf(n) <=> code[i].op = "call" /\ code[i].node = n
        BY <2>1 DEF CallsOf
    <2>3. z[i] = IF code[i].op = "call" THEN code[i].node ELSE 0
        BY <1>1, <2>1
    <2> QED
        BY <2>2, <2>3
<1> QED
    BY <1>3, <1>4

LEMMA FirstCallIs ==
    ASSUME code \in Seq(Inst), NEW n, CallsOf(n) # {}
    PROVE  /\ FirstCall(n) \in CallsOf(n) /\ FirstCall(n) \in Nat
           /\ \A j \in CallsOf(n) : FirstCall(n) <= j
<1>1. CallsOf(n) \subseteq Nat
    <2>1. DOMAIN code = 1..Len(code) /\ Len(code) \in Nat
        BY SeqIsList
    <2> QED
        BY <2>1 DEF CallsOf
<1>2. \E i \in CallsOf(n) : \A j \in CallsOf(n) : i <= j
    BY <1>1, SmallestMember
<1>3. FirstCall(n) \in CallsOf(n) /\ \A j \in CallsOf(n) : FirstCall(n) <= j
    BY <1>2, Zenon DEF FirstCall
<1> QED
    BY <1>1, <1>3

\* However often an operand is generated, the first time is in the order of the source,
\* and what is not repeated runs once (pratt_parser.cpp:389, :479-490).
THEOREM CallsInTheirTurn == Spec => []CallsAsWritten
<1>1. ASSUME IInv, status = "generated"
      PROVE  \E z : z = Marks(code) /\ Whole(z, 1, Len(tree)) /\ code \in Seq(Inst)
                       /\ CallNodes \subseteq 1..Len(tree) /\ Len(tree) \in Nat
    <2>1. status \notin Unmade
        BY <1>1 DEF Unmade
    <2>2. PICK L, p : Made(L, p)
        BY <1>1, <2>1 DEF IInv
    <2>3. Whole(Marks(p.code), 1, Len(tree))
        BY <1>1, <2>2 DEF Made, Runs
    <2>4. code = p.code /\ code \in Seq(Inst) /\ DOMAIN tree = 1..Len(tree) /\ Len(tree) \in Nat
        BY <2>2, MadeIs
    <2>5. CallNodes \subseteq 1..Len(tree)
        BY <2>4 DEF CallNodes
    <2> QED
        BY <2>3, <2>4, <2>5
<1>2. ASSUME IInv, status = "generated", NEW n \in CallNodes
      PROVE  CallsOf(n) # {} /\ (n \notin Exposed => Cardinality(CallsOf(n)) = 1)
    <2>1. PICK z : /\ z = Marks(code) /\ Whole(z, 1, Len(tree)) /\ code \in Seq(Inst)
                   /\ CallNodes \subseteq 1..Len(tree) /\ Len(tree) \in Nat
        BY <1>1, <1>2
    <2>2. n \in 1..Len(tree) /\ n \in Nat /\ n # 0
        BY <2>1
    <2>3. /\ CallsOf(n) \subseteq 1..Len(z)
          /\ \A i \in 1..Len(z) : i \in CallsOf(n) <=> z[i] = n
        BY <2>1, <2>2, CallsMarked
    <2>4. PICK i \in 1..Len(z) : z[i] = n
        BY <2>1, <2>2 DEF Whole
    <2>5. ASSUME n \notin Exposed
          PROVE  Cardinality(CallsOf(n)) = 1
        <3>1. \A j \in 1..Len(z) : z[j] = n => j = i
            BY <2>1, <2>2, <2>4, <2>5 DEF Whole
        <3>2. CallsOf(n) = {i}
            BY <2>3, <2>4, <3>1
        <3> QED
            BY <3>2, FS_Singleton
    <2> QED
        BY <2>3, <2>4, <2>5
<1>3. ASSUME IInv, status = "generated", NEW m \in CallNodes, NEW n \in CallNodes, m < n
      PROVE  FirstCall(m) < FirstCall(n)
    <2>1. PICK z : /\ z = Marks(code) /\ Whole(z, 1, Len(tree)) /\ code \in Seq(Inst)
                   /\ CallNodes \subseteq 1..Len(tree) /\ Len(tree) \in Nat
        BY <1>1, <1>3
    <2>2. m \in 1..Len(tree) /\ n \in 1..Len(tree) /\ m \in Nat /\ n \in Nat /\ m # 0 /\ n # 0
        BY <2>1
    <2>3. PICK i, j : i = FirstCall(m) /\ j = FirstCall(n)
        OBVIOUS
    <2>4. /\ i \in Nat /\ \A k \in CallsOf(m) : i <= k
          /\ j \in CallsOf(n) /\ j \in Nat
        BY <1>2, <1>3, <2>1, <2>3, FirstCallIs
    <2>5. j \in 1..Len(z) /\ z[j] = n
        BY <2>1, <2>2, <2>4, CallsMarked
    <2>6. PICK k \in 1..Len(z) : k < j /\ z[k] = m
        BY <1>3, <2>1, <2>2, <2>5 DEF Whole
    <2>7. k \in CallsOf(m)
        BY <2>1, <2>2, <2>6, CallsMarked
    <2>8. i <= k
        BY <2>4, <2>7
    <2> QED
        BY <2>3, <2>4, <2>6, <2>8
<1>4. IInv => CallsOnce
    BY <1>2 DEF CallsOnce, Generated
<1>5. IInv => CallsInOrder
    BY <1>2, <1>3 DEF CallsInOrder, Generated
<1> QED
    BY <1>4, <1>5, Invariant, PTL DEF CallsAsWritten
=============================================================================
