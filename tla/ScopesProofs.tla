---------------------------- MODULE ScopesProofs ----------------------------
(***************************************************************************)
(* Proofs about the scopes of local variables: the types, for any program, *)
(* and for any program whose switches have one arm each that a construct   *)
(* keeps the scopes around it, leaves them as it found them, and that a    *)
(* name means its most recent declaration in the same function.            *)
(***************************************************************************)
EXTENDS Scopes, SequenceTheorems, WellFoundedInduction, TLAPS

(* Sequences. *)

LEMMA LastTyped ==
    ASSUME NEW T, NEW s \in Seq(T), s # <<>>
    PROVE  /\ Len(s) \in Nat \ {0}
           /\ s[Len(s)] \in T
           /\ DOMAIN s = 1..Len(s)
<1>1. Len(s) \in Nat \ {0} /\ DOMAIN s = 1..Len(s)
    BY EmptySeq, LenProperties
<1> QED
    BY <1>1

LEMMA FrontTyped ==
    ASSUME NEW T, NEW s \in Seq(T), s # <<>>
    PROVE  LET f == SubSeq(s, 1, Len(s) - 1)
           IN  /\ f \in Seq(T)
               /\ Len(f) = Len(s) - 1
               /\ \A k \in 1..Len(s) - 1 : f[k] = s[k]
<1>1. Len(s) \in Nat \ {0}
    BY LastTyped
<1> DEFINE n == Len(s) - 1
           f == SubSeq(s, 1, n)
<1>2. n \in Nat /\ \A k \in 1..n : s[k] \in T
    BY <1>1
<1> HIDE DEF n
<1>3. /\ f \in Seq(T)
      /\ Len(f) = IF 1 <= n THEN n - 1 + 1 ELSE 0
      /\ \A k \in 1..n - 1 + 1 : f[k] = s[1 + k - 1]
    BY <1>2, SubSeqProperties
<1>4. Len(f) = n
    BY <1>2, <1>3
<1>5. \A k \in 1..n : f[k] = s[k]
    BY <1>2, <1>3
<1> QED
    BY <1>3, <1>4, <1>5 DEF n

LEMMA AppendTyped ==
    ASSUME NEW T, NEW s \in Seq(T), NEW x \in T
    PROVE  /\ Append(s, x) \in Seq(T)
           /\ Len(s) \in Nat
           /\ Len(Append(s, x)) = Len(s) + 1
           /\ Append(s, x)[Len(s) + 1] = x
           /\ \A k \in 1..Len(s) : Append(s, x)[k] = s[k]
BY AppendProperties, LenProperties

LEMMA FrontLast ==
    ASSUME NEW T, NEW s \in Seq(T), s # <<>>
    PROVE  s = Append(SubSeq(s, 1, Len(s) - 1), s[Len(s)])
<1> DEFINE f == SubSeq(s, 1, Len(s) - 1)
           a == Append(f, s[Len(s)])
<1>1. Len(s) \in Nat \ {0} /\ s[Len(s)] \in T
    BY LastTyped
<1>2. f \in Seq(T) /\ Len(f) = Len(s) - 1 /\ \A k \in 1..Len(s) - 1 : f[k] = s[k]
    BY FrontTyped
<1> HIDE DEF f
<1>3. /\ a \in Seq(T)
      /\ Len(a) = Len(f) + 1
      /\ a[Len(f) + 1] = s[Len(s)]
      /\ \A k \in 1..Len(f) : a[k] = f[k]
    BY <1>1, <1>2, AppendTyped
<1> HIDE DEF a
<1>4. Len(a) = Len(s)
    BY <1>1, <1>2, <1>3
<1>5. \A k \in 1..Len(s) : a[k] = s[k]
    BY <1>1, <1>2, <1>3
<1>6. a = s
    BY <1>3, <1>4, <1>5, SeqEqual
<1> QED
    BY <1>6 DEF a, f

\* What the steps make of the calls.
LEMMA GoForms ==
    ASSUME NEW T, NEW s \in Seq(T), NEW x \in T, NEW y \in T
    PROVE  /\ s \o <<>> = s
           /\ s \o <<x>> = Append(s, x)
           /\ s \o <<x, y>> = Append(Append(s, x), y)
           /\ <<x>> \o <<y>> = <<x, y>>
           /\ <<x>> \o <<>> = <<x>>
           /\ <<>> \o <<y>> = <<y>>
<1>1. <<x>> \in Seq(T) /\ <<y>> \in Seq(T) /\ <<x, y>> \in Seq(T)
    OBVIOUS
<1>2. <<x>> \o <<y>> = <<x, y>>
    <2>1. <<x>> \o <<y>> = Append(<<x>>, y)
        BY <1>1, AppendIsConcat
    <2>2. Append(<<x>>, y) = <<x, y>>
        <3> DEFINE a == Append(<<x>>, y)
                   b == <<x, y>>
        <3>1. /\ a \in Seq(T)
              /\ Len(a) = Len(<<x>>) + 1
              /\ a[Len(<<x>>) + 1] = y
              /\ \A k \in 1..Len(<<x>>) : a[k] = <<x>>[k]
            BY <1>1, AppendTyped
        <3>2. Len(<<x>>) = 1 /\ <<x>>[1] = x
            OBVIOUS
        <3> HIDE DEF a
        <3>3. Len(a) = 2 /\ a[2] = y /\ a[1] = x
            BY <3>1, <3>2
        <3>4. b \in Seq(T) /\ Len(b) = 2 /\ b[1] = x /\ b[2] = y
            BY <1>1
        <3> HIDE DEF b
        <3>5. \A k \in 1..2 : a[k] = b[k]
            BY <3>3, <3>4
        <3>6. a = b
            BY <3>1, <3>3, <3>4, <3>5, SeqEqual
        <3> QED
            BY <3>6 DEF a, b
    <2> QED
        BY <2>1, <2>2
<1>3. s \o <<>> = s /\ <<x>> \o <<>> = <<x>> /\ <<>> \o <<y>> = <<y>>
    BY <1>1, ConcatEmptySeq
<1>4. Append(s, x) \in Seq(T) /\ Append(s, x) = s \o <<x>>
    BY AppendTyped, AppendIsConcat
<1>5. Append(Append(s, x), y) = (s \o <<x>>) \o <<y>>
    BY <1>4, AppendIsConcat
<1>6. (s \o <<x>>) \o <<y>> = s \o (<<x>> \o <<y>>)
    BY <1>1, ConcatAssociative
<1> QED
    BY <1>2, <1>3, <1>4, <1>5, <1>6

LEMMA ThreeCalls ==
    ASSUME NEW T, NEW s \in Seq(T), NEW x \in T, NEW y \in T, NEW z \in T
    PROVE  s \o (<<x>> \o <<y, z>>) = Append(Append(Append(s, x), y), z)
<1>1. <<x>> \in Seq(T) /\ <<y, z>> \in Seq(T)
    OBVIOUS
<1>2. s \o (<<x>> \o <<y, z>>) = (s \o <<x>>) \o <<y, z>>
    BY <1>1, ConcatAssociative
<1>3. s \o <<x>> = Append(s, x) /\ Append(s, x) \in Seq(T)
    BY GoForms, AppendTyped
<1>4. Append(s, x) \o <<y, z>> = Append(Append(Append(s, x), y), z)
    BY <1>3, GoForms
<1> QED
    BY <1>2, <1>3, <1>4

-----------------------------------------------------------------------------
(* The balance of scopes and calls. *)

\* A call that has the scope on top of those it found.
Owning == {"cond", "then", "body", "args", "default", "arm"}
Owns(c) ==
    c.kind \in Scoped /\ (c.stage \in Owning \/ (c.stage = "arms" /\ c.arms = 1))
Owned(c) == IF Owns(c) THEN 1 ELSE 0

\* Calls that declare variables and lead to other calls are such, or are about an
\* expression.
Ready(c) == c.kind \notin Scoped \/ Owns(c)

\* With one arm, a switch is before it, in it or behind it.
OneArm(c) ==
    c.kind = "switch" => /\ c.stage = "arms" => c.arms <= 1
                         /\ c.stage = "arm" => c.arms = 0

\* With the calls cs and the scopes sc: a call has found the scopes of the one that
\* made it and those this one owns; the innermost one, the scopes there are.  Who has
\* a scope keeps it below the expressions in it, and finds what was there before.
\* Outermost is a function, over the root scope, which stays empty.
Balanced(cs, sc) ==
    /\ cs \in Seq(CallType)
    /\ sc \in Seq(Scope)
    /\ \A i \in 1..Len(cs) : OneArm(cs[i])
    /\ \A i \in 1..Len(cs) :
          i < Len(cs) => Len(cs[i + 1].outer) = Len(cs[i].outer) + Owned(cs[i])
    /\ \A i, j \in 1..Len(cs) :
          i < j => Len(cs[j].outer) >= Len(cs[i].outer) + Owned(cs[i])
    /\ \A i, j \in 1..Len(cs) :
          i < j /\ cs[j].kind \notin Scoped /\ cs[i].kind \in Scoped =>
             Len(cs[j].outer) >= Len(cs[i].outer) + 1
    /\ cs # <<>> => Len(sc) = Len(cs[Len(cs)].outer) + Owned(cs[Len(cs)])
    /\ \A i \in 1..Len(cs) : cs[i].kind \in Scoped =>
          \A k \in 1..Len(cs[i].outer) : sc[k] = cs[i].outer[k]
    /\ sc[1] = NewScope
    /\ cs # <<>> => cs[1].kind = "func" /\ Len(cs[1].outer) = 1
    /\ cs = <<>> => Len(sc) = 1

LEMMA OwnedTyped ==
    ASSUME NEW c
    PROVE  /\ Owned(c) \in {0, 1}
           /\ c.kind \notin Scoped => Owned(c) = 0
BY DEF Owned, Owns

LEMMA OuterTyped ==
    ASSUME NEW cs \in Seq(CallType), NEW i \in 1..Len(cs)
    PROVE  /\ cs[i] \in CallType
           /\ cs[i].outer \in Seq(Scope)
           /\ Len(cs[i].outer) \in Nat
           /\ Owned(cs[i]) \in {0, 1}
<1>1. cs[i] \in CallType
    OBVIOUS
<1>2. cs[i].outer \in Seq(Scope)
    BY <1>1 DEF CallType
<1> QED
    BY <1>1, <1>2, LenProperties, OwnedTyped

\* Each call has found no more scopes than there are, and its own.
LEMMA OwnBelow ==
    ASSUME NEW cs, NEW sc, Balanced(cs, sc), NEW i \in 1..Len(cs)
    PROVE  Len(sc) >= Len(cs[i].outer) + Owned(cs[i])
<1> DEFINE n == Len(cs)
<1>1. cs \in Seq(CallType) /\ sc \in Seq(Scope)
    BY DEF Balanced
<1>2. n \in Nat /\ n \in 1..n
    BY <1>1, LenProperties
<1>3. /\ Len(cs[i].outer) \in Nat /\ Owned(cs[i]) \in {0, 1}
      /\ Len(cs[n].outer) \in Nat /\ Owned(cs[n]) \in {0, 1}
    BY <1>1, <1>2, OuterTyped
<1>4. cs # <<>>
    BY <1>1, EmptySeq
<1>5. Len(sc) = Len(cs[n].outer) + Owned(cs[n])
    BY <1>4 DEF Balanced
<1>6. i < n => Len(cs[n].outer) >= Len(cs[i].outer) + Owned(cs[i])
    BY <1>2 DEF Balanced
<1>7. i = n \/ i < n
    BY <1>2
<1> HIDE DEF n
<1> QED
    BY <1>3, <1>5, <1>6, <1>7

\* When the innermost call is ready to go on, every construct with a scope has found
\* less than there is.
LEMMA ReadyBelow ==
    ASSUME NEW cs, NEW sc, Balanced(cs, sc), cs # <<>>, Ready(cs[Len(cs)]),
           NEW i \in 1..Len(cs), cs[i].kind \in Scoped
    PROVE  Len(sc) >= Len(cs[i].outer) + 1
<1> DEFINE n == Len(cs)
<1>1. cs \in Seq(CallType)
    BY DEF Balanced
<1>2. n \in Nat /\ n \in 1..n
    BY <1>1, LenProperties
<1>3. /\ Len(cs[i].outer) \in Nat /\ Owned(cs[i]) \in {0, 1}
      /\ Len(cs[n].outer) \in Nat /\ Owned(cs[n]) \in {0, 1}
    BY <1>1, <1>2, OuterTyped
<1>4. Len(sc) = Len(cs[n].outer) + Owned(cs[n])
    BY DEF Balanced
<1>5. i = n \/ i < n
    BY <1>2
<1>6. CASE cs[n].kind \notin Scoped
    <2>1. i < n
        BY <1>5, <1>6
    <2>2. Len(cs[n].outer) >= Len(cs[i].outer) + 1
        BY <1>2, <1>6, <2>1 DEF Balanced
    <2> HIDE DEF n
    <2> QED
        BY <1>3, <1>4, <2>2
<1>7. CASE Owns(cs[n])
    <2>1. Owned(cs[n]) = 1
        BY <1>7 DEF Owned
    <2>2. i < n => Len(cs[n].outer) >= Len(cs[i].outer) + Owned(cs[i])
        BY <1>2 DEF Balanced
    <2> HIDE DEF n
    <2> QED
        BY <1>3, <1>4, <1>5, <2>1, <2>2
<1> QED
    BY <1>6, <1>7 DEF Ready

-----------------------------------------------------------------------------
(* What may be done with calls and scopes that are in balance. *)

\* The innermost of cs and c.
LEMMA WithCall ==
    ASSUME NEW cs \in Seq(CallType), NEW c \in CallType
    PROVE  /\ Append(cs, c) \in Seq(CallType)
           /\ Append(cs, c) # <<>>
           /\ Len(cs) \in Nat
           /\ Len(Append(cs, c)) = Len(cs) + 1
           /\ Append(cs, c)[Len(cs) + 1] = c
           /\ \A k \in 1..Len(cs) : Append(cs, c)[k] = cs[k]
           /\ \A i \in 1..Len(cs) + 1 : i = Len(cs) + 1 \/ i \in 1..Len(cs)
           /\ cs # <<>> => Len(cs) \in 1..Len(cs)
<1>1. /\ Append(cs, c) \in Seq(CallType)
      /\ Append(cs, c) # <<>>
      /\ Len(Append(cs, c)) = Len(cs) + 1
      /\ Append(cs, c)[Len(cs) + 1] = c
      /\ \A k \in 1..Len(cs) : Append(cs, c)[k] = cs[k]
    BY AppendProperties
<1>2. Len(cs) \in Nat
    BY LenProperties
<1>3. \A i \in 1..Len(cs) + 1 : i = Len(cs) + 1 \/ i \in 1..Len(cs)
    BY <1>2
<1>4. cs # <<>> => Len(cs) \in 1..Len(cs)
    BY EmptySeq
<1> QED
    BY <1>1, <1>2, <1>3, <1>4

\* Balance in terms of the innermost call.
Inner(cs, c, sc) ==
    /\ cs \in Seq(CallType)
    /\ c \in CallType
    /\ sc \in Seq(Scope)
    /\ \A i \in 1..Len(cs) : OneArm(cs[i])
    /\ OneArm(c)
    /\ \A i \in 1..Len(cs) :
          i < Len(cs) => Len(cs[i + 1].outer) = Len(cs[i].outer) + Owned(cs[i])
    /\ cs # <<>> => Len(c.outer) = Len(cs[Len(cs)].outer) + Owned(cs[Len(cs)])
    /\ \A i, j \in 1..Len(cs) :
          i < j => Len(cs[j].outer) >= Len(cs[i].outer) + Owned(cs[i])
    /\ \A i \in 1..Len(cs) : Len(c.outer) >= Len(cs[i].outer) + Owned(cs[i])
    /\ \A i, j \in 1..Len(cs) :
          i < j /\ cs[j].kind \notin Scoped /\ cs[i].kind \in Scoped =>
             Len(cs[j].outer) >= Len(cs[i].outer) + 1
    /\ \A i \in 1..Len(cs) :
          c.kind \notin Scoped /\ cs[i].kind \in Scoped =>
             Len(c.outer) >= Len(cs[i].outer) + 1
    /\ Len(sc) = Len(c.outer) + Owned(c)
    /\ \A i \in 1..Len(cs) : cs[i].kind \in Scoped =>
          \A k \in 1..Len(cs[i].outer) : sc[k] = cs[i].outer[k]
    /\ c.kind \in Scoped => \A k \in 1..Len(c.outer) : sc[k] = c.outer[k]
    /\ sc[1] = NewScope
    /\ cs # <<>> => cs[1].kind = "func" /\ Len(cs[1].outer) = 1
    /\ cs = <<>> => c.kind = "func" /\ Len(c.outer) = 1

LEMMA BalancedInner ==
    ASSUME NEW cs \in Seq(CallType), NEW c \in CallType, NEW sc
    PROVE  Balanced(Append(cs, c), sc) <=> Inner(cs, c, sc)
<1> DEFINE a == Append(cs, c)
           n == Len(cs)
<1>1. /\ a \in Seq(CallType)
      /\ a # <<>>
      /\ n \in Nat
      /\ Len(a) = n + 1
      /\ a[n + 1] = c
      /\ \A k \in 1..n : a[k] = cs[k]
      /\ \A i \in 1..n + 1 : i = n + 1 \/ i \in 1..n
      /\ \A i \in 1..n : i \in 1..n + 1 /\ i < n + 1 /\ (i < n => i + 1 \in 1..n)
      /\ n + 1 \in 1..n + 1
      /\ cs # <<>> => n \in 1..n
      /\ cs = <<>> => n = 0
      /\ cs # <<>> => 1 \in 1..n
    <2>1. n \in Nat /\ (cs = <<>> => n = 0) /\ (cs # <<>> => 1 \in 1..n)
        BY LenProperties, EmptySeq
    <2>2. /\ \A i \in 1..n : i \in 1..n + 1 /\ i < n + 1 /\ (i < n => i + 1 \in 1..n)
          /\ n + 1 \in 1..n + 1
        BY <2>1
    <2> QED
        BY <2>1, <2>2, WithCall
<1> HIDE DEF a
<1>2. ASSUME Balanced(a, sc)
      PROVE  Inner(cs, c, sc)
    <2>1. sc \in Seq(Scope) /\ OneArm(c) /\ \A i \in 1..n : OneArm(cs[i])
        BY <1>1, <1>2 DEF Balanced
    <2>2. \A i \in 1..n :
            i < n => Len(cs[i + 1].outer) = Len(cs[i].outer) + Owned(cs[i])
        BY <1>1, <1>2 DEF Balanced
    <2>3. cs # <<>> => Len(c.outer) = Len(cs[n].outer) + Owned(cs[n])
        BY <1>1, <1>2 DEF Balanced
    <2>4. \A i, j \in 1..n :
            i < j => Len(cs[j].outer) >= Len(cs[i].outer) + Owned(cs[i])
        BY <1>1, <1>2 DEF Balanced
    <2>5. \A i \in 1..n : Len(c.outer) >= Len(cs[i].outer) + Owned(cs[i])
        BY <1>1, <1>2 DEF Balanced
    <2>6. \A i, j \in 1..n :
            i < j /\ cs[j].kind \notin Scoped /\ cs[i].kind \in Scoped =>
               Len(cs[j].outer) >= Len(cs[i].outer) + 1
        BY <1>1, <1>2 DEF Balanced
    <2>7. \A i \in 1..n :
            c.kind \notin Scoped /\ cs[i].kind \in Scoped =>
               Len(c.outer) >= Len(cs[i].outer) + 1
        BY <1>1, <1>2 DEF Balanced
    <2>8. Len(sc) = Len(c.outer) + Owned(c)
        BY <1>1, <1>2 DEF Balanced
    <2>9. \A i \in 1..n : cs[i].kind \in Scoped =>
            \A k \in 1..Len(cs[i].outer) : sc[k] = cs[i].outer[k]
        BY <1>1, <1>2 DEF Balanced
    <2>10. c.kind \in Scoped => \A k \in 1..Len(c.outer) : sc[k] = c.outer[k]
        BY <1>1, <1>2 DEF Balanced
    <2>11. /\ sc[1] = NewScope
           /\ cs # <<>> => cs[1].kind = "func" /\ Len(cs[1].outer) = 1
           /\ cs = <<>> => c.kind = "func" /\ Len(c.outer) = 1
        BY <1>1, <1>2 DEF Balanced
    <2> QED
        BY <2>1, <2>2, <2>3, <2>4, <2>5, <2>6, <2>7, <2>8, <2>9, <2>10, <2>11 DEF Inner
<1>3. ASSUME Inner(cs, c, sc)
      PROVE  Balanced(a, sc)
    <2>1. sc \in Seq(Scope) /\ \A i \in 1..n + 1 : OneArm(a[i])
        BY <1>1, <1>3 DEF Inner
    <2>2. \A i \in 1..n + 1 :
            i < n + 1 => Len(a[i + 1].outer) = Len(a[i].outer) + Owned(a[i])
        <3> SUFFICES ASSUME NEW i \in 1..n
                     PROVE  Len(a[i + 1].outer) = Len(a[i].outer) + Owned(a[i])
            BY <1>1
        <3>1. CASE i < n
            BY <1>1, <1>3, <3>1 DEF Inner
        <3>2. CASE i = n
            <4>1. cs # <<>>
                BY <1>1, <3>2
            <4> QED
                BY <1>1, <1>3, <3>2, <4>1 DEF Inner
        <3> QED
            BY <1>1, <3>1, <3>2
    <2>3. \A i, j \in 1..n + 1 :
            i < j => Len(a[j].outer) >= Len(a[i].outer) + Owned(a[i])
        <3> SUFFICES ASSUME NEW i \in 1..n + 1, NEW j \in 1..n + 1, i < j
                     PROVE  Len(a[j].outer) >= Len(a[i].outer) + Owned(a[i])
            OBVIOUS
        <3>1. i \in 1..n
            BY <1>1
        <3>2. CASE j = n + 1
            BY <1>1, <1>3, <3>1, <3>2 DEF Inner
        <3>3. CASE j \in 1..n
            BY <1>1, <1>3, <3>1, <3>3 DEF Inner
        <3> QED
            BY <1>1, <3>2, <3>3
    <2>4. \A i, j \in 1..n + 1 :
            i < j /\ a[j].kind \notin Scoped /\ a[i].kind \in Scoped =>
               Len(a[j].outer) >= Len(a[i].outer) + 1
        <3> SUFFICES ASSUME NEW i \in 1..n + 1, NEW j \in 1..n + 1, i < j,
                            a[j].kind \notin Scoped, a[i].kind \in Scoped
                     PROVE  Len(a[j].outer) >= Len(a[i].outer) + 1
            OBVIOUS
        <3>1. i \in 1..n
            BY <1>1
        <3>2. CASE j = n + 1
            BY <1>1, <1>3, <3>1, <3>2 DEF Inner
        <3>3. CASE j \in 1..n
            BY <1>1, <1>3, <3>1, <3>3 DEF Inner
        <3> QED
            BY <1>1, <3>2, <3>3
    <2>5. Len(sc) = Len(a[n + 1].outer) + Owned(a[n + 1])
        BY <1>1, <1>3 DEF Inner
    <2>6. \A i \in 1..n + 1 : a[i].kind \in Scoped =>
            \A k \in 1..Len(a[i].outer) : sc[k] = a[i].outer[k]
        <3> SUFFICES ASSUME NEW i \in 1..n + 1, a[i].kind \in Scoped,
                            NEW k \in 1..Len(a[i].outer)
                     PROVE  sc[k] = a[i].outer[k]
            OBVIOUS
        <3>1. CASE i = n + 1
            BY <1>1, <1>3, <3>1 DEF Inner
        <3>2. CASE i \in 1..n
            BY <1>1, <1>3, <3>2 DEF Inner
        <3> QED
            BY <1>1, <3>1, <3>2
    <2>7. sc[1] = NewScope /\ a[1].kind = "func" /\ Len(a[1].outer) = 1
        BY <1>1, <1>3 DEF Inner
    <2> QED
        BY <1>1, <2>1, <2>2, <2>3, <2>4, <2>5, <2>6, <2>7 DEF Balanced
<1> QED
    BY <1>2, <1>3 DEF a

\* The root scope is there.
LEMMA RootBelow ==
    ASSUME NEW cs, NEW sc, Balanced(cs, sc)
    PROVE  /\ Len(sc) >= 1
           /\ cs # <<>> /\ Ready(cs[Len(cs)]) => Len(sc) >= 2
<1>1. CASE cs = <<>>
    <2>1. Len(sc) = 1
        BY <1>1 DEF Balanced
    <2> QED
        BY <1>1, <2>1
<1>2. CASE cs # <<>>
    <2>1. cs \in Seq(CallType) /\ cs[1].kind \in Scoped /\ Len(cs[1].outer) = 1
        BY <1>2 DEF Balanced, Scoped
    <2>2. 1 \in 1..Len(cs)
        BY <1>2, <2>1, EmptySeq
    <2>3. Len(sc) >= Len(cs[1].outer) + Owned(cs[1]) /\ Owned(cs[1]) \in {0, 1}
        BY <2>2, OwnBelow, OwnedTyped
    <2>4. Ready(cs[Len(cs)]) => Len(sc) >= Len(cs[1].outer) + 1
        BY <1>2, <2>1, <2>2, ReadyBelow
    <2>5. Len(sc) \in Nat
        BY LenProperties DEF Balanced
    <2> QED
        BY <2>1, <2>3, <2>4, <2>5
<1> QED
    BY <1>1, <1>2

LEMMA InnerLens ==
    ASSUME NEW cs, NEW c, NEW sc, Inner(cs, c, sc)
    PROVE  /\ Len(sc) \in Nat
           /\ Len(c.outer) \in Nat
           /\ c.outer \in Seq(Scope)
           /\ Owned(c) \in {0, 1}
           /\ \A i \in 1..Len(cs) : Len(cs[i].outer) \in Nat /\ Owned(cs[i]) \in {0, 1}
<1>1. cs \in Seq(CallType) /\ c.outer \in Seq(Scope) /\ sc \in Seq(Scope)
    BY DEF Inner, CallType
<1> QED
    BY <1>1, LenProperties, OuterTyped, OwnedTyped

\* A call that owns nothing returns.
LEMMA Drop ==
    ASSUME NEW cs, NEW c, NEW sc, Inner(cs, c, sc), Owned(c) = 0
    PROVE  Balanced(cs, sc)
<1>1. Len(sc) = Len(c.outer)
    BY InnerLens DEF Inner
<1>2. cs # <<>> => Len(sc) = Len(cs[Len(cs)].outer) + Owned(cs[Len(cs)])
    BY <1>1 DEF Inner
<1>3. cs = <<>> => Len(sc) = 1
    BY <1>1 DEF Inner
<1> QED
    BY <1>2, <1>3 DEF Inner, Balanced

\* A call gets to another stage.
LEMMA Swap ==
    ASSUME NEW cs, NEW c, NEW sc, Inner(cs, c, sc), NEW t \in CallType,
           t.kind = c.kind, t.outer = c.outer, Owned(t) = Owned(c), OneArm(t)
    PROVE  Inner(cs, t, sc)
BY DEF Inner

\* One about an expression is replaced by another.
LEMMA Renew ==
    ASSUME NEW cs, NEW c, NEW sc, Inner(cs, c, sc), c.kind \notin Scoped,
           NEW t \in CallType, t.kind \notin Scoped, t.outer = sc
    PROVE  Inner(cs, t, sc)
<1>1. Owned(c) = 0 /\ Owned(t) = 0
    BY OwnedTyped
<1>2. Len(t.outer) = Len(c.outer) /\ Len(sc) = Len(t.outer) + Owned(t)
    BY <1>1, InnerLens DEF Inner
<1>3. OneArm(t)
    BY DEF OneArm, Scoped
<1>4. cs # <<>>
    BY DEF Inner, Scoped
<1> QED
    BY <1>2, <1>3, <1>4 DEF Inner

\* An expression begins.
LEMMA Push ==
    ASSUME NEW cs, NEW sc, Balanced(cs, sc), cs # <<>>, Ready(cs[Len(cs)]),
           NEW t \in CallType, t.kind \notin Scoped, t.outer = sc
    PROVE  Inner(cs, t, sc)
<1>1. Owned(t) = 0
    BY OwnedTyped
<1>2. OneArm(t)
    BY DEF OneArm, Scoped
<1>3. \A i \in 1..Len(cs) : Len(t.outer) >= Len(cs[i].outer) + Owned(cs[i])
    BY OwnBelow
<1>4. \A i \in 1..Len(cs) :
        cs[i].kind \in Scoped => Len(t.outer) >= Len(cs[i].outer) + 1
    BY ReadyBelow
<1>5. sc \in Seq(Scope) /\ Len(sc) \in Nat
    BY LenProperties DEF Balanced
<1>6. Len(sc) = Len(t.outer) + Owned(t)
    BY <1>1, <1>5
<1> QED
    BY <1>2, <1>3, <1>4, <1>6 DEF Inner, Balanced

\* A construct opens a scope of its own.
LEMMA Open ==
    ASSUME NEW cs, NEW sc, Balanced(cs, sc), NEW t \in CallType, t.kind \in Scoped, Owns(t),
           t.outer = sc, OneArm(t), cs = <<>> => t.kind = "func"
    PROVE  Inner(cs, t, Append(sc, NewScope))
<1> DEFINE a == Append(sc, NewScope)
<1>1. NewScope \in Scope
    BY DEF NewScope, NoVar, Scope, Variable
<1>2. sc \in Seq(Scope) /\ cs \in Seq(CallType)
    BY DEF Balanced
<1>3. /\ a \in Seq(Scope)
      /\ Len(sc) \in Nat
      /\ Len(a) = Len(sc) + 1
      /\ \A k \in 1..Len(sc) : a[k] = sc[k]
    BY <1>1, <1>2, AppendTyped
<1> HIDE DEF a
<1>4. Owned(t) = 1
    BY DEF Owned
<1>5. \A i \in 1..Len(cs) : Len(t.outer) >= Len(cs[i].outer) + Owned(cs[i])
    BY OwnBelow
<1>6. \A i \in 1..Len(cs) : cs[i].kind \in Scoped =>
        \A k \in 1..Len(cs[i].outer) : a[k] = cs[i].outer[k]
    <2> SUFFICES ASSUME NEW i \in 1..Len(cs), cs[i].kind \in Scoped,
                        NEW k \in 1..Len(cs[i].outer)
                 PROVE  a[k] = cs[i].outer[k]
        OBVIOUS
    <2>1. sc[k] = cs[i].outer[k]
        BY DEF Balanced
    <2>2. Len(cs[i].outer) \in Nat /\ Owned(cs[i]) \in {0, 1}
        BY <1>2, OuterTyped
    <2>3. Len(sc) >= Len(cs[i].outer)
        BY <1>3, <1>5, <2>2
    <2>4. k \in 1..Len(sc)
        BY <1>3, <2>2, <2>3
    <2> QED
        BY <1>3, <2>1, <2>4
<1>7. Len(a) = Len(t.outer) + Owned(t)
    BY <1>3, <1>4
<1>8. \A k \in 1..Len(t.outer) : a[k] = t.outer[k]
    BY <1>3
<1>9. Len(sc) >= 1
    BY <1>3, RootBelow
<1>10. a[1] = NewScope
    BY <1>3, <1>9 DEF Balanced
<1>11. Inner(cs, t, a)
    BY <1>2, <1>3, <1>5, <1>6, <1>7, <1>8, <1>10 DEF Inner, Balanced
<1> QED
    BY <1>11 DEF a

\* A construct closes its scope.
LEMMA Close ==
    ASSUME NEW cs, NEW c, NEW sc, Inner(cs, c, sc), Owns(c), NEW t \in CallType,
           t.kind = c.kind, t.outer = c.outer, Owned(t) = 0, OneArm(t)
    PROVE  /\ sc # <<>>
           /\ Inner(cs, t, SubSeq(sc, 1, Len(sc) - 1))
<1> DEFINE f == SubSeq(sc, 1, Len(sc) - 1)
<1>1. Owned(c) = 1
    BY DEF Owned
<1>2. Len(sc) = Len(c.outer) + 1 /\ Len(c.outer) \in Nat
    BY <1>1, InnerLens DEF Inner
<1>3. sc \in Seq(Scope) /\ sc # <<>>
    BY <1>2, EmptySeq DEF Inner
<1>4. f \in Seq(Scope) /\ Len(f) = Len(sc) - 1 /\ \A k \in 1..Len(sc) - 1 : f[k] = sc[k]
    BY <1>3, FrontTyped
<1> HIDE DEF f
<1>5. Len(f) = Len(t.outer) + Owned(t)
    BY <1>2, <1>4
<1>6. \A k \in 1..Len(c.outer) : f[k] = sc[k]
    BY <1>2, <1>4
<1>7. c.kind \in Scoped => \A k \in 1..Len(t.outer) : f[k] = t.outer[k]
    BY <1>6 DEF Inner
<1>8. \A i \in 1..Len(cs) : cs[i].kind \in Scoped =>
        \A k \in 1..Len(cs[i].outer) : f[k] = cs[i].outer[k]
    <2> SUFFICES ASSUME NEW i \in 1..Len(cs), cs[i].kind \in Scoped,
                        NEW k \in 1..Len(cs[i].outer)
                 PROVE  f[k] = cs[i].outer[k]
        OBVIOUS
    <2>1. sc[k] = cs[i].outer[k] /\ Len(c.outer) >= Len(cs[i].outer) + Owned(cs[i])
        BY DEF Inner
    <2>2. k \in 1..Len(c.outer)
        BY <2>1, InnerLens
    <2> QED
        BY <1>6, <2>1, <2>2
<1>9. f[1] = NewScope
    <2>1. cs # <<>> => Len(c.outer) >= 1
        <3> SUFFICES ASSUME cs # <<>>
                     PROVE  Len(c.outer) >= 1
            OBVIOUS
        <3>1. 1 \in 1..Len(cs)
            BY EmptySeq DEF Inner
        <3>2. Len(c.outer) >= Len(cs[1].outer) + Owned(cs[1]) /\ Len(cs[1].outer) = 1
            BY <3>1 DEF Inner
        <3> QED
            BY <1>2, <3>2, OwnedTyped
    <2>2. Len(c.outer) >= 1
        BY <1>2, <2>1 DEF Inner
    <2>3. sc[1] = NewScope
        BY DEF Inner
    <2> QED
        BY <1>2, <1>6, <2>2, <2>3
<1>10. Inner(cs, t, f)
    BY <1>4, <1>5, <1>7, <1>8, <1>9 DEF Inner
<1> QED
    BY <1>3, <1>10 DEF f

\* A variable is declared in the innermost scope.
LEMMA Write ==
    ASSUME NEW cs, NEW sc, Balanced(cs, sc), cs # <<>>, Ready(cs[Len(cs)]), sc # <<>>,
           NEW x \in Scope
    PROVE  Balanced(cs, [sc EXCEPT ![Len(sc)] = x])
<1> DEFINE w == [sc EXCEPT ![Len(sc)] = x]
           n == Len(sc)
<1>1. sc \in Seq(Scope) /\ cs \in Seq(CallType)
    BY DEF Balanced
<1>2. n \in Nat \ {0} /\ n \in 1..n
    BY <1>1, LastTyped
<1>3. w \in Seq(Scope) /\ Len(w) = n /\ \A k \in 1..n : w[k] = IF k = n THEN x ELSE sc[k]
    BY <1>1, <1>2, ExceptSeq
<1> HIDE DEF w
<1>4. \A i \in 1..Len(cs) : cs[i].kind \in Scoped =>
        \A k \in 1..Len(cs[i].outer) : w[k] = cs[i].outer[k]
    <2> SUFFICES ASSUME NEW i \in 1..Len(cs), cs[i].kind \in Scoped,
                        NEW k \in 1..Len(cs[i].outer)
                 PROVE  w[k] = cs[i].outer[k]
        OBVIOUS
    <2>1. sc[k] = cs[i].outer[k]
        BY DEF Balanced
    <2>2. n >= Len(cs[i].outer) + 1 /\ Len(cs[i].outer) \in Nat
        BY <1>1, ReadyBelow, OuterTyped
    <2> HIDE DEF n
    <2>3. k \in 1..n /\ k # n
        BY <1>2, <2>2
    <2> QED
        BY <1>3, <2>1, <2>3
<1>5. n >= 2
    BY RootBelow
<1>6. w[1] = NewScope
    BY <1>2, <1>3, <1>5 DEF Balanced
<1> HIDE DEF n
<1>7. Len(w) = Len(sc)
    BY <1>3 DEF n
<1>8. Balanced(cs, w)
    BY <1>1, <1>3, <1>4, <1>6, <1>7 DEF Balanced
<1> QED
    BY <1>8 DEF w, n

\* A construct that has closed its scope leaves what it found.
LEMMA AsFound ==
    ASSUME NEW cs, NEW c, NEW sc, Inner(cs, c, sc), c.kind \in Scoped, Owned(c) = 0
    PROVE  sc = c.outer
<1>1. sc \in Seq(Scope) /\ c.outer \in Seq(Scope)
    BY InnerLens DEF Inner
<1>2. Len(sc) = Len(c.outer) /\ \A k \in 1..Len(c.outer) : sc[k] = c.outer[k]
    BY InnerLens DEF Inner
<1> QED
    BY <1>1, <1>2, SeqEqual

-----------------------------------------------------------------------------
(* The calls of the state. *)

LEMMA CallTyped ==
    ASSUME NEW k \in Kinds, NEW st \in Stages, NEW s \in Seq(Scope)
    PROVE  /\ Call(k, st, s) \in CallType
           /\ Call(k, st, s).kind = k
           /\ Call(k, st, s).stage = st
           /\ Call(k, st, s).arms = 0
           /\ Call(k, st, s).outer = s
BY DEF Call, CallType

LEMMA ExprTyped ==
    ASSUME NEW s \in Seq(Scope)
    PROVE  /\ Expr(s) \in CallType
           /\ Expr(s).kind \notin Scoped
           /\ Expr(s).outer = s
<1>1. "expr" \in Kinds /\ "start" \in Stages /\ "expr" \notin Scoped
    BY DEF Kinds, Stages, Scoped
<1> QED
    BY <1>1, CallTyped DEF Expr

LEMMA StageTyped ==
    ASSUME NEW c \in CallType, NEW st \in Stages
    PROVE  LET t == [c EXCEPT !.stage = st]
           IN  /\ t \in CallType
               /\ t.kind = c.kind
               /\ t.stage = st
               /\ t.arms = c.arms
               /\ t.outer = c.outer
BY DEF CallType

\* The call c at another stage, with n arms to come.
ToArms(c, st, n) == [c EXCEPT !.stage = st, !.arms = n]

LEMMA ArmsTyped ==
    ASSUME NEW c \in CallType, NEW st \in Stages, NEW n \in Nat
    PROVE  /\ ToArms(c, st, n) \in CallType
           /\ ToArms(c, st, n).kind = c.kind
           /\ ToArms(c, st, n).stage = st
           /\ ToArms(c, st, n).arms = n
           /\ ToArms(c, st, n).outer = c.outer
           /\ c.arms \in Nat
<1> DEFINE x == [c EXCEPT !.stage = st]
<1>1. x \in CallType /\ x.kind = c.kind /\ x.stage = st /\ x.outer = c.outer
    BY StageTyped
<1> HIDE DEF x
<1>2. LET t == [x EXCEPT !.arms = n]
      IN  /\ t \in CallType
          /\ t.kind = x.kind
          /\ t.stage = x.stage
          /\ t.arms = n
          /\ t.outer = x.outer
    BY <1>1 DEF CallType
<1> QED
    BY <1>1, <1>2 DEF x, ToArms, CallType

LEMMA NameTyped ==
    ASSUME NEW c \in CallType, NEW n \in Name
    PROVE  LET t == [c EXCEPT !.name = n]
           IN  /\ t \in CallType
               /\ t.kind = c.kind
               /\ t.stage = c.stage
               /\ t.arms = c.arms
               /\ t.outer = c.outer
BY DEF CallType

\* The call c at another stage, about the name n.
ToNamed(c, st, n) == [c EXCEPT !.stage = st, !.name = n]

LEMMA NamedStageTyped ==
    ASSUME NEW c \in CallType, NEW st \in Stages, NEW n \in Name
    PROVE  /\ ToNamed(c, st, n) \in CallType
           /\ ToNamed(c, st, n).kind = c.kind
           /\ ToNamed(c, st, n).stage = st
           /\ ToNamed(c, st, n).arms = c.arms
           /\ ToNamed(c, st, n).outer = c.outer
<1> DEFINE x == [c EXCEPT !.stage = st]
<1>1. /\ x \in CallType
      /\ x.kind = c.kind
      /\ x.stage = st
      /\ x.arms = c.arms
      /\ x.outer = c.outer
    BY StageTyped
<1> HIDE DEF x
<1>2. LET t == [x EXCEPT !.name = n]
      IN  /\ t \in CallType
          /\ t.kind = x.kind
          /\ t.stage = x.stage
          /\ t.arms = x.arms
          /\ t.outer = x.outer
    BY <1>1, NameTyped
<1> QED
    BY <1>1, <1>2 DEF x, ToNamed

LEMMA PushedTyped ==
    ASSUME scopes \in Seq(Scope)
    PROVE  /\ Pushed \in Seq(Scope)
           /\ Len(scopes) \in Nat
           /\ Len(Pushed) = Len(scopes) + 1
           /\ Pushed[Len(scopes) + 1] = NewScope
           /\ \A k \in 1..Len(scopes) : Pushed[k] = scopes[k]
<1>1. NewScope \in Scope
    BY DEF NewScope, NoVar, Scope, Variable
<1> QED
    BY <1>1, AppendTyped DEF Pushed

\* The innermost call, and those under it.
LEMMA TopAndUnder ==
    ASSUME calls \in Seq(CallType), calls # <<>>
    PROVE  /\ Under \in Seq(CallType)
           /\ Top \in CallType
           /\ Top.outer \in Seq(Scope)
           /\ calls = Append(Under, Top)
           /\ Len(calls) \in Nat \ {0}
           /\ Len(Under) = Len(calls) - 1
<1>1. Under \in Seq(CallType) /\ Len(Under) = Len(calls) - 1
    BY FrontTyped DEF Under
<1>2. Top \in CallType /\ Len(calls) \in Nat \ {0}
    BY LastTyped DEF Top
<1>3. calls = Append(Under, Top)
    BY FrontLast DEF Under, Top
<1> QED
    BY <1>1, <1>2, <1>3 DEF CallType

\* What a step leaves behind in place of the innermost call.
LEMMA Gone ==
    ASSUME calls \in Seq(CallType), calls # <<>>, Return
    PROVE  calls' = Under
<1>1. Under \in Seq(CallType)
    BY TopAndUnder
<1> HIDE DEF Under
<1> QED
    BY <1>1, ConcatEmptySeq DEF Return, Go

LEMMA GoneOn ==
    ASSUME calls \in Seq(CallType), calls # <<>>, NEW x \in CallType, Go(<<x>>)
    PROVE  calls' = Append(Under, x)
<1>1. Under \in Seq(CallType)
    BY TopAndUnder
<1>2. Under \o <<x>> = Append(Under, x)
    BY <1>1, GoForms
<1> QED
    BY <1>2 DEF Go

LEMMA GoneInto ==
    ASSUME calls \in Seq(CallType), calls # <<>>, NEW x \in CallType, NEW y \in CallType,
           Go(<<x, y>>)
    PROVE  calls' = Append(Append(Under, x), y)
<1>1. Under \in Seq(CallType)
    BY TopAndUnder
<1>2. Under \o <<x, y>> = Append(Append(Under, x), y)
    BY <1>1, GoForms
<1> QED
    BY <1>2 DEF Go

LEMMA ResumeForms ==
    ASSUME NEW st \in Stages, calls \in Seq(CallType), calls # <<>>
    PROVE  /\ Resume(st, <<>>) => Go(<<[Top EXCEPT !.stage = st]>>)
           /\ \A y \in CallType : Resume(st, <<y>>) => Go(<<[Top EXCEPT !.stage = st], y>>)
           /\ \A y, z \in CallType :
                 Resume(st, <<y, z>>) =>
                    calls' = Append(Append(Append(Under, [Top EXCEPT !.stage = st]), y), z)
<1> DEFINE x == [Top EXCEPT !.stage = st]
<1>1. x \in CallType /\ Under \in Seq(CallType)
    BY TopAndUnder, StageTyped
<1>2. Resume(st, <<>>) => Go(<<x>> \o <<>>)
    BY DEF Resume
<1>3. \A y \in CallType : Resume(st, <<y>>) => Go(<<x>> \o <<y>>)
    BY DEF Resume
<1>4. \A y, z \in CallType : Resume(st, <<y, z>>) => Go(<<x>> \o <<y, z>>)
    BY DEF Resume
<1> HIDE DEF x, Under
<1>5. <<x>> \o <<>> = <<x>>
    BY <1>1, GoForms
<1>6. ASSUME NEW y \in CallType PROVE <<x>> \o <<y>> = <<x, y>>
    BY <1>1, <1>6, GoForms
<1>7. ASSUME NEW y \in CallType, NEW z \in CallType
      PROVE  Under \o (<<x>> \o <<y, z>>) = Append(Append(Append(Under, x), y), z)
    BY <1>1, <1>7, ThreeCalls
<1> QED
    BY <1>2, <1>3, <1>4, <1>5, <1>6, <1>7 DEF Go, x

-----------------------------------------------------------------------------
(* The balance after each step, as long as the parser goes on. *)

Kept == status' = "running" => Balanced(calls', scopes')

LEMMA TopBalanced ==
    ASSUME Balanced(calls, scopes), calls # <<>>
    PROVE  /\ Inner(Under, Top, scopes)
           /\ calls \in Seq(CallType)
           /\ scopes \in Seq(Scope)
           /\ Under \in Seq(CallType)
           /\ Top \in CallType
           /\ Top.kind # "func" => Under # <<>>
           /\ calls[Len(calls)] = Top
           /\ OneArm(Top)
<1>1. calls \in Seq(CallType) /\ scopes \in Seq(Scope)
    BY DEF Balanced
<1>2. Under \in Seq(CallType) /\ Top \in CallType /\ calls = Append(Under, Top)
    BY <1>1, TopAndUnder
<1>3. calls[Len(calls)] = Top
    BY DEF Top
<1> HIDE DEF Under, Top
<1>4. Inner(Under, Top, scopes)
    BY <1>2, BalancedInner
<1>5. OneArm(Top) /\ (Top.kind # "func" => Under # <<>>)
    BY <1>4 DEF Inner
<1> QED
    BY <1>1, <1>2, <1>3, <1>4, <1>5

\* Back from the calls to the whole.
LEMMA Whole ==
    ASSUME NEW cs, NEW t, NEW sc, Inner(cs, t, sc)
    PROVE  /\ Balanced(Append(cs, t), sc)
           /\ Append(cs, t) # <<>>
           /\ Append(cs, t)[Len(Append(cs, t))] = t
           /\ cs \in Seq(CallType)
           /\ t \in CallType
           /\ sc \in Seq(Scope)
<1>1. cs \in Seq(CallType) /\ t \in CallType /\ sc \in Seq(Scope)
    BY DEF Inner
<1> QED
    BY <1>1, BalancedInner, WithCall

\* An expression begins, above a call that is ready for it.
LEMMA ExprBegins ==
    ASSUME NEW cs, NEW t, NEW sc, Inner(cs, t, sc), Ready(t)
    PROVE  Balanced(Append(Append(cs, t), Expr(sc)), sc)
<1>1. /\ Balanced(Append(cs, t), sc)
      /\ Append(cs, t) # <<>>
      /\ Append(cs, t)[Len(Append(cs, t))] = t
      /\ sc \in Seq(Scope)
    BY Whole
<1>2. Expr(sc) \in CallType /\ Expr(sc).kind \notin Scoped /\ Expr(sc).outer = sc
    BY <1>1, ExprTyped
<1>3. Inner(Append(cs, t), Expr(sc), sc)
    BY <1>1, <1>2, Push
<1> QED
    BY <1>3, Whole

\* A construct begins, with a scope of its own and an expression.
LEMMA ConstructBegins ==
    ASSUME NEW cs, Balanced(cs, scopes), cs # <<>>,
           NEW k \in {"block", "if", "while", "switch"}, NEW st \in {"cond", "body"}
    PROVE  Balanced(Append(Append(cs, Call(k, st, scopes)), Expr(Pushed)), Pushed)
<1> DEFINE c == Call(k, st, scopes)
<1>1. scopes \in Seq(Scope)
    BY DEF Balanced
<1>2. k \in Kinds /\ st \in Stages
    BY DEF Kinds, Stages
<1>3. c \in CallType /\ c.kind = k /\ c.stage = st /\ c.outer = scopes
    BY <1>1, <1>2, CallTyped
<1> HIDE DEF c
<1>4. /\ k \in Scoped /\ k # "func"
      /\ st \in Owning /\ st # "arms" /\ st # "arm"
    BY DEF Scoped, Owning
<1>5. c.kind \in Scoped /\ Owns(c) /\ OneArm(c)
    BY <1>3, <1>4 DEF Owns, OneArm
<1>6. Inner(cs, c, Pushed)
    BY <1>3, <1>5, Open DEF Pushed
<1>7. Ready(c)
    BY <1>5 DEF Ready
<1> QED
    BY <1>6, <1>7, ExprBegins DEF c

\* A code block begins where the call x goes on.
LEMMA BlockInCall ==
    ASSUME calls \in Seq(CallType), calls # <<>>, NEW x, Inner(Under, x, scopes),
           CodeBlock(<<x>>)
    PROVE  Kept
<1>1. scopes' = Pushed
    BY DEF CodeBlock, PushScope
<1>2. CASE status' = "empty_block"
    BY <1>2 DEF Kept
<1>3. CASE status' # "empty_block"
    <2> DEFINE b == Call("block", "body", scopes)
               e == Expr(Pushed)
    <2>1. Go(<<x>> \o <<b, e>>)
        BY <1>3 DEF CodeBlock
    <2>2. /\ Balanced(Append(Under, x), scopes)
          /\ Append(Under, x) # <<>>
          /\ x \in CallType
          /\ Under \in Seq(CallType)
          /\ scopes \in Seq(Scope)
        BY Whole
    <2>3. b \in CallType
        BY <2>2, CallTyped DEF Kinds, Stages
    <2>4. e \in CallType
        BY <2>2, PushedTyped, ExprTyped
    <2>5. Balanced(Append(Append(Append(Under, x), b), e), Pushed)
        BY <2>2, ConstructBegins
    <2> HIDE DEF b, e, Under
    <2>6. calls' = Append(Append(Append(Under, x), b), e)
        BY <2>1, <2>2, <2>3, <2>4, ThreeCalls DEF Go
    <2> QED
        BY <1>1, <2>5, <2>6 DEF Kept
<1> QED
    BY <1>2, <1>3

LEMMA BlockAlone ==
    ASSUME calls \in Seq(CallType), calls # <<>>, Balanced(Under, scopes), Under # <<>>,
           CodeBlock(<<>>)
    PROVE  Kept
<1>1. scopes' = Pushed
    BY DEF CodeBlock, PushScope
<1>2. CASE status' = "empty_block"
    BY <1>2 DEF Kept
<1>3. CASE status' # "empty_block"
    <2> DEFINE b == Call("block", "body", scopes)
               e == Expr(Pushed)
    <2>1. Go(<<>> \o <<b, e>>)
        BY <1>3 DEF CodeBlock
    <2>2. scopes \in Seq(Scope)
        BY DEF Balanced
    <2>3. b \in CallType
        BY <2>2, CallTyped DEF Kinds, Stages
    <2>4. e \in CallType
        BY <2>2, PushedTyped, ExprTyped
    <2>5. Balanced(Append(Append(Under, b), e), Pushed)
        BY ConstructBegins
    <2> HIDE DEF b, e, Under
    <2>6. <<b, e>> \in Seq(CallType)
        BY <2>3, <2>4
    <2>7. Go(<<b, e>>)
        BY <2>1, <2>6, ConcatEmptySeq
    <2>8. calls' = Append(Append(Under, b), e)
        BY <2>3, <2>4, <2>7, GoneInto
    <2> QED
        BY <1>1, <2>5, <2>8 DEF Kept
<1> QED
    BY <1>2, <1>3

\* The kinds and stages of the constructs.
LEMMA AtMeans ==
    ASSUME NEW k, NEW st, At(k, st)
    PROVE  calls # <<>> /\ Top.kind = k /\ Top.stage = st /\ status = "running"
BY DEF At, Running

LEMMA KindsScoped ==
    /\ "expr" \notin Scoped /\ "operator" \notin Scoped /\ "let" \notin Scoped
    /\ "block" \in Scoped /\ "if" \in Scoped /\ "while" \in Scoped
    /\ "switch" \in Scoped /\ "func" \in Scoped
    /\ "cond" \in Owning /\ "then" \in Owning /\ "body" \in Owning
    /\ "args" \in Owning /\ "default" \in Owning /\ "arm" \in Owning
    /\ "end" \notin Owning /\ "else" \notin Owning /\ "arms" \notin Owning
BY DEF Scoped, Owning

\* Expressions that are not within another one's call.
LEMMA ReturnKept ==
    ASSUME Balanced(calls, scopes), calls # <<>>, Owned(Top) = 0, Return, UNCHANGED scopes
    PROVE  Kept
<1>1. calls' = Under
    BY TopBalanced, Gone
<1>2. Balanced(Under, scopes)
    BY TopBalanced, Drop
<1> HIDE DEF Under
<1> QED
    BY <1>1, <1>2 DEF Kept

LEMMA LeafKept ==
    ASSUME Balanced(calls, scopes), ParseLiteral \/ ParseIdentifier \/ EndOperator
    PROVE  Kept
<1>1. calls # <<>> /\ Top.kind \notin Scoped /\ Return /\ UNCHANGED scopes
    BY AtMeans, KindsScoped DEF ParseLiteral, ParseIdentifier, EndOperator, Choosing
<1>2. Owned(Top) = 0
    BY <1>1, OwnedTyped
<1> QED
    BY <1>1, <1>2, ReturnKept

\* An expression makes place for the call x, which reads another one.
LEMMA RenewedKept ==
    ASSUME Balanced(calls, scopes), Choosing, NEW x \in CallType, x.kind \notin Scoped,
           x.outer = scopes, Go(<<x, Expr(scopes)>>), UNCHANGED scopes
    PROVE  Kept
<1>1. calls # <<>> /\ Top.kind \notin Scoped
    BY AtMeans, KindsScoped DEF Choosing
<1>2. /\ Inner(Under, Top, scopes)
      /\ calls \in Seq(CallType)
      /\ scopes \in Seq(Scope)
    BY <1>1, TopBalanced
<1>3. Inner(Under, x, scopes)
    BY <1>1, <1>2, Renew
<1>4. Balanced(Append(Append(Under, x), Expr(scopes)), scopes)
    BY <1>3, ExprBegins DEF Ready
<1>5. Expr(scopes) \in CallType
    BY <1>2, ExprTyped
<1>6. calls' = Append(Append(Under, x), Expr(scopes))
    BY <1>1, <1>2, <1>5, GoneInto
<1> QED
    BY <1>4, <1>6 DEF Kept

LEMMA ParseOperatorKept ==
    ASSUME Balanced(calls, scopes), ParseOperator
    PROVE  Kept
<1> DEFINE x == Call("operator", "cond", scopes)
<1>1. scopes \in Seq(Scope)
    BY DEF Balanced
<1>2. x \in CallType /\ x.kind \notin Scoped /\ x.outer = scopes
    BY <1>1, CallTyped, KindsScoped DEF Kinds, Stages
<1>3. Choosing /\ Go(<<x, Expr(scopes)>>) /\ UNCHANGED scopes
    BY DEF ParseOperator
<1> HIDE DEF x
<1> QED
    BY <1>2, <1>3, RenewedKept

LEMMA ParseLetValueKept ==
    ASSUME Balanced(calls, scopes), ParseLetValue
    PROVE  Kept
<1>1. PICK n \in Name :
        Go(<<[Call("let", "cond", scopes) EXCEPT !.name = n], Expr(scopes)>>)
    BY DEF ParseLetValue
<1> DEFINE c == Call("let", "cond", scopes)
           x == [c EXCEPT !.name = n]
<1>2. scopes \in Seq(Scope)
    BY DEF Balanced
<1>3. c \in CallType /\ c.kind \notin Scoped /\ c.outer = scopes
    BY <1>2, CallTyped, KindsScoped DEF Kinds, Stages
<1> HIDE DEF c
<1>4. x \in CallType /\ x.kind \notin Scoped /\ x.outer = scopes
    BY <1>3, NameTyped
<1>5. Choosing /\ Go(<<x, Expr(scopes)>>) /\ UNCHANGED scopes
    BY <1>1 DEF ParseLetValue, c
<1> HIDE DEF x
<1> QED
    BY <1>4, <1>5, RenewedKept

\* The call x, which the innermost one has become, reads an expression.
LEMMA ReadsOn ==
    ASSUME calls \in Seq(CallType), calls # <<>>, NEW x, Inner(Under, x, scopes), Ready(x),
           Go(<<x, Expr(scopes)>>), UNCHANGED scopes
    PROVE  Kept
<1>1. x \in CallType /\ scopes \in Seq(Scope)
    BY DEF Inner
<1>2. Balanced(Append(Append(Under, x), Expr(scopes)), scopes)
    BY ExprBegins
<1>3. calls' = Append(Append(Under, x), Expr(scopes))
    BY <1>1, ExprTyped, GoneInto
<1> QED
    BY <1>2, <1>3 DEF Kept

LEMMA NextKept ==
    ASSUME Balanced(calls, scopes), NextOperand \/ NextStatement
    PROVE  Kept
<1> DEFINE st == Top.stage
           x  == [Top EXCEPT !.stage = st]
<1>1. /\ calls # <<>>
      /\ st \in {"cond", "body"}
      /\ Top.kind \in {"operator", "block"}
      /\ Resume(st, <<Expr(scopes)>>)
      /\ UNCHANGED scopes
    BY AtMeans DEF NextOperand, NextStatement
<1>2. /\ Inner(Under, Top, scopes)
      /\ Top \in CallType
      /\ calls \in Seq(CallType)
      /\ scopes \in Seq(Scope)
      /\ OneArm(Top)
    BY <1>1, TopBalanced
<1>3. st \in Stages
    BY <1>1 DEF Stages
<1>4. /\ x \in CallType /\ x.kind = Top.kind /\ x.stage = st /\ x.arms = Top.arms
      /\ x.outer = Top.outer
    BY <1>2, <1>3, StageTyped
<1>5. Go(<<x, Expr(scopes)>>)
    BY <1>1, <1>2, <1>3, ExprTyped, ResumeForms
<1> HIDE DEF x
<1>6. Owned(x) = Owned(Top) /\ OneArm(x)
    BY <1>2, <1>4 DEF Owned, Owns, OneArm
<1>7. Inner(Under, x, scopes)
    BY <1>2, <1>4, <1>6, Swap
<1>8. Ready(x)
    BY <1>1, <1>4, KindsScoped DEF Ready, Owns
<1> QED
    BY <1>1, <1>2, <1>5, <1>7, <1>8, ReadsOn

\* Declarations, by a call that goes on or returns.
LEMMA DeclaredTyped ==
    ASSUME TypeOK, NEW n, Declare(n), scopes # <<>>
    PROVE  \E x \in Scope :
              /\ scopes' = [scopes EXCEPT ![Len(scopes)] = x]
              /\ \A m \in Name : x[m] = IF m = n THEN [fn |-> function, id |-> decls + 1]
                                                ELSE scopes[Len(scopes)][m]
<1> DEFINE v == [fn |-> function, id |-> decls + 1]
           f == scopes[Len(scopes)]
           x == [f EXCEPT ![n] = v]
<1>1. f \in Scope /\ Len(scopes) \in Nat \ {0} /\ scopes \in Seq(Scope)
    BY LastTyped DEF TypeOK
<1>2. v \in Variable
    BY DEF TypeOK, Variable
<1>3. scopes' = [scopes EXCEPT ![Len(scopes)] = x]
    BY <1>1 DEF Declare
<1> HIDE DEF f, v
<1>4. x \in Scope /\ \A m \in Name : x[m] = IF m = n THEN v ELSE f[m]
    BY <1>1, <1>2 DEF Scope
<1> QED
    BY <1>3, <1>4 DEF f, v

LEMMA DeclareKept ==
    ASSUME TypeOK, Balanced(calls, scopes), calls # <<>>, Ready(Top), NEW n, Declare(n)
    PROVE  /\ Balanced(calls, scopes')
           /\ Inner(Under, Top, scopes')
<1>1. scopes # <<>>
    <2>1. Len(scopes) >= 1
        BY RootBelow
    <2> QED
        BY <2>1, EmptySeq
<1>2. PICK x \in Scope : scopes' = [scopes EXCEPT ![Len(scopes)] = x]
    BY <1>1, DeclaredTyped
<1>3. Balanced(calls, scopes')
    BY <1>1, <1>2, TopBalanced, Write
<1>4. calls = Append(Under, Top) /\ Under \in Seq(CallType) /\ Top \in CallType
    BY TopAndUnder DEF TypeOK
<1> HIDE DEF Under, Top
<1> QED
    BY <1>3, <1>4, BalancedInner

LEMMA LetKept ==
    ASSUME TypeOK, Balanced(calls, scopes), ParseLet \/ EndLet
    PROVE  Kept
<1>1. calls # <<>> /\ Top.kind \notin Scoped /\ Return /\ \E n : Declare(n)
    BY AtMeans, KindsScoped DEF ParseLet, EndLet, Choosing
<1>2. Inner(Under, Top, scopes')
    BY <1>1, DeclareKept DEF Ready
<1>3. Balanced(Under, scopes')
    BY <1>1, <1>2, OwnedTyped, Drop
<1>4. calls' = Under
    BY <1>1, Gone DEF TypeOK
<1> HIDE DEF Under
<1> QED
    BY <1>3, <1>4 DEF Kept

\* The scope of the innermost call is closed, which becomes t.
LEMMA PopKept ==
    ASSUME Balanced(calls, scopes), calls # <<>>, Owns(Top), PopScope, NEW t \in CallType,
           t.kind = Top.kind, t.outer = Top.outer, Owned(t) = 0, OneArm(t)
    PROVE  /\ Inner(Under, t, scopes')
           /\ scopes' = Top.outer
<1>1. /\ scopes # <<>>
      /\ Inner(Under, t, SubSeq(scopes, 1, Len(scopes) - 1))
    BY TopBalanced, Close
<1>2. scopes' = SubSeq(scopes, 1, Len(scopes) - 1)
    BY <1>1 DEF PopScope
<1>3. Inner(Under, t, scopes')
    BY <1>1, <1>2
<1>4. t.kind \in Scoped
    BY DEF Owns
<1>5. scopes' = t.outer
    BY <1>3, <1>4, AsFound
<1> QED
    BY <1>3, <1>5

\* It is closed at the end.
LEMMA PopReturnKept ==
    ASSUME Balanced(calls, scopes), calls # <<>>, Owns(Top), PopScope, Return
    PROVE  Kept /\ scopes' = Top.outer
<1> DEFINE t == [Top EXCEPT !.stage = "end"]
<1>1. Top \in CallType /\ "end" \in Stages
    BY TopBalanced DEF Stages
<1>2. /\ t \in CallType
      /\ t.kind = Top.kind
      /\ t.stage = "end"
      /\ t.outer = Top.outer
    BY <1>1, StageTyped
<1> HIDE DEF t
<1>3. Owned(t) = 0 /\ OneArm(t)
    BY <1>2, KindsScoped DEF Owned, Owns, OneArm
<1>4. Inner(Under, t, scopes') /\ scopes' = Top.outer
    BY <1>2, <1>3, PopKept
<1>5. Balanced(Under, scopes')
    BY <1>3, <1>4, Drop
<1>6. calls' = Under
    BY TopBalanced, Gone
<1> HIDE DEF Under, Top
<1> QED
    BY <1>4, <1>5, <1>6 DEF Kept

LEMMA EndsKept ==
    ASSUME Balanced(calls, scopes), EndBlock \/ EndWhile \/ EndFunction
    PROVE  Kept /\ scopes' = Top.outer
<1>1. /\ calls # <<>>
      /\ Top.kind \in {"block", "while", "func"}
      /\ Top.stage \in {"args", "body"}
      /\ PopScope
      /\ Return
    BY AtMeans DEF EndBlock, EndWhile, EndFunction
<1>2. Owns(Top)
    BY <1>1, KindsScoped DEF Owns
<1> QED
    BY <1>1, <1>2, PopReturnKept

\* The constructs that an expression turns out to be.
LEMMA ConstructKept ==
    ASSUME Balanced(calls, scopes), ParseIf \/ ParseWhile \/ ParseSwitch
    PROVE  Kept
<1>1. PICK k \in {"if", "while", "switch"} :
        /\ Choosing
        /\ scopes' = Pushed
        /\ Go(<<Call(k, "cond", scopes), Expr(Pushed)>>)
    BY DEF ParseIf, ParseWhile, ParseSwitch, PushScope
<1>2. calls # <<>> /\ Top.kind = "expr"
    BY <1>1, AtMeans DEF Choosing
<1>3. /\ Inner(Under, Top, scopes)
      /\ calls \in Seq(CallType)
      /\ scopes \in Seq(Scope)
      /\ Under # <<>>
    BY <1>2, TopBalanced
<1>4. Balanced(Under, scopes)
    BY <1>2, <1>3, OwnedTyped, KindsScoped, Drop
<1> DEFINE c == Call(k, "cond", scopes)
<1>5. c \in CallType
    BY <1>3, CallTyped DEF Kinds, Stages
<1>6. Expr(Pushed) \in CallType
    BY <1>3, PushedTyped, ExprTyped
<1>7. Balanced(Append(Append(Under, c), Expr(Pushed)), Pushed)
    BY <1>3, <1>4, ConstructBegins
<1> HIDE DEF c
<1>8. calls' = Append(Append(Under, c), Expr(Pushed))
    BY <1>1, <1>2, <1>3, <1>5, <1>6, GoneInto DEF c
<1> QED
    BY <1>1, <1>7, <1>8 DEF Kept

LEMMA ParseBlockKept ==
    ASSUME Balanced(calls, scopes), ParseBlock
    PROVE  Kept
<1>1. calls # <<>> /\ Top.kind = "expr" /\ CodeBlock(<<>>)
    BY AtMeans DEF ParseBlock, Choosing
<1>2. Inner(Under, Top, scopes) /\ calls \in Seq(CallType) /\ Under # <<>>
    BY <1>1, TopBalanced
<1>3. Balanced(Under, scopes)
    BY <1>1, <1>2, OwnedTyped, KindsScoped, Drop
<1> QED
    BY <1>1, <1>2, <1>3, BlockAlone

\* The innermost call gets to another stage and owns what it did, with or without a
\* scope.
LEMMA StageKept ==
    ASSUME Balanced(calls, scopes), calls # <<>>, NEW st \in Stages,
           Top.kind \in {"if", "while", "func"}, Top.stage \in Owning <=> st \in Owning,
           Top.stage # "arms", st # "arms"
    PROVE  LET t == [Top EXCEPT !.stage = st]
           IN  Inner(Under, t, scopes) /\ t.kind = Top.kind /\ t.stage = st
<1> DEFINE t == [Top EXCEPT !.stage = st]
<1>1. Inner(Under, Top, scopes) /\ Top \in CallType
    BY TopBalanced
<1>2. /\ t \in CallType
      /\ t.kind = Top.kind
      /\ t.stage = st
      /\ t.outer = Top.outer
    BY <1>1, StageTyped
<1> HIDE DEF t
<1>3. Owned(t) = Owned(Top) /\ OneArm(t)
    BY <1>2 DEF Owned, Owns, OneArm
<1>4. Inner(Under, t, scopes)
    BY <1>1, <1>2, <1>3, Swap
<1> QED
    BY <1>2, <1>4 DEF t
\* A block is read at another stage of the innermost call.
LEMMA StageBlockKept ==
    ASSUME Balanced(calls, scopes),
           IfCondDone \/ WhileCondDone \/ ParseElse \/ ParseFunctionBody
    PROVE  Kept
<1>1. PICK st \in {"then", "body", "else"} :
        /\ calls # <<>>
        /\ Top.kind \in {"if", "while", "func"}
        /\ Top.stage \in Owning <=> st \in Owning
        /\ Top.stage # "arms"
        /\ CodeBlock(<<[Top EXCEPT !.stage = st]>>)
    <2>1. CASE IfCondDone
        <3>1. /\ calls # <<>> /\ Top.kind = "if" /\ Top.stage = "cond"
              /\ CodeBlock(<<[Top EXCEPT !.stage = "then"]>>)
            BY <2>1, AtMeans DEF IfCondDone
        <3> QED
            BY <3>1, KindsScoped
    <2>2. CASE WhileCondDone
        <3>1. /\ calls # <<>> /\ Top.kind = "while" /\ Top.stage = "cond"
              /\ CodeBlock(<<[Top EXCEPT !.stage = "body"]>>)
            BY <2>2, AtMeans DEF WhileCondDone
        <3> QED
            BY <3>1, KindsScoped
    <2>3. CASE ParseElse
        <3>1. /\ calls # <<>> /\ Top.kind = "if" /\ Top.stage = "end"
              /\ CodeBlock(<<[Top EXCEPT !.stage = "else"]>>)
            BY <2>3, AtMeans DEF ParseElse
        <3> QED
            BY <3>1, KindsScoped
    <2>4. CASE ParseFunctionBody
        <3>1. /\ calls # <<>> /\ Top.kind = "func" /\ Top.stage = "args"
              /\ CodeBlock(<<[Top EXCEPT !.stage = "body"]>>)
            BY <2>4, AtMeans DEF ParseFunctionBody
        <3> QED
            BY <3>1, KindsScoped
    <2> QED
        BY <2>1, <2>2, <2>3, <2>4
<1>2. st \in Stages /\ st # "arms"
    BY DEF Stages
<1> DEFINE t == [Top EXCEPT !.stage = st]
<1>3. Inner(Under, t, scopes)
    BY <1>1, <1>2, StageKept
<1>4. calls \in Seq(CallType)
    BY DEF Balanced
<1>5. CodeBlock(<<t>>)
    BY <1>1
<1> HIDE DEF t
<1> QED
    BY <1>1, <1>3, <1>4, <1>5, BlockInCall

\* The scope of an if is closed before the else clause.
LEMMA IfThenKept ==
    ASSUME Balanced(calls, scopes), IfThenDone
    PROVE  Kept
<1>1. /\ calls # <<>> /\ Top.kind = "if" /\ Top.stage = "then"
      /\ PopScope
      /\ Resume("end", <<>>)
    BY AtMeans DEF IfThenDone
<1> DEFINE t == [Top EXCEPT !.stage = "end"]
<1>2. calls \in Seq(CallType) /\ Top \in CallType /\ "end" \in Stages
    BY <1>1, TopBalanced DEF Stages
<1>3. t \in CallType /\ t.kind = Top.kind /\ t.stage = "end" /\ t.outer = Top.outer
    BY <1>2, StageTyped
<1>4. Go(<<t>>)
    BY <1>1, <1>2, ResumeForms
<1> HIDE DEF t
<1>5. Owns(Top) /\ Owned(t) = 0 /\ OneArm(t)
    BY <1>1, <1>3, KindsScoped DEF Owned, Owns, OneArm
<1>6. Inner(Under, t, scopes')
    BY <1>1, <1>3, <1>5, PopKept
<1>7. calls' = Append(Under, t)
    BY <1>1, <1>2, <1>3, <1>4, GoneOn
<1> QED
    BY <1>6, <1>7, Whole DEF Kept

LEMMA ElseIfKept ==
    ASSUME Balanced(calls, scopes), ParseElseIf
    PROVE  Kept
<1> DEFINE t == [Top EXCEPT !.stage = "else"]
           c == Call("if", "cond", scopes)
           e == Expr(Pushed)
<1>1. /\ calls # <<>> /\ Top.kind = "if" /\ Top.stage = "end"
      /\ scopes' = Pushed
      /\ Resume("else", <<c, e>>)
    BY AtMeans DEF ParseElseIf, PushScope
<1>2. "else" \in Stages /\ (Top.stage \in Owning <=> "else" \in Owning)
    BY <1>1, KindsScoped DEF Stages
<1>3. Inner(Under, t, scopes)
    BY <1>1, <1>2, StageKept
<1>4. calls \in Seq(CallType) /\ scopes \in Seq(Scope)
    BY DEF Balanced
<1>5. c \in CallType
    BY <1>4, CallTyped DEF Kinds, Stages
<1>6. e \in CallType
    BY <1>4, PushedTyped, ExprTyped
<1> HIDE DEF c, e
<1>7. calls' = Append(Append(Append(Under, t), c), e)
    BY <1>1, <1>2, <1>4, <1>5, <1>6, ResumeForms
<1> HIDE DEF t
<1>8. Balanced(Append(Under, t), scopes) /\ Append(Under, t) # <<>>
    BY <1>3, Whole
<1>9. Balanced(Append(Append(Append(Under, t), c), e), Pushed)
    BY <1>8, ConstructBegins DEF c, e
<1> QED
    BY <1>1, <1>7, <1>9 DEF Kept

\* An if and a switch have closed their scopes before they return.
LEMMA LeavesKept ==
    ASSUME Balanced(calls, scopes), EndIf \/ EndSwitch
    PROVE  Kept /\ scopes' = Top.outer
<1>1. /\ calls # <<>>
      /\ Top.kind \in {"if", "switch"}
      /\ \/ Top.stage \in {"end", "else"}
         \/ Top.stage = "arms" /\ Top.arms = 0
      /\ Return
      /\ UNCHANGED scopes
    BY AtMeans DEF EndIf, EndSwitch
<1>2. Owned(Top) = 0 /\ Top.kind \in Scoped
    BY <1>1, KindsScoped DEF Owned, Owns
<1>3. Inner(Under, Top, scopes)
    BY <1>1, TopBalanced
<1>4. scopes = Top.outer
    BY <1>2, <1>3, AsFound
<1> QED
    BY <1>1, <1>2, <1>4, ReturnKept

\* The arms of a switch: with one of them, the scope that the switch has pushed is the
\* one the arm pops.
LEMMA SwitchCondKept ==
    ASSUME Balanced(calls, scopes), Arms \subseteq {1}, SwitchCondDone
    PROVE  Kept
<1>1. /\ calls # <<>> /\ Top.kind = "switch" /\ Top.stage = "cond"
      /\ Go(<<[Top EXCEPT !.stage = "arms", !.arms = 1]>>)
      /\ UNCHANGED scopes
    BY AtMeans DEF SwitchCondDone
<1> DEFINE t == ToArms(Top, "arms", 1)
<1>2. calls \in Seq(CallType) /\ Top \in CallType /\ Inner(Under, Top, scopes)
    BY <1>1, TopBalanced
<1>3. /\ t \in CallType /\ t.kind = Top.kind /\ t.stage = "arms" /\ t.arms = 1
      /\ t.outer = Top.outer
    <2>1. "arms" \in Stages /\ 1 \in Nat
        BY DEF Stages
    <2> QED
        BY <1>2, <2>1, ArmsTyped
<1>4. Go(<<t>>)
    BY <1>1 DEF ToArms
<1> HIDE DEF t
<1>5. Owned(t) = Owned(Top) /\ OneArm(t)
    BY <1>1, <1>3, KindsScoped DEF Owned, Owns, OneArm
<1>6. Inner(Under, t, scopes)
    BY <1>2, <1>3, <1>5, Swap
<1>7. calls' = Append(Under, t)
    BY <1>1, <1>2, <1>3, <1>4, GoneOn
<1> QED
    BY <1>1, <1>6, <1>7, Whole DEF Kept

LEMMA OneLess ==
    ASSUME NEW c \in CallType, NEW st \in Stages
    PROVE  [c EXCEPT !.stage = st, !.arms = @ - 1] = ToArms(c, st, c.arms - 1)
<1> DEFINE x == [c EXCEPT !.stage = st]
<1>1. x.arms = c.arms
    BY StageTyped
<1> HIDE DEF x
<1>2. [x EXCEPT !.arms = @ - 1] = [x EXCEPT !.arms = c.arms - 1]
    BY <1>1
<1> QED
    BY <1>2 DEF x, ToArms

LEMMA ArmKept ==
    ASSUME Balanced(calls, scopes), ParseArm
    PROVE  Kept
<1> DEFINE n == Top.arms - 1
           t == ToArms(Top, "arm", n)
<1>1. /\ calls # <<>> /\ Top.kind = "switch" /\ Top.stage = "arms" /\ Top.arms > 0
      /\ CodeBlock(<<[Top EXCEPT !.stage = "arm", !.arms = @ - 1]>>)
    BY AtMeans DEF ParseArm
<1>2. calls \in Seq(CallType) /\ Top \in CallType /\ Inner(Under, Top, scopes) /\ OneArm(Top)
    BY <1>1, TopBalanced
<1>3. [Top EXCEPT !.stage = "arm", !.arms = @ - 1] = t
    BY <1>2, OneLess DEF Stages
<1>4. Top.arms = 1
    <2>1. Top.arms \in Nat /\ Top.arms <= 1
        BY <1>1, <1>2, ArmsTyped DEF OneArm, Stages
    <2> QED
        BY <1>1, <2>1
<1>5. n = 0
    BY <1>4
<1> HIDE DEF n
<1>6. /\ t \in CallType /\ t.kind = Top.kind /\ t.stage = "arm" /\ t.arms = 0
      /\ t.outer = Top.outer
    <2>1. "arm" \in Stages /\ 0 \in Nat
        BY DEF Stages
    <2> QED
        BY <1>2, <1>5, <2>1, ArmsTyped
<1>7. CodeBlock(<<t>>)
    BY <1>1, <1>3
<1> HIDE DEF t
<1>8. Owned(t) = Owned(Top) /\ OneArm(t)
    BY <1>1, <1>4, <1>6, KindsScoped DEF Owned, Owns, OneArm
<1>9. Inner(Under, t, scopes)
    BY <1>2, <1>6, <1>8, Swap
<1> QED
    BY <1>1, <1>2, <1>7, <1>9, BlockInCall

LEMMA ArmDoneKept ==
    ASSUME Balanced(calls, scopes), ArmDone
    PROVE  Kept
<1>1. /\ calls # <<>> /\ Top.kind = "switch" /\ Top.stage = "arm"
      /\ PopScope
      /\ Resume("arms", <<>>)
    BY AtMeans DEF ArmDone
<1> DEFINE t == [Top EXCEPT !.stage = "arms"]
<1>2. calls \in Seq(CallType) /\ Top \in CallType /\ OneArm(Top) /\ "arms" \in Stages
    BY <1>1, TopBalanced DEF Stages
<1>3. /\ t \in CallType /\ t.kind = Top.kind /\ t.stage = "arms" /\ t.arms = Top.arms
      /\ t.outer = Top.outer
    BY <1>2, StageTyped
<1>4. Go(<<t>>)
    BY <1>1, <1>2, ResumeForms
<1> HIDE DEF t
<1>5. Top.arms = 0
    BY <1>1, <1>2 DEF OneArm
<1>6. Owns(Top) /\ Owned(t) = 0 /\ OneArm(t)
    BY <1>1, <1>3, <1>5, KindsScoped DEF Owned, Owns, OneArm
<1>7. Inner(Under, t, scopes')
    BY <1>1, <1>3, <1>6, PopKept
<1>8. calls' = Append(Under, t)
    BY <1>1, <1>2, <1>3, <1>4, GoneOn
<1> QED
    BY <1>7, <1>8, Whole DEF Kept
-----------------------------------------------------------------------------
(* Functions. *)

LEMMA FunctionKept ==
    ASSUME Balanced(calls, scopes), ParseFunction
    PROVE  Kept
<1> DEFINE c == Call("func", "args", scopes)
<1>1. calls = <<>> /\ scopes' = Pushed /\ calls' = <<c>>
    BY DEF ParseFunction, PushScope
<1>2. scopes \in Seq(Scope)
    BY DEF Balanced
<1>3. c \in CallType /\ c.kind = "func" /\ c.stage = "args" /\ c.outer = scopes
    BY <1>2, CallTyped DEF Kinds, Stages
<1> HIDE DEF c
<1>4. c.kind \in Scoped /\ Owns(c) /\ OneArm(c)
    BY <1>3, KindsScoped DEF Owns, OneArm
<1>5. Inner(calls, c, Pushed)
    BY <1>3, <1>4, Open DEF Pushed
<1>6. calls' = Append(calls, c)
    BY <1>1
<1>7. Balanced(Append(calls, c), Pushed)
    BY <1>5, Whole
<1> QED
    BY <1>1, <1>6, <1>7 DEF Kept

LEMMA ArgumentKept ==
    ASSUME TypeOK, Balanced(calls, scopes), ParseArgument \/ DefaultDone
    PROVE  Kept
<1>1. /\ calls # <<>> /\ Top.kind = "func" /\ Top.stage \in {"args", "default"}
      /\ \E n : Declare(n)
      /\ Resume("args", <<>>)
    BY AtMeans DEF ParseArgument, DefaultDone
<1> DEFINE t == [Top EXCEPT !.stage = "args"]
<1>2. calls \in Seq(CallType) /\ Top \in CallType /\ "args" \in Stages
    BY <1>1, TopBalanced DEF Stages
<1>3. t \in CallType /\ t.kind = Top.kind /\ t.stage = "args" /\ t.outer = Top.outer
    BY <1>2, StageTyped
<1>4. Go(<<t>>)
    BY <1>1, <1>2, ResumeForms
<1> HIDE DEF t
<1>5. Owns(Top) /\ Owned(t) = Owned(Top) /\ OneArm(t)
    BY <1>1, <1>3, KindsScoped DEF Owned, Owns, OneArm
<1>6. Inner(Under, Top, scopes')
    BY <1>1, <1>5, DeclareKept DEF Ready
<1>7. Inner(Under, t, scopes')
    BY <1>3, <1>5, <1>6, Swap
<1>8. calls' = Append(Under, t)
    BY <1>1, <1>2, <1>3, <1>4, GoneOn
<1> QED
    BY <1>7, <1>8, Whole DEF Kept

LEMMA DefaultKept ==
    ASSUME Balanced(calls, scopes), ParseDefault
    PROVE  Kept
<1>1. PICK n \in Name :
        Go(<<[Top EXCEPT !.stage = "default", !.name = n], Expr(scopes)>>)
    BY DEF ParseDefault
<1>2. calls # <<>> /\ Top.kind = "func" /\ Top.stage = "args" /\ UNCHANGED scopes
    BY AtMeans DEF ParseDefault
<1> DEFINE t == ToNamed(Top, "default", n)
<1>3. calls \in Seq(CallType) /\ Top \in CallType /\ Inner(Under, Top, scopes)
    BY <1>2, TopBalanced
<1>4. "default" \in Stages
    BY DEF Stages
<1>5. t \in CallType /\ t.kind = Top.kind /\ t.stage = "default" /\ t.outer = Top.outer
    BY <1>3, <1>4, NamedStageTyped
<1>6. Go(<<t, Expr(scopes)>>)
    BY <1>1 DEF ToNamed
<1> HIDE DEF t
<1>7. Owns(t) /\ Owned(t) = Owned(Top) /\ OneArm(t)
    BY <1>2, <1>5, KindsScoped DEF Owned, Owns, OneArm
<1>8. Inner(Under, t, scopes)
    BY <1>3, <1>5, <1>7, Swap
<1> QED
    BY <1>2, <1>3, <1>6, <1>7, <1>8, ReadsOn DEF Ready

-----------------------------------------------------------------------------
(* What the steps make of the calls and of the scopes, for any number of arms. *)

\* The innermost call goes on, and may make one or two others.
Grown ==
    \E x, y, z \in CallType :
        \/ calls' = Append(Under, x)
        \/ calls' = Append(Append(Under, x), y)
        \/ calls' = Append(Append(Append(Under, x), y), z)

LEMMA GrownTyped ==
    ASSUME calls \in Seq(CallType), calls # <<>>, Grown
    PROVE  /\ calls' \in Seq(CallType)
           /\ Len(calls') \in Nat
           /\ Len(calls') >= Len(calls)
<1>1. PICK x \in CallType, y \in CallType, z \in CallType :
        \/ calls' = Append(Under, x)
        \/ calls' = Append(Append(Under, x), y)
        \/ calls' = Append(Append(Append(Under, x), y), z)
    BY DEF Grown
<1>2. Under \in Seq(CallType) /\ Len(Under) = Len(calls) - 1 /\ Len(calls) \in Nat \ {0}
    BY TopAndUnder
<1> HIDE DEF Under
<1> DEFINE a == Append(Under, x)
           b == Append(a, y)
           c == Append(b, z)
<1>3. a \in Seq(CallType) /\ Len(a) = Len(Under) + 1
    BY <1>2, WithCall
<1>4. calls' = a \/ calls' = b \/ calls' = c
    BY <1>1
<1> HIDE DEF a
<1>5. b \in Seq(CallType) /\ Len(b) = Len(a) + 1
    BY <1>3, WithCall
<1> HIDE DEF b
<1>6. c \in Seq(CallType) /\ Len(c) = Len(b) + 1
    BY <1>5, WithCall
<1> HIDE DEF c
<1> QED
    BY <1>2, <1>3, <1>4, <1>5, <1>6

LEMMA GoneGrown ==
    ASSUME calls \in Seq(CallType), calls # <<>>
    PROVE  /\ \A x \in CallType : Go(<<x>>) => Grown
           /\ \A x, y \in CallType : Go(<<x, y>>) => Grown
           /\ \A st \in Stages :
                 /\ Resume(st, <<>>) => Grown
                 /\ \A y \in CallType : Resume(st, <<y>>) => Grown
                 /\ \A y, z \in CallType : Resume(st, <<y, z>>) => Grown
<1>1. ASSUME NEW x \in CallType, Go(<<x>>)
      PROVE  Grown
    BY <1>1, GoneOn DEF Grown
<1>2. ASSUME NEW x \in CallType, NEW y \in CallType, Go(<<x, y>>)
      PROVE  Grown
    BY <1>2, GoneInto DEF Grown
<1>3. ASSUME NEW st \in Stages
      PROVE  /\ Resume(st, <<>>) => Grown
             /\ \A y \in CallType : Resume(st, <<y>>) => Grown
             /\ \A y, z \in CallType : Resume(st, <<y, z>>) => Grown
    <2> DEFINE t == [Top EXCEPT !.stage = st]
    <2>1. t \in CallType
        BY TopAndUnder, StageTyped, <1>3
    <2>2. /\ Resume(st, <<>>) => Go(<<t>>)
          /\ \A y \in CallType : Resume(st, <<y>>) => Go(<<t, y>>)
          /\ \A y, z \in CallType :
                Resume(st, <<y, z>>) => calls' = Append(Append(Append(Under, t), y), z)
        BY ResumeForms, <1>3
    <2> HIDE DEF t, Under
    <2>3. ASSUME NEW y \in CallType, NEW z \in CallType, Resume(st, <<y, z>>)
          PROVE  Grown
        <3>1. calls' = Append(Append(Append(Under, t), y), z)
            BY <2>2, <2>3
        <3> QED
            BY <2>1, <2>3, <3>1 DEF Grown
    <2>4. ASSUME Resume(st, <<>>)
          PROVE  Grown
        <3>1. Go(<<t>>)
            BY <2>2, <2>4
        <3> QED
            BY <1>1, <2>1, <3>1
    <2>5. ASSUME NEW y \in CallType, Resume(st, <<y>>)
          PROVE  Grown
        <3>1. Go(<<t, y>>)
            BY <2>2, <2>5
        <3> QED
            BY <1>2, <2>1, <2>5, <3>1
    <2> QED
        BY <2>3, <2>4, <2>5
<1> QED
    BY <1>1, <1>2, <1>3

LEMMA BlockGrown ==
    ASSUME calls \in Seq(CallType), scopes \in Seq(Scope), calls # <<>>
    PROVE  /\ \A x \in CallType : CodeBlock(<<x>>) => Grown
           /\ CodeBlock(<<>>) => Grown \/ calls' = Under
<1> DEFINE b == Call("block", "body", scopes)
           e == Expr(Pushed)
<1>1. b \in CallType
    BY CallTyped DEF Kinds, Stages
<1>2. e \in CallType
    BY PushedTyped, ExprTyped
<1>3. Under \in Seq(CallType)
    BY TopAndUnder
<1>4. \A cs : CodeBlock(cs) => Go(cs) \/ Go(cs \o <<b, e>>)
    BY DEF CodeBlock
<1> HIDE DEF b, e, Under
<1>5. ASSUME NEW x \in CallType, CodeBlock(<<x>>)
      PROVE  Grown
    <2>1. CASE Go(<<x>>)
        BY <1>5, <2>1, GoneGrown
    <2>2. CASE Go(<<x>> \o <<b, e>>)
        <3>1. calls' = Append(Append(Append(Under, x), b), e)
            BY <1>1, <1>2, <1>3, <1>5, <2>2, ThreeCalls DEF Go
        <3> QED
            BY <1>1, <1>2, <1>5, <3>1 DEF Grown
    <2> QED
        BY <1>4, <1>5, <2>1, <2>2
<1>6. ASSUME CodeBlock(<<>>)
      PROVE  Grown \/ calls' = Under
    <2>1. CASE Go(<<>>)
        BY <2>1, Gone DEF Return
    <2>2. CASE Go(<<>> \o <<b, e>>)
        <3>1. <<b, e>> \in Seq(CallType)
            BY <1>1, <1>2
        <3>2. Go(<<b, e>>)
            BY <2>2, <3>1, ConcatEmptySeq
        <3> QED
            BY <1>1, <1>2, <3>2, GoneGrown
    <2> QED
        BY <1>4, <1>6, <2>1, <2>2
<1> QED
    BY <1>5, <1>6

\* The steps by which the innermost call stays.
Staying ==
    \/ NextOperand \/ NextStatement \/ ParseOperator \/ ParseLetValue
    \/ ParseIf \/ ParseWhile \/ ParseSwitch
    \/ IfCondDone \/ WhileCondDone \/ ParseElse \/ ParseFunctionBody
    \/ IfThenDone \/ ParseElseIf \/ SwitchCondDone \/ ParseArm \/ ArmDone
    \/ ParseArgument \/ DefaultDone \/ ParseDefault

LEMMA StagesAndKinds ==
    /\ "start" \in Stages /\ "args" \in Stages /\ "default" \in Stages
    /\ "cond" \in Stages /\ "then" \in Stages /\ "body" \in Stages
    /\ "else" \in Stages /\ "arms" \in Stages /\ "arm" \in Stages /\ "end" \in Stages
    /\ "expr" \in Kinds /\ "operator" \in Kinds /\ "let" \in Kinds /\ "block" \in Kinds
    /\ "if" \in Kinds /\ "while" \in Kinds /\ "switch" \in Kinds /\ "func" \in Kinds
BY DEF Stages, Kinds

LEMMA StayingGrown ==
    ASSUME TypeOK, Staying
    PROVE  calls # <<>> /\ Grown
<1>1. calls # <<>>
    BY DEF Staying, Choosing, At, NextOperand, NextStatement, ParseOperator, ParseLetValue,
           ParseIf, ParseWhile, ParseSwitch, IfCondDone, WhileCondDone, ParseElse,
           ParseFunctionBody, IfThenDone, ParseElseIf, SwitchCondDone, ParseArm, ArmDone,
           ParseArgument, DefaultDone, ParseDefault
<1>2. calls \in Seq(CallType) /\ scopes \in Seq(Scope)
    BY DEF TypeOK
<1>3. Top \in CallType
    BY <1>1, <1>2, TopAndUnder
<1>4. Expr(scopes) \in CallType /\ Expr(Pushed) \in CallType
    BY <1>2, PushedTyped, ExprTyped
<1>5. \A k \in Kinds, st \in Stages : Call(k, st, scopes) \in CallType
    BY <1>2, CallTyped
<1>6. \A st \in Stages : [Top EXCEPT !.stage = st] \in CallType
    BY <1>3, StageTyped
<1>7. CASE NextOperand \/ NextStatement
    BY <1>1, <1>2, <1>4, <1>7, GoneGrown, StagesAndKinds DEF NextOperand, NextStatement
<1>8. CASE ParseOperator
    BY <1>1, <1>2, <1>4, <1>5, <1>8, GoneGrown, StagesAndKinds DEF ParseOperator
<1>9. CASE ParseLetValue
    <2>1. PICK n \in Name :
            Go(<<[Call("let", "cond", scopes) EXCEPT !.name = n], Expr(scopes)>>)
        BY <1>9 DEF ParseLetValue
    <2> DEFINE c == Call("let", "cond", scopes)
    <2>2. c \in CallType
        BY <1>5, StagesAndKinds
    <2> HIDE DEF c
    <2>3. [c EXCEPT !.name = n] \in CallType
        BY <2>2, NameTyped
    <2> QED
        BY <1>1, <1>2, <1>4, <2>1, <2>3, GoneGrown DEF c
<1>10. CASE ParseIf \/ ParseWhile \/ ParseSwitch
    BY <1>1, <1>2, <1>4, <1>5, <1>10, GoneGrown, StagesAndKinds
       DEF ParseIf, ParseWhile, ParseSwitch
<1>11. CASE IfCondDone \/ WhileCondDone \/ ParseElse \/ ParseFunctionBody
    BY <1>1, <1>2, <1>6, <1>11, BlockGrown, StagesAndKinds
       DEF IfCondDone, WhileCondDone, ParseElse, ParseFunctionBody
<1>12. CASE IfThenDone \/ ArmDone \/ ParseArgument \/ DefaultDone
    BY <1>1, <1>2, <1>12, GoneGrown, StagesAndKinds
       DEF IfThenDone, ArmDone, ParseArgument, DefaultDone
<1>13. CASE ParseElseIf
    <2>1. Resume("else", <<Call("if", "cond", scopes), Expr(Pushed)>>)
        BY <1>13 DEF ParseElseIf
    <2>2. Call("if", "cond", scopes) \in CallType
        BY <1>5, StagesAndKinds
    <2> QED
        BY <1>1, <1>2, <1>4, <2>1, <2>2, GoneGrown, StagesAndKinds
<1>14. CASE SwitchCondDone
    <2>1. PICK n \in Arms : Go(<<ToArms(Top, "arms", n)>>)
        BY <1>14 DEF SwitchCondDone, ToArms
    <2>2. n \in Nat
        BY ScopesAssumption
    <2>3. ToArms(Top, "arms", n) \in CallType
        BY <1>3, <2>2, ArmsTyped, StagesAndKinds
    <2> QED
        BY <1>1, <1>2, <2>1, <2>3, GoneGrown
<1>15. CASE ParseArm
    <2>1. CodeBlock(<<[Top EXCEPT !.stage = "arm", !.arms = @ - 1]>>) /\ Top.arms > 0
        BY <1>15 DEF ParseArm
    <2>2. CodeBlock(<<ToArms(Top, "arm", Top.arms - 1)>>)
        BY <1>3, <2>1, OneLess, StagesAndKinds
    <2>3. Top.arms \in Nat
        BY <1>3, ArmsTyped, StagesAndKinds
    <2>4. Top.arms - 1 \in Nat
        BY <2>1, <2>3
    <2>5. ToArms(Top, "arm", Top.arms - 1) \in CallType
        BY <1>3, <2>4, ArmsTyped, StagesAndKinds
    <2> QED
        BY <1>1, <1>2, <2>2, <2>5, BlockGrown
<1>16. CASE ParseDefault
    <2>1. PICK n \in Name : Go(<<ToNamed(Top, "default", n), Expr(scopes)>>)
        BY <1>16 DEF ParseDefault, ToNamed
    <2>2. ToNamed(Top, "default", n) \in CallType
        BY <1>3, NamedStageTyped, StagesAndKinds
    <2> QED
        BY <1>1, <1>2, <1>4, <2>1, <2>2, GoneGrown
<1> QED
    BY <1>1, <1>7, <1>8, <1>9, <1>10, <1>11, <1>12, <1>13, <1>14, <1>15, <1>16 DEF Staying

-----------------------------------------------------------------------------
(* Every step. *)

LEMMA StepKept ==
    ASSUME TypeOK, Running, Balanced(calls, scopes), Arms \subseteq {1}, Next
    PROVE  /\ Kept
           /\ Len(calls') < Len(calls) /\ Top.kind \in Scoped /\ status' = "running" =>
                 scopes' = Top.outer
<1> DEFINE Restored ==
        Len(calls') < Len(calls) /\ Top.kind \in Scoped /\ status' = "running" =>
            scopes' = Top.outer
<1>1. CASE Expression
    <2>1. Kept
        BY <1>1, LeafKept, ParseOperatorKept, NextKept, LetKept, ParseLetValueKept
           DEF Expression
    <2>2. calls # <<>> /\ Top.kind \notin Scoped
        BY <1>1, AtMeans, KindsScoped
           DEF Expression, ParseLiteral, ParseIdentifier, ParseOperator, NextOperand,
               EndOperator, ParseLet, ParseLetValue, EndLet, Choosing
    <2> QED
        BY <2>1, <2>2
<1>2. CASE ParseBlock
    BY <1>2, ParseBlockKept, KindsScoped DEF ParseBlock, Choosing, At
<1>3. CASE ParseIf \/ ParseWhile \/ ParseSwitch
    BY <1>3, ConstructKept, KindsScoped DEF ParseIf, ParseWhile, ParseSwitch, Choosing, At
<1>4. CASE EndBlock \/ EndWhile \/ EndFunction
    BY <1>4, EndsKept
<1>5. CASE EndIf \/ EndSwitch
    BY <1>5, LeavesKept
<1>6. CASE RejectElseIf
    BY <1>6 DEF RejectElseIf, Kept
<1>7. CASE Stopped
    <2>1. UNCHANGED <<calls, scopes, status>>
        BY <1>7 DEF Stopped, vars
    <2>2. Len(calls) \in Nat
        BY LenProperties DEF Balanced
    <2> QED
        BY <2>1, <2>2 DEF Kept
<1>8. CASE \/ NextStatement \/ IfCondDone \/ WhileCondDone \/ ParseElse
           \/ ParseFunctionBody \/ IfThenDone \/ ParseElseIf \/ SwitchCondDone
           \/ ParseArm \/ ArmDone \/ ParseArgument \/ DefaultDone \/ ParseDefault
           \/ ParseFunction
    <2>1. Kept
        BY <1>8, NextKept, StageBlockKept, IfThenKept, ElseIfKept, SwitchCondKept, ArmKept,
           ArmDoneKept, ArgumentKept, DefaultKept, FunctionKept
    <2>2. CASE Staying
        <3>1. calls \in Seq(CallType)
            BY DEF TypeOK
        <3>2. Len(calls') >= Len(calls) /\ Len(calls') \in Nat /\ Len(calls) \in Nat
            BY <2>2, <3>1, StayingGrown, GrownTyped, LenProperties
        <3> QED
            BY <2>1, <3>2
    <2>3. CASE ParseFunction
        <3>1. calls = <<>> /\ Len(calls) = 0 /\ calls' = <<Call("func", "args", scopes)>>
            BY <2>3 DEF ParseFunction
        <3>2. Len(calls') = 1
            BY <3>1
        <3> QED
            BY <2>1, <3>1, <3>2
    <2> QED
        BY <1>8, <2>2, <2>3 DEF Staying
<1> QED
    BY <1>1, <1>2, <1>3, <1>4, <1>5, <1>6, <1>7, <1>8 DEF Next, Block, If, While, Switch, Function
-----------------------------------------------------------------------------
(* Types. *)

\* What a step makes of the scopes and of the counters they are about.
ScopesStep ==
    \/ UNCHANGED <<scopes, decls, function>>
    \/ PushScope /\ UNCHANGED <<decls, function>>
    \/ PushScope /\ calls = <<>> /\ function' = function + 1 /\ UNCHANGED decls
    \/ PopScope /\ UNCHANGED <<decls, function>>
    \/ (\E n : Declare(n)) /\ UNCHANGED function

\* And of the rest.
Ends == {"rejected", "no_scope", "empty_block"}
RestStep ==
    /\ UNCHANGED nodes \/ Optional
    /\ UNCHANGED resolved \/ (\E n \in Name : resolved' = GetVar(n))
    /\ UNCHANGED status \/ status' \in Ends

LEMMA BlockSteps ==
    ASSUME NEW cs, CodeBlock(cs)
    PROVE  PushScope /\ (UNCHANGED status \/ status' \in Ends)
BY DEF CodeBlock, Ends

LEMMA PopSteps ==
    ASSUME PopScope
    PROVE  UNCHANGED status \/ status' \in Ends
BY DEF PopScope, Ends

LEMMA DeclareSteps ==
    ASSUME NEW n, Declare(n)
    PROVE  UNCHANGED status \/ status' \in Ends
BY DEF Declare, Ends

LEMMA NextSteps ==
    ASSUME Next
    PROVE  ScopesStep /\ RestStep
<1>1. CASE Expression
    <2>1. CASE ParseLet
        BY <2>1, DeclareSteps DEF ParseLet, ScopesStep, RestStep
    <2>2. CASE EndLet
        BY <2>2, DeclareSteps DEF EndLet, ScopesStep, RestStep
    <2>3. CASE ParseLiteral \/ ParseIdentifier \/ EndOperator
        BY <2>3 DEF ParseLiteral, ParseIdentifier, EndOperator, ScopesStep, RestStep
    <2>4. CASE ParseOperator \/ NextOperand
        BY <2>4 DEF ParseOperator, NextOperand, ScopesStep, RestStep
    <2>5. CASE ParseLetValue
        BY <2>5 DEF ParseLetValue, ScopesStep, RestStep
    <2> QED
        BY <1>1, <2>1, <2>2, <2>3, <2>4, <2>5 DEF Expression
<1>2. CASE Block
    <2>1. CASE ParseBlock
        BY <2>1, BlockSteps DEF ParseBlock, ScopesStep, RestStep
    <2>2. CASE NextStatement
        BY <2>2 DEF NextStatement, ScopesStep, RestStep
    <2>3. CASE EndBlock
        BY <2>3, PopSteps DEF EndBlock, ScopesStep, RestStep
    <2> QED
        BY <1>2, <2>1, <2>2, <2>3 DEF Block
<1>3. CASE If
    <2>1. CASE ParseIf \/ ParseElseIf
        BY <2>1 DEF ParseIf, ParseElseIf, ScopesStep, RestStep
    <2>2. CASE IfCondDone
        <3>1. PushScope /\ (UNCHANGED status \/ status' \in Ends)
            BY <2>2, BlockSteps DEF IfCondDone
        <3>2. UNCHANGED <<function, decls, resolved, nodes>>
            BY <2>2 DEF IfCondDone
        <3> QED
            BY <3>1, <3>2 DEF ScopesStep, RestStep
    <2>3. CASE IfThenDone
        BY <2>3, PopSteps DEF IfThenDone, ScopesStep, RestStep
    <2>4. CASE ParseElse
        <3>1. PushScope /\ (UNCHANGED status \/ status' \in Ends)
            BY <2>4, BlockSteps DEF ParseElse
        <3>2. UNCHANGED <<function, decls, resolved>> /\ Optional
            BY <2>4 DEF ParseElse
        <3> QED
            BY <3>1, <3>2 DEF ScopesStep, RestStep
    <2>5. CASE RejectElseIf \/ EndIf
        BY <2>5 DEF RejectElseIf, EndIf, ScopesStep, RestStep, Ends
    <2> QED
        BY <1>3, <2>1, <2>2, <2>3, <2>4, <2>5 DEF If
<1>4. CASE While
    <2>1. CASE ParseWhile
        BY <2>1 DEF ParseWhile, ScopesStep, RestStep
    <2>2. CASE WhileCondDone
        <3>1. PushScope /\ (UNCHANGED status \/ status' \in Ends)
            BY <2>2, BlockSteps DEF WhileCondDone
        <3>2. UNCHANGED <<function, decls, resolved, nodes>>
            BY <2>2 DEF WhileCondDone
        <3> QED
            BY <3>1, <3>2 DEF ScopesStep, RestStep
    <2>3. CASE EndWhile
        BY <2>3, PopSteps DEF EndWhile, ScopesStep, RestStep
    <2> QED
        BY <1>4, <2>1, <2>2, <2>3 DEF While
<1>5. CASE Switch
    <2>1. CASE ParseSwitch
        BY <2>1 DEF ParseSwitch, ScopesStep, RestStep
    <2>2. CASE SwitchCondDone \/ EndSwitch
        BY <2>2 DEF SwitchCondDone, EndSwitch, ScopesStep, RestStep
    <2>3. CASE ParseArm
        <3>1. PushScope /\ (UNCHANGED status \/ status' \in Ends)
            BY <2>3, BlockSteps DEF ParseArm
        <3>2. UNCHANGED <<function, decls, resolved, nodes>>
            BY <2>3 DEF ParseArm
        <3> QED
            BY <3>1, <3>2 DEF ScopesStep, RestStep
    <2>4. CASE ArmDone
        BY <2>4, PopSteps DEF ArmDone, ScopesStep, RestStep
    <2> QED
        BY <1>5, <2>1, <2>2, <2>3, <2>4 DEF Switch
<1>6. CASE Function
    <2>1. CASE ParseFunction
        BY <2>1 DEF ParseFunction, ScopesStep, RestStep
    <2>2. CASE ParseArgument
        BY <2>2, DeclareSteps DEF ParseArgument, ScopesStep, RestStep
    <2>3. CASE DefaultDone
        BY <2>3, DeclareSteps DEF DefaultDone, ScopesStep, RestStep
    <2>4. CASE ParseDefault
        BY <2>4 DEF ParseDefault, ScopesStep, RestStep
    <2>5. CASE ParseFunctionBody
        <3>1. PushScope /\ (UNCHANGED status \/ status' \in Ends)
            BY <2>5, BlockSteps DEF ParseFunctionBody
        <3>2. UNCHANGED <<function, decls, resolved, nodes>>
            BY <2>5 DEF ParseFunctionBody
        <3> QED
            BY <3>1, <3>2 DEF ScopesStep, RestStep
    <2>6. CASE EndFunction
        BY <2>6, PopSteps DEF EndFunction, ScopesStep, RestStep
    <2> QED
        BY <1>6, <2>1, <2>2, <2>3, <2>4, <2>5, <2>6 DEF Function
<1>7. CASE Stopped
    BY <1>7 DEF Stopped, vars, ScopesStep, RestStep
<1> QED
    BY <1>1, <1>2, <1>3, <1>4, <1>5, <1>6, <1>7 DEF Next

LEMMA ScopesTyped ==
    ASSUME TypeOK, ScopesStep
    PROVE  scopes' \in Seq(Scope) /\ decls' \in Nat /\ function' \in Nat
<1>1. CASE UNCHANGED <<scopes, decls, function>>
    BY <1>1 DEF TypeOK
<1>2. CASE PushScope /\ UNCHANGED decls /\ function' \in {function, function + 1}
    BY <1>2, PushedTyped DEF TypeOK, PushScope
<1>3. CASE PopScope /\ UNCHANGED <<decls, function>>
    <2>1. scopes' = scopes \/ (scopes # <<>> /\ scopes' = SubSeq(scopes, 1, Len(scopes) - 1))
        BY <1>3 DEF PopScope
    <2> QED
        BY <1>3, <2>1, FrontTyped DEF TypeOK
<1>4. CASE (\E n : Declare(n)) /\ UNCHANGED function
    <2>1. PICK n : Declare(n)
        BY <1>4
    <2>2. decls' \in Nat /\ function' \in Nat
        BY <1>4, <2>1 DEF TypeOK, Declare
    <2>3. CASE scopes = <<>>
        BY <2>1, <2>2, <2>3 DEF TypeOK, Declare
    <2>4. CASE scopes # <<>>
        <3>1. PICK x \in Scope : scopes' = [scopes EXCEPT ![Len(scopes)] = x]
            BY <2>1, <2>4, DeclaredTyped
        <3>2. scopes \in Seq(Scope) /\ Len(scopes) \in 1..Len(scopes)
            BY <2>4, LastTyped DEF TypeOK
        <3>3. [scopes EXCEPT ![Len(scopes)] = x] \in Seq(Scope)
            BY <3>2, ExceptSeq
        <3> QED
            BY <2>2, <3>1, <3>3
    <2> QED
        BY <2>3, <2>4
<1> QED
    BY <1>1, <1>2, <1>3, <1>4 DEF ScopesStep

\* The members of a set of indices have a largest one.
LEMMA LargestMember ==
    ASSUME NEW n \in Nat, NEW S, S \subseteq 1..n, S # {}
    PROVE  \E i \in S : \A j \in S : j <= i
<1> DEFINE R == OpToRel(<, Nat)
           B == {n - i : i \in S}
<1>1. B \subseteq Nat /\ B # {}
    <2>1. \A i \in S : n - i \in Nat
        <3> SUFFICES ASSUME NEW i \in S
                     PROVE  n - i \in Nat
            OBVIOUS
        <3>1. i \in 1..n
            OBVIOUS
        <3> QED
            BY <3>1
    <2> QED
        BY <2>1
<1> HIDE DEF B
<1>2. PICK b \in B : \A c \in B : <<c, b>> \notin R
    <2>1. IsWellFoundedOn(R, Nat)
        BY NatLessThanWellFounded, Zenon
    <2> HIDE DEF R
    <2> QED
        BY <1>1, <2>1, WFMin
<1>3. \A c \in B : ~(c < b)
    BY <1>1, <1>2 DEF OpToRel
<1>4. PICK i \in S : b = n - i
    BY DEF B
<1>5. ASSUME NEW j \in S
      PROVE  j <= i
    <2>1. ~(n - j < n - i)
        BY <1>3, <1>4, <1>5 DEF B
    <2>2. i \in 1..n /\ j \in 1..n
        BY <1>4, <1>5
    <2> QED
        BY <2>1, <2>2
<1> QED
    BY <1>5

\* The innermost declaration is the one a name means.
LEMMA GetVarMeans ==
    ASSUME scopes \in Seq(Scope), NEW n \in Name
    PROVE  /\ GetVar(n) \in Variable
           /\ \A j \in 1..Len(scopes) : scopes[j][n] # NoVar =>
                 \E i \in 1..Len(scopes) :
                     j <= i /\ scopes[i][n] # NoVar /\ GetVar(n) = scopes[i][n]
<1> DEFINE S == {i \in 1..Len(scopes) : scopes[i][n] # NoVar}
           m == CHOOSE i \in S : \A j \in S : j <= i
<1>1. GetVar(n) = IF S = {} THEN NoVar ELSE scopes[m][n]
    BY DEF GetVar
<1>2. S \subseteq 1..Len(scopes) /\ Len(scopes) \in Nat
    BY LenProperties
<1>3. \A j \in 1..Len(scopes) : scopes[j][n] # NoVar => j \in S
    OBVIOUS
<1>4. ASSUME NEW j \in S
      PROVE  scopes[j][n] # NoVar /\ scopes[j][n] \in Variable
    <2>1. scopes[j] \in Scope
        BY <1>4
    <2> QED
        BY <1>4, <2>1 DEF Scope
<1> HIDE DEF S
<1>5. CASE S = {}
    BY <1>1, <1>3, <1>5 DEF NoVar, Variable
<1>6. CASE S # {}
    <2>1. \E i \in S : \A j \in S : j <= i
        BY <1>2, <1>6, LargestMember
    <2>2. m \in S /\ \A j \in S : j <= m
        BY <2>1
    <2> HIDE DEF m
    <2> QED
        BY <1>1, <1>2, <1>3, <1>4, <1>6, <2>2
<1> QED
    BY <1>5, <1>6

LEMMA CallsTyped ==
    ASSUME TypeOK, Next
    PROVE  calls' \in Seq(CallType)
<1>1. calls \in Seq(CallType) /\ scopes \in Seq(Scope)
    BY DEF TypeOK
<1>2. CASE Staying
    BY <1>1, <1>2, StayingGrown, GrownTyped
<1>3. CASE calls # <<>> /\ Return
    BY <1>1, <1>3, Gone, TopAndUnder
<1>4. CASE ParseBlock
    <2>1. calls # <<>> /\ CodeBlock(<<>>)
        BY <1>4 DEF ParseBlock, Choosing, At
    <2> QED
        BY <1>1, <2>1, BlockGrown, GrownTyped, TopAndUnder
<1>5. CASE RejectElseIf \/ Stopped
    BY <1>1, <1>5 DEF RejectElseIf, Stopped, vars
<1>6. CASE ParseFunction
    <2>1. calls' = <<Call("func", "args", scopes)>>
        BY <1>6 DEF ParseFunction
    <2>2. Call("func", "args", scopes) \in CallType
        BY <1>1, CallTyped, StagesAndKinds
    <2> QED
        BY <2>1, <2>2
<1>7. CASE \/ ParseLiteral \/ ParseIdentifier \/ EndOperator \/ ParseLet \/ EndLet
           \/ EndBlock \/ EndIf \/ EndWhile \/ EndSwitch \/ EndFunction
    <2>1. calls # <<>> /\ Return
        BY <1>7 DEF ParseLiteral, ParseIdentifier, EndOperator, ParseLet, EndLet, EndBlock,
                    EndIf, EndWhile, EndSwitch, EndFunction, Choosing, At
    <2> QED
        BY <1>3, <2>1
<1> QED
    BY <1>2, <1>4, <1>5, <1>6, <1>7
       DEF Next, Expression, Block, If, While, Switch, Function, Staying

LEMMA TypeStep == TypeOK /\ [Next]_vars => TypeOK'
<1> SUFFICES ASSUME TypeOK, [Next]_vars
             PROVE  TypeOK'
    OBVIOUS
<1>1. CASE UNCHANGED vars
    BY <1>1 DEF vars, TypeOK
<1>2. CASE Next
    <2>1. scopes' \in Seq(Scope) /\ decls' \in Nat /\ function' \in Nat
        BY <1>2, NextSteps, ScopesTyped
    <2>2. calls' \in Seq(CallType)
        BY <1>2, CallsTyped
    <2>3. RestStep
        BY <1>2, NextSteps
    <2>4. resolved' \in Variable
        BY <2>3, GetVarMeans DEF RestStep, TypeOK
    <2>5. nodes' \in Nat
        BY <2>3 DEF RestStep, Optional, TypeOK
    <2>6. status' \in {"running", "rejected", "no_scope", "empty_block"}
        BY <2>3 DEF RestStep, Ends, TypeOK
    <2> QED
        BY <2>1, <2>2, <2>4, <2>5, <2>6 DEF TypeOK
<1> QED
    BY <1>1, <1>2

LEMMA InitTyped == Init => TypeOK
<1>1. NewScope \in Scope /\ NoVar \in Variable
    BY DEF NewScope, NoVar, Scope, Variable
<1> QED
    BY <1>1 DEF Init, TypeOK

\* The variables of the parser have their types, whatever the program.
THEOREM TypeCorrect == Spec => []TypeOK
BY InitTyped, TypeStep, PTL DEF Spec
-----------------------------------------------------------------------------
(* Names. *)

\* The variables there are belong to the function being read, and of two with the same
\* name the inner one is younger.
Named ==
    /\ \A i \in 1..Len(scopes) : \A n \in Name :
          /\ scopes[i][n].id <= decls
          /\ scopes[i][n] # NoVar => scopes[i][n].fn = function
    /\ \A i, j \in 1..Len(scopes) : \A n \in Name :
          i < j /\ scopes[j][n] # NoVar => scopes[i][n].id <= scopes[j][n].id

LEMMA IdTyped ==
    ASSUME TypeOK, NEW i \in 1..Len(scopes), NEW n \in Name
    PROVE  /\ scopes[i] \in Scope
           /\ scopes[i][n] \in Variable
           /\ scopes[i][n].id \in Nat
<1>1. scopes[i] \in Scope
    BY DEF TypeOK
<1>2. scopes[i][n] \in Variable
    BY <1>1 DEF Scope
<1> QED
    BY <1>1, <1>2 DEF Variable

\* It is kept when all variables were there, and when all have gone.
LEMMA FewerNamed ==
    ASSUME Named, UNCHANGED <<decls, function>>, scopes' \in Seq(Scope),
           Len(scopes) \in Nat, Len(scopes') <= Len(scopes),
           \A k \in 1..Len(scopes') : scopes'[k] = scopes[k]
    PROVE  Named'
<1>1. Len(scopes') \in Nat
    BY LenProperties
<1>2. \A k \in 1..Len(scopes') : k \in 1..Len(scopes)
    BY <1>1
<1> QED
    BY <1>2 DEF Named

LEMMA EmptyNamed ==
    ASSUME decls' \in Nat, \A k \in 1..Len(scopes') : scopes'[k] = NewScope
    PROVE  Named'
BY DEF Named, NewScope, NoVar

LEMMA PushedNamed ==
    ASSUME TypeOK, Named, PushScope, UNCHANGED <<decls, function>>
    PROVE  Named'
<1> DEFINE l == Len(scopes)
<1>1. /\ l \in Nat /\ Len(scopes') = l + 1
      /\ scopes'[l + 1] = NewScope
      /\ \A k \in 1..l : scopes'[k] = scopes[k]
    BY PushedTyped DEF TypeOK, PushScope
<1>2. \A k \in 1..l + 1 : k = l + 1 \/ k \in 1..l
    BY <1>1
<1>3. \A n \in Name : NewScope[n] = NoVar
    BY DEF NewScope
<1>4. NoVar.id = 0 /\ decls \in Nat
    BY DEF NoVar, TypeOK
<1>5. \A i \in 1..l + 1 : \A n \in Name :
        /\ scopes'[i][n].id <= decls
        /\ scopes'[i][n] # NoVar => scopes'[i][n].fn = function
    BY <1>1, <1>2, <1>3, <1>4 DEF Named
<1>6. \A i, j \in 1..l + 1 : \A n \in Name :
        i < j /\ scopes'[j][n] # NoVar => scopes'[i][n].id <= scopes'[j][n].id
    <2> SUFFICES ASSUME NEW i \in 1..l + 1, NEW j \in 1..l + 1, NEW n \in Name,
                        i < j, scopes'[j][n] # NoVar
                 PROVE  scopes'[i][n].id <= scopes'[j][n].id
        OBVIOUS
    <2>1. j \in 1..l
        BY <1>1, <1>2, <1>3
    <2>2. i \in 1..l
        BY <1>1, <2>1
    <2> QED
        BY <1>1, <2>1, <2>2 DEF Named
<1> QED
    BY <1>1, <1>5, <1>6 DEF Named

LEMMA DeclaredNamed ==
    ASSUME TypeOK, Named, scopes # <<>>, NEW m, Declare(m), UNCHANGED function
    PROVE  Named'
<1> DEFINE l == Len(scopes)
           v == [fn |-> function, id |-> decls + 1]
<1>1. PICK x \in Scope :
        /\ scopes' = [scopes EXCEPT ![Len(scopes)] = x]
        /\ \A n \in Name : x[n] = IF n = m THEN [fn |-> function, id |-> decls + 1]
                                           ELSE scopes[Len(scopes)][n]
    BY DeclaredTyped
<1>2. scopes \in Seq(Scope) /\ l \in Nat \ {0} /\ l \in 1..l
    BY LastTyped DEF TypeOK
<1>3. /\ Len(scopes') = l
      /\ \A k \in 1..l : scopes'[k] = IF k = l THEN x ELSE scopes[k]
    BY <1>1, <1>2, ExceptSeq
<1>4. decls \in Nat /\ decls' = decls + 1 /\ function' = function
    BY DEF Declare, TypeOK
<1>5. v.fn = function /\ v.id = decls + 1
    OBVIOUS
<1>6. \A k \in 1..l : \A n \in Name :
        scopes'[k][n] = IF k = l /\ n = m THEN v ELSE scopes[k][n]
    <2> SUFFICES ASSUME NEW k \in 1..l, NEW n \in Name
                 PROVE  scopes'[k][n] = IF k = l /\ n = m THEN v ELSE scopes[k][n]
        OBVIOUS
    <2>1. CASE k = l
        <3>1. scopes'[k] = x /\ x[n] = IF n = m THEN v ELSE scopes[l][n]
            BY <1>1, <1>3, <2>1
        <3> HIDE DEF v, l
        <3> QED
            BY <2>1, <3>1
    <2>2. CASE k # l
        <3>1. scopes'[k] = scopes[k]
            BY <1>3, <2>2
        <3> QED
            BY <2>2, <3>1
    <2> QED
        BY <2>1, <2>2
<1>7. \A k \in 1..l : \A n \in Name : scopes[k][n].id \in Nat
    BY IdTyped
<1> HIDE DEF l, v
<1>8. \A k \in 1..l : \A n \in Name :
        /\ scopes[k][n].id <= decls
        /\ scopes[k][n] # NoVar => scopes[k][n].fn = function
    BY DEF Named, l
<1>9. \A k \in 1..l : \A n \in Name :
        /\ scopes'[k][n].id <= decls + 1
        /\ scopes'[k][n] # NoVar => scopes'[k][n].fn = function
    <2> SUFFICES ASSUME NEW k \in 1..l, NEW n \in Name
                 PROVE  /\ scopes'[k][n].id <= decls + 1
                        /\ scopes'[k][n] # NoVar => scopes'[k][n].fn = function
        OBVIOUS
    <2>1. scopes'[k][n] = v \/ scopes'[k][n] = scopes[k][n]
        BY <1>6
    <2>2. scopes[k][n].id <= decls + 1
        BY <1>4, <1>7, <1>8
    <2> QED
        BY <1>4, <1>5, <1>8, <2>1, <2>2
<1>10. \A i, j \in 1..l : \A n \in Name :
        i < j /\ scopes'[j][n] # NoVar => scopes'[i][n].id <= scopes'[j][n].id
    <2> SUFFICES ASSUME NEW i \in 1..l, NEW j \in 1..l, NEW n \in Name,
                        i < j, scopes'[j][n] # NoVar
                 PROVE  scopes'[i][n].id <= scopes'[j][n].id
        OBVIOUS
    <2>1. i # l
        BY <1>2
    <2>2. scopes'[i][n] = scopes[i][n]
        BY <1>6, <2>1
    <2>3. CASE scopes'[j][n] = v
        <3>1. scopes[i][n].id <= decls + 1
            BY <1>4, <1>7, <1>8
        <3> QED
            BY <1>5, <2>2, <2>3, <3>1
    <2>4. CASE scopes'[j][n] = scopes[j][n]
        BY <2>2, <2>4 DEF Named, l
    <2> QED
        BY <1>6, <2>3, <2>4
<1> QED
    BY <1>3, <1>4, <1>9, <1>10 DEF Named, l

LEMMA StepNamed ==
    ASSUME TypeOK, Balanced(calls, scopes), Named, ScopesStep
    PROVE  Named'
<1>1. Len(scopes) \in Nat /\ Len(scopes) >= 1 /\ scopes # <<>>
    <2>1. Len(scopes) \in Nat /\ Len(scopes) >= 1
        BY LenProperties, RootBelow DEF TypeOK
    <2> QED
        BY <2>1, EmptySeq
<1>2. CASE UNCHANGED <<scopes, decls, function>>
    BY <1>2 DEF Named
<1>3. CASE PushScope /\ UNCHANGED <<decls, function>>
    BY <1>3, PushedNamed
<1>4. CASE PushScope /\ calls = <<>> /\ UNCHANGED decls
    <2>1. Len(scopes) = 1 /\ scopes[1] = NewScope
        BY <1>4 DEF Balanced
    <2>2. Len(scopes') = 2 /\ scopes'[1] = NewScope /\ scopes'[2] = NewScope
        BY <1>4, <2>1, PushedTyped DEF TypeOK, PushScope
    <2>3. \A k \in 1..Len(scopes') : scopes'[k] = NewScope
        BY <2>2
    <2>4. decls' \in Nat
        BY <1>4 DEF TypeOK
    <2> QED
        BY <2>3, <2>4, EmptyNamed
<1>5. CASE PopScope /\ UNCHANGED <<decls, function>>
    <2>1. scopes' = SubSeq(scopes, 1, Len(scopes) - 1)
        BY <1>1, <1>5 DEF PopScope
    <2>2. /\ scopes' \in Seq(Scope)
          /\ Len(scopes') = Len(scopes) - 1
          /\ \A k \in 1..Len(scopes) - 1 : scopes'[k] = scopes[k]
        BY <1>1, <2>1, FrontTyped DEF TypeOK
    <2>3. Len(scopes') <= Len(scopes) /\ \A k \in 1..Len(scopes') : scopes'[k] = scopes[k]
        BY <1>1, <2>2
    <2> QED
        BY <1>1, <1>5, <2>2, <2>3, FewerNamed
<1>6. CASE (\E n : Declare(n)) /\ UNCHANGED function
    BY <1>1, <1>6, DeclaredNamed
<1> QED
    BY <1>2, <1>3, <1>4, <1>5, <1>6 DEF ScopesStep

-----------------------------------------------------------------------------
(* The theorems. *)

\* The inductive invariant of the programs whose switches have one arm.
IInv == TypeOK /\ (Running => Balanced(calls, scopes) /\ Named)

LEMMA InitInv == Init => IInv
<1> SUFFICES ASSUME Init PROVE IInv
    OBVIOUS
<1>1. TypeOK
    BY InitTyped
<1>2. scopes = <<NewScope>> /\ calls = <<>> /\ decls = 0
    BY DEF Init
<1>3. scopes[1] = NewScope /\ Len(scopes) = 1 /\ Len(calls) = 0
    BY <1>2
<1>4. Balanced(calls, scopes)
    BY <1>1, <1>2, <1>3 DEF Balanced, TypeOK
<1>5. Named
    <2>1. \A k \in 1..Len(scopes) : k = 1
        BY <1>3
    <2> QED
        BY <1>2, <1>3, <2>1 DEF Named, NewScope, NoVar
<1> QED
    BY <1>1, <1>4, <1>5 DEF IInv

LEMMA HaltedStays ==
    ASSUME Next, ~Running
    PROVE  UNCHANGED vars
BY DEF Next, Expression, Block, If, While, Switch, Function, Stopped, Choosing, At,
       ParseLiteral, ParseIdentifier, ParseOperator, NextOperand, EndOperator, ParseLet,
       ParseLetValue, EndLet, ParseBlock, NextStatement, EndBlock, ParseIf, IfCondDone,
       IfThenDone, ParseElse, RejectElseIf, ParseElseIf, EndIf, ParseWhile, WhileCondDone,
       EndWhile, ParseSwitch, SwitchCondDone, ParseArm, ArmDone, EndSwitch, ParseFunction,
       ParseArgument, ParseDefault, DefaultDone, ParseFunctionBody, EndFunction

LEMMA StepInv ==
    ASSUME Arms \subseteq {1}, IInv, [Next]_vars
    PROVE  /\ IInv'
           /\ Running' => Running
<1>1. TypeOK /\ TypeOK'
    BY TypeStep DEF IInv
<1>2. CASE UNCHANGED vars
    BY <1>2 DEF vars, IInv, TypeOK, Running, Named
<1>3. CASE Next /\ ~Running
    <2>1. UNCHANGED vars
        BY <1>3, HaltedStays
    <2> QED
        BY <1>2, <2>1
<1>4. CASE Next /\ Running
    <2>1. Balanced(calls, scopes) /\ Named
        BY <1>4 DEF IInv
    <2>2. Kept
        BY <1>1, <1>4, <2>1, StepKept
    <2>3. Named'
        BY <1>1, <1>4, <2>1, NextSteps, StepNamed
    <2> QED
        BY <1>1, <1>4, <2>2, <2>3 DEF IInv, Kept, Running
<1> QED
    BY <1>2, <1>3, <1>4

LEMMA InvOuter == IInv => OuterScopesKept
<1> SUFFICES ASSUME IInv, Running, NEW i \in 1..Len(calls), calls[i].kind \in Scoped
             PROVE  /\ Len(calls[i].outer) <= Len(scopes)
                    /\ SubSeq(scopes, 1, Len(calls[i].outer)) = calls[i].outer
    BY DEF OuterScopesKept
<1> DEFINE o == calls[i].outer
           l == Len(o)
           s == SubSeq(scopes, 1, l)
<1>1. Balanced(calls, scopes)
    BY DEF IInv
<1>2. calls \in Seq(CallType) /\ scopes \in Seq(Scope)
    BY <1>1 DEF Balanced
<1>3. o \in Seq(Scope) /\ l \in Nat /\ Owned(calls[i]) \in {0, 1}
    BY <1>2, OuterTyped
<1>4. Len(scopes) >= l + Owned(calls[i]) /\ Len(scopes) \in Nat
    BY <1>1, <1>2, OwnBelow, LenProperties
<1>5. l <= Len(scopes)
    BY <1>3, <1>4
<1>6. \A k \in 1..l : scopes[k] = o[k]
    BY <1>1 DEF Balanced
<1> HIDE DEF l
<1>7. \A k \in 1..l : scopes[k] \in Scope
    BY <1>2, <1>3, <1>4, <1>5
<1>8. /\ s \in Seq(Scope)
      /\ Len(s) = IF 1 <= l THEN l - 1 + 1 ELSE 0
      /\ \A k \in 1..l - 1 + 1 : s[k] = scopes[1 + k - 1]
    BY <1>3, <1>7, SubSeqProperties
<1> HIDE DEF s
<1>9. Len(s) = l /\ \A k \in 1..l : s[k] = scopes[k]
    BY <1>3, <1>8
<1>10. Len(s) = Len(o) /\ \A k \in 1..Len(o) : s[k] = o[k]
    BY <1>6, <1>9 DEF l
<1> HIDE DEF o
<1>11. s = o
    BY <1>3, <1>8, <1>10, SeqEqual
<1> QED
    BY <1>5, <1>11 DEF o, l, s

LEMMA InvNames == IInv => NamesResolved
<1> SUFFICES ASSUME IInv, Running PROVE NamesResolved
    BY DEF NamesResolved, LocalToFunction, MostRecentDeclaration
<1>1. TypeOK /\ Balanced(calls, scopes) /\ Named
    BY DEF IInv
<1>2. LocalToFunction
    <2>1. calls = <<>> => Len(scopes) = 1 /\ scopes[1] = NewScope
        BY <1>1 DEF Balanced
    <2>2. ASSUME NEW i \in 1..Len(scopes), NEW n \in Name, scopes[i][n] # NoVar
          PROVE  scopes[i][n].fn = function /\ calls # <<>>
        <3>1. scopes[i][n].fn = function
            BY <1>1, <2>2 DEF Named
        <3>2. calls # <<>>
            <4> SUFFICES ASSUME calls = <<>> PROVE FALSE
                OBVIOUS
            <4>1. i = 1 /\ scopes[i] = NewScope
                <5>1. Len(scopes) = 1 /\ scopes[1] = NewScope
                    BY <2>1
                <5>2. i \in 1..1
                    BY <2>2, <5>1
                <5> QED
                    BY <5>1, <5>2
            <4>2. scopes[i][n] = NoVar
                BY <2>2, <4>1 DEF NewScope
            <4> QED
                BY <2>2, <4>2
        <3> QED
            BY <3>1, <3>2
    <2> QED
        BY <2>1, <2>2 DEF LocalToFunction
<1>3. MostRecentDeclaration
    <2> SUFFICES ASSUME NEW n \in Name, NEW j \in 1..Len(scopes)
                 PROVE  scopes[j][n].id <= GetVar(n).id
        BY DEF MostRecentDeclaration
    <2>1. scopes \in Seq(Scope) /\ Len(scopes) \in Nat
        BY <1>1, LenProperties DEF TypeOK
    <2>2. scopes[j][n].id \in Nat
        BY <1>1, IdTyped
    <2>3. CASE scopes[j][n] = NoVar
        <3>1. GetVar(n).id \in Nat
            BY <2>1, GetVarMeans DEF Variable
        <3> QED
            BY <2>3, <3>1 DEF NoVar
    <2>4. CASE scopes[j][n] # NoVar
        <3>1. PICK i \in 1..Len(scopes) :
                j <= i /\ scopes[i][n] # NoVar /\ GetVar(n) = scopes[i][n]
            BY <2>1, <2>4, GetVarMeans
        <3>2. i = j \/ j < i
            BY <2>1, <3>1
        <3>3. CASE j < i
            BY <1>1, <3>1, <3>3 DEF Named
        <3> QED
            BY <2>2, <3>1, <3>2, <3>3
    <2> QED
        BY <2>3, <2>4
<1> QED
    BY <1>2, <1>3 DEF NamesResolved

THEOREM Invariance == ASSUME Arms \subseteq {1} PROVE Spec => []IInv
<1>1. Init => IInv
    BY InitInv
<1>2. IInv /\ [Next]_vars => IInv'
    BY StepInv
<1> QED
    BY <1>1, <1>2, PTL DEF Spec

\* With one arm to a switch, no construct closes or writes to the scope of a construct
\* around it, whatever is nested in it.
THEOREM OuterKept == ASSUME Arms \subseteq {1} PROVE Spec => []OuterScopesKept
BY Invariance, InvOuter, PTL

\* With one arm to a switch, a name means its most recent declaration, in the same
\* function.
THEOREM NamesMean == ASSUME Arms \subseteq {1} PROVE Spec => []NamesResolved
BY Invariance, InvNames, PTL

\* With one arm to a switch, a construct leaves the scopes as it found them.
THEOREM Restored == ASSUME Arms \subseteq {1} PROVE Spec => ScopesRestored
<1>1. IInv /\ [Next]_vars =>
        [status' = "running" /\ Len(calls') < Len(calls) /\ Top.kind \in Scoped
            => scopes' = Top.outer]_vars
    <2> SUFFICES ASSUME IInv, Next, status' = "running", Len(calls') < Len(calls),
                        Top.kind \in Scoped
                 PROVE  scopes' = Top.outer \/ UNCHANGED vars
        OBVIOUS
    <2>1. CASE Running
        BY <2>1, StepKept DEF IInv
    <2>2. CASE ~Running
        BY <2>2, HaltedStays
    <2> QED
        BY <2>1, <2>2
<1> QED
    BY <1>1, Invariance, PTL DEF Spec, ScopesRestored
=============================================================================
