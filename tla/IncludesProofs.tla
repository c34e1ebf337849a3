--------------------------- MODULE IncludesProofs ---------------------------
(***************************************************************************)
(* Proofs about the files of a program: each one that is used is read      *)
(* once, by one call of parse_file(), and to its end, however the files    *)
(* include one another.                                                    *)
(***************************************************************************)
EXTENDS Includes, SequenceTheorems, TLAPS

(* Sequences. *)

LEMMA LastTyped ==
    ASSUME NEW T, NEW s \in Seq(T), s # <<>>
    PROVE  /\ Len(s) \in Nat \ {0}
           /\ s[Len(s)] \in T
           /\ DOMAIN s = 1..Len(s)
<1>1. Len(s) \in Nat \ {0} /\ DOMAIN s = 1..Len(s)
    BY EmptySeq, LenProperties
<1> QED
    BY <1>1

\* The first n members of s, and x.
LEMMA PrefixAnd ==
    ASSUME NEW T, NEW s \in Seq(T), NEW n \in Nat, n <= Len(s), NEW x \in T
    PROVE  LET f == SubSeq(s, 1, n)
           IN  /\ f \in Seq(T)
               /\ Len(f) = n
               /\ \A k \in 1..n : f[k] = s[k]
               /\ Append(f, x) \in Seq(T)
               /\ Len(Append(f, x)) = n + 1
               /\ Append(f, x)[n + 1] = x
               /\ \A k \in 1..n : Append(f, x)[k] = s[k]
<1> DEFINE f == SubSeq(s, 1, n)
           a == Append(f, x)
<1>1. Len(s) \in Nat /\ \A k \in 1..n : s[k] \in T
    <2>1. Len(s) \in Nat
        BY LenProperties
    <2>2. \A k \in 1..n : k \in 1..Len(s)
        BY <2>1
    <2> QED
        BY <2>1, <2>2
<1>2. /\ f \in Seq(T)
      /\ Len(f) = IF 1 <= n THEN n - 1 + 1 ELSE 0
      /\ \A k \in 1..n - 1 + 1 : f[k] = s[1 + k - 1]
    BY <1>1, SubSeqProperties
<1> HIDE DEF f
<1>3. Len(f) = n /\ \A k \in 1..n : f[k] = s[k]
    BY <1>2
<1>4. /\ a \in Seq(T)
      /\ Len(a) = Len(f) + 1
      /\ a[Len(f) + 1] = x
      /\ \A k \in 1..Len(f) : a[k] = f[k]
    BY <1>2, AppendProperties
<1> HIDE DEF a
<1>5. Len(a) = n + 1 /\ a[n + 1] = x /\ \A k \in 1..n : a[k] = s[k]
    BY <1>3, <1>4
<1> QED
    BY <1>2, <1>3, <1>4, <1>5 DEF a, f

LEMMA JoinOne ==
    ASSUME NEW T, NEW s \in Seq(T), NEW x \in T
    PROVE  s \o <<x>> = Append(s, x)
BY AppendIsConcat

LEMMA JoinTwo ==
    ASSUME NEW T, NEW s \in Seq(T), NEW x \in T, NEW y \in T
    PROVE  /\ s \o <<x, y>> \in Seq(T)
           /\ Len(s \o <<x, y>>) = Len(s) + 2
           /\ (s \o <<x, y>>)[Len(s) + 1] = x
           /\ (s \o <<x, y>>)[Len(s) + 2] = y
           /\ \A k \in 1..Len(s) : (s \o <<x, y>>)[k] = s[k]
<1>1. /\ <<x, y>> \in Seq(T) /\ Len(<<x, y>>) = 2
      /\ <<x, y>>[1] = x /\ <<x, y>>[2] = y
    OBVIOUS
<1> DEFINE p == <<x, y>>
<1>2. p \in Seq(T) /\ Len(p) = 2 /\ p[1] = x /\ p[2] = y
    BY <1>1
<1> HIDE DEF p
<1>3. /\ s \o p \in Seq(T)
      /\ Len(s \o p) = Len(s) + Len(p)
      /\ \A i \in 1..Len(s) + Len(p) :
            (s \o p)[i] = IF i <= Len(s) THEN s[i] ELSE p[i - Len(s)]
    BY <1>2, ConcatProperties
<1>4. Len(s) \in Nat
    BY LenProperties
<1>5. /\ Len(s) + 1 \in 1..Len(s) + 2 /\ ~(Len(s) + 1 <= Len(s)) /\ Len(s) + 1 - Len(s) = 1
      /\ Len(s) + 2 \in 1..Len(s) + 2 /\ ~(Len(s) + 2 <= Len(s)) /\ Len(s) + 2 - Len(s) = 2
      /\ \A k \in 1..Len(s) : k \in 1..Len(s) + 2 /\ k <= Len(s)
    BY <1>4
<1>6. /\ (s \o p)[Len(s) + 1] = x
      /\ (s \o p)[Len(s) + 2] = y
      /\ \A k \in 1..Len(s) : (s \o p)[k] = s[k]
    BY <1>2, <1>3, <1>5
<1> QED
    BY <1>2, <1>3, <1>6 DEF p

-----------------------------------------------------------------------------
(* Constructs, calls and maps. *)

Token == Construct \cup {Eof}

LEMMA TokenKinds ==
    ASSUME NEW c \in Token
    PROVE  /\ c.kind \in Kind
           /\ c.kind = "eof" => c = Eof
           /\ c.kind = "uses" => c.file \in Files \cup Missing /\ c.name \in SpaceNames
           /\ c.kind = "func" => c.name \in FunctionNames
           /\ c.kind = "struct" => c.name \in TypeNames
           /\ c.kind = "extension" => c.type \in TypeNames /\ c.name \in FunctionNames
<1>1. CASE c \in [kind : {"uses"}, file : Files \cup Missing, name : SpaceNames]
    BY <1>1 DEF Kind
<1>2. CASE c \in [kind : {"func"}, name : FunctionNames]
    BY <1>2 DEF Kind
<1>3. CASE c \in [kind : {"struct"}, name : TypeNames]
    BY <1>3 DEF Kind
<1>4. CASE c \in [kind : {"extension"}, type : TypeNames, name : FunctionNames]
    BY <1>4 DEF Kind
<1>5. CASE c \in [kind : {"attributes", "other"}]
    BY <1>5 DEF Kind
<1>6. CASE c = Eof
    BY <1>6 DEF Kind, Eof
<1> QED
    BY <1>1, <1>2, <1>3, <1>4, <1>5, <1>6 DEF Token, Construct

LEMMA CallTyped ==
    ASSUME NEW f \in Files
    PROVE  /\ Call(f) \in Frame
           /\ Call(f).file = f
           /\ Call(f).at = 0
           /\ Call(f).attributes = FALSE
BY DEF Call, Frame, Kind

\* A call goes on to its next construct.
LEMMA AdvancedTyped ==
    ASSUME NEW t \in Frame
    PROVE  LET u == [t EXCEPT !.at = @ + 1]
           IN  /\ u \in Frame
               /\ u.file = t.file
               /\ u.at = t.at + 1
               /\ u.attributes = t.attributes
BY DEF Frame

\* And keeps the token k there, for its return to it.
Saved(t, k) == [t EXCEPT !.at = @ + 1, !.old_current_token = k]

LEMMA SavedTyped ==
    ASSUME NEW t \in Frame, NEW k \in Kind
    PROVE  /\ Saved(t, k) \in Frame
           /\ Saved(t, k).file = t.file
           /\ Saved(t, k).at = t.at + 1
           /\ Saved(t, k).attributes = t.attributes
           /\ Saved(t, k).old_current_token = k
<1> DEFINE x == [t EXCEPT !.at = @ + 1]
<1>1. x \in Frame /\ x.file = t.file /\ x.at = t.at + 1 /\ x.attributes = t.attributes
    BY AdvancedTyped
<1> HIDE DEF x
<1>2. LET u == [x EXCEPT !.old_current_token = k]
      IN  /\ u \in Frame
          /\ u.file = x.file
          /\ u.at = x.at
          /\ u.attributes = x.attributes
          /\ u.old_current_token = k
    BY <1>1 DEF Frame
<1>3. Saved(t, k) = [x EXCEPT !.old_current_token = k]
    BY DEF x, Saved
<1> QED
    BY <1>1, <1>2, <1>3

LEMMA FlagTyped ==
    ASSUME NEW t \in Frame, NEW b \in BOOLEAN
    PROVE  LET u == [t EXCEPT !.attributes = b]
           IN  /\ u \in Frame
               /\ u.file = t.file
               /\ u.at = t.at
               /\ u.attributes = b
               /\ u.old_current_token = t.old_current_token
BY DEF Frame

-----------------------------------------------------------------------------
(* The invariant. *)

Calls  == 1..Len(stack)
Listed == {searched[i] : i \in DOMAIN searched}

\* A call is at the last construct reached of its file, which is on the list since the
\* first one; only the innermost call may not have begun.
Placed ==
    \A i \in Calls :
        /\ stack[i].at > 0 =>
              stack[i].file \in Listed /\ Len(text[stack[i].file]) = stack[i].at
        /\ stack[i].at = 0 => i = Len(stack) /\ stack[i].file \notin Listed

\* The token of a call: the global variable, or what the call has kept of it.
Tokens ==
    /\ \A i \in Calls :
          i < Len(stack) =>
             stack[i].old_current_token = text[stack[i].file][stack[i].at].kind
    /\ stack # <<>> /\ Top.at > 0 => currentToken = Here.kind

\* No file is read by two calls, or is on the list twice.
Apart ==
    /\ \A i, j \in Calls : i < j => stack[i].file # stack[j].file
    /\ \A i, j \in 1..Len(searched) : searched[i] = searched[j] => i = j

\* A file on the list that is no longer being read has been, to its end.
Ended(f) == text[f] # <<>> /\ text[f][Len(text[f])] = Eof
Finished ==
    \A f \in Files : f \in Listed /\ (\A i \in Calls : stack[i].file # f) => Ended(f)

\* There are calls as long as the program is being parsed, and none afterwards.
Halting == (Parsing => stack # <<>>) /\ (status = "parsed" => stack = <<>>)

Reading == Placed /\ Tokens /\ Apart /\ Finished /\ Halting

LEMMA ListTyped ==
    ASSUME TypeOK
    PROVE  /\ text \in [Files -> Seq(Token)]
           /\ stack \in Seq(Frame)
           /\ Len(stack) \in Nat
           /\ searched \in Seq(Files)
           /\ Len(searched) \in Nat
           /\ DOMAIN searched = 1..Len(searched)
           /\ DOMAIN stack = Calls
           /\ \A i \in Calls :
                 /\ stack[i] \in Frame
                 /\ stack[i].file \in Files
                 /\ stack[i].at \in Nat
                 /\ text[stack[i].file] \in Seq(Token)
<1>1. /\ text \in [Files -> Seq(Token)]
      /\ stack \in Seq(Frame)
      /\ searched \in Seq(Files)
    BY DEF TypeOK, Token
<1>2. /\ Len(stack) \in Nat /\ Len(searched) \in Nat
      /\ DOMAIN searched = 1..Len(searched)
      /\ DOMAIN stack = Calls
    BY <1>1, LenProperties DEF Calls
<1>3. ASSUME NEW i \in Calls
      PROVE  /\ stack[i] \in Frame
             /\ stack[i].file \in Files
             /\ stack[i].at \in Nat
             /\ text[stack[i].file] \in Seq(Token)
    <2>1. stack[i] \in Frame
        BY <1>1, <1>3 DEF Calls
    <2>2. stack[i].file \in Files /\ stack[i].at \in Nat
        BY <2>1 DEF Frame
    <2> QED
        BY <1>1, <2>1, <2>2
<1> QED
    BY <1>1, <1>2, <1>3

LEMMA TopTyped ==
    ASSUME TypeOK, stack # <<>>
    PROVE  /\ Len(stack) \in Nat \ {0}
           /\ Len(stack) \in Calls
           /\ Top = stack[Len(stack)]
           /\ Top \in Frame
           /\ Top.file \in Files
           /\ Top.at \in Nat
           /\ Top.attributes \in BOOLEAN
           /\ text[Top.file] \in Seq(Token)
           /\ Under \in Seq(Frame)
           /\ Len(Under) = Len(stack) - 1
           /\ \A k \in 1..Len(stack) - 1 : Under[k] = stack[k] /\ k \in Calls /\ k < Len(stack)
           /\ \A k \in Calls : k = Len(stack) \/ k \in 1..Len(stack) - 1
<1>1. stack \in Seq(Frame) /\ Len(stack) \in Nat \ {0}
    BY ListTyped, LastTyped
<1>2. Len(stack) \in Calls /\ Top = stack[Len(stack)]
    BY <1>1 DEF Calls, Top
<1>3. Top \in Frame /\ Top.file \in Files /\ Top.at \in Nat /\ text[Top.file] \in Seq(Token)
    BY <1>2, ListTyped
<1>4. Top.attributes \in BOOLEAN
    BY <1>3 DEF Frame
<1>5. Len(stack) - 1 \in Nat /\ Len(stack) - 1 <= Len(stack)
    BY <1>1
<1>6. /\ Under \in Seq(Frame)
      /\ Len(Under) = Len(stack) - 1
      /\ \A k \in 1..Len(stack) - 1 : Under[k] = stack[k]
    <2> DEFINE n == Len(stack) - 1
    <2>1. n \in Nat /\ n <= Len(stack)
        BY <1>5
    <2> HIDE DEF n
    <2>2. LET f == SubSeq(stack, 1, n)
          IN  f \in Seq(Frame) /\ Len(f) = n /\ \A k \in 1..n : f[k] = stack[k]
        BY <1>1, <1>3, <2>1, PrefixAnd
    <2> QED
        BY <2>2 DEF Under, n
<1>7. /\ \A k \in 1..Len(stack) - 1 : k \in Calls /\ k < Len(stack)
      /\ \A k \in Calls : k = Len(stack) \/ k \in 1..Len(stack) - 1
    BY <1>1 DEF Calls
<1> QED
    BY <1>1, <1>2, <1>3, <1>4, <1>6, <1>7

LEMMA UpcomingTyped ==
    ASSUME TypeOK, stack # <<>>, NEW c \in Upcoming
    PROVE  c \in Token
<1> DEFINE i == Top.at + 1
           s == text[Top.file]
<1>1. s \in Seq(Token)
    BY TopTyped
<1>2. (c \in {s[i]} /\ i \in DOMAIN s) \/ c \in {Eof} \cup Construct
    BY DEF Upcoming, Found
<1> HIDE DEF i, s
<1>3. i \in DOMAIN s => s[i] \in Token
    BY <1>1, LenProperties
<1> QED
    BY <1>2, <1>3 DEF Token

\* The text after a step that has construct c before it.
LEMMA AheadMeans ==
    ASSUME TypeOK, stack # <<>>, Placed, NEW c \in Token, Ahead(c)
    PROVE  /\ text' \in [Files -> Seq(Token)]
           /\ Len(text'[Top.file]) = Top.at + 1
           /\ text'[Top.file][Top.at + 1] = c
           /\ \A k \in 1..Top.at : text'[Top.file][k] = text[Top.file][k]
           /\ \A f \in Files : f # Top.file => text'[f] = text[f]
<1> DEFINE s == text[Top.file]
           n == Top.at
           p == SubSeq(s, 1, n)
<1>1. s \in Seq(Token) /\ n \in Nat /\ Top.file \in Files /\ Len(s) \in Nat
    BY TopTyped, LenProperties
<1>2. n <= Len(s)
    <2>1. n > 0 => Len(s) = n
        BY TopTyped DEF Placed
    <2> QED
        BY <1>1, <2>1
<1>3. text' = [text EXCEPT ![Top.file] = p \o <<c>>]
    BY DEF Ahead
<1> HIDE DEF s, n
<1>4. /\ p \in Seq(Token)
      /\ Append(p, c) \in Seq(Token)
      /\ Len(Append(p, c)) = n + 1
      /\ Append(p, c)[n + 1] = c
      /\ \A k \in 1..n : Append(p, c)[k] = s[k]
    BY <1>1, <1>2, PrefixAnd
<1> HIDE DEF p
<1>5. text' = [text EXCEPT ![Top.file] = Append(p, c)]
    BY <1>3, <1>4, JoinOne
<1>6. text \in [Files -> Seq(Token)]
    BY ListTyped
<1>7. text'[Top.file] = Append(p, c)
    BY <1>1, <1>5, <1>6
<1>8. text' \in [Files -> Seq(Token)] /\ \A f \in Files : f # Top.file => text'[f] = text[f]
    BY <1>4, <1>5, <1>6
<1> QED
    BY <1>4, <1>7, <1>8 DEF s, n

\* The calls after it, when the innermost one goes on as t.
LEMMA LexMeans ==
    ASSUME TypeOK, stack # <<>>, NEW c \in Token, NEW t \in Frame, Lex(c, t),
           t.file = Top.file, t.at = Top.at
    PROVE  /\ stack' \in Seq(Frame)
           /\ Len(stack') = Len(stack)
           /\ \A k \in 1..Len(stack) - 1 : stack'[k] = stack[k]
           /\ LET u == stack'[Len(stack)]
              IN  u.file = Top.file /\ u.at = Top.at + 1 /\ u.attributes = t.attributes
           /\ currentToken' = c.kind
<1> DEFINE u == [t EXCEPT !.at = @ + 1]
           n == Len(stack)
           a == Append(Under, u)
<1>1. u \in Frame /\ u.file = t.file /\ u.at = t.at + 1 /\ u.attributes = t.attributes
    BY AdvancedTyped
<1>2. stack' = a /\ currentToken' = c.kind
    BY DEF Lex
<1> HIDE DEF u
<1>3. /\ Under \in Seq(Frame) /\ Len(Under) = n - 1 /\ n \in Nat \ {0}
      /\ \A k \in 1..n - 1 : Under[k] = stack[k]
    BY TopTyped
<1>4. /\ a \in Seq(Frame)
      /\ Len(a) = Len(Under) + 1
      /\ a[Len(Under) + 1] = u
      /\ \A k \in 1..Len(Under) : a[k] = Under[k]
    BY <1>1, <1>3, AppendProperties
<1> HIDE DEF a, n
<1>5. Len(a) = n /\ a[n] = u /\ \A k \in 1..n - 1 : a[k] = stack[k]
    BY <1>3, <1>4
<1> QED
    BY <1>1, <1>2, <1>4, <1>5 DEF n
-----------------------------------------------------------------------------
(* The steps, by what they do to the calls. *)

\* The file f is on the list, and others are if they were.
Listing(f) ==
    /\ searched' \in Seq(Files)
    /\ Listed' = Listed \cup {f}
    /\ \A i, j \in 1..Len(searched') : searched'[i] = searched'[j] => i = j

LEMMA NewListed ==
    ASSUME TypeOK, Apart, NEW f \in Files, f \notin Listed, searched' = Searched(f)
    PROVE  Listing(f)
<1> DEFINE n == Len(searched)
<1>1. searched \in Seq(Files) /\ n \in Nat /\ DOMAIN searched = 1..n
    BY ListTyped
<1>2. /\ searched' \in Seq(Files)
      /\ Len(searched') = n + 1
      /\ searched'[n + 1] = f
      /\ \A k \in 1..n : searched'[k] = searched[k]
    BY <1>1, AppendProperties DEF Searched
<1>3. DOMAIN searched' = 1..n + 1
    BY <1>2, LenProperties
<1>4. \A k \in 1..n : searched[k] # f
    BY <1>1 DEF Listed
<1>5. \A i, j \in 1..n : searched[i] = searched[j] => i = j
    BY DEF Apart
<1>6. /\ \A k \in 1..n + 1 : k = n + 1 \/ k \in 1..n
      /\ \A k \in 1..n : k \in 1..n + 1
      /\ n + 1 \in 1..n + 1
    BY <1>1
<1> HIDE DEF n
<1>7. \A i, j \in 1..n + 1 : searched'[i] = searched'[j] => i = j
    BY <1>2, <1>4, <1>5, <1>6
<1>8. Listed' = Listed \cup {f}
    <2>1. \A x \in Listed' : x \in Listed \cup {f}
        BY <1>1, <1>2, <1>3, <1>6 DEF Listed, n
    <2>2. \A x \in Listed : x \in Listed'
        BY <1>1, <1>2, <1>3, <1>6 DEF Listed, n
    <2>3. f \in Listed'
        BY <1>2, <1>3, <1>6 DEF Listed, n
    <2> QED
        BY <2>1, <2>2, <2>3
<1> QED
    BY <1>2, <1>7, <1>8 DEF Listing

LEMMA OldListed ==
    ASSUME TypeOK, Apart, NEW f \in Files, f \in Listed, UNCHANGED searched
    PROVE  Listing(f)
BY ListTyped DEF Listing, Listed, Apart

\* The innermost call goes on, in its file.
LEMMA AdvanceReads ==
    ASSUME TypeOK, Reading, stack # <<>>, NEW c \in Token, NEW t \in Frame, Lex(c, t),
           t.file = Top.file, t.at = Top.at, Listing(Top.file), UNCHANGED status, Parsing
    PROVE  /\ Reading'
           /\ text' \in [Files -> Seq(Token)]
           /\ stack' \in Seq(Frame)
           /\ currentToken' \in Kind
           /\ searched' \in Seq(Files)
<1> DEFINE n == Len(stack)
           g == Top.file
           a == Top.at
<1>1. Ahead(c)
    BY DEF Lex
<1>2. /\ text' \in [Files -> Seq(Token)]
      /\ Len(text'[g]) = a + 1
      /\ text'[g][a + 1] = c
      /\ \A f \in Files : f # g => text'[f] = text[f]
    BY <1>1, AheadMeans DEF Reading
<1>3. /\ stack' \in Seq(Frame)
      /\ Len(stack') = n
      /\ \A k \in 1..n - 1 : stack'[k] = stack[k]
      /\ stack'[n].file = g /\ stack'[n].at = a + 1
      /\ currentToken' = c.kind
    BY LexMeans
<1>4. /\ n \in Nat \ {0} /\ n \in Calls /\ g \in Files /\ a \in Nat
      /\ stack[n].file = g /\ stack[n].at = a
      /\ \A k \in 1..n - 1 : k \in Calls /\ k < n
      /\ \A k \in Calls : k = n \/ k \in 1..n - 1
    BY TopTyped
<1>5. Calls' = Calls
    BY <1>3 DEF Calls
<1>6. \A k \in 1..n - 1 : stack[k].file \in Files /\ stack[k].file # g /\ stack[k].at > 0
    <2>1. \A k \in 1..n - 1 : stack[k].file \in Files /\ stack[k].at \in Nat
        BY <1>4, ListTyped
    <2>2. \A k \in 1..n - 1 : stack[k].file # g
        BY <1>4 DEF Reading, Apart
    <2>3. \A k \in 1..n - 1 : stack[k].at # 0
        BY <1>4 DEF Reading, Placed
    <2> QED
        BY <2>1, <2>2, <2>3
<1>7. Listed' = Listed \cup {g}
    BY DEF Listing
<1>8. Top'.file = g /\ Top'.at = a + 1 /\ stack' # <<>>
    <2>1. Top' = stack'[n]
        BY <1>3 DEF Top
    <2>2. stack' # <<>>
        BY <1>3, <1>4, EmptySeq
    <2> QED
        BY <1>3, <2>1, <2>2
<1> HIDE DEF n, g, a
<1>9. Placed'
    <2> SUFFICES ASSUME NEW i \in Calls
                 PROVE  /\ stack'[i].at > 0
                        /\ stack'[i].file \in Listed'
                        /\ Len(text'[stack'[i].file]) = stack'[i].at
        BY <1>5 DEF Placed
    <2>1. CASE i = n
        BY <1>2, <1>3, <1>4, <1>7, <2>1
    <2>2. CASE i \in 1..n - 1
        <3>1. stack[i].file \in Listed /\ Len(text[stack[i].file]) = stack[i].at
            BY <1>4, <1>6, <2>2 DEF Reading, Placed
        <3> QED
            BY <1>2, <1>3, <1>6, <1>7, <2>2, <3>1
    <2> QED
        BY <1>4, <2>1, <2>2
<1>10. Tokens'
    <2>1. ASSUME NEW i \in 1..n - 1
          PROVE  stack'[i].old_current_token = text'[stack'[i].file][stack'[i].at].kind
        <3>1. stack[i].old_current_token = text[stack[i].file][stack[i].at].kind
            BY <1>4, <2>1 DEF Reading, Tokens, n
        <3>2. stack'[i] = stack[i] /\ stack[i].file \in Files /\ stack[i].file # g
            BY <1>3, <1>6, <2>1
        <3>3. text'[stack[i].file] = text[stack[i].file]
            BY <1>2, <3>2
        <3> QED
            BY <3>1, <3>2, <3>3
    <2>2. ASSUME NEW i \in Calls, i < n PROVE i \in 1..n - 1
        <3>1. n \in Nat
            BY <1>4
        <3>2. i # n
            BY <2>2, <3>1
        <3> QED
            BY <1>4, <3>2
    <2>3. text'[Top'.file][Top'.at] = c
        BY <1>2, <1>8
    <2> QED
        BY <1>3, <1>5, <2>1, <2>2, <2>3 DEF Tokens, Here
<1>11. Apart'
    <2>1. \A i \in Calls : stack'[i].file = stack[i].file
        BY <1>3, <1>4
    <2>2. \A i, j \in Calls : i < j => stack[i].file # stack[j].file
        BY DEF Reading, Apart
    <2>3. \A i, j \in 1..Len(searched') : searched'[i] = searched'[j] => i = j
        BY DEF Listing
    <2> QED
        BY <1>5, <2>1, <2>2, <2>3 DEF Apart
<1>12. Finished'
    <2> SUFFICES ASSUME NEW f \in Files, f \in Listed', \A i \in Calls : stack'[i].file # f
                 PROVE  Ended(f)'
        BY <1>5 DEF Finished
    <2>1. f # g
        BY <1>3, <1>4
    <2>2. \A i \in Calls : stack[i].file # f
        BY <1>3, <1>4, <2>1
    <2>3. f \in Listed
        BY <1>7, <2>1
    <2>4. Ended(f)
        BY <2>2, <2>3 DEF Reading, Finished
    <2> QED
        BY <1>2, <2>1, <2>4 DEF Ended
<1>13. Halting'
    BY <1>8 DEF Halting, Parsing
<1> QED
    BY <1>2, <1>3, <1>9, <1>10, <1>11, <1>12, <1>13, TokenKinds DEF Reading, Listing
LEMMA HereMeans ==
    ASSUME TypeOK, Reading, stack # <<>>, Top.at > 0
    PROVE  /\ Here \in Token
           /\ currentToken = Here.kind
           /\ Len(text[Top.file]) = Top.at
           /\ Top.file \in Listed
           /\ \A i \in Calls : stack[i].file \in Listed
<1>1. Len(text[Top.file]) = Top.at /\ Top.file \in Listed
    BY TopTyped DEF Reading, Placed
<1>2. text[Top.file] \in Seq(Token) /\ Top.at \in Nat
    BY TopTyped
<1>3. Here \in Token
    BY <1>1, <1>2 DEF Here
<1>4. currentToken = Here.kind
    BY DEF Reading, Tokens
<1>5. ASSUME NEW i \in Calls
      PROVE  stack[i].file \in Listed
    <2>1. stack[i].at = 0 => i = Len(stack)
        BY <1>5 DEF Reading, Placed
    <2>2. stack[i].at # 0
        BY <2>1 DEF Top
    <2>3. stack[i].at > 0
        BY <1>5, <2>2, ListTyped
    <2> QED
        BY <1>5, <2>3 DEF Reading, Placed
<1> QED
    BY <1>1, <1>3, <1>4, <1>5

\* A file is used that has not been: its call is the innermost one now.
LEMMA UsesReads ==
    ASSUME TypeOK, Reading, Uses
    PROVE  /\ Reading'
           /\ text' \in [Files -> Seq(Token)]
           /\ stack' \in Seq(Frame)
           /\ currentToken' \in Kind
           /\ searched' \in Seq(Files)
           /\ Here.name \in SpaceNames /\ Here.file \in Files
<1>1. stack # <<>> /\ Top.at > 0 /\ currentToken = "uses" /\ Parsing
    BY DEF Uses, At, Reading, Halting
<1> DEFINE n == Len(stack)
           g == Top.file
           a == Top.at
           h == Here.file
<1>2. Here.kind = "uses" /\ Here \in Token /\ Len(text[g]) = a /\ g \in Listed
    BY <1>1, HereMeans
<1>3. Here.name \in SpaceNames /\ h \in Files
    BY <1>2, TokenKinds DEF Uses
<1>4. \A i \in Calls : stack[i].file \in Listed
    BY <1>1, HereMeans
<1>5. h \notin Listed
    BY DEF Uses, HasSearched, Listed
<1>6. PICK c \in Upcoming :
        /\ Ahead(c)
        /\ stack' = Under \o <<Saved(Top, c.kind), Call(h)>>
        /\ currentToken' = c.kind
    BY DEF Uses, Saved
<1>7. c \in Token /\ c.kind \in Kind
    BY <1>1, <1>6, UpcomingTyped, TokenKinds
<1>8. /\ text' \in [Files -> Seq(Token)]
      /\ Len(text'[g]) = a + 1
      /\ text'[g][a + 1] = c
      /\ \A f \in Files : f # g => text'[f] = text[f]
    BY <1>1, <1>6, <1>7, AheadMeans DEF Reading
<1>9. /\ n \in Nat \ {0} /\ n \in Calls /\ g \in Files /\ a \in Nat
      /\ stack[n].file = g /\ stack[n].at = a /\ Top \in Frame
      /\ Under \in Seq(Frame) /\ Len(Under) = n - 1
      /\ \A k \in 1..n - 1 : Under[k] = stack[k] /\ k \in Calls /\ k < n
      /\ \A k \in Calls : k = n \/ k \in 1..n - 1
    BY <1>1, TopTyped
<1>10. /\ stack' \in Seq(Frame)
       /\ Len(stack') = n + 1
       /\ \A k \in 1..n - 1 : stack'[k] = stack[k]
       /\ stack'[n].file = g /\ stack'[n].at = a + 1
       /\ stack'[n].old_current_token = c.kind
       /\ stack'[n + 1].file = h /\ stack'[n + 1].at = 0
    <2> DEFINE x == Saved(Top, c.kind)
               y == Call(h)
    <2>1. /\ x \in Frame /\ x.file = g /\ x.at = a + 1 /\ x.old_current_token = c.kind
          /\ y \in Frame /\ y.file = h /\ y.at = 0
        <3>1. x \in Frame /\ x.file = Top.file /\ x.at = Top.at + 1 /\ x.old_current_token = c.kind
            BY <1>7, <1>9, SavedTyped
        <3>2. y \in Frame /\ y.file = h /\ y.at = 0
            BY <1>3, CallTyped
        <3> QED
            BY <3>1, <3>2
    <2>2. stack' = Under \o <<x, y>>
        BY <1>6
    <2>5. Under \in Seq(Frame)
        BY <1>9
    <2> HIDE DEF x, y, n, g, a, h, Under
    <2>3. /\ stack' \in Seq(Frame)
          /\ Len(stack') = Len(Under) + 2
          /\ stack'[Len(Under) + 1] = x
          /\ stack'[Len(Under) + 2] = y
          /\ \A k \in 1..Len(Under) : stack'[k] = Under[k]
        BY <2>1, <2>2, <2>5, JoinTwo
    <2>4. Len(Under) + 1 = n /\ Len(Under) + 2 = n + 1
        BY <1>9
    <2> QED
        BY <1>9, <2>1, <2>3, <2>4
<1>11. /\ \A k \in 1..n + 1 : k = n + 1 \/ k = n \/ k \in 1..n - 1
       /\ Calls' = 1..n + 1 /\ Calls = 1..n
       /\ n \in Calls' /\ n + 1 \in Calls'
       /\ \A k \in Calls : k \in Calls'
    BY <1>9, <1>10 DEF Calls
<1>12. Listed' = Listed /\ UNCHANGED <<searched, status>>
    BY DEF Uses, Listed
<1>13. Top' = stack'[n + 1] /\ stack' # <<>>
    <2>1. stack' # <<>>
        BY <1>9, <1>10, EmptySeq
    <2> QED
        BY <1>10, <2>1 DEF Top
<1> HIDE DEF n, g, a, h
<1>14. \A k \in 1..n - 1 : stack[k].file \in Files /\ stack[k].file # g /\ stack[k].at > 0
    <2>1. \A k \in 1..n - 1 : stack[k].file \in Files /\ stack[k].at \in Nat
        BY <1>9, ListTyped
    <2>2. \A k \in 1..n - 1 : stack[k].file # g
        BY <1>9 DEF Reading, Apart
    <2>3. \A k \in 1..n - 1 : stack[k].at # 0
        BY <1>9 DEF Reading, Placed, n
    <2> QED
        BY <2>1, <2>2, <2>3
<1>15. Placed'
    <2> SUFFICES ASSUME NEW i \in 1..n + 1
                 PROVE  /\ stack'[i].at > 0 => stack'[i].file \in Listed
                                               /\ Len(text'[stack'[i].file]) = stack'[i].at
                        /\ stack'[i].at = 0 => i = n + 1 /\ stack'[i].file \notin Listed
        BY <1>10, <1>11, <1>12 DEF Placed
    <2>1. CASE i = n + 1
        BY <1>5, <1>10, <2>1
    <2>2. CASE i = n
        BY <1>2, <1>8, <1>9, <1>10, <2>2
    <2>3. CASE i \in 1..n - 1
        <3>1. stack[i].file \in Listed /\ Len(text[stack[i].file]) = stack[i].at
            BY <1>9, <1>14, <2>3 DEF Reading, Placed
        <3>2. /\ stack'[i].at > 0 /\ stack'[i].file \in Listed
              /\ Len(text'[stack'[i].file]) = stack'[i].at
            BY <1>8, <1>10, <1>14, <2>3, <3>1
        <3> QED
            BY <3>2
    <2> QED
        BY <1>11, <2>1, <2>2, <2>3
<1>16. Tokens'
    <2>1. ASSUME NEW i \in 1..n - 1
          PROVE  stack'[i].old_current_token = text'[stack'[i].file][stack'[i].at].kind
        <3>1. stack[i].old_current_token = text[stack[i].file][stack[i].at].kind
            BY <1>9, <2>1 DEF Reading, Tokens, n
        <3> QED
            BY <1>8, <1>10, <1>14, <2>1, <3>1
    <2>2. stack'[n].old_current_token = text'[stack'[n].file][stack'[n].at].kind
        BY <1>8, <1>10
    <2>3. \A i \in 1..n + 1 : i < n + 1 => i = n \/ i \in 1..n - 1
        BY <1>9
    <2>4. ~(Top'.at > 0)
        BY <1>10, <1>13
    <2> QED
        BY <1>10, <1>11, <2>1, <2>2, <2>3, <2>4 DEF Tokens
<1>17. Apart'
    <2>1. \A i \in Calls : stack'[i].file = stack[i].file
        BY <1>9, <1>10
    <2>2. \A i, j \in Calls : i < j => stack[i].file # stack[j].file
        BY DEF Reading, Apart
    <2>3. \A i \in Calls : stack'[i].file # h
        BY <1>4, <1>5, <2>1
    <2>4. /\ \A i \in 1..n + 1 : i = n + 1 \/ i \in Calls
          /\ \A i \in 1..n + 1 : ~(n + 1 < i)
        BY <1>9, <1>11
    <2>5. \A i, j \in 1..n + 1 : i < j => stack'[i].file # stack'[j].file
        <3> SUFFICES ASSUME NEW i \in 1..n + 1, NEW j \in 1..n + 1, i < j
                     PROVE  stack'[i].file # stack'[j].file
            OBVIOUS
        <3>1. i \in Calls
            BY <2>4
        <3>2. CASE j = n + 1
            BY <1>10, <2>3, <3>1, <3>2
        <3>3. CASE j \in Calls
            BY <2>1, <2>2, <3>1, <3>3
        <3> QED
            BY <2>4, <3>2, <3>3
    <2> QED
        BY <1>11, <1>12, <2>5 DEF Apart, Reading
<1>18. Finished'
    <2> SUFFICES ASSUME NEW f \in Files, f \in Listed, \A i \in Calls' : stack'[i].file # f
                 PROVE  Ended(f)'
        BY <1>12 DEF Finished
    <2>1. f # g
        BY <1>10, <1>11
    <2>2. \A i \in Calls : stack[i].file # f
        BY <1>9, <1>10, <1>11, <2>1
    <2>3. Ended(f)
        BY <2>2 DEF Reading, Finished
    <2> QED
        BY <1>8, <2>1, <2>3 DEF Ended
<1>19. Halting'
    BY <1>1, <1>12, <1>13 DEF Halting, Parsing
<1> QED
    BY <1>3, <1>6, <1>7, <1>8, <1>10, <1>12, <1>15, <1>16, <1>17, <1>18, <1>19, ListTyped
    DEF Reading, h
\* The innermost call has come to the end of its file.
LEMMA AtEnd ==
    ASSUME TypeOK, Reading, At("eof")
    PROVE  stack # <<>> /\ Top.at > 0 /\ Here = Eof /\ Ended(Top.file)
<1>1. stack # <<>> /\ Top.at > 0 /\ currentToken = "eof"
    BY DEF At, Reading, Halting
<1>2. Here = Eof /\ Len(text[Top.file]) = Top.at
    BY <1>1, HereMeans, TokenKinds
<1>3. text[Top.file] \in Seq(Token)
    BY <1>1, TopTyped
<1>4. text[Top.file] # <<>>
    BY <1>1, <1>2, <1>3, EmptySeq
<1> QED
    BY <1>1, <1>2, <1>4 DEF Here, Ended

LEMMA EndOfIncludeReads ==
    ASSUME TypeOK, Reading, EndOfInclude
    PROVE  /\ Reading'
           /\ stack' \in Seq(Frame)
           /\ currentToken' \in Kind
           /\ UNCHANGED <<text, searched>>
<1>1. stack # <<>> /\ Top.at > 0 /\ Here = Eof /\ Ended(Top.file) /\ Parsing
    BY AtEnd DEF EndOfInclude, At
<1> DEFINE n == Len(stack)
           m == n - 1
           t == Under[Len(Under)]
           u == [t EXCEPT !.attributes = FALSE]
<1>2. /\ n \in Nat \ {0} /\ n \in Calls
      /\ stack[n].file = Top.file /\ Top.file \in Files
      /\ Under \in Seq(Frame) /\ Len(Under) = m
      /\ \A k \in 1..m : Under[k] = stack[k] /\ k \in Calls /\ k < n
      /\ \A k \in Calls : k = n \/ k \in 1..m
    BY <1>1, TopTyped
<1>3. n > 1
    BY DEF EndOfInclude
<1>4. m \in Nat \ {0} /\ m \in 1..m /\ n = m + 1
    BY <1>2, <1>3
<1>5. /\ stack' = [Under EXCEPT ![Len(Under)].attributes = FALSE]
      /\ currentToken' = t.old_current_token
      /\ UNCHANGED <<text, searched, status>>
    BY DEF EndOfInclude, Restored
<1> HIDE DEF n, m
<1>6. t = stack[m] /\ t \in Frame
    BY <1>2, <1>4
<1>7. u \in Frame /\ u.file = t.file /\ u.at = t.at /\ u.old_current_token = t.old_current_token
    BY <1>6, FlagTyped
<1>8. stack' = [Under EXCEPT ![m] = u]
    BY <1>2, <1>4, <1>5
<1> HIDE DEF u, t
<1>9. /\ stack' \in Seq(Frame)
      /\ Len(stack') = m
      /\ \A k \in 1..m : stack'[k] = IF k = m THEN u ELSE Under[k]
    <2>1. m \in 1..Len(Under)
        BY <1>2, <1>4
    <2> QED
        BY <1>2, <1>7, <1>8, <2>1, ExceptSeq
<1>10. \A k \in 1..m : /\ stack'[k].file = stack[k].file
                       /\ stack'[k].at = stack[k].at
                       /\ stack'[k].old_current_token = stack[k].old_current_token
    BY <1>2, <1>6, <1>7, <1>9
<1>11. Calls' = 1..m /\ Listed' = Listed
    BY <1>5, <1>9 DEF Calls, Listed
<1>12. Top' = stack'[m] /\ stack' # <<>>
    <2>1. stack' # <<>>
        BY <1>4, <1>9, EmptySeq
    <2> QED
        BY <1>9, <2>1 DEF Top
<1>13. \A k \in 1..m : /\ stack[k].at > 0
                       /\ stack[k].file \in Listed
                       /\ Len(text[stack[k].file]) = stack[k].at
    <2> SUFFICES ASSUME NEW k \in 1..m
                 PROVE  /\ stack[k].at > 0
                        /\ stack[k].file \in Listed
                        /\ Len(text[stack[k].file]) = stack[k].at
        OBVIOUS
    <2>1. k \in Calls /\ k # n /\ stack[k].at \in Nat
        BY <1>2, <1>4, ListTyped
    <2>2. stack[k].at # 0
        BY <2>1 DEF Reading, Placed, n
    <2>3. stack[k].at > 0
        BY <2>1, <2>2
    <2> QED
        BY <2>1, <2>3 DEF Reading, Placed
<1>14. \A k \in 1..m :
         stack[k].old_current_token = text[stack[k].file][stack[k].at].kind
    BY <1>2 DEF Reading, Tokens, n
<1>15. Placed'
    <2> SUFFICES ASSUME NEW i \in 1..m
                 PROVE  /\ stack'[i].at > 0
                        /\ stack'[i].file \in Listed
                        /\ Len(text[stack'[i].file]) = stack'[i].at
        BY <1>5, <1>11 DEF Placed
    <2> QED
        BY <1>10, <1>13
<1>16. Tokens'
    <2>1. \A i \in 1..m :
            stack'[i].old_current_token = text'[stack'[i].file][stack'[i].at].kind
        BY <1>5, <1>10, <1>14
    <2>2. currentToken' = text'[stack'[m].file][stack'[m].at].kind
        BY <1>4, <1>5, <1>6, <1>10, <1>14
    <2> QED
        BY <1>11, <1>12, <2>1, <2>2 DEF Tokens, Here
<1>17. Apart'
    <2>1. \A i, j \in 1..m : i < j => stack[i].file # stack[j].file
        BY <1>2 DEF Reading, Apart
    <2> QED
        BY <1>5, <1>10, <1>11, <2>1 DEF Apart, Reading
<1>18. Finished'
    <2> SUFFICES ASSUME NEW f \in Files, f \in Listed, \A i \in 1..m : stack'[i].file # f
                 PROVE  Ended(f)
        BY <1>5, <1>11 DEF Finished, Ended
    <2>1. CASE f = Top.file
        BY <1>1, <2>1
    <2>2. CASE f # Top.file
        <3>1. \A i \in Calls : stack[i].file # f
            BY <1>2, <1>10, <2>2
        <3> QED
            BY <3>1 DEF Reading, Finished
    <2> QED
        BY <2>1, <2>2
<1>19. Halting'
    BY <1>1, <1>5, <1>12 DEF Halting, Parsing
<1>20. currentToken' \in Kind
    BY <1>5, <1>6 DEF Frame
<1> QED
    BY <1>5, <1>9, <1>15, <1>16, <1>17, <1>18, <1>19, <1>20 DEF Reading

LEMMA EndOfMainReads ==
    ASSUME TypeOK, Reading, EndOfMain
    PROVE  /\ Reading'
           /\ stack' \in Seq(Frame)
           /\ UNCHANGED <<text, searched, currentToken>>
<1>1. stack # <<>> /\ Ended(Top.file) /\ Len(stack) = 1
    BY AtEnd DEF EndOfMain
<1>2. /\ stack' = Under /\ status' = "parsed"
      /\ UNCHANGED <<text, searched, currentToken>>
    BY DEF EndOfMain
<1>3. /\ Under \in Seq(Frame) /\ Len(Under) = 0
      /\ 1 \in Calls /\ Top = stack[1] /\ \A k \in Calls : k = 1
    BY <1>1, TopTyped DEF Calls
<1>4. Under = <<>>
    BY <1>3, EmptySeq
<1>5. stack' = <<>> /\ Calls' = {} /\ Listed' = Listed
    BY <1>2, <1>4 DEF Calls, Listed
<1>6. Placed' /\ Tokens'
    BY <1>5 DEF Placed, Tokens
<1>7. Apart'
    BY <1>2, <1>5 DEF Apart, Reading
<1>8. Finished'
    <2> SUFFICES ASSUME NEW f \in Files, f \in Listed
                 PROVE  Ended(f)
        BY <1>2, <1>5 DEF Finished, Ended
    <2>1. CASE f = Top.file
        BY <1>1, <2>1
    <2>2. CASE f # Top.file
        BY <1>3, <2>2 DEF Reading, Finished
    <2> QED
        BY <2>1, <2>2
<1>9. Halting'
    BY <1>2, <1>5 DEF Halting, Parsing
<1> QED
    BY <1>2, <1>3, <1>6, <1>7, <1>8, <1>9 DEF Reading

\* A step that reads nothing.
LEMMA IdleReads ==
    ASSUME Reading, UNCHANGED <<text, stack, currentToken, searched>>,
           UNCHANGED status \/ (status' # "parsed" /\ status' # "parsing")
    PROVE  Reading'
<1>1. Calls' = Calls /\ Listed' = Listed /\ Top' = Top /\ Here' = Here
    BY DEF Calls, Listed, Top, Here
<1>2. Placed' /\ Tokens' /\ Apart'
    BY <1>1 DEF Reading, Placed, Tokens, Apart
<1>3. Finished'
    BY <1>1 DEF Reading, Finished, Ended
<1>4. Halting'
    BY DEF Reading, Halting, Parsing
<1> QED
    BY <1>2, <1>3, <1>4 DEF Reading

-----------------------------------------------------------------------------
(* Namespaces, types and functions. *)

Maps == DOMAIN namespaces = Files /\ DOMAIN named_types = Files

MapsOK ==
    /\ \A f \in Files :
        /\ DOMAIN namespaces[f] \subseteq SpaceNames
        /\ \A n \in DOMAIN namespaces[f] : namespaces[f][n] \in DOMAIN functions
        /\ DOMAIN named_types[f] \subseteq TypeNames
        /\ \A n \in DOMAIN named_types[f] : named_types[f][n] \in DOMAIN functions
    /\ {FileSpace(f) : f \in Files} \subseteq DOMAIN functions
    /\ DOMAIN functions \subseteq Id
    /\ \A s \in DOMAIN functions : \A n \in DOMAIN functions[s] : functions[s][n] \in Id

LEMMA InsertTyped ==
    ASSUME NEW map, NEW n, NEW x, NEW D, NEW S, n \in D, x \in S, DOMAIN map \subseteq D,
           \A k \in DOMAIN map : map[k] \in S
    PROVE  /\ DOMAIN Insert(map, n, x) \subseteq D
           /\ \A k \in DOMAIN Insert(map, n, x) : Insert(map, n, x)[k] \in S
BY DEF Insert

\* An included file under the name n of the file f.
LEMMA SpaceMaps ==
    ASSUME Maps, MapsOK, NEW f \in Files, NEW n \in SpaceNames, NEW g \in Files,
           namespaces' = [namespaces EXCEPT ![f] = Insert(@, n, FileSpace(g))],
           UNCHANGED <<named_types, functions>>
    PROVE  Maps' /\ MapsOK'
<1> DEFINE new == Insert(namespaces[f], n, FileSpace(g))
<1>1. FileSpace(g) \in DOMAIN functions
    BY DEF MapsOK
<1>2. DOMAIN new \subseteq SpaceNames /\ \A k \in DOMAIN new : new[k] \in DOMAIN functions
    BY <1>1, InsertTyped DEF MapsOK
<1> HIDE DEF new
<1>3. /\ DOMAIN namespaces' = Files
      /\ \A h \in Files : namespaces'[h] = IF h = f THEN new ELSE namespaces[h]
    BY DEF Maps, new
<1> QED
    BY <1>2, <1>3 DEF Maps, MapsOK

\* The function with the number x under the name n of the space s.
LEMMA FunctionMaps ==
    ASSUME Maps, MapsOK, NEW s \in DOMAIN functions, NEW n, NEW x \in Id,
           functions' = [functions EXCEPT ![s] = Insert(@, n, x)],
           UNCHANGED <<namespaces, named_types>>
    PROVE  Maps' /\ MapsOK'
<1> DEFINE new == Insert(functions[s], n, x)
<1>1. \A k \in DOMAIN new : new[k] \in Id
    BY DEF MapsOK, Insert
<1> HIDE DEF new
<1>2. /\ DOMAIN functions' = DOMAIN functions
      /\ \A h \in DOMAIN functions : functions'[h] = IF h = s THEN new ELSE functions[h]
    BY DEF new
<1> QED
    BY <1>1, <1>2 DEF Maps, MapsOK

\* The struct with the number x under the name n of the file f, with functions ms.
LEMMA StructMaps ==
    ASSUME Maps, MapsOK, NEW f \in Files, NEW n \in TypeNames, NEW x \in Id, NEW ms,
           named_types' = [named_types EXCEPT ![f] = Insert(@, n, x)],
           functions' = Insert(functions, x, [k \in ms |-> x]), UNCHANGED namespaces
    PROVE  Maps' /\ MapsOK'
<1> DEFINE new == Insert(named_types[f], n, x)
           m   == [k \in ms |-> x]
<1>1. functions' = Insert(functions, x, m)
    OBVIOUS
<1>2. \A k \in DOMAIN m : m[k] \in Id
    OBVIOUS
<1> HIDE DEF m
<1>3. /\ DOMAIN functions' = DOMAIN functions \cup {x}
      /\ \A s \in DOMAIN functions : functions'[s] = functions[s]
      /\ x \notin DOMAIN functions => functions'[x] = m
    BY <1>1 DEF Insert
<1>4. \A s \in DOMAIN functions' : \A k \in DOMAIN functions'[s] : functions'[s][k] \in Id
    BY <1>3, <1>2 DEF MapsOK
<1>5. DOMAIN new \subseteq TypeNames /\ \A k \in DOMAIN new : new[k] \in DOMAIN functions'
    BY <1>3, InsertTyped DEF MapsOK
<1> HIDE DEF new
<1>6. /\ DOMAIN named_types' = Files
      /\ \A h \in Files : named_types'[h] = IF h = f THEN new ELSE named_types[h]
    BY DEF Maps, new
<1> QED
    BY <1>3, <1>4, <1>5, <1>6 DEF Maps, MapsOK

-----------------------------------------------------------------------------
(* The theorems. *)

\* Reading is what makes ReadOnceToEnd inductive, Maps what TypeOK leaves out of the
\* functions that hold the names.
IInv == TypeOK /\ Maps /\ Reading

\* TypeOK, put together from what the steps are shown to keep.
TextOK ==
    /\ text \in [Files -> Seq(Token)]
    /\ stack \in Seq(Frame)
    /\ currentToken \in Kind
    /\ searched \in Seq(Files)
RestOK ==
    /\ attributed \subseteq Id
    /\ status \in {"parsing", "parsed", "missing", "not_found", "no_type", "unimplemented"}

LEMMA Typed == TypeOK <=> TextOK /\ MapsOK /\ RestOK
BY DEF TypeOK, TextOK, MapsOK, RestOK, Token

LEMMA TypedNext == TextOK' /\ Maps' /\ MapsOK' /\ RestOK' /\ Reading' => IInv'
<1>1. TextOK' /\ MapsOK' /\ RestOK' => TypeOK'
    BY DEF TypeOK, TextOK, MapsOK, RestOK, Token
<1> QED
    BY <1>1 DEF IInv

LEMMA InitIInv == Init => IInv
<1> SUFFICES ASSUME Init PROVE IInv
    OBVIOUS
<1>1. Main \in Files
    BY IncludesAssumption
<1>2. /\ stack \in Seq(Frame) /\ Len(stack) = 1 /\ stack # <<>>
      /\ stack[1].file = Main /\ stack[1].at = 0
    <2>1. Call(Main) \in Frame /\ Call(Main).file = Main /\ Call(Main).at = 0
        BY <1>1, CallTyped
    <2> HIDE DEF Call
    <2>2. stack = <<Call(Main)>>
        BY DEF Init
    <2> QED
        BY <2>1, <2>2
<1>3. /\ text = [f \in Files |-> <<>>] /\ searched = <<>> /\ currentToken = "eof"
      /\ attributed = {} /\ status = "parsing"
    BY DEF Init
<1>4. TextOK
    BY <1>2, <1>3 DEF TextOK, Kind
<1>5. RestOK
    BY <1>3 DEF RestOK
<1>6. Maps
    BY DEF Init, Maps
<1>7. MapsOK
    <2>1. DOMAIN functions = {FileSpace(f) : f \in Files}
        BY DEF Init
    <2>2. \A s \in DOMAIN functions : DOMAIN functions[s] = {}
        BY DEF Init
    <2>3. \A f \in Files : DOMAIN namespaces[f] = {} /\ DOMAIN named_types[f] = {}
        BY DEF Init
    <2>4. \A f \in Files : FileSpace(f) \in Id
        BY DEF FileSpace, Id
    <2> QED
        BY <2>1, <2>2, <2>3, <2>4 DEF MapsOK
<1>8. Listed = {} /\ Calls = {1} /\ stack # <<>> /\ Top.at = 0
    <2>1. DOMAIN searched = {}
        BY <1>3
    <2>2. Listed = {}
        BY <2>1 DEF Listed
    <2>3. \A k \in 1..1 : k = 1
        OBVIOUS
    <2>4. Calls = {1} /\ Top.at = 0
        BY <1>2, <2>3 DEF Calls, Top
    <2> QED
        BY <1>2, <2>2, <2>4
<1>9. Placed
    BY <1>2, <1>8 DEF Placed
<1>10. Tokens
    BY <1>2, <1>8 DEF Tokens
<1>11. Apart
    BY <1>3, <1>8 DEF Apart
<1>12. Finished /\ Halting
    BY <1>3, <1>8 DEF Finished, Halting, Parsing
<1> QED
    BY <1>4, <1>5, <1>6, <1>7, <1>9, <1>10, <1>11, <1>12, Typed DEF IInv, Reading

\* A step that goes on in the same file.
LEMMA Advances ==
    ASSUME TypeOK, Reading, stack # <<>>, NEW b \in BOOLEAN,
           \E c \in Upcoming : Lex(c, [Top EXCEPT !.attributes = b]),
           Listing(Top.file), UNCHANGED status, Parsing
    PROVE  Reading' /\ TextOK'
<1> DEFINE t == [Top EXCEPT !.attributes = b]
<1>1. PICK c \in Upcoming : Lex(c, t)
    OBVIOUS
<1>2. c \in Token
    BY UpcomingTyped
<1>3. Top \in Frame
    BY TopTyped
<1>4. t \in Frame /\ t.file = Top.file /\ t.at = Top.at
    BY <1>3, FlagTyped
<1> HIDE DEF t
<1> QED
    BY <1>1, <1>2, <1>4, AdvanceReads DEF TextOK

\* The flag of the innermost call as it is.
LEMMA SameFlag ==
    ASSUME TypeOK, stack # <<>>
    PROVE  Top = [Top EXCEPT !.attributes = Top.attributes] /\ Top.attributes \in BOOLEAN
BY TopTyped DEF Frame

\* The construct that is read, after the first: its file is on the list.
LEMMA Begun ==
    ASSUME TypeOK, Reading, NEW kind, At(kind)
    PROVE  /\ Parsing /\ stack # <<>> /\ Here \in Token /\ Here.kind = kind
           /\ Top.file \in Files /\ HereId \in Id
           /\ UNCHANGED searched => Listing(Top.file)
<1>1. Parsing /\ stack # <<>> /\ Top.at > 0 /\ currentToken = kind
    BY DEF At, Reading, Halting
<1>2. Here \in Token /\ Here.kind = kind /\ Top.file \in Listed
    BY <1>1, HereMeans
<1>3. Top.file \in Files /\ Top.at \in Nat
    BY <1>1, TopTyped
<1>4. UNCHANGED searched => Listing(Top.file)
    BY <1>2, <1>3, OldListed DEF Reading
<1> QED
    BY <1>1, <1>2, <1>3, <1>4 DEF HereId, Id

LEMMA StartKeeps == ASSUME IInv, Start PROVE IInv'
<1>1. TypeOK /\ Maps /\ Reading /\ Parsing /\ stack # <<>> /\ Top.at = 0
    BY DEF IInv, Start, Reading, Halting
<1>2. Top.file \in Files /\ Top = stack[Len(stack)] /\ Len(stack) \in Calls
    BY <1>1, TopTyped
<1>3. Top.file \notin Listed
    BY <1>1, <1>2 DEF Reading, Placed
<1>4. Listing(Top.file)
    BY <1>1, <1>2, <1>3, NewListed DEF Start, Reading
<1>5. Reading' /\ TextOK'
    BY <1>1, <1>4, SameFlag, Advances DEF Start
<1>6. Maps' /\ MapsOK' /\ RestOK'
    BY <1>1, Typed DEF Start, tree, Maps, MapsOK, RestOK
<1> QED
    BY <1>5, <1>6, TypedNext

LEMMA AttributesKeeps == ASSUME IInv, Attributes PROVE IInv'
<1>1. TypeOK /\ Maps /\ Reading
    BY DEF IInv
<1>2. Parsing /\ stack # <<>> /\ Listing(Top.file)
    BY <1>1, Begun DEF Attributes
<1>3. Reading' /\ TextOK'
    BY <1>1, <1>2, Advances DEF Attributes
<1>4. Maps' /\ MapsOK' /\ RestOK'
    BY <1>1, Typed DEF Attributes, tree, Maps, MapsOK, RestOK
<1> QED
    BY <1>3, <1>4, TypedNext

LEMMA SkipUsesKeeps == ASSUME IInv, SkipUses PROVE IInv'
<1>1. TypeOK /\ Maps /\ Reading
    BY DEF IInv
<1>2. Parsing /\ stack # <<>> /\ Listing(Top.file)
    BY <1>1, Begun DEF SkipUses
<1>3. Reading' /\ TextOK'
    BY <1>1, <1>2, SameFlag, Advances DEF SkipUses
<1>4. Maps' /\ MapsOK' /\ RestOK'
    BY <1>1, Typed DEF SkipUses, tree, Maps, MapsOK, RestOK
<1> QED
    BY <1>3, <1>4, TypedNext

LEMMA UsesKeeps == ASSUME IInv, Uses PROVE IInv'
<1>1. TypeOK /\ Maps /\ Reading /\ MapsOK /\ RestOK
    BY Typed DEF IInv
<1>2. Reading' /\ TextOK' /\ Here.name \in SpaceNames /\ Here.file \in Files
    BY <1>1, UsesReads DEF TextOK
<1>3. Top.file \in Files
    BY <1>1, Begun DEF Uses
<1>4. Maps' /\ MapsOK'
    BY <1>1, <1>2, <1>3, SpaceMaps DEF Uses
<1>5. RestOK'
    BY <1>1 DEF Uses, RestOK
<1> QED
    BY <1>2, <1>4, <1>5, TypedNext

LEMMA FunctionKeeps == ASSUME IInv, Function PROVE IInv'
<1>1. TypeOK /\ Maps /\ Reading /\ MapsOK /\ RestOK
    BY Typed DEF IInv
<1>2. Parsing /\ stack # <<>> /\ Listing(Top.file) /\ HereId \in Id /\ Top.file \in Files
    BY <1>1, Begun DEF Function
<1>3. Reading' /\ TextOK'
    BY <1>1, <1>2, Advances DEF Function, Reset
<1>4. FileSpace(Top.file) \in DOMAIN functions
    BY <1>1, <1>2 DEF MapsOK
<1>5. Maps' /\ MapsOK'
    BY <1>1, <1>2, <1>4, FunctionMaps DEF Function
<1>6. RestOK'
    BY <1>1, <1>2 DEF Function, RestOK
<1> QED
    BY <1>3, <1>5, <1>6, TypedNext

LEMMA StructKeeps == ASSUME IInv, Struct PROVE IInv'
<1>1. TypeOK /\ Maps /\ Reading /\ MapsOK /\ RestOK
    BY Typed DEF IInv
<1>2. /\ Parsing /\ stack # <<>> /\ Listing(Top.file) /\ HereId \in Id /\ Top.file \in Files
      /\ Here \in Token /\ Here.kind = "struct"
    BY <1>1, Begun DEF Struct
<1>3. Reading' /\ TextOK'
    BY <1>1, <1>2, Advances DEF Struct, Reset
<1>4. Here.name \in TypeNames
    BY <1>2, TokenKinds
<1>5. PICK ms \in SUBSET FunctionNames : functions' = Insert(functions, HereId, [n \in ms |-> HereId])
    BY DEF Struct, Members
<1>6. Maps' /\ MapsOK'
    BY <1>1, <1>2, <1>4, <1>5, StructMaps DEF Struct
<1>7. RestOK'
    BY <1>1 DEF Struct, RestOK
<1> QED
    BY <1>3, <1>6, <1>7, TypedNext

LEMMA ExtensionKeeps == ASSUME IInv, Extension PROVE IInv'
<1>1. TypeOK /\ Maps /\ Reading /\ MapsOK /\ RestOK
    BY Typed DEF IInv
<1>2. Parsing /\ stack # <<>> /\ Listing(Top.file) /\ HereId \in Id
    BY <1>1, Begun DEF Extension
<1>3. Reading' /\ TextOK'
    BY <1>1, <1>2, Advances DEF Extension, Reset
<1>4. named_types[Main][Here.type] \in DOMAIN functions
    BY <1>1, IncludesAssumption DEF MapsOK, Extension
<1>5. Maps' /\ MapsOK'
    BY <1>1, <1>2, <1>4, FunctionMaps DEF Extension
<1>6. RestOK'
    BY <1>1 DEF Extension, RestOK
<1> QED
    BY <1>3, <1>5, <1>6, TypedNext

LEMMA EndOfIncludeKeeps == ASSUME IInv, EndOfInclude PROVE IInv'
<1>1. TypeOK /\ Maps /\ Reading /\ TextOK /\ MapsOK /\ RestOK
    BY Typed DEF IInv
<1>2. Reading' /\ TextOK'
    BY <1>1, EndOfIncludeReads DEF TextOK
<1>3. Maps' /\ MapsOK' /\ RestOK'
    BY <1>1 DEF EndOfInclude, tree, Maps, MapsOK, RestOK
<1> QED
    BY <1>2, <1>3, TypedNext

LEMMA EndOfMainKeeps == ASSUME IInv, EndOfMain PROVE IInv'
<1>1. TypeOK /\ Maps /\ Reading /\ TextOK /\ MapsOK /\ RestOK
    BY Typed DEF IInv
<1>2. Reading' /\ TextOK'
    BY <1>1, EndOfMainReads DEF TextOK
<1>3. Maps' /\ MapsOK' /\ RestOK'
    BY <1>1 DEF EndOfMain, tree, Maps, MapsOK, RestOK
<1> QED
    BY <1>2, <1>3, TypedNext

\* A program that is rejected, and the end.
LEMMA IdleKeeps ==
    ASSUME IInv,
           \/ UNCHANGED vars
           \/ \E why \in {"missing", "not_found", "no_type", "unimplemented"} : Reject(why)
    PROVE  IInv'
<1>1. TypeOK /\ Maps /\ Reading /\ TextOK /\ MapsOK /\ RestOK
    BY Typed DEF IInv
<1>2. /\ UNCHANGED <<text, stack, currentToken, searched>>
      /\ UNCHANGED <<namespaces, named_types, functions, attributed>>
      /\ \/ UNCHANGED status
         \/ status' \in {"missing", "not_found", "no_type", "unimplemented"}
    BY DEF vars, tree, Reject
<1>3. Reading'
    BY <1>1, <1>2, IdleReads
<1>4. TextOK' /\ Maps' /\ MapsOK' /\ RestOK'
    BY <1>1, <1>2 DEF TextOK, Maps, MapsOK, RestOK
<1> QED
    BY <1>3, <1>4, TypedNext

LEMMA NextIInv == IInv /\ [Next]_vars => IInv'
<1> SUFFICES ASSUME IInv, [Next]_vars PROVE IInv'
    OBVIOUS
<1>1. CASE Start
    BY <1>1, StartKeeps
<1>2. CASE Attributes
    BY <1>2, AttributesKeeps
<1>3. CASE Uses
    BY <1>3, UsesKeeps
<1>4. CASE SkipUses
    BY <1>4, SkipUsesKeeps
<1>5. CASE Function
    BY <1>5, FunctionKeeps
<1>6. CASE Struct
    BY <1>6, StructKeeps
<1>7. CASE Extension
    BY <1>7, ExtensionKeeps
<1>8. CASE EndOfInclude
    BY <1>8, EndOfIncludeKeeps
<1>9. CASE EndOfMain
    BY <1>9, EndOfMainKeeps
<1>10. CASE RejectMissing \/ RejectCall \/ RejectExtension \/ RejectOther
    BY <1>10, IdleKeeps DEF RejectMissing, RejectCall, RejectExtension, RejectOther
<1>11. CASE Stopped \/ UNCHANGED vars
    BY <1>11, IdleKeeps DEF Stopped
<1> QED
    BY <1>1, <1>2, <1>3, <1>4, <1>5, <1>6, <1>7, <1>8, <1>9, <1>10, <1>11 DEF Next

LEMMA Inductive == Spec => []IInv
BY InitIInv, NextIInv, PTL DEF Spec

\* Types, namespaces and their functions are what they are declared to be, however
\* many files and constructs there are (parsing.cpp:174-257).
THEOREM TypeCorrect == Spec => []TypeOK
<1>1. IInv => TypeOK
    BY DEF IInv
<1> QED
    BY <1>1, Inductive, PTL

\* Every file that is used is read once and all of it, however the files include one
\* another (parsing.cpp:178 and :224-230): a call keeps its place in its file while the
\* files it uses are read, and what has left the stack has been read to the end.
THEOREM ReadOnce == Spec => []ReadOnceToEnd
<1>1. IInv => EachFileOnce
    <2> SUFFICES ASSUME IInv PROVE EachFileOnce
        OBVIOUS
    <2>1. searched \in Seq(Files) /\ stack \in Seq(Frame)
        BY DEF IInv, TypeOK
    <2>2. DOMAIN searched = 1..Len(searched) /\ DOMAIN stack = Calls /\ Len(stack) \in Nat
        BY <2>1, LenProperties DEF Calls
    <2>3. \A i, j \in Calls : i = j \/ i < j \/ j < i
        BY <2>2 DEF Calls
    <2>4. \A i, j \in Calls : stack[i].file = stack[j].file => i = j
        BY <2>3 DEF IInv, Reading, Apart
    <2> QED
        BY <2>2, <2>4 DEF EachFileOnce, IInv, Reading, Apart
<1>2. IInv => ReadToEnd
    <2> SUFFICES ASSUME IInv PROVE ReadToEnd
        OBVIOUS
    <2>1. Parsing /\ Top.at > 0 => currentToken = Here.kind
        BY DEF IInv, Reading, Halting, Tokens
    <2>2. ASSUME status = "parsed", NEW i \in DOMAIN searched PROVE Ended(searched[i])
        <3>1. searched[i] \in Files /\ searched[i] \in Listed
            BY DEF IInv, TypeOK, Listed
        <3>2. stack = <<>>
            BY <2>2 DEF IInv, Reading, Halting
        <3>3. Calls = {}
            BY <3>2 DEF Calls
        <3> QED
            BY <3>1, <3>3 DEF IInv, Reading, Finished
    <2> QED
        BY <2>1, <2>2 DEF ReadToEnd, Ended
<1> QED
    BY <1>1, <1>2, Inductive, PTL DEF ReadOnceToEnd

-----------------------------------------------------------------------------
(* Names. *)

\* What a table has, it keeps, and so all tables do.
Extends(m, w) == DOMAIN m \subseteq DOMAIN w /\ \A k \in DOMAIN m : w[k] = m[k]
Grown ==
    /\ \A f \in Files : /\ Extends(namespaces[f], namespaces'[f])
                        /\ Extends(named_types[f], named_types'[f])
    /\ \A s \in DOMAIN functions : Extends(functions[s], functions'[s])

LEMMA InsertExtends == ASSUME NEW m, NEW n, NEW x PROVE Extends(m, Insert(m, n, x))
BY DEF Extends, Insert

LEMMA SameExtends == ASSUME NEW m PROVE Extends(m, m)
BY DEF Extends

LEMMA StepGrown == ASSUME IInv, [Next]_vars PROVE Grown
<1>1. TypeOK /\ Maps /\ MapsOK /\ Reading
    BY Typed DEF IInv
<1>2. CASE UNCHANGED tree
    BY <1>2, SameExtends DEF Grown, tree
<1>3. CASE Uses
    <2> DEFINE x == FileSpace(Here.file)
               new == Insert(namespaces[Top.file], Here.name, x)
    <2>1. Extends(namespaces[Top.file], new)
        BY InsertExtends
    <2>2. /\ namespaces' = [namespaces EXCEPT ![Top.file] = new]
          /\ UNCHANGED <<named_types, functions>>
        BY <1>3 DEF Uses
    <2> HIDE DEF new
    <2>3. \A f \in Files : namespaces'[f] = IF f = Top.file THEN new ELSE namespaces[f]
        BY <1>1, <2>2 DEF Maps
    <2> QED
        BY <2>1, <2>2, <2>3, SameExtends DEF Grown
<1>4. ASSUME NEW s, NEW n, NEW x, UNCHANGED <<namespaces, named_types>>,
             functions' = [functions EXCEPT ![s] = Insert(@, n, x)]
      PROVE  Grown
    <2> DEFINE new == Insert(functions[s], n, x)
    <2>1. Extends(functions[s], new)
        BY InsertExtends
    <2>2. functions' = [functions EXCEPT ![s] = new]
        BY <1>4
    <2> HIDE DEF new
    <2>3. \A h \in DOMAIN functions : functions'[h] = IF h = s THEN new ELSE functions[h]
        BY <2>2
    <2> QED
        BY <1>4, <2>1, <2>3, SameExtends DEF Grown
<1>5. CASE Function
    BY <1>4, <1>5 DEF Function
<1>6. CASE Extension
    BY <1>4, <1>6 DEF Extension
<1>7. CASE Struct
    <2> DEFINE new == Insert(named_types[Top.file], Here.name, HereId)
    <2>1. Extends(named_types[Top.file], new)
        BY InsertExtends
    <2>2. /\ named_types' = [named_types EXCEPT ![Top.file] = new]
          /\ UNCHANGED namespaces
        BY <1>7 DEF Struct
    <2>3. PICK ms \in SUBSET FunctionNames : functions' = Members(ms)
        BY <1>7 DEF Struct
    <2>4. \A s \in DOMAIN functions : functions'[s] = functions[s]
        BY <2>3 DEF Members, Insert
    <2> HIDE DEF new
    <2>5. \A f \in Files : named_types'[f] = IF f = Top.file THEN new ELSE named_types[f]
        BY <1>1, <2>2 DEF Maps
    <2> QED
        BY <2>1, <2>2, <2>4, <2>5, SameExtends DEF Grown
<1>8. CASE Start \/ Attributes \/ SkipUses \/ EndOfInclude \/ EndOfMain \/ Stopped
           \/ RejectMissing \/ RejectCall \/ RejectExtension \/ RejectOther \/ UNCHANGED vars
    BY <1>2, <1>8 DEF Start, Attributes, SkipUses, EndOfInclude, EndOfMain, Stopped, Reject,
       RejectMissing, RejectCall, RejectExtension, RejectOther, vars
<1> QED
    BY <1>3, <1>5, <1>6, <1>7, <1>8 DEF Next

\* A path of one name: that of a function, which keeps it.
LEMMA OneKept ==
    ASSUME IInv, Grown, NEW p, Len(p) = 1, Resolve(p) # {}
    PROVE  Resolve(p)' = Resolve(p)
<1>1. FileSpace(Main) \in DOMAIN functions
    BY IncludesAssumption, Typed DEF IInv, MapsOK
<1>2. Extends(Globals, Globals')
    BY <1>1 DEF Grown, Globals
<1>3. Global(p[1]) /\ Resolve(p) = {Globals[p[1]]}
    BY DEF Resolve
<1>4. Global(p[1])' /\ Globals'[p[1]] = Globals[p[1]]
    BY <1>2, <1>3 DEF Extends, Global
<1> QED
    BY <1>3, <1>4 DEF Resolve

\* A path of two names: unless the first is taken, it is that of the same space.
LEMMA TwoKept ==
    ASSUME IInv, Grown, NEW p, Len(p) = 2, Resolve(p) # {}, ~Taken(p[1])
    PROVE  Resolve(p)' = Resolve(p)
<1> DEFINE n == p[1]
           k == p[2]
<1>1. Main \in Files /\ MapsOK
    BY IncludesAssumption, Typed DEF IInv
<1>2. ~Global(n) /\ HasSpace(n) /\ k \in DOMAIN functions[Space(n)]
      /\ Resolve(p) = {functions[Space(n)][k]}
    BY DEF Resolve
<1>3. ~Global(n)'
    BY <1>2 DEF Taken
<1>4. /\ Extends(namespaces[Main], namespaces'[Main])
      /\ Extends(named_types[Main], named_types'[Main])
    BY <1>1 DEF Grown
<1>5. HasSpace(n)' /\ Space(n)' = Space(n) /\ Space(n) \in DOMAIN functions
    <2>1. CASE n \in DOMAIN namespaces[Main]
        BY <1>1, <1>4, <2>1 DEF HasSpace, Space, Extends, MapsOK
    <2>2. CASE n \notin DOMAIN namespaces[Main]
        <3>1. n \notin DOMAIN namespaces'[Main] /\ n \in DOMAIN named_types[Main]
            BY <1>2, <2>2 DEF HasSpace, Taken
        <3> QED
            BY <1>1, <1>4, <2>2, <3>1 DEF HasSpace, Space, Extends, MapsOK
    <2> QED
        BY <2>1, <2>2
<1>6. Extends(functions[Space(n)], functions'[Space(n)'])
    BY <1>5 DEF Grown
<1>7. /\ k \in DOMAIN functions'[Space(n)']
      /\ functions'[Space(n)'][k] = functions[Space(n)][k]
    BY <1>2, <1>6 DEF Extends
<1> QED
    BY <1>2, <1>3, <1>5, <1>7 DEF Resolve

\* A name keeps what it meant to the functions before (parsing.cpp:186-246, by
\* std::map::insert()), but for the two ways in which Taken lets it be hidden.
THEOREM MeaningKept == Spec => NamesKept
<1> DEFINE Kept == \A p \in Paths : Resolve(p) # {} =>
                     Resolve(p)' = Resolve(p) \/ (Len(p) = 2 /\ Taken(p[1]))
<1>1. IInv /\ [Next]_vars => Kept
    <2> SUFFICES ASSUME IInv, [Next]_vars, NEW p \in Paths, Resolve(p) # {}
                 PROVE  Resolve(p)' = Resolve(p) \/ (Len(p) = 2 /\ Taken(p[1]))
        OBVIOUS
    <2>1. Grown
        BY StepGrown
    <2>2. Len(p) = 1 \/ Len(p) = 2
        BY DEF Resolve
    <2> QED
        BY <2>1, <2>2, OneKept, TwoKept
<1> QED
    BY <1>1, Inductive, PTL DEF Spec, NamesKept-----------------------------------------------------------------------------
(* The attributes of functions. *)

\* The attributes before construct i of a file, with only `uses` between.
Reaches(s, i) ==
    \E j \in 1..(i - 1) : /\ s[j].kind = "attributes"
                          /\ \A k \in (j + 1)..(i - 1) : s[k].kind = "uses"
RightBefore(s, i) == i > 1 /\ s[i - 1].kind = "attributes"

\* What a call knows of attributes is what its file has before its construct, ...
Flags ==
    \A k \in Calls :
        LET s == text[stack[k].file] IN
        /\ stack[k].attributes => Reaches(s, stack[k].at)
        /\ ~stack[k].attributes => ~RightBefore(s, stack[k].at)

\* ... also when it will be told that it has none: it has read a `uses`.
Includers ==
    \A k \in Calls :
        k < Len(stack) =>
            stack[k].at > 1 /\ text[stack[k].file][stack[k].at - 1].kind = "uses"

Marked ==
    \A f \in Files : \A i \in Nat :
        [file |-> f, at |-> i] \in attributed => i \in DOMAIN text[f] /\ Reaches(text[f], i)
Unmarked ==
    \A f \in Files : \A i \in DOMAIN text[f] :
        [file |-> f, at |-> i] \in attributed \/ text[f][i].kind # "func"
          \/ ~Done([file |-> f, at |-> i]) \/ ~RightBefore(text[f], i)

\* Nothing has been read of a file that is not on the list.
Unread == \A f \in Files : f \notin Listed => text[f] = <<>>

AttributesInv == Flags /\ Includers /\ Marked /\ Unmarked /\ Unread
AInv == IInv /\ AttributesInv

\* Both look only at what is before the construct.
LEMMA PrefixReaches ==
    ASSUME NEW s, NEW t, NEW i \in Nat, \A k \in 1..(i - 1) : t[k] = s[k]
    PROVE  (Reaches(t, i) <=> Reaches(s, i)) /\ (RightBefore(t, i) <=> RightBefore(s, i))
<1>1. Reaches(t, i) <=> Reaches(s, i)
    BY DEF Reaches
<1>2. RightBefore(t, i) <=> RightBefore(s, i)
    BY DEF RightBefore
<1> QED
    BY <1>1, <1>2

\* From one construct to the next.
LEMMA NextReaches ==
    ASSUME NEW s, NEW i \in Nat \ {0}
    PROVE  /\ s[i].kind = "attributes" => Reaches(s, i + 1)
           /\ s[i].kind = "uses" /\ Reaches(s, i) => Reaches(s, i + 1)
           /\ s[i].kind # "attributes" => ~RightBefore(s, i + 1)
<1>1. ASSUME s[i].kind = "attributes" PROVE Reaches(s, i + 1)
    <2>1. i \in 1..((i + 1) - 1) /\ \A k \in (i + 1)..((i + 1) - 1) : FALSE
        OBVIOUS
    <2> QED
        BY <1>1, <2>1 DEF Reaches
<1>2. ASSUME s[i].kind = "uses", Reaches(s, i) PROVE Reaches(s, i + 1)
    <2>1. PICK j \in 1..(i - 1) : /\ s[j].kind = "attributes"
                                  /\ \A k \in (j + 1)..(i - 1) : s[k].kind = "uses"
        BY <1>2 DEF Reaches
    <2>2. \A k \in (j + 1)..((i + 1) - 1) : k = i \/ k \in (j + 1)..(i - 1)
        OBVIOUS
    <2>3. j \in 1..((i + 1) - 1)
        OBVIOUS
    <2> QED
        BY <1>2, <2>1, <2>2, <2>3 DEF Reaches
<1>3. ASSUME s[i].kind # "attributes" PROVE ~RightBefore(s, i + 1)
    BY <1>3 DEF RightBefore
<1> QED
    BY <1>1, <1>2, <1>3

LEMMA NothingReaches ==
    ASSUME NEW s
    PROVE  ~Reaches(s, 0) /\ ~RightBefore(s, 0) /\ ~Reaches(s, 1) /\ ~RightBefore(s, 1)
BY DEF Reaches, RightBefore

\* A file's text is as long as the innermost call has come, and grows by one.
LEMMA TextGrows ==
    ASSUME TypeOK, Reading, Unread, stack # <<>>, NEW c \in Token, Ahead(c)
    PROVE  /\ Len(text[Top.file]) = Top.at
           /\ text' \in [Files -> Seq(Token)]
           /\ Len(text'[Top.file]) = Top.at + 1
           /\ \A k \in 1..Top.at : text'[Top.file][k] = text[Top.file][k]
           /\ \A f \in Files : f # Top.file => text'[f] = text[f]
<1>1. Top = stack[Len(stack)] /\ Len(stack) \in Calls /\ Top.file \in Files /\ Top.at \in Nat
    BY TopTyped
<1>2. Len(text[Top.file]) = Top.at
    <2>1. CASE Top.at = 0
        <3>1. text[Top.file] = <<>>
            BY <1>1, <2>1 DEF Reading, Placed, Unread
        <3> QED
            BY <2>1, <3>1
    <2>2. CASE Top.at # 0
        BY <1>1, <2>2 DEF Reading, Placed
    <2> QED
        BY <2>1, <2>2
<1> QED
    BY <1>2, AheadMeans DEF Reading
\* The texts other than that of f are the same, and this one is longer by one.
LongerBy(f, n) ==
    /\ Len(text[f]) = n
    /\ text' \in [Files -> Seq(Token)]
    /\ Len(text'[f]) = n + 1
    /\ \A k \in 1..n : text'[f][k] = text[f][k]
    /\ \A h \in Files : h # f => text'[h] = text[h]

\* What is known of the functions that are behind the calls stays true.
LEMMA MarkedGrows ==
    ASSUME Marked, text \in [Files -> Seq(Token)], NEW f \in Files, NEW n \in Nat, LongerBy(f, n),
           attributed \subseteq attributed',
           \A id \in attributed' :
              id \in attributed \/ (id = [file |-> f, at |-> n] /\ n > 0 /\ Reaches(text[f], n))
    PROVE  Marked'
<1>1. SUFFICES ASSUME NEW h \in Files, NEW i \in Nat, [file |-> h, at |-> i] \in attributed'
               PROVE  i \in DOMAIN text'[h] /\ Reaches(text'[h], i)
    BY DEF Marked
<1>2. /\ text'[f] \in Seq(Token) /\ DOMAIN text'[f] = 1..(n + 1) /\ DOMAIN text[f] = 1..n
      /\ \A k \in 1..n : text'[f][k] = text[f][k]
      /\ \A k \in Files : k # f => text'[k] = text[k]
    BY LenProperties DEF LongerBy
<1>3. \/ i \in DOMAIN text[h] /\ Reaches(text[h], i)
      \/ h = f /\ i = n /\ n > 0 /\ Reaches(text[f], n)
    BY <1>1 DEF Marked
<1>4. CASE h # f
    BY <1>2, <1>3, <1>4
<1>5. CASE h = f
    <2>1. i \in 1..n /\ Reaches(text[f], i)
        BY <1>2, <1>3, <1>5
    <2>2. \A k \in 1..(i - 1) : text'[f][k] = text[f][k]
        BY <1>2, <2>1
    <2>3. Reaches(text'[f], i)
        BY <2>1, <2>2, PrefixReaches
    <2> QED
        BY <1>2, <1>5, <2>1, <2>3
<1> QED
    BY <1>4, <1>5

\* The innermost call goes on to its next construct, with or without attributes.
LEMMA GoesOn ==
    ASSUME AInv, stack # <<>>, NEW b \in BOOLEAN,
           \E c \in Upcoming : Lex(c, [Top EXCEPT !.attributes = b]),
           b => Reaches(text[Top.file], Top.at + 1),
           ~b => ~RightBefore(text[Top.file], Top.at + 1),
           attributed \subseteq attributed',
           \A id \in attributed' :
              id \in attributed \/ (id = HereId /\ Top.at > 0 /\ Reaches(text[Top.file], Top.at)),
           Top.at > 0 => \/ HereId \in attributed' \/ Here.kind # "func"
                         \/ ~RightBefore(text[Top.file], Top.at),
           Listing(Top.file)
    PROVE  AttributesInv'
<1> DEFINE t == [Top EXCEPT !.attributes = b]
           n == Len(stack)
           g == Top.file
           a == Top.at
<1> USE DEF AInv, IInv, AttributesInv
<1>1. PICK c \in Upcoming : Lex(c, t)
    OBVIOUS
<1>2. c \in Token
    BY UpcomingTyped
<1>3. /\ Top \in Frame /\ g \in Files /\ a \in Nat /\ n \in Nat \ {0} /\ n \in Calls
      /\ stack[n].file = g /\ stack[n].at = a
      /\ \A k \in Calls : k = n \/ k \in 1..n - 1
      /\ \A k \in 1..n - 1 : k \in Calls /\ k < n
    BY TopTyped
<1>4. t \in Frame /\ t.file = g /\ t.at = a /\ t.attributes = b
    BY <1>3, FlagTyped
<1> HIDE DEF t
<1>5. /\ stack' \in Seq(Frame) /\ Len(stack') = n
      /\ \A k \in 1..n - 1 : stack'[k] = stack[k]
      /\ stack'[n].file = g /\ stack'[n].at = a + 1 /\ stack'[n].attributes = b
    BY <1>1, <1>2, <1>4, LexMeans
<1>6. LongerBy(g, a)
    <2>1. Ahead(c)
        BY <1>1 DEF Lex
    <2> QED
        BY <1>2, <2>1, TextGrows DEF LongerBy
<1>7. text \in [Files -> Seq(Token)]
    BY ListTyped
<1>8. /\ DOMAIN text'[g] = 1..(a + 1) /\ DOMAIN text[g] = 1..a
      /\ \A k \in 1..a : text'[g][k] = text[g][k]
      /\ \A h \in Files : h # g => text'[h] = text[h]
    BY <1>3, <1>6, <1>7, LenProperties DEF LongerBy
<1>9. Calls' = Calls /\ Calls = 1..n
    BY <1>5 DEF Calls
<1>10. \A k \in 1..n - 1 : stack[k].file \in Files /\ stack[k].file # g
    BY <1>3, ListTyped DEF Reading, Apart
<1> HIDE DEF n, g, a
<1>11. \A i \in 1..(a + 1) : /\ Reaches(text'[g], i) <=> Reaches(text[g], i)
                             /\ RightBefore(text'[g], i) <=> RightBefore(text[g], i)
    <2>1. SUFFICES ASSUME NEW i \in 1..(a + 1)
                   PROVE  /\ Reaches(text'[g], i) <=> Reaches(text[g], i)
                          /\ RightBefore(text'[g], i) <=> RightBefore(text[g], i)
        OBVIOUS
    <2>2. i \in Nat /\ \A k \in 1..(i - 1) : text'[g][k] = text[g][k]
        BY <1>3, <1>8, <2>1
    <2> QED
        BY <2>2, PrefixReaches
<1>12. a + 1 \in 1..(a + 1) /\ \A i \in 1..a : i \in 1..(a + 1)
    BY <1>3
<1>13. Flags'
    <2>1. SUFFICES ASSUME NEW k \in 1..n
                   PROVE  /\ stack'[k].attributes => Reaches(text'[stack'[k].file], stack'[k].at)
                          /\ ~stack'[k].attributes => ~RightBefore(text'[stack'[k].file], stack'[k].at)
        BY <1>9 DEF Flags
    <2>2. CASE k = n
        BY <1>5, <1>11, <1>12, <2>2 DEF a, g
    <2>3. CASE k \in 1..n - 1
        BY <1>3, <1>5, <1>8, <1>10, <2>3 DEF Flags
    <2> QED
        BY <1>3, <1>9, <2>2, <2>3
<1>14. Includers'
    <2>1. SUFFICES ASSUME NEW k \in 1..n - 1
                   PROVE  /\ stack'[k].at > 1
                          /\ text'[stack'[k].file][stack'[k].at - 1].kind = "uses"
        BY <1>3, <1>5, <1>9 DEF Includers
    <2> QED
        BY <1>3, <1>5, <1>8, <1>10, <2>1 DEF Includers, n
<1>15. Marked'
    BY <1>3, <1>6, <1>7, MarkedGrows DEF HereId, g, a
<1>16. Unmarked'
    <2>1. SUFFICES ASSUME NEW f \in Files, NEW i \in DOMAIN text'[f],
                          [file |-> f, at |-> i] \notin attributed', text'[f][i].kind = "func",
                          Done([file |-> f, at |-> i])', RightBefore(text'[f], i)
                   PROVE  FALSE
        BY DEF Unmarked
    <2>2. \A k \in 1..n : stack'[k].file = f => i < stack'[k].at
        <3>1. DOMAIN stack' = 1..n
            BY <1>5, LenProperties
        <3> QED
            BY <2>1, <3>1 DEF Done
    <2>3. \A k \in 1..n - 1 : stack[k].file = f => i < stack[k].at
        BY <1>3, <1>5, <2>2, <1>9
    <2>4. DOMAIN stack = 1..n
        BY <1>9, ListTyped
    <2>5. [file |-> f, at |-> i] \notin attributed
        BY <2>1
    <2>6. CASE f # g
        <3>1. Done([file |-> f, at |-> i])
            BY <1>3, <1>9, <2>3, <2>4, <2>6 DEF Done
        <3> QED
            BY <1>8, <2>1, <2>5, <2>6, <3>1 DEF Unmarked
    <2>7. CASE f = g
        <3>1. i < a + 1 /\ i \in 1..(a + 1)
            BY <1>3, <1>5, <1>8, <1>9, <2>1, <2>2, <2>7
        <3>2. i \in 1..a
            BY <1>3, <3>1
        <3>3. text'[g][i] = text[g][i] /\ RightBefore(text[g], i)
            BY <1>8, <1>11, <2>1, <2>7, <3>1, <3>2
        <3>4. CASE i = a
            BY <1>3, <2>1, <2>7, <3>2, <3>3, <3>4 DEF Here, HereId, g, a
        <3>5. CASE i # a
            <4>1. Done([file |-> f, at |-> i])
                BY <1>3, <1>9, <2>3, <2>4, <2>7, <3>2, <3>5 DEF Done
            <4> QED
                BY <1>8, <2>1, <2>5, <2>7, <3>2, <3>3, <4>1 DEF Unmarked
        <3> QED
            BY <3>4, <3>5
    <2> QED
        BY <2>6, <2>7
<1>17. Unread'
    <2>1. Listed' = Listed \cup {g}
        BY DEF Listing, g
    <2> QED
        BY <1>8, <2>1 DEF Unread
<1> QED
    BY <1>13, <1>14, <1>15, <1>16, <1>17
\* The innermost call is followed by one for another file.
LEMMA UsesAttributes == ASSUME AInv, Uses, attributed' = attributed PROVE AttributesInv'
<1> DEFINE n == Len(stack)
           g == Top.file
           a == Top.at
           h == Here.file
<1> USE DEF AInv, IInv, AttributesInv
<1>1. stack # <<>> /\ a > 0 /\ Here.kind = "uses" /\ g \in Listed
    <2>1. stack # <<>> /\ a > 0 /\ currentToken = "uses"
        BY DEF Uses, At, Reading, Halting
    <2> QED
        BY <2>1, HereMeans
<1>2. h \in Files /\ h \notin Listed /\ h # g
    BY <1>1, UsesReads DEF Uses, HasSearched, Listed
<1>3. PICK c \in Upcoming :
        /\ Ahead(c)
        /\ stack' = Under \o <<Saved(Top, c.kind), Call(h)>>
    BY DEF Uses, Saved
<1>4. c \in Token /\ c.kind \in Kind
    BY <1>1, UpcomingTyped, TokenKinds
<1>5. /\ Top \in Frame /\ g \in Files /\ a \in Nat /\ n \in Nat \ {0} /\ n \in Calls
      /\ stack[n] = Top
      /\ Under \in Seq(Frame) /\ Len(Under) = n - 1
      /\ \A k \in Calls : k = n \/ k \in 1..n - 1
      /\ \A k \in 1..n - 1 : Under[k] = stack[k] /\ k \in Calls /\ k < n
    BY <1>1, TopTyped
<1>6. /\ Saved(Top, c.kind) \in Frame
      /\ Saved(Top, c.kind).file = g /\ Saved(Top, c.kind).at = a + 1
      /\ Saved(Top, c.kind).attributes = Top.attributes
    BY <1>4, <1>5, SavedTyped
<1>7. Call(h) \in Frame /\ Call(h).file = h /\ Call(h).at = 0 /\ Call(h).attributes = FALSE
    BY <1>2, CallTyped
<1> HIDE DEF n, g, a, h
<1>8. /\ Len(stack') = n + 1
      /\ stack'[n].file = g /\ stack'[n].at = a + 1 /\ stack'[n].attributes = Top.attributes
      /\ stack'[n + 1].file = h /\ stack'[n + 1].at = 0 /\ ~stack'[n + 1].attributes
      /\ \A k \in 1..n - 1 : stack'[k] = stack[k]
      /\ stack' \in Seq(Frame)
    <2> DEFINE x == Saved(Top, c.kind)
               y == Call(h)
    <2> HIDE DEF x, y
    <2>1. /\ Under \o <<x, y>> \in Seq(Frame)
          /\ Len(Under \o <<x, y>>) = Len(Under) + 2
          /\ (Under \o <<x, y>>)[Len(Under) + 1] = x
          /\ (Under \o <<x, y>>)[Len(Under) + 2] = y
          /\ \A k \in 1..Len(Under) : (Under \o <<x, y>>)[k] = Under[k]
        BY <1>5, <1>6, <1>7, JoinTwo DEF x, y
    <2>2. stack' = Under \o <<x, y>>
        BY <1>3 DEF x, y
    <2>3. Len(Under) + 1 = n /\ Len(Under) + 2 = n + 1
        BY <1>5
    <2>4. /\ stack' \in Seq(Frame) /\ Len(stack') = n + 1 /\ stack'[n] = x /\ stack'[n + 1] = y
          /\ \A k \in 1..n - 1 : stack'[k] = stack[k]
        BY <1>5, <2>1, <2>2, <2>3
    <2> QED
        BY <1>6, <1>7, <2>4 DEF x, y
<1>9. LongerBy(g, a)
    BY <1>1, <1>3, <1>4, TextGrows DEF LongerBy, g, a
<1>10. text \in [Files -> Seq(Token)]
    BY ListTyped
<1>11. /\ DOMAIN text'[g] = 1..(a + 1) /\ DOMAIN text[g] = 1..a
       /\ \A k \in 1..a : text'[g][k] = text[g][k]
       /\ \A f \in Files : f # g => text'[f] = text[f]
    BY <1>5, <1>9, <1>10, LenProperties DEF LongerBy
<1>12. Calls' = 1..(n + 1) /\ Calls = 1..n /\ DOMAIN stack = 1..n /\ DOMAIN stack' = 1..(n + 1)
    BY <1>8, ListTyped, LenProperties DEF Calls, n
<1>13. \A k \in 1..n - 1 : stack[k].file \in Files /\ stack[k].file # g
    BY <1>5, ListTyped DEF Reading, Apart, g, n
<1>14. \A i \in 1..(a + 1) : /\ Reaches(text'[g], i) <=> Reaches(text[g], i)
                             /\ RightBefore(text'[g], i) <=> RightBefore(text[g], i)
    <2>1. SUFFICES ASSUME NEW i \in 1..(a + 1)
                   PROVE  /\ Reaches(text'[g], i) <=> Reaches(text[g], i)
                          /\ RightBefore(text'[g], i) <=> RightBefore(text[g], i)
        OBVIOUS
    <2>2. i \in Nat /\ \A k \in 1..(i - 1) : text'[g][k] = text[g][k]
        BY <1>5, <1>11, <2>1
    <2> QED
        BY <2>2, PrefixReaches
<1>15. text[g][a].kind = "uses" /\ a \in Nat \ {0} /\ text'[g][a].kind = "uses"
    <2>1. text[g][a].kind = "uses" /\ a \in Nat \ {0}
        BY <1>1, <1>5 DEF Here, g, a
    <2>2. a \in 1..a
        BY <2>1
    <2> QED
        BY <1>11, <2>1, <2>2
<1>16. text'[h] = <<>> /\ text[h] = <<>>
    BY <1>2, <1>11 DEF Unread
<1>17. Flags'
    <2>1. SUFFICES ASSUME NEW k \in 1..(n + 1)
                   PROVE  /\ stack'[k].attributes => Reaches(text'[stack'[k].file], stack'[k].at)
                          /\ ~stack'[k].attributes => ~RightBefore(text'[stack'[k].file], stack'[k].at)
        BY <1>12 DEF Flags
    <2>2. CASE k = n + 1
        BY <1>8, <2>2, NothingReaches
    <2>3. CASE k = n
        <3>1. Top.attributes => Reaches(text[g], a)
            BY <1>5 DEF Flags, g, a
        <3>2. Top.attributes => Reaches(text[g], a + 1)
            BY <1>15, <3>1, NextReaches
        <3>3. ~RightBefore(text[g], a + 1)
            BY <1>15, NextReaches
        <3>4. a + 1 \in 1..(a + 1)
            BY <1>5
        <3> QED
            BY <1>8, <1>14, <2>3, <3>2, <3>3, <3>4
    <2>4. CASE k \in 1..n - 1
        <3>1. stack'[k] = stack[k] /\ text'[stack[k].file] = text[stack[k].file]
            BY <1>8, <1>11, <1>13, <2>4
        <3>2. k \in Calls
            BY <1>5, <2>4
        <3>3. /\ stack[k].attributes => Reaches(text[stack[k].file], stack[k].at)
              /\ ~stack[k].attributes => ~RightBefore(text[stack[k].file], stack[k].at)
            BY <1>5, <3>2 DEF Flags
        <3> QED
            BY <3>1, <3>3
    <2> QED
        BY <1>5, <2>2, <2>3, <2>4
<1>18. Includers'
    <2>1. SUFFICES ASSUME NEW k \in 1..n
                   PROVE  /\ stack'[k].at > 1
                          /\ text'[stack'[k].file][stack'[k].at - 1].kind = "uses"
        BY <1>5, <1>8, <1>12 DEF Includers
    <2>2. CASE k = n
        BY <1>8, <1>15, <2>2
    <2>3. CASE k # n
        <3>1. k \in 1..n - 1 /\ k \in Calls /\ k < n
            BY <1>5, <1>12, <2>1, <2>3
        <3>2. stack[k].at > 1 /\ text[stack[k].file][stack[k].at - 1].kind = "uses"
            BY <3>1 DEF Includers, n
        <3>3. stack'[k] = stack[k] /\ text'[stack[k].file] = text[stack[k].file]
            BY <1>8, <1>11, <1>13, <3>1
        <3> QED
            BY <3>2, <3>3
    <2> QED
        BY <2>2, <2>3
<1>19. Marked'
    BY <1>5, <1>9, <1>10, MarkedGrows
<1>20. Unmarked'
    <2>1. SUFFICES ASSUME NEW f \in Files, NEW i \in DOMAIN text'[f],
                          [file |-> f, at |-> i] \notin attributed, text'[f][i].kind = "func",
                          Done([file |-> f, at |-> i])', RightBefore(text'[f], i)
                   PROVE  FALSE
        BY DEF Unmarked
    <2>2. \A k \in 1..(n + 1) : stack'[k].file = f => i < stack'[k].at
        BY <1>12, <2>1 DEF Done
    <2>3. \A k \in 1..n - 1 : stack[k].file = f => i < stack[k].at
        BY <1>5, <1>8, <2>2
    <2>4. f # h
        BY <1>16, <2>1
    <2>5. CASE f # g
        <3>1. Done([file |-> f, at |-> i])
            BY <1>5, <1>12, <2>3, <2>5 DEF Done, g
        <3> QED
            BY <1>11, <2>1, <2>5, <3>1 DEF Unmarked
    <2>6. CASE f = g
        <3>1. i < a + 1 /\ i \in 1..(a + 1)
            BY <1>5, <1>8, <1>11, <2>1, <2>2, <2>6
        <3>2. i \in 1..a
            BY <1>5, <3>1
        <3>3. text'[g][i] = text[g][i] /\ RightBefore(text[g], i)
            BY <1>11, <1>14, <2>1, <2>6, <3>1, <3>2
        <3>4. CASE i = a
            BY <1>15, <2>1, <2>6, <3>3, <3>4
        <3>5. CASE i # a
            <4>1. Done([file |-> f, at |-> i])
                BY <1>5, <1>12, <2>3, <2>6, <3>2, <3>5 DEF Done, a, g
            <4> QED
                BY <1>11, <2>1, <2>6, <3>2, <3>3, <4>1 DEF Unmarked
        <3> QED
            BY <3>4, <3>5
    <2> QED
        BY <2>5, <2>6
<1>21. Unread'
    <2>1. Listed' = Listed
        BY DEF Uses, Listed
    <2> QED
        BY <1>1, <1>11, <2>1 DEF Unread, g
<1> QED
    BY <1>17, <1>18, <1>19, <1>20, <1>21

\* The innermost call returns at the end of its file.
LEMMA ReturnsAttributes ==
    ASSUME AInv, At("eof"), UNCHANGED <<text, searched, attributed>>,
           stack' \in Seq(Frame), Len(stack') = Len(stack) - 1,
           \A k \in 1..Len(stack) - 1 :
              /\ stack'[k].file = stack[k].file /\ stack'[k].at = stack[k].at
              /\ ~stack'[k].attributes \/ stack'[k].attributes = stack[k].attributes
    PROVE  AttributesInv'
<1> DEFINE n == Len(stack)
           g == Top.file
           a == Top.at
<1> USE DEF AInv, IInv, AttributesInv
<1>1. stack # <<>> /\ a > 0 /\ Here = Eof
    BY AtEnd
<1>2. /\ g \in Files /\ a \in Nat /\ n \in Nat \ {0} /\ n \in Calls /\ stack[n] = Top
      /\ Len(text[g]) = a /\ text[g] \in Seq(Token)
      /\ \A k \in Calls : k = n \/ k \in 1..n - 1
      /\ \A k \in 1..n - 1 : k \in Calls /\ k < n
    BY <1>1, TopTyped, HereMeans
<1>3. Calls' = 1..n - 1 /\ DOMAIN stack' = 1..n - 1 /\ DOMAIN stack = Calls
    BY ListTyped, LenProperties DEF Calls
<1>4. Here.kind = "eof"
    BY <1>1 DEF Eof
<1> HIDE DEF n, g, a
<1>5. Flags'
    <2>1. SUFFICES ASSUME NEW k \in 1..n - 1
                   PROVE  /\ stack'[k].attributes => Reaches(text[stack[k].file], stack[k].at)
                          /\ ~RightBefore(text[stack[k].file], stack[k].at)
        BY <1>3 DEF Flags, n
    <2>2. stack[k].at > 1 /\ text[stack[k].file][stack[k].at - 1].kind = "uses"
        BY <1>2, <2>1 DEF Includers, n
    <2>3. ~RightBefore(text[stack[k].file], stack[k].at)
        BY <2>2 DEF RightBefore
    <2>4. ASSUME stack'[k].attributes PROVE Reaches(text[stack[k].file], stack[k].at)
        BY <1>2, <2>1, <2>4 DEF Flags, n
    <2> QED
        BY <2>3, <2>4
<1>6. Includers'
    <2>1. SUFFICES ASSUME NEW k \in 1..n - 1
                   PROVE  /\ stack'[k].at > 1
                          /\ text[stack'[k].file][stack'[k].at - 1].kind = "uses"
        BY <1>3 DEF Includers
    <2> QED
        BY <1>2, <2>1 DEF Includers, n
<1>7. Marked' /\ Unread'
    BY DEF Marked, Unread, Listed
<1>8. Unmarked'
    <2>1. SUFFICES ASSUME NEW f \in Files, NEW i \in DOMAIN text[f],
                          [file |-> f, at |-> i] \notin attributed, text[f][i].kind = "func",
                          Done([file |-> f, at |-> i])', RightBefore(text[f], i)
                   PROVE  FALSE
        BY DEF Unmarked
    <2>2. \A k \in 1..n - 1 : stack[k].file = f => i < stack[k].at
        BY <1>3, <2>1 DEF Done, n
    <2>3. CASE f # g
        <3>1. Done([file |-> f, at |-> i])
            BY <1>2, <1>3, <2>2, <2>3 DEF Done, g
        <3> QED
            BY <2>1, <3>1 DEF Unmarked
    <2>4. CASE f = g
        <3>1. i \in 1..a
            BY <1>2, <2>1, <2>4, LenProperties
        <3>2. CASE i = a
            BY <1>4, <2>1, <2>4, <3>2 DEF Here, g, a
        <3>3. CASE i # a
            <4>1. Done([file |-> f, at |-> i])
                BY <1>2, <1>3, <2>2, <2>4, <3>1, <3>3 DEF Done, a, g
            <4> QED
                BY <2>1, <4>1 DEF Unmarked
        <3> QED
            BY <3>2, <3>3
    <2> QED
        BY <2>3, <2>4
<1> QED
    BY <1>5, <1>6, <1>7, <1>8

LEMMA IdleAttributes ==
    ASSUME AttributesInv, UNCHANGED <<text, stack, searched, attributed>>
    PROVE  AttributesInv'
<1>1. Calls' = Calls /\ Listed' = Listed
    BY DEF Calls, Listed
<1>2. Flags' /\ Includers' /\ Marked' /\ Unread'
    BY <1>1 DEF AttributesInv, Flags, Includers, Marked, Unread
<1>3. \A id : Done(id)' <=> Done(id)
    BY DEF Done
<1>4. Unmarked'
    BY <1>3 DEF AttributesInv, Unmarked
<1> QED
    BY <1>2, <1>4 DEF AttributesInv
LEMMA InitAInv == Init => AInv
<1> SUFFICES ASSUME Init PROVE AInv
    OBVIOUS
<1>1. IInv
    BY InitIInv
<1>2. Main \in Files
    BY IncludesAssumption
<1>3. stack = <<Call(Main)>> /\ text = [f \in Files |-> <<>>] /\ attributed = {}
    BY DEF Init
<1>4. stack[1].at = 0 /\ stack[1].attributes = FALSE /\ Len(stack) = 1
    <2>1. Call(Main).at = 0 /\ Call(Main).attributes = FALSE
        BY <1>2, CallTyped
    <2> HIDE DEF Call
    <2> QED
        BY <1>3, <2>1
<1>5. Calls = {1}
    <2>1. \A k \in 1..1 : k = 1
        OBVIOUS
    <2> QED
        BY <1>4, <2>1 DEF Calls
<1>6. Flags
    BY <1>4, <1>5, NothingReaches DEF Flags
<1>7. Includers
    BY <1>4, <1>5 DEF Includers
<1>8. \A f \in Files : text[f] = <<>> /\ DOMAIN text[f] = {}
    BY <1>3
<1>9. Marked /\ Unmarked /\ Unread
    BY <1>3, <1>8 DEF Marked, Unmarked, Unread
<1> QED
    BY <1>1, <1>6, <1>7, <1>9 DEF AInv, AttributesInv

\* The flag of a call tells what is before its construct.
LEMMA TopFlag ==
    ASSUME AInv, stack # <<>>
    PROVE  /\ Top.attributes => Reaches(text[Top.file], Top.at)
           /\ ~Top.attributes => ~RightBefore(text[Top.file], Top.at)
           /\ Top.at \in Nat
BY TopTyped DEF AInv, IInv, AttributesInv, Flags

LEMMA NextAttributes == AInv /\ [Next]_vars => AttributesInv'
<1> SUFFICES ASSUME AInv, [Next]_vars PROVE AttributesInv'
    OBVIOUS
<1> USE DEF AInv, IInv
<1>1. CASE Start
    <2>1. stack # <<>> /\ Top.at = 0 /\ UNCHANGED attributed
        BY <1>1 DEF Start, Reading, Halting
    <2>2. Top.file \in Files /\ Top.file \notin Listed
        BY <2>1, TopTyped DEF Reading, Placed
    <2>3. Listing(Top.file)
        BY <1>1, <2>2, NewListed DEF Start, Reading
    <2>4. ~Top.attributes
        BY <2>1, TopFlag, NothingReaches
    <2>5. \E c \in Upcoming : Lex(c, [Top EXCEPT !.attributes = FALSE])
        <3>1. Top = [Top EXCEPT !.attributes = FALSE]
            BY <2>1, <2>4, SameFlag
        <3> QED
            BY <1>1, <3>1 DEF Start
    <2>6. ~RightBefore(text[Top.file], Top.at + 1)
        <3>1. Top.at + 1 = 1
            BY <2>1
        <3> QED
            BY <3>1, NothingReaches
    <2>7. ~(Top.at > 0) /\ attributed \subseteq attributed' /\ \A id \in attributed' : id \in attributed
        BY <2>1
    <2> QED
        BY <2>1, <2>3, <2>5, <2>6, <2>7, GoesOn
<1>2. CASE Attributes
    <2>1. /\ stack # <<>> /\ Listing(Top.file) /\ UNCHANGED attributed
          /\ Top.at \in Nat \ {0} /\ Here.kind = "attributes"
        BY <1>2, Begun, TopFlag DEF Attributes, At
    <2>2. Reaches(text[Top.file], Top.at + 1)
        BY <2>1, NextReaches DEF Here
    <2>3. \E c \in Upcoming : Lex(c, [Top EXCEPT !.attributes = TRUE])
        BY <1>2 DEF Attributes
    <2> QED
        BY <2>1, <2>2, <2>3, GoesOn
<1>3. CASE SkipUses
    <2>1. /\ stack # <<>> /\ Listing(Top.file) /\ UNCHANGED attributed
          /\ Top.at \in Nat \ {0} /\ Here.kind = "uses"
        BY <1>3, Begun, TopFlag DEF SkipUses, At
    <2>2. ~RightBefore(text[Top.file], Top.at + 1)
        BY <2>1, NextReaches DEF Here
    <2>3. Top.attributes => Reaches(text[Top.file], Top.at + 1)
        BY <2>1, NextReaches, TopFlag DEF Here
    <2>4. \E c \in Upcoming : Lex(c, [Top EXCEPT !.attributes = Top.attributes])
        <3>1. Top = [Top EXCEPT !.attributes = Top.attributes]
            BY <2>1, SameFlag
        <3> QED
            BY <1>3, <3>1 DEF SkipUses
    <2>5. Top.attributes \in BOOLEAN
        BY <2>1, SameFlag
    <2> QED
        BY <2>1, <2>2, <2>3, <2>4, <2>5, GoesOn
<1>4. CASE Uses
    BY <1>4, UsesAttributes DEF Uses
<1>5. CASE Function
    <2>1. /\ stack # <<>> /\ Listing(Top.file)
          /\ Top.at \in Nat \ {0} /\ Here.kind = "func"
        BY <1>5, Begun, TopFlag DEF Function, At
    <2>2. ~RightBefore(text[Top.file], Top.at + 1)
        BY <2>1, NextReaches DEF Here
    <2>3. \E c \in Upcoming : Lex(c, [Top EXCEPT !.attributes = FALSE])
        BY <1>5 DEF Function, Reset
    <2>4. attributed' = IF Top.attributes THEN attributed \cup {HereId} ELSE attributed
        BY <1>5 DEF Function
    <2>5. CASE Top.attributes
        <3>1. Reaches(text[Top.file], Top.at)
            BY <2>1, <2>5, TopFlag
        <3>2. attributed' = attributed \cup {HereId}
            BY <2>4, <2>5
        <3>3. /\ HereId \in attributed' /\ Top.at > 0 /\ attributed \subseteq attributed'
              /\ \A id \in attributed' : id \in attributed \/ id = HereId
            BY <2>1, <3>2
        <3> QED
            BY <2>1, <2>2, <2>3, <3>1, <3>3, GoesOn
    <2>6. CASE ~Top.attributes
        <3>1. ~RightBefore(text[Top.file], Top.at)
            BY <2>1, <2>6, TopFlag
        <3>2. attributed' = attributed
            BY <2>4, <2>6
        <3> QED
            BY <2>1, <2>2, <2>3, <3>1, <3>2, GoesOn
    <2> QED
        BY <2>5, <2>6
<1>6. CASE Struct \/ Extension
    <2>1. /\ stack # <<>> /\ Listing(Top.file) /\ UNCHANGED attributed
          /\ Top.at \in Nat \ {0} /\ Here.kind \in {"struct", "extension"}
        BY <1>6, Begun, TopFlag DEF Struct, Extension, At
    <2>2. ~RightBefore(text[Top.file], Top.at + 1)
        BY <2>1, NextReaches DEF Here
    <2>3. \E c \in Upcoming : Lex(c, [Top EXCEPT !.attributes = FALSE])
        BY <1>6 DEF Struct, Extension, Reset
    <2> QED
        BY <2>1, <2>2, <2>3, GoesOn
<1>7. CASE EndOfInclude
    <2> DEFINE n == Len(stack)
               m == n - 1
               u == [Under[m] EXCEPT !.attributes = FALSE]
    <2>1. At("eof") /\ stack # <<>> /\ n > 1 /\ UNCHANGED <<text, searched, attributed>>
        BY <1>7, AtEnd DEF EndOfInclude
    <2>2. /\ Under \in Seq(Frame) /\ Len(Under) = m /\ m \in Nat \ {0}
          /\ \A k \in 1..m : Under[k] = stack[k]
        BY <2>1, TopTyped
    <2>3. stack' = [Under EXCEPT ![m].attributes = FALSE]
        BY <1>7, <2>2 DEF EndOfInclude
    <2> HIDE DEF m
    <2>4. Under[m] \in Frame
        BY <2>2
    <2>5. u \in Frame /\ u.file = Under[m].file /\ u.at = Under[m].at /\ ~u.attributes
        BY <2>4, FlagTyped
    <2>6. stack' = [Under EXCEPT ![m] = u]
        BY <2>2, <2>3
    <2> HIDE DEF u
    <2>7. /\ stack' \in Seq(Frame) /\ Len(stack') = m
          /\ \A k \in 1..m : stack'[k] = IF k = m THEN u ELSE Under[k]
        BY <2>2, <2>5, <2>6, ExceptSeq
    <2>8. \A k \in 1..m : /\ stack'[k].file = stack[k].file /\ stack'[k].at = stack[k].at
                          /\ ~stack'[k].attributes \/ stack'[k].attributes = stack[k].attributes
        BY <2>2, <2>5, <2>7
    <2> QED
        BY <2>1, <2>7, <2>8, ReturnsAttributes DEF m
<1>8. CASE EndOfMain
    <2>1. At("eof") /\ stack # <<>> /\ UNCHANGED <<text, searched, attributed>> /\ stack' = Under
        BY <1>8, AtEnd DEF EndOfMain
    <2>2. /\ Under \in Seq(Frame) /\ Len(Under) = Len(stack) - 1
          /\ \A k \in 1..Len(stack) - 1 : Under[k] = stack[k]
        BY <2>1, TopTyped
    <2> QED
        BY <2>1, <2>2, ReturnsAttributes
<1>9. CASE RejectMissing \/ RejectCall \/ RejectExtension \/ RejectOther
    BY <1>9, IdleAttributes
       DEF RejectMissing, RejectCall, RejectExtension, RejectOther, Reject
<1>10. CASE Stopped \/ UNCHANGED vars
    BY <1>10, IdleAttributes DEF Stopped, vars
<1> QED
    BY <1>1, <1>2, <1>3, <1>4, <1>5, <1>6, <1>7, <1>8, <1>9, <1>10 DEF Next

LEMMA AInvAttributes == AInv => AttributesLocal
<1> SUFFICES ASSUME AInv PROVE AttributesLocal
    OBVIOUS
<1>1. SUFFICES ASSUME NEW f \in Files, NEW i \in DOMAIN text[f]
               PROVE  LET id == [file |-> f, at |-> i]
                      IN  /\ id \in attributed => Reaches(text[f], i)
                          /\ id \notin attributed =>
                               ~(text[f][i].kind = "func" /\ Done(id) /\ RightBefore(text[f], i))
    BY DEF AttributesLocal, Reaches, RightBefore
<1>2. i \in Nat
    <2>1. text[f] \in Seq(Token)
        BY ListTyped DEF AInv, IInv
    <2> QED
        BY <2>1, LenProperties
<1> QED
    BY <1>2 DEF AInv, AttributesInv, Marked, Unmarked

\* A function is given the attributes written right before it, and none but those
\* written in its own file with only `uses` in between, whatever the files that
\* these include have attributes for (parsing.cpp:174-257).
THEOREM OwnAttributes == Spec => []AttributesLocal
<1>1. Init => AInv
    BY InitAInv
<1>2. AInv /\ [Next]_vars => AInv'
    BY NextIInv, NextAttributes DEF AInv
<1>3. AInv => AttributesLocal
    BY AInvAttributes
<1> QED
    BY <1>1, <1>2, <1>3, PTL DEF Spec
=============================================================================
