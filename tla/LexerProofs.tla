---------------------------- MODULE LexerProofs ----------------------------
(***************************************************************************)
(* Proofs about the reading of characters: for every text of the files and *)
(* every way to look ahead, each character is used once, and what has only *)
(* been looked at leaves no trace.                                         *)
(***************************************************************************)
EXTENDS Lexer, FiniteSetTheorems, SequenceTheorems, TLAPS

(* The inductive invariant, in four parts: the files with their positions, *)
(* the tokens read, the value kept, and the operator that is looked for.   *)

\* What the lexer knows of a file: the end of it comes last.
TextOf(s) ==
    /\ s \in Seq(Char \cup {"EOF"})
    /\ \A p \in 1..Len(s) : IF s[p] = "EOF" THEN p = Len(s) ELSE p <= MaxText

\* A file of text s is at position n.
Reached(s, n) ==
    /\ n \in 0..Len(s)
    /\ \A p \in 1..n : s[p] # "EOF"

\* The character read last, and how many have been used before it.
LastIs(c, s, n) ==
    CASE c = "NUL" -> n = 0
      [] c = "EOF" -> n < Len(s) /\ s[n + 1] = "EOF"
      [] OTHER     -> n >= 1 /\ s[n] = c
UsedBy(c, n) == CASE c = "NUL" -> 0 [] c = "EOF" -> n [] OTHER -> n - 1

\* The line feeds that files of texts x have before the positions a.
BreaksTo(x, a) == {p \in Files \X (1..MaxText) : p[2] <= a[p[1]] /\ x[p[1]][p[2]] = "nl"}

\* Between the characters of a token.
InToken == lexing.mode \in {"string", "escape", "quoted", "word", "number"}

Peeking == saved # <<>>
Before  == saved[1].snapshot

SnapshotType ==
    [at : 0..MaxText, lastChar : Char \cup {"EOF", "NUL"}, Line : 1..MaxText + 1,
     currentToken : Token, currentTokenVal : Seq(Char \cup {"EOF"})]

Sources ==
    /\ \A f \in Files : TextOf(text[f]) /\ Reached(text[f], at[f])
    /\ \A f \in Files : \/ f = File /\ lexing.mode = "string"
                       \/ LastIs(lastChars[f], text[f], at[f])
    /\ Characters <= MaxText
    /\ Line = 1 + Cardinality(BreaksTo(text, at))

\* What peek_next_token() has saved is a state that the file has been in.
Saved ==
    Peeking =>
        /\ saved \in Seq([snapshot : SnapshotType, left : 0..2])
        /\ Before.at <= at[File]
        /\ LastIs(Before.lastChar, text[File], Before.at)
        /\ Before.Line = 1 + Cardinality(BreaksTo(text, [at EXCEPT ![File] = Before.at]))
        /\ operator.step \in {"double", "third", "equal"}

\* The tokens ts are those of the first n characters of s.
Covers(ts, n, s) ==
    /\ \A p \in 1..n : Isspace(s[p]) \/ \E i \in DOMAIN ts : p \in ts[i].first..ts[i].last
    /\ \A i \in DOMAIN ts :
          /\ ts[i].first <= ts[i].last
          /\ ts[i].last <= n
          /\ i <= ts[i].last
          /\ i > 1 => ts[i - 1].last < ts[i].first

\* How far the tokens of a file go, if what is being read of it is left out.
Taken(f) ==
    IF f = File /\ Peeking THEN UsedBy(Before.lastChar, Before.at)
    ELSE IF f = File /\ InToken THEN lexing.first - 1
    ELSE UsedBy(lastChars[f], at[f])

Places == InToken => lexing.first \in 1..at[File]

Covered == \A f \in Files : Covers(tokens[f], Taken(f), text[f])

\* t is the last of the tokens ts of a text s, and val its characters.
BelongsTo(ts, s, t, val) ==
    t \notin {"keyword", "EOF"} =>
        /\ Len(ts) >= 1
        /\ ts[Len(ts)].kind = t
        /\ t \in {"identifier", "integer", "decimal"} =>
              val = SubSeq(s, ts[Len(ts)].first, ts[Len(ts)].last)

Values ==
    /\ lexing.mode \in {"word", "number"} => lexing.val = SubSeq(text[File], lexing.first, at[File])
    /\ Peeking => BelongsTo(tokens[File], text[File], Before.currentToken, Before.currentTokenVal)
    /\ Idle => BelongsTo(tokens[File], text[File], currentToken, currentTokenVal)

\* After position a, the next character that is no space is x, at b.
Blank(s, a, b)    == \A p \in 1..Len(s) : a < p /\ p <= b => s[p] = "nl"
Finds(s, a, x, b) == b \in 1..Len(s) /\ a < b /\ Blank(s, a, b - 1) /\ s[b] = x

\* The next one or two are those of w from number k on.
Ahead(s, a, w, k) ==
    k <= Len(w) =>
        \E b \in 1..Len(s) :
            /\ Finds(s, a, w[k], b)
            /\ k + 1 <= Len(w) => \E c \in 1..Len(s) : Finds(s, b, w[k + 1], c)

\* Characters u have been used when the parser has yet to look at n more tokens,
\* the last one after position b; it is at mode, and has found t.
LooksAt(s, a, b, u, n, mode, t) ==
    CASE n = 2 -> mode = "begin" /\ a <= u /\ Blank(s, a, u)
      [] n = 1 -> /\ mode = "idle" => u = b
                  /\ mode = "begin" => b <= u /\ Blank(s, b, u)
      [] n = 0 -> mode = "idle" /\ (t \in Symbols => Finds(s, b, t, u))

Used1 == UsedBy(lastChars[File], at[File])

LookingAhead ==
    Peeking =>
        \E b \in 0..Len(text[File]) :
            /\ LooksAt(text[File], Taken(File), b, Used1, saved[1].left, lexing.mode,
                       currentToken)
            /\ IF operator.step = "third"
               THEN Finds(text[File], Taken(File), operator.op[1], b)
               ELSE b = Taken(File) /\ saved[1].left < 2

Asking == operator.step \in {"double", "third", "equal", "found"}

OperatorShape ==
    LET op == operator.op IN
    /\ operator.step = "none" => operator = NoOperator
    /\ operator.step = "double" => \E c \in Double : op = <<c>>
    /\ operator.step = "equal" => \E c \in Double \cup Equal :
                                     op = <<c>> /\ (c \in Equal \/ ~Reading)
    /\ operator.step = "third" => \E c \in Third : op = <<c, c>>
    /\ operator.step \in {"found", "advance"} => op \in Ones \cup Twos \cup Threes
    /\ Asking => operator.left <= MaxAsks
    /\ operator.step = "left" => operator.left <= MaxAsks + 1
    /\ operator.step = "advance" => operator.left <= Len(op)
    /\ operator.step \notin {"none", "left"} => path = "none"
    /\ Asking => lexing.mode = "idle" \/ Peeking

\* The operator has been found by looking ahead, and is still there.
Foreseen ==
    Asking =>
        /\ operator.first = Len(tokens[File])
        /\ operator.first >= 1
        /\ tokens[File][operator.first].kind = operator.op[1]
        /\ Ahead(text[File], Taken(File), operator.op, 2)

\* How many tokens advance_op() has read after the first one.
Done == Len(operator.op) - operator.left - (IF lexing.mode = "idle" THEN 0 ELSE 1)

Advanced ==
    operator.step = "advance" =>
        /\ Done >= 0
        /\ operator.first >= 1
        /\ Len(tokens[File]) =
              operator.first + (IF operator.left = 0 /\ lexing.mode = "idle" /\ currentToken = "EOF"
                                THEN Done - 1 ELSE Done)
        /\ \A i \in 1..Len(operator.op) :
              i <= Done + 1 => tokens[File][operator.first + i - 1].kind = operator.op[i]
        /\ InToken => operator.left = 0
        /\ Ahead(text[File], Taken(File), operator.op, Done + 2)

Inv == /\ TypeOK /\ Sources /\ Saved /\ Places /\ Covered /\ Values
       /\ OperatorShape /\ LookingAhead /\ Foreseen /\ Advanced
-----------------------------------------------------------------------------
(* Texts and positions *)

Extends(s, t) == Len(s) <= Len(t) /\ \A p \in 1..Len(s) : t[p] = s[p]

Onward(c, n) == IF c = "EOF" THEN n ELSE n + 1

LEMMA CharSets ==
    /\ "NUL" \notin Char /\ "EOF" \notin Char
    /\ "nl" \in Char /\ "nl" \notin Letters \cup Digits \cup Symbols
    /\ "EOF" \notin Letters \cup Digits \cup Symbols
    /\ \A x \in Symbols : x \notin {"keyword", "EOF", "identifier", "integer", "decimal", "string",
                                    "nl", "quote", "backslash", ".", "'", "NUL"}
    /\ \A x \in Letters \cup Digits :
          x \notin Symbols \cup {"nl", "quote", "backslash", ".", "'", "NUL"}
    /\ \A x \in Letters : x \notin Digits
    BY LexerAssumption DEF Char, Special, Valued

\* advance() of a file of text s at position n, which becomes t.
LEMMA Lengthened ==
    ASSUME NEW s, NEW t, NEW n, NEW c \in Char \cup {"EOF"}, TextOf(s), Reached(s, n),
           t = IF n < Len(s) THEN s ELSE Append(s, c),
           n < Len(s) => c = s[n + 1],
           n = Len(s) /\ c # "EOF" => Len(s) < MaxText
    PROVE  /\ TextOf(t)
           /\ Extends(s, t)
           /\ n + 1 \in 1..Len(t)
           /\ t[n + 1] = c
           /\ Reached(t, Onward(c, n))
           /\ LastIs(c, t, Onward(c, n))
<1>1. s \in Seq(Char \cup {"EOF"}) /\ Len(s) \in Nat /\ n \in 0..Len(s) /\ MaxText \in Nat
    BY LexerAssumption DEF TextOf, Reached
<1>2. /\ t \in Seq(Char \cup {"EOF"})
      /\ Len(t) = IF n < Len(s) THEN Len(s) ELSE Len(s) + 1
      /\ \A p \in 1..Len(s) : t[p] = s[p]
      /\ t[n + 1] = c
    BY <1>1, AppendProperties
<1>3. TextOf(t)
    <2>1. SUFFICES ASSUME NEW p \in 1..Len(t)
                   PROVE  IF t[p] = "EOF" THEN p = Len(t) ELSE p <= MaxText
        BY <1>2 DEF TextOf
    <2>2. CASE n < Len(s)
        BY <1>1, <2>2 DEF TextOf
    <2>3. CASE n = Len(s)
        <3>1. CASE p = Len(s) + 1
            BY <1>1, <1>2, <2>3, <3>1
        <3>2. CASE p \in 1..Len(s)
            BY <1>1, <1>2, <2>3, <3>2 DEF TextOf, Reached
        <3> QED
            BY <1>1, <1>2, <2>1, <2>3, <3>1, <3>2
    <2> QED
        BY <1>1, <2>2, <2>3
<1>4. Extends(s, t) /\ n + 1 \in 1..Len(t)
    BY <1>1, <1>2 DEF Extends
<1>5. Reached(t, Onward(c, n))
    BY <1>1, <1>2, <1>4 DEF Reached, Onward
<1>6. LastIs(c, t, Onward(c, n))
    <2>1. c # "NUL"
        BY CharSets
    <2> QED
        BY <1>1, <1>2, <1>4, <2>1 DEF LastIs, Onward
<1> QED
    BY <1>2, <1>3, <1>4, <1>5, <1>6

LEMMA LastStays ==
    ASSUME NEW s, NEW t, NEW n, NEW c, TextOf(s), n \in 0..Len(s), Extends(s, t), Len(t) \in Nat,
           LastIs(c, s, n)
    PROVE  LastIs(c, t, n)
<1>1. Len(s) \in Nat
    BY DEF TextOf
<1> QED
    BY <1>1 DEF LastIs, Extends

LEMMA UsedInRange ==
    ASSUME NEW s, NEW n, NEW c, TextOf(s), n \in 0..Len(s), LastIs(c, s, n)
    PROVE  UsedBy(c, n) \in 0..n
<1>1. Len(s) \in Nat
    BY DEF TextOf
<1> QED
    BY <1>1 DEF LastIs, UsedBy
-----------------------------------------------------------------------------
(* Tokens and what they cover *)

Span == [kind : Token, first : 1..MaxText, last : 1..MaxText]

LEMMA CoversLonger ==
    ASSUME NEW ts, NEW n \in Nat, NEW s, NEW t, TextOf(s), Extends(s, t), n <= Len(s),
           Covers(ts, n, s)
    PROVE  Covers(ts, n, t)
<1>1. Len(s) \in Nat /\ \A p \in 1..n : t[p] = s[p]
    BY DEF Extends, TextOf
<1>2. \A p \in 1..n : Isspace(t[p]) \/ \E i \in DOMAIN ts : p \in ts[i].first..ts[i].last
    BY <1>1 DEF Covers, Isspace
<1> QED
    BY <1>2 DEF Covers

LEMMA SpanOf ==
    ASSUME NEW ts \in Seq(Span), NEW i \in 1..Len(ts)
    PROVE  ts[i] \in Span /\ ts[i].first \in Nat \ {0} /\ ts[i].last \in Nat
<1>1. MaxText \in Nat /\ ts[i] \in Span
    BY LexerAssumption, ElementOfSeq
<1> QED
    BY <1>1 DEF Span

\* There are no more tokens than characters, and each is where it is.
LEMMA TokensInText ==
    ASSUME NEW ts \in Seq(Span), NEW n \in Nat, NEW s, Covers(ts, n, s)
    PROVE  /\ Len(ts) \in 0..n
           /\ \A i \in 1..Len(ts) : ts[i].last \in i..n /\ ts[i].first \in 1..ts[i].last
<1>1. Len(ts) \in Nat /\ DOMAIN ts = 1..Len(ts)
    BY LenProperties
<1>2. ASSUME NEW i \in 1..Len(ts) PROVE ts[i].last \in i..n /\ ts[i].first \in 1..ts[i].last
    <2>1. ts[i].first \in Nat \ {0} /\ ts[i].last \in Nat
        BY SpanOf
    <2>2. ts[i].last <= n /\ ts[i].first <= ts[i].last /\ i <= ts[i].last
        BY <1>1 DEF Covers
    <2> QED
        BY <1>1, <2>1, <2>2
<1>3. Len(ts) >= 1 => ts[Len(ts)].last \in Len(ts)..n
    BY <1>1, <1>2
<1> QED
    BY <1>1, <1>2, <1>3

LEMMA CoversSpace ==
    ASSUME NEW ts \in Seq(Span), NEW n \in Nat, NEW s, Covers(ts, n, s), Isspace(s[n + 1])
    PROVE  Covers(ts, n + 1, s)
<1>1. DOMAIN ts = 1..Len(ts)
    BY LenProperties
<1>2. \A i \in DOMAIN ts : ts[i].last \in i..n
    BY <1>1, TokensInText
<1> QED
    BY <1>2 DEF Covers

LEMMA CoversToken ==
    ASSUME NEW ts \in Seq(Span), NEW n \in Nat, NEW s, Covers(ts, n, s), NEW r \in Span,
           r.first = n + 1, r.last >= n + 1
    PROVE  Covers(Append(ts, r), r.last, s)
<1>1. MaxText \in Nat /\ Len(ts) \in Nat /\ DOMAIN ts = 1..Len(ts)
    BY LexerAssumption
<1>2. /\ Append(ts, r) \in Seq(Span)
      /\ DOMAIN Append(ts, r) = 1..(Len(ts) + 1)
      /\ \A i \in 1..Len(ts) : Append(ts, r)[i] = ts[i]
      /\ Append(ts, r)[Len(ts) + 1] = r
    BY AppendProperties, LenProperties
<1>3. /\ Len(ts) \in 0..n
      /\ \A i \in 1..Len(ts) : ts[i].last \in i..n /\ ts[i].first \in 1..ts[i].last
    BY TokensInText
<1>4. r.first \in Nat /\ r.last \in Nat
    BY <1>1 DEF Span
<1>5. ASSUME NEW p \in 1..r.last
      PROVE  \/ Isspace(s[p])
             \/ \E i \in DOMAIN Append(ts, r) :
                   p \in Append(ts, r)[i].first..Append(ts, r)[i].last
    <2>1. CASE p <= n
        <3>1. \/ Isspace(s[p])
              \/ \E i \in 1..Len(ts) : p \in ts[i].first..ts[i].last
            BY <1>1, <1>4, <2>1 DEF Covers
        <3> QED
            BY <1>1, <1>2, <3>1
    <2>2. CASE p > n
        <3>1. p \in r.first..r.last
            BY <1>4, <2>2
        <3> QED
            BY <1>1, <1>2, <3>1
    <2> QED
        BY <1>4, <2>1, <2>2
<1>6. ASSUME NEW i \in DOMAIN Append(ts, r)
      PROVE  LET a == Append(ts, r) IN
             /\ a[i].first <= a[i].last
             /\ a[i].last <= r.last
             /\ i <= a[i].last
             /\ i > 1 => a[i - 1].last < a[i].first
    <2>1. CASE i \in 1..Len(ts)
        <3>1. Append(ts, r)[i] = ts[i] /\ (i > 1 => Append(ts, r)[i - 1] = ts[i - 1])
            BY <1>1, <1>2, <2>1
        <3>2. /\ ts[i].first <= ts[i].last
              /\ i <= ts[i].last
              /\ i > 1 => ts[i - 1].last < ts[i].first
            BY <1>1, <2>1 DEF Covers
        <3> QED
            BY <1>3, <1>4, <2>1, <3>1, <3>2
    <2>2. CASE i = Len(ts) + 1
        <3>1. Append(ts, r)[i] = r
            BY <1>2, <2>2
        <3>2. i > 1 => Append(ts, r)[i - 1] = ts[Len(ts)] /\ ts[Len(ts)].last \in Len(ts)..n
            <4>1. i - 1 = Len(ts)
                BY <1>3, <2>2
            <4>2. i > 1 => Len(ts) \in 1..Len(ts)
                BY <1>3, <2>2
            <4> QED
                BY <1>2, <1>3, <4>1, <4>2
        <3>3. i <= r.last
            BY <1>3, <1>4, <2>2
        <3>4. i > 1 => Append(ts, r)[i - 1].last < r.first
            BY <1>3, <1>4, <3>2
        <3> QED
            BY <1>4, <3>1, <3>3, <3>4
    <2> QED
        BY <1>1, <1>2, <1>6, <2>1, <2>2
<1> QED
    BY <1>5, <1>6 DEF Covers

-----------------------------------------------------------------------------
(* Counting characters and lines *)

CharsOf(x) == {p \in Files \X (1..MaxText) : p[2] \in DOMAIN x[p[1]] /\ x[p[1]][p[2]] # "EOF"}

LEMMA Counted ==
    ASSUME NEW S \in SUBSET (Files \X (1..MaxText))
    PROVE  IsFiniteSet(S) /\ Cardinality(S) \in Nat
<1>1. IsFiniteSet(Files) /\ MaxText \in Nat
    BY LexerAssumption
<1>2. IsFiniteSet(1..MaxText)
    BY <1>1, FS_Interval
<1>3. IsFiniteSet(Files \X (1..MaxText))
    BY <1>1, <1>2, FS_Product
<1> QED
    BY <1>3, FS_Subset, FS_CardinalityType

LEMMA BreaksStay ==
    ASSUME NEW x, NEW y, NEW a,
           \A g \in Files : TextOf(x[g]) /\ a[g] \in 0..Len(x[g]) /\ Extends(x[g], y[g])
    PROVE  BreaksTo(y, a) = BreaksTo(x, a)
<1>1. SUFFICES ASSUME NEW g \in Files, NEW n \in 1..MaxText, n <= a[g]
               PROVE  y[g][n] = x[g][n]
    BY DEF BreaksTo
<1>2. Len(x[g]) \in Nat /\ MaxText \in Nat
    BY LexerAssumption DEF TextOf
<1> QED
    BY <1>1, <1>2 DEF Extends

\* One character c more of file f.
LEMMA BreaksNext ==
    ASSUME NEW x, NEW a \in [Files -> Nat], NEW f \in Files, a[f] + 1 \in 1..MaxText,
           NEW b, b = [a EXCEPT ![f] = @ + 1]
    PROVE  Cardinality(BreaksTo(x, b)) =
               Cardinality(BreaksTo(x, a)) + (IF x[f][a[f] + 1] = "nl" THEN 1 ELSE 0)
<1> DEFINE new == <<f, a[f] + 1>>
<1>1. /\ new \in Files \X (1..MaxText)
      /\ new[1] = f /\ new[2] = a[f] + 1
      /\ b[f] = a[f] + 1
      /\ \A g \in Files : g # f => b[g] = a[g]
    OBVIOUS
<1>2. new \notin BreaksTo(x, a)
    BY <1>1 DEF BreaksTo
<1>3. \A p \in Files \X (1..MaxText) : p # new => (p[2] <= b[p[1]] <=> p[2] <= a[p[1]])
    <2>1. SUFFICES ASSUME NEW g \in Files, NEW n \in 1..MaxText, <<g, n>> # new
                   PROVE  n <= b[g] <=> n <= a[g]
        OBVIOUS
    <2>2. MaxText \in Nat /\ n \in Nat /\ a[g] \in Nat
        BY LexerAssumption
    <2> QED
        BY <1>1, <2>1, <2>2
<1>4. CASE x[f][a[f] + 1] = "nl"
    <2>1. BreaksTo(x, b) = BreaksTo(x, a) \cup {new}
        <3>1. new \in BreaksTo(x, b)
            BY <1>1, <1>4 DEF BreaksTo
        <3>2. \A p \in Files \X (1..MaxText) :
                 p # new => (p \in BreaksTo(x, b) <=> p \in BreaksTo(x, a))
            BY <1>3 DEF BreaksTo
        <3> QED
            BY <1>1, <3>1, <3>2 DEF BreaksTo
    <2>2. IsFiniteSet(BreaksTo(x, a))
        BY Counted DEF BreaksTo
    <2> QED
        BY <1>2, <1>4, <2>1, <2>2, FS_AddElement
<1>5. CASE x[f][a[f] + 1] # "nl"
    <2>1. BreaksTo(x, b) = BreaksTo(x, a)
        <3>1. new \notin BreaksTo(x, b)
            BY <1>1, <1>5 DEF BreaksTo
        <3>2. \A p \in Files \X (1..MaxText) :
                 p # new => (p \in BreaksTo(x, b) <=> p \in BreaksTo(x, a))
            BY <1>3 DEF BreaksTo
        <3> QED
            BY <1>2, <3>1, <3>2 DEF BreaksTo
    <2>2. Cardinality(BreaksTo(x, a)) \in Nat
        BY Counted DEF BreaksTo
    <2> QED
        BY <1>5, <2>1, <2>2
<1> QED
    BY <1>4, <1>5

LEMMA BreaksAreChars ==
    ASSUME NEW x, NEW a, \A g \in Files : TextOf(x[g]) /\ Reached(x[g], a[g])
    PROVE  Cardinality(BreaksTo(x, a)) <= Cardinality(CharsOf(x))
<1>1. BreaksTo(x, a) \subseteq CharsOf(x)
    <2>1. SUFFICES ASSUME NEW g \in Files, NEW n \in 1..MaxText, n <= a[g], x[g][n] = "nl"
                   PROVE  n \in DOMAIN x[g] /\ x[g][n] # "EOF"
        BY DEF BreaksTo, CharsOf
    <2>2. a[g] \in 0..Len(x[g]) /\ Len(x[g]) \in Nat /\ DOMAIN x[g] = 1..Len(x[g])
        BY LenProperties DEF TextOf, Reached
    <2>3. MaxText \in Nat
        BY LexerAssumption
    <2> QED
        BY <2>1, <2>2, <2>3
<1>2. IsFiniteSet(CharsOf(x))
    BY Counted DEF CharsOf
<1> QED
    BY <1>1, <1>2, FS_Subset

\* There is room for a character if less have been read in all files together.
LEMMA RoomInFile ==
    ASSUME NEW x, NEW f \in Files, TextOf(x[f]), Reached(x[f], Len(x[f]))
    PROVE  Len(x[f]) <= Cardinality(CharsOf(x))
<1>1. /\ Len(x[f]) \in Nat
      /\ DOMAIN x[f] = 1..Len(x[f])
      /\ \A p \in 1..Len(x[f]) : x[f][p] # "EOF" /\ p \in 1..MaxText
    <2>1. Len(x[f]) \in Nat /\ DOMAIN x[f] = 1..Len(x[f])
        BY LenProperties DEF TextOf
    <2> QED
        BY <2>1 DEF TextOf, Reached
<1>2. {f} \X (1..Len(x[f])) \subseteq CharsOf(x)
    BY <1>1 DEF CharsOf
<1>3. IsFiniteSet({f}) /\ Cardinality({f}) = 1
    BY FS_Singleton
<1>4. IsFiniteSet(1..Len(x[f])) /\ Cardinality(1..Len(x[f])) = Len(x[f])
    BY <1>1, FS_Interval
<1>5. Cardinality({f} \X (1..Len(x[f]))) = Len(x[f])
    <2>1. Cardinality({f} \X (1..Len(x[f]))) = Cardinality({f}) * Cardinality(1..Len(x[f]))
        BY <1>3, <1>4, FS_Product
    <2>2. 1 * Len(x[f]) = Len(x[f])
        BY <1>1
    <2> QED
        BY <1>3, <1>4, <2>1, <2>2
<1>6. IsFiniteSet(CharsOf(x))
    BY Counted DEF CharsOf
<1> QED
    BY <1>2, <1>5, <1>6, FS_Subset

LEMMA CharsNext ==
    ASSUME NEW x \in [Files -> Seq(Char \cup {"EOF"})], NEW f \in Files, NEW c \in Char \cup {"EOF"},
           NEW y, y = [x EXCEPT ![f] = Append(@, c)]
    PROVE  /\ Cardinality(CharsOf(y)) <= Cardinality(CharsOf(x)) + 1
           /\ c = "EOF" => Cardinality(CharsOf(y)) = Cardinality(CharsOf(x))
<1> DEFINE new == <<f, Len(x[f]) + 1>>
<1>1. /\ x[f] \in Seq(Char \cup {"EOF"}) /\ Len(x[f]) \in Nat /\ DOMAIN x[f] = 1..Len(x[f])
      /\ y[f] = Append(x[f], c)
      /\ DOMAIN y[f] = 1..(Len(x[f]) + 1)
      /\ y[f][Len(x[f]) + 1] = c
      /\ \A n \in 1..Len(x[f]) : y[f][n] = x[f][n]
      /\ \A g \in Files : g # f => y[g] = x[g]
    <2>1. x[f] \in Seq(Char \cup {"EOF"}) /\ y[f] = Append(x[f], c)
        OBVIOUS
    <2>2. /\ y[f] \in Seq(Char \cup {"EOF"})
          /\ Len(y[f]) = Len(x[f]) + 1
          /\ y[f][Len(x[f]) + 1] = c
          /\ \A n \in 1..Len(x[f]) : y[f][n] = x[f][n]
        BY <2>1, AppendProperties
    <2> QED
        BY <2>1, <2>2, LenProperties
<1>2. new[1] = f /\ new[2] = Len(x[f]) + 1
    OBVIOUS
<1>3. \A p \in Files \X (1..MaxText) : p # new => (p \in CharsOf(y) <=> p \in CharsOf(x))
    <2>1. SUFFICES ASSUME NEW g \in Files, NEW n \in 1..MaxText, <<g, n>> # new
                   PROVE  /\ n \in DOMAIN y[g] <=> n \in DOMAIN x[g]
                          /\ n \in DOMAIN x[g] => y[g][n] = x[g][n]
        BY DEF CharsOf
    <2>2. MaxText \in Nat /\ n \in Nat
        BY LexerAssumption
    <2>3. CASE g = f
        BY <1>1, <2>1, <2>2, <2>3
    <2>4. CASE g # f
        BY <1>1, <2>4
    <2> QED
        BY <2>3, <2>4
<1>4. IsFiniteSet(CharsOf(x)) /\ Cardinality(CharsOf(x)) \in Nat
    BY Counted DEF CharsOf
<1>5. /\ IsFiniteSet(CharsOf(x) \cup {new})
      /\ Cardinality(CharsOf(x) \cup {new}) <= Cardinality(CharsOf(x)) + 1
    <2>1. /\ IsFiniteSet(CharsOf(x) \cup {new})
          /\ Cardinality(CharsOf(x) \cup {new}) =
                IF new \in CharsOf(x) THEN Cardinality(CharsOf(x)) ELSE Cardinality(CharsOf(x)) + 1
        BY <1>4, FS_AddElement
    <2> QED
        BY <1>4, <2>1
<1>6. CharsOf(y) \subseteq CharsOf(x) \cup {new}
    BY <1>3 DEF CharsOf
<1>7. Cardinality(CharsOf(y)) <= Cardinality(CharsOf(x) \cup {new})
    BY <1>5, <1>6, FS_Subset
<1>8. IsFiniteSet(CharsOf(y)) /\ Cardinality(CharsOf(y)) \in Nat
    BY Counted DEF CharsOf
<1>9. Cardinality(CharsOf(x) \cup {new}) \in Nat
    BY <1>5, FS_CardinalityType
<1>10. ASSUME c = "EOF" PROVE CharsOf(y) = CharsOf(x)
    <2>1. new \notin CharsOf(y)
        BY <1>1, <1>2, <1>10 DEF CharsOf
    <2>2. new \notin CharsOf(x)
        BY <1>1, <1>2 DEF CharsOf
    <2> QED
        BY <1>3, <2>1, <2>2 DEF CharsOf
<1> QED
    BY <1>4, <1>5, <1>7, <1>8, <1>9, <1>10
-----------------------------------------------------------------------------
(* A character is read *)

LEMMA CurrentFile == TypeOK => File \in Files /\ Len(files) \in Nat \ {0}
<1>1. SUFFICES ASSUME TypeOK PROVE File \in Files /\ Len(files) \in Nat \ {0}
    OBVIOUS
<1>2. files \in Seq([file : Files, old_current_token : Token]) /\ files # <<>>
    BY <1>1 DEF TypeOK
<1>3. Len(files) \in Nat \ {0}
    BY <1>2, EmptySeq
<1>4. files[Len(files)] \in [file : Files, old_current_token : Token]
    <2>1. Len(files) \in 1..Len(files)
        BY <1>3
    <2> QED
        BY <1>2, <2>1, ElementOfSeq
<1> QED
    BY <1>3, <1>4 DEF File

LEMMA CharactersMeans == Characters = Cardinality(CharsOf(text))
    BY DEF Characters, CharsOf

\* One character c of the file being read.
LEMMA OneRead ==
    ASSUME TypeOK, Sources, NEW c \in Upcoming, Advance(c)
    PROVE  /\ c \in Char \cup {"EOF"}
           /\ text' \in [Files -> Seq(Char \cup {"EOF"})]
           /\ at' = [at EXCEPT ![File] = Onward(c, @)]
           /\ \A g \in Files : /\ TextOf(text'[g]) /\ Reached(text'[g], at'[g])
                               /\ TextOf(text[g]) /\ at[g] \in 0..Len(text[g])
                               /\ Extends(text[g], text'[g])
                               /\ g # File => text'[g] = text[g] /\ at'[g] = at[g]
           /\ at[File] + 1 \in 1..Len(text'[File])
           /\ text'[File][at[File] + 1] = c
           /\ LastIs(c, text'[File], at'[File])
<1> USE CurrentFile
<1>1. /\ File \in Files
      /\ text \in [Files -> Seq(Char \cup {"EOF"})]
      /\ at \in [Files -> 0..MaxText]
    BY DEF TypeOK
<1>2. \A g \in Files : TextOf(text[g]) /\ Reached(text[g], at[g]) /\ at[g] \in 0..Len(text[g])
    BY DEF Sources, Reached
<1>3. at' = [at EXCEPT ![File] = Onward(c, @)]
    BY <1>1 DEF Advance, Onward
<1>4. c \in Char \cup {"EOF"}
    <2>1. CASE at[File] < Len(text[File])
        <3>1. c = text[File][at[File] + 1] /\ text[File] \in Seq(Char \cup {"EOF"})
            BY <1>1, <2>1 DEF Upcoming
        <3>2. at[File] + 1 \in 1..Len(text[File])
            BY <1>1, <1>2, <2>1
        <3> QED
            BY <3>1, <3>2, ElementOfSeq
    <2>2. CASE ~(at[File] < Len(text[File]))
        BY <2>2 DEF Upcoming
    <2> QED
        BY <2>1, <2>2
<1>5. /\ text' \in [Files -> Seq(Char \cup {"EOF"})]
      /\ text'[File] = IF at[File] < Len(text[File]) THEN text[File] ELSE Append(text[File], c)
      /\ \A g \in Files : g # File => text'[g] = text[g] /\ at'[g] = at[g]
    <2>1. Append(text[File], c) \in Seq(Char \cup {"EOF"})
        BY <1>1, <1>4, AppendProperties
    <2> QED
        BY <1>1, <1>3, <2>1 DEF Advance
<1>6. at[File] < Len(text[File]) => c = text[File][at[File] + 1]
    BY DEF Upcoming
<1>7. at[File] = Len(text[File]) /\ c # "EOF" => Len(text[File]) < MaxText
    <2>1. SUFFICES ASSUME at[File] = Len(text[File]), c # "EOF" PROVE Len(text[File]) < MaxText
        OBVIOUS
    <2>2. Len(text[File]) \in Nat /\ MaxText \in Nat
        BY <1>1, LexerAssumption
    <2>3. Characters < MaxText
        BY <2>1, <2>2 DEF Upcoming
    <2>4. Len(text[File]) <= Cardinality(CharsOf(text))
        BY <1>1, <1>2, <2>1, RoomInFile
    <2>5. Cardinality(CharsOf(text)) \in Nat
        BY Counted DEF CharsOf
    <2> QED
        BY <2>2, <2>3, <2>4, <2>5, CharactersMeans
<1>8. PICK s, t, n : s = text[File] /\ t = text'[File] /\ n = at[File]
    OBVIOUS
<1>9. /\ TextOf(t) /\ Extends(s, t) /\ n + 1 \in 1..Len(t) /\ t[n + 1] = c
      /\ Reached(t, Onward(c, n)) /\ LastIs(c, t, Onward(c, n))
    <2>1. TextOf(s) /\ Reached(s, n)
        BY <1>1, <1>2, <1>8
    <2>2. t = IF n < Len(s) THEN s ELSE Append(s, c)
        BY <1>5, <1>8
    <2>3. n < Len(s) => c = s[n + 1]
        BY <1>6, <1>8
    <2>4. n = Len(s) /\ c # "EOF" => Len(s) < MaxText
        BY <1>7, <1>8
    <2> QED
        BY <1>4, <2>1, <2>2, <2>3, <2>4, Lengthened
<1>10. at'[File] = Onward(c, n)
    BY <1>1, <1>3, <1>8
<1>11. \A g \in Files : TextOf(text[g]) /\ Extends(text[g], text[g])
    BY <1>2 DEF Extends, TextOf
<1>12. ASSUME NEW g \in Files
       PROVE  TextOf(text'[g]) /\ Reached(text'[g], at'[g]) /\ Extends(text[g], text'[g])
    <2>1. CASE g = File
        BY <1>8, <1>9, <1>10, <2>1
    <2>2. CASE g # File
        BY <1>2, <1>5, <1>11, <2>2
    <2> QED
        BY <2>1, <2>2
<1> QED
    BY <1>2, <1>3, <1>4, <1>5, <1>8, <1>9, <1>10, <1>12

\* It counts, and so does its line.
LEMMA OneCounted ==
    ASSUME TypeOK, Sources, NEW c \in Upcoming, Advance(c)
    PROVE  /\ Cardinality(CharsOf(text')) <= MaxText
           /\ Line' = 1 + Cardinality(BreaksTo(text', at'))
<1> USE CurrentFile
<1>1. /\ File \in Files
      /\ text \in [Files -> Seq(Char \cup {"EOF"})]
      /\ at \in [Files -> 0..MaxText]
      /\ MaxText \in Nat
    BY LexerAssumption DEF TypeOK
<1>2. PICK x, y, a, b, f : x = text /\ y = text' /\ a = at /\ b = at' /\ f = File
    OBVIOUS
<1>3. /\ c \in Char \cup {"EOF"}
      /\ y \in [Files -> Seq(Char \cup {"EOF"})]
      /\ b = [a EXCEPT ![f] = Onward(c, @)]
      /\ \A g \in Files : TextOf(y[g]) /\ TextOf(x[g]) /\ Extends(x[g], y[g])
                          /\ a[g] \in 0..Len(x[g])
      /\ a[f] + 1 \in 1..Len(y[f])
      /\ y[f][a[f] + 1] = c
    BY <1>2, OneRead
<1>4. /\ Cardinality(CharsOf(x)) <= MaxText /\ Cardinality(CharsOf(x)) \in Nat
      /\ Line = 1 + Cardinality(BreaksTo(x, a))
    <2>1. Cardinality(CharsOf(x)) \in Nat
        BY Counted DEF CharsOf
    <2> QED
        BY <1>2, <2>1, CharactersMeans DEF Sources
<1>5. Cardinality(CharsOf(y)) <= MaxText
    <2>1. CASE a[f] < Len(x[f])
        <3>1. y = x
            BY <1>2, <2>1 DEF Advance
        <3> QED
            BY <1>4, <3>1
    <2>2. CASE ~(a[f] < Len(x[f]))
        <3>1. y = [x EXCEPT ![f] = Append(@, c)]
            BY <1>2, <2>2 DEF Advance
        <3>2. /\ Cardinality(CharsOf(y)) <= Cardinality(CharsOf(x)) + 1
              /\ c = "EOF" => Cardinality(CharsOf(y)) = Cardinality(CharsOf(x))
            <4>1. x \in [Files -> Seq(Char \cup {"EOF"})] /\ f \in Files
                BY <1>1, <1>2
            <4>2. c \in Char \cup {"EOF"}
                BY <1>3
            <4> QED
                BY <3>1, <4>1, <4>2, CharsNext, Zenon
        <3>3. c # "EOF" => Cardinality(CharsOf(x)) < MaxText
            BY <1>2, <2>2, CharactersMeans DEF Upcoming
        <3>4. Cardinality(CharsOf(y)) \in Nat
            BY Counted DEF CharsOf
        <3> QED
            BY <1>1, <1>4, <3>2, <3>3, <3>4
    <2> QED
        BY <2>1, <2>2
<1>6. BreaksTo(y, a) = BreaksTo(x, a)
    BY <1>3, BreaksStay
<1>7. /\ a \in [Files -> Nat] /\ f \in Files
      /\ c # "EOF" => a[f] + 1 \in 1..MaxText
    <2>1. a \in [Files -> Nat] /\ f \in Files
        BY <1>1, <1>2
    <2>2. c # "EOF" => a[f] + 1 <= MaxText
        <3>1. TextOf(y[f])
            BY <1>3, <2>1
        <3> QED
            BY <1>3, <3>1 DEF TextOf
    <2> QED
        BY <1>1, <2>1, <2>2
<1>8. CASE c = "EOF"
    <2>1. b = a /\ Line' = Line
        <3>1. Line' = Line
            BY <1>8 DEF Advance
        <3>2. b = a
            BY <1>3, <1>7, <1>8 DEF Onward
        <3> QED
            BY <3>1, <3>2
    <2> QED
        BY <1>2, <1>4, <1>5, <1>6, <2>1
<1>9. CASE c # "EOF"
    <2>1. b = [a EXCEPT ![f] = @ + 1]
        BY <1>3, <1>9 DEF Onward
    <2>2. Cardinality(BreaksTo(y, b)) =
              Cardinality(BreaksTo(y, a)) + (IF c = "nl" THEN 1 ELSE 0)
        <3>1. Cardinality(BreaksTo(y, b)) =
                  Cardinality(BreaksTo(y, a)) + (IF y[f][a[f] + 1] = "nl" THEN 1 ELSE 0)
            BY <1>7, <1>9, <2>1, BreaksNext
        <3> QED
            BY <1>3, <3>1
    <2>3. Line' = IF c = "nl" THEN Line + 1 ELSE Line
        BY DEF Advance
    <2>4. Cardinality(BreaksTo(y, a)) \in Nat
        BY Counted DEF BreaksTo
    <2>5. Line' = 1 + Cardinality(BreaksTo(y, b))
        BY <1>4, <1>6, <2>2, <2>3, <2>4
    <2> QED
        BY <1>2, <1>5, <2>5
<1> QED
    BY <1>8, <1>9
SourceTypes ==
    /\ text \in [Files -> Seq(Char \cup {"EOF"})]
    /\ at \in [Files -> 0..MaxText]
    /\ lastChars \in [Files -> Char \cup {"EOF", "NUL"}]
    /\ Line \in 1..MaxText + 1

LEMMA PositionType ==
    ASSUME NEW s, NEW n, TextOf(s), Reached(s, n)
    PROVE  n \in 0..MaxText
<1>1. Len(s) \in Nat /\ MaxText \in Nat
    BY LexerAssumption DEF TextOf
<1> QED
    BY <1>1 DEF TextOf, Reached

LEMMA LineType ==
    ASSUME NEW x, NEW a, \A g \in Files : TextOf(x[g]) /\ Reached(x[g], a[g]),
           Cardinality(CharsOf(x)) <= MaxText
    PROVE  1 + Cardinality(BreaksTo(x, a)) \in 1..MaxText + 1
<1>1. Cardinality(BreaksTo(x, a)) \in Nat
    BY Counted DEF BreaksTo
<1>2. Cardinality(CharsOf(x)) \in Nat
    BY Counted DEF CharsOf
<1>3. Cardinality(BreaksTo(x, a)) <= Cardinality(CharsOf(x))
    BY BreaksAreChars
<1>4. MaxText \in Nat
    BY LexerAssumption
<1> QED
    BY <1>1, <1>2, <1>3, <1>4

LEMMA ReadKeepsSources ==
    ASSUME TypeOK, Sources, NEW c \in Upcoming, Advance(c), File' = File,
           \/ lastChars' = [lastChars EXCEPT ![File] = c]
           \/ UNCHANGED lastChars /\ lexing'.mode = "string"
    PROVE  Sources' /\ SourceTypes'
<1>1. /\ File \in Files
      /\ lastChars \in [Files -> Char \cup {"EOF", "NUL"}]
      /\ at \in [Files -> 0..MaxText]
    BY CurrentFile DEF TypeOK
<1>2. /\ c \in Char \cup {"EOF"}
      /\ text' \in [Files -> Seq(Char \cup {"EOF"})]
      /\ at' = [at EXCEPT ![File] = Onward(c, @)]
      /\ \A g \in Files : TextOf(text'[g]) /\ Reached(text'[g], at'[g])
      /\ \A g \in Files : g # File => text'[g] = text[g] /\ at'[g] = at[g]
      /\ LastIs(c, text'[File], at'[File])
    BY OneRead
<1>3. Cardinality(CharsOf(text')) <= MaxText /\ Line' = 1 + Cardinality(BreaksTo(text', at'))
    BY OneCounted
<1>4. Characters' <= MaxText
    BY <1>3 DEF Characters, CharsOf
<1>5. \A g \in Files : \/ g = File' /\ lexing'.mode = "string"
                       \/ LastIs(lastChars'[g], text'[g], at'[g])
    <2>1. SUFFICES ASSUME NEW g \in Files
                   PROVE  \/ g = File /\ lexing'.mode = "string"
                          \/ LastIs(lastChars'[g], text'[g], at'[g])
        OBVIOUS
    <2>2. CASE g = File
        BY <1>1, <1>2, <2>2
    <2>3. CASE g # File
        <3>1. lastChars'[g] = lastChars[g]
            BY <1>1, <2>3
        <3>2. LastIs(lastChars[g], text[g], at[g])
            BY <2>3 DEF Sources
        <3> QED
            BY <1>2, <2>3, <3>1, <3>2
    <2> QED
        BY <2>2, <2>3
<1>6. Sources'
    BY <1>2, <1>3, <1>4, <1>5 DEF Sources
<1>7. SourceTypes'
    <2>1. lastChars' \in [Files -> Char \cup {"EOF", "NUL"}]
        BY <1>1, <1>2
    <2>2. at' \in [Files -> 0..MaxText]
        <3>1. \A g \in Files : at'[g] \in 0..MaxText
            BY <1>2, PositionType
        <3>2. at' = [g \in Files |-> at'[g]]
            BY <1>1, <1>2
        <3> QED
            BY <3>1, <3>2
    <2>3. Line' \in 1..MaxText + 1
        BY <1>2, <1>3, LineType
    <2> QED
        BY <1>2, <2>1, <2>2, <2>3 DEF SourceTypes
<1> QED
    BY <1>6, <1>7

LEMMA QuietKeepsSources ==
    ASSUME TypeOK, Sources, UNCHANGED source,
           lexing.mode # "string" \/ (File' = File /\ lexing'.mode = "string")
    PROVE  Sources' /\ SourceTypes'
<1>1. text' = text /\ at' = at /\ lastChars' = lastChars /\ Line' = Line
    BY DEF source
<1>2. Characters' = Characters
    BY <1>1 DEF Characters
<1>3. \A g \in Files : \/ g = File' /\ lexing'.mode = "string"
                       \/ LastIs(lastChars'[g], text'[g], at'[g])
    BY <1>1 DEF Sources
<1>4. BreaksTo(text', at') = BreaksTo(text, at)
    BY <1>1
<1>5. Sources'
    <2>1. \A g \in Files : TextOf(text'[g]) /\ Reached(text'[g], at'[g])
        BY <1>1 DEF Sources
    <2>2. Characters' <= MaxText /\ Line' = 1 + Cardinality(BreaksTo(text', at'))
        BY <1>1, <1>2, <1>4 DEF Sources
    <2> QED
        BY <1>3, <2>1, <2>2 DEF Sources
<1> QED
    BY <1>1, <1>5 DEF SourceTypes, TypeOK
-----------------------------------------------------------------------------
(* What has been saved to go back to *)

SaveType == [snapshot : SnapshotType, left : 0..2]

LEMMA SoleElement ==
    ASSUME NEW S, NEW s \in Seq(S), Len(s) = 1
    PROVE  s = <<s[1]>>
<1>1. PICK x \in S : x = s[1]
    BY ElementOfSeq
<1>2. <<x>> \in Seq(S) /\ Len(<<x>>) = 1 /\ <<x>>[1] = x
    OBVIOUS
<1>3. PICK t \in Seq(S) : t = <<x>>
    BY <1>2
<1>4. s = t
    BY <1>1, <1>2, <1>3, SeqEqual
<1> QED
    BY <1>1, <1>3, <1>4

LEMMA SavedIs ==
    ASSUME TypeOK, Saved, Peeking
    PROVE  /\ Before \in SnapshotType
           /\ saved[1].left \in 0..2
           /\ saved = <<[snapshot |-> Before, left |-> saved[1].left]>>
<1>1. saved \in Seq(SaveType) /\ saved # <<>> /\ Len(saved) <= 1
    BY DEF Saved, Peeking, TypeOK, SaveType
<1>2. Len(saved) = 1
    <2>1. PICK t \in Seq(SaveType) : t = saved
        BY <1>1
    <2>2. Len(t) \in Nat /\ Len(t) <= 1 /\ t # <<>>
        BY <1>1, <2>1, LenProperties
    <2>3. Len(t) # 0
        BY <2>2, EmptySeq
    <2> QED
        BY <2>1, <2>2, <2>3
<1>3. saved[1] \in SaveType
    BY <1>1, <1>2, ElementOfSeq
<1>4. saved = <<saved[1]>>
    BY <1>1, <1>2, SoleElement
<1>5. saved[1] = [snapshot |-> saved[1].snapshot, left |-> saved[1].left]
    BY <1>3 DEF SaveType
<1> QED
    BY <1>3, <1>4, <1>5, Zenon DEF SaveType, Before

LEMMA SavedKeeps ==
    ASSUME TypeOK, Sources, Saved, Peeking, NEW k \in 0..2,
           saved' = <<[snapshot |-> Before, left |-> k]>>,
           File' = File, UNCHANGED operator,
           (\E c \in Upcoming : Advance(c)) \/ UNCHANGED <<text, at>>
    PROVE  Saved' /\ Peeking' /\ Before' = Before /\ saved'[1].left = k /\ Len(saved') <= 1
<1>1. Before \in SnapshotType
    BY SavedIs
<1>2. /\ saved'[1] = [snapshot |-> Before, left |-> k]
      /\ saved' # <<>>
      /\ Len(saved') = 1
      /\ saved' \in Seq(SaveType)
    <2>1. [snapshot |-> Before, left |-> k] \in SaveType
        BY <1>1 DEF SaveType
    <2> QED
        BY <2>1
<1>3. Before' = Before /\ Peeking' /\ saved'[1].left = k
    BY <1>2 DEF Before, Peeking
<1>4. PICK x, y, a, b, n, f : /\ x = text /\ y = text' /\ a = at /\ b = at'
                              /\ n = Before.at /\ f = File
    OBVIOUS
<1>5. /\ f \in Files /\ n <= a[f] /\ LastIs(Before.lastChar, x[f], n)
      /\ a \in [Files -> 0..MaxText] /\ n \in 0..MaxText
      /\ \A g \in Files : TextOf(x[g]) /\ a[g] \in 0..Len(x[g])
      /\ Before.Line = 1 + Cardinality(BreaksTo(x, [a EXCEPT ![f] = n]))
    <2>1. f \in Files /\ a \in [Files -> 0..MaxText]
        BY <1>4, CurrentFile DEF TypeOK
    <2>2. n \in 0..MaxText
        BY <1>1, <1>4 DEF SnapshotType
    <2>3. \A g \in Files : TextOf(x[g]) /\ a[g] \in 0..Len(x[g])
        BY <1>4 DEF Sources, Reached
    <2> QED
        BY <1>4, <2>1, <2>2, <2>3 DEF Saved
<1>6. /\ \A g \in Files : Extends(x[g], y[g]) /\ Len(y[g]) \in Nat
      /\ b \in [Files -> Nat]
      /\ a[f] <= b[f]
      /\ [b EXCEPT ![f] = n] = [a EXCEPT ![f] = n]
    <2>1. MaxText \in Nat
        BY LexerAssumption
    <2>2. CASE UNCHANGED <<text, at>>
        <3>1. y = x /\ b = a
            BY <1>4, <2>2
        <3> QED
            BY <1>5, <2>1, <3>1 DEF Extends, TextOf
    <2>3. ASSUME NEW c \in Upcoming, Advance(c)
          PROVE  /\ \A g \in Files : Extends(x[g], y[g]) /\ Len(y[g]) \in Nat
                 /\ b \in [Files -> Nat]
                 /\ a[f] <= b[f]
                 /\ [b EXCEPT ![f] = n] = [a EXCEPT ![f] = n]
        <3>1. /\ b = [a EXCEPT ![f] = Onward(c, @)]
              /\ \A g \in Files : Extends(x[g], y[g]) /\ TextOf(y[g])
            BY <1>4, <2>3, OneRead
        <3>2. \A g \in Files : Len(y[g]) \in Nat
            BY <3>1 DEF TextOf
        <3>3. /\ f \in Files /\ a \in [Files -> Nat]
              /\ Onward(c, a[f]) \in Nat /\ a[f] <= Onward(c, a[f])
            BY <1>5, <2>1 DEF Onward
        <3>4. b \in [Files -> Nat] /\ a[f] <= b[f] /\ [b EXCEPT ![f] = n] = [a EXCEPT ![f] = n]
            BY <3>1, <3>3
        <3> QED
            BY <3>1, <3>2, <3>4
    <2> QED
        BY <2>2, <2>3
<1>7. LastIs(Before.lastChar, y[f], n)
    <2>1. n \in 0..Len(x[f])
        BY <1>5
    <2> QED
        BY <1>5, <1>6, <2>1, LastStays
<1>8. BreaksTo(y, [a EXCEPT ![f] = n]) = BreaksTo(x, [a EXCEPT ![f] = n])
    <2>1. PICK d : d = [a EXCEPT ![f] = n]
        OBVIOUS
    <2>2. \A g \in Files : TextOf(x[g]) /\ d[g] \in 0..Len(x[g]) /\ Extends(x[g], y[g])
        BY <1>5, <1>6, <2>1
    <2>3. BreaksTo(y, d) = BreaksTo(x, d)
        BY <2>2, BreaksStay
    <2> QED
        BY <2>1, <2>3
<1>9. Before.at <= at'[File]
    BY <1>4, <1>5, <1>6
<1>10. LastIs(Before.lastChar, text'[File], Before.at)
    BY <1>4, <1>7
<1>11. Before.Line = 1 + Cardinality(BreaksTo(text', [at' EXCEPT ![File] = Before.at]))
    <2>1. Before.Line = 1 + Cardinality(BreaksTo(y, [b EXCEPT ![f] = n]))
        BY <1>5, <1>6, <1>8
    <2> QED
        BY <1>4, <2>1
<1>12. operator'.step \in {"double", "third", "equal"}
    BY DEF Saved
<1> QED
    BY <1>2, <1>3, <1>9, <1>10, <1>11, <1>12 DEF Saved, SaveType
-----------------------------------------------------------------------------
(* What a text that grows still says *)

LEMMA SubSeqStays ==
    ASSUME NEW s, NEW t, TextOf(s), TextOf(t), Extends(s, t), NEW a \in Nat \ {0}, NEW b \in Nat,
           b <= Len(s)
    PROVE  SubSeq(t, a, b) = SubSeq(s, a, b)
<1> DEFINE S == Char \cup {"EOF"}
<1>1. s \in Seq(S) /\ t \in Seq(S) /\ Len(s) \in Nat /\ Len(t) \in Nat
    BY DEF TextOf
<1>2. \A i \in a..b : s[i] \in S /\ t[i] \in S /\ t[i] = s[i]
    <2>1. \A i \in a..b : i \in 1..Len(s) /\ i \in 1..Len(t)
        BY <1>1 DEF Extends
    <2>2. \A i \in 1..Len(s) : s[i] \in S
        BY <1>1, ElementOfSeq
    <2> QED
        BY <2>1, <2>2 DEF Extends
<1>3. /\ SubSeq(s, a, b) \in Seq(S) /\ SubSeq(t, a, b) \in Seq(S)
      /\ Len(SubSeq(s, a, b)) = IF a <= b THEN b - a + 1 ELSE 0
      /\ Len(SubSeq(t, a, b)) = IF a <= b THEN b - a + 1 ELSE 0
      /\ \A i \in 1..b - a + 1 : SubSeq(s, a, b)[i] = s[a + i - 1]
      /\ \A i \in 1..b - a + 1 : SubSeq(t, a, b)[i] = t[a + i - 1]
    <2>1. a \in Int /\ b \in Int /\ \A i \in a..b : s[i] \in S /\ t[i] \in S
        BY <1>2
    <2>2. /\ SubSeq(s, a, b) \in Seq(S)
          /\ Len(SubSeq(s, a, b)) = IF a <= b THEN b - a + 1 ELSE 0
          /\ \A i \in 1..b - a + 1 : SubSeq(s, a, b)[i] = s[a + i - 1]
        BY <2>1, SubSeqProperties
    <2>3. /\ SubSeq(t, a, b) \in Seq(S)
          /\ Len(SubSeq(t, a, b)) = IF a <= b THEN b - a + 1 ELSE 0
          /\ \A i \in 1..b - a + 1 : SubSeq(t, a, b)[i] = t[a + i - 1]
        BY <2>1, SubSeqProperties
    <2> QED
        BY <2>2, <2>3
<1>4. \A i \in 1..Len(SubSeq(s, a, b)) : SubSeq(s, a, b)[i] = SubSeq(t, a, b)[i]
    <2>1. SUFFICES ASSUME NEW i \in 1..Len(SubSeq(s, a, b))
                   PROVE  SubSeq(s, a, b)[i] = SubSeq(t, a, b)[i]
        OBVIOUS
    <2>2. i \in 1..b - a + 1 /\ a + i - 1 \in a..b
        BY <1>3
    <2> QED
        BY <1>2, <1>3, <2>2
<1> QED
    BY <1>3, <1>4, SeqEqual

\* One character more.
LEMMA SubSeqNext ==
    ASSUME NEW s, TextOf(s), NEW a \in Nat \ {0}, NEW b \in Nat, a <= b + 1, b + 1 <= Len(s)
    PROVE  SubSeq(s, a, b + 1) = Append(SubSeq(s, a, b), s[b + 1])
<1> DEFINE S == Char \cup {"EOF"}
<1>1. s \in Seq(S) /\ Len(s) \in Nat
    BY DEF TextOf
<1>2. a \in 1..Len(s) /\ b + 1 \in a..Len(s) /\ s[b + 1] \in S
    <2>1. a \in 1..Len(s) /\ b + 1 \in a..Len(s) /\ b + 1 \in 1..Len(s)
        BY <1>1
    <2> QED
        BY <1>1, <2>1, ElementOfSeq
<1>3. SubSeq(s, a, b + 1) = SubSeq(s, a, (b + 1) - 1) \o <<s[b + 1]>>
    BY <1>1, <1>2, SubSeqRecursiveSecond
<1>4. (b + 1) - 1 = b
    OBVIOUS
<1>5. SubSeq(s, a, b) \in Seq(S)
    <2>1. \A i \in a..b : i \in 1..Len(s)
        BY <1>1
    <2>2. \A i \in a..b : s[i] \in S
        BY <1>1, <2>1, ElementOfSeq
    <2>3. a \in Int /\ b \in Int
        OBVIOUS
    <2> QED
        BY <2>2, <2>3, SubSeqProperties
<1> QED
    BY <1>2, <1>3, <1>4, <1>5, AppendIsConcat

LEMMA BelongsStays ==
    ASSUME NEW s, NEW t, TextOf(s), TextOf(t), Extends(s, t), NEW ts \in Seq(Span), NEW n \in Nat,
           Covers(ts, n, s), n <= Len(s), NEW k, NEW val, BelongsTo(ts, s, k, val)
    PROVE  BelongsTo(ts, t, k, val)
<1>1. SUFFICES ASSUME Len(ts) >= 1
               PROVE  SubSeq(t, ts[Len(ts)].first, ts[Len(ts)].last)
                          = SubSeq(s, ts[Len(ts)].first, ts[Len(ts)].last)
    BY DEF BelongsTo
<1>2. Len(ts) \in Nat /\ Len(s) \in Nat
    BY DEF TextOf
<1>3. Len(ts) \in 1..Len(ts)
    BY <1>1, <1>2
<1>4. ts[Len(ts)].last \in Nat /\ ts[Len(ts)].first \in Nat \ {0}
    BY <1>3, SpanOf
<1>5. ts[Len(ts)].last \in Len(ts)..n
    BY <1>3, TokensInText
<1>6. ts[Len(ts)].last <= Len(s)
    BY <1>2, <1>4, <1>5
<1>7. PICK a, b : a = ts[Len(ts)].first /\ b = ts[Len(ts)].last
    OBVIOUS
<1>8. a \in Nat \ {0} /\ b \in Nat /\ b <= Len(s)
    BY <1>4, <1>6, <1>7
<1>9. SubSeq(t, a, b) = SubSeq(s, a, b)
    BY <1>8, SubSeqStays
<1> QED
    BY <1>7, <1>9

LEMMA BlankStays ==
    ASSUME NEW s, NEW t, TextOf(s), TextOf(t), Extends(s, t), NEW a \in Nat, NEW b \in Int,
           b <= Len(s), Blank(s, a, b)
    PROVE  Blank(t, a, b)
<1>1. Len(s) \in Nat /\ Len(t) \in Nat
    BY DEF TextOf
<1> QED
    BY <1>1 DEF Blank, Extends

LEMMA FindsStays ==
    ASSUME NEW s, NEW t, TextOf(s), TextOf(t), Extends(s, t), NEW a \in Nat, NEW b, NEW x,
           Finds(s, a, x, b)
    PROVE  Finds(t, a, x, b)
<1>1. Len(s) \in Nat /\ Len(t) \in Nat /\ b \in 1..Len(s)
    BY DEF TextOf, Finds
<1>2. b - 1 \in Int /\ b - 1 <= Len(s) /\ Blank(s, a, b - 1)
    BY <1>1 DEF Finds
<1>3. Blank(t, a, b - 1)
    BY <1>2, BlankStays
<1> QED
    BY <1>1, <1>3 DEF Finds, Extends

LEMMA AheadStays ==
    ASSUME NEW s, NEW t, TextOf(s), TextOf(t), Extends(s, t), NEW a \in Nat, NEW w, NEW k,
           Ahead(s, a, w, k)
    PROVE  Ahead(t, a, w, k)
<1>1. Len(s) \in Nat /\ Len(t) \in Nat /\ Len(s) <= Len(t)
    BY DEF TextOf, Extends
<1>2. SUFFICES ASSUME k <= Len(w)
               PROVE  \E b \in 1..Len(t) :
                         /\ Finds(t, a, w[k], b)
                         /\ k + 1 <= Len(w) => \E c \in 1..Len(t) : Finds(t, b, w[k + 1], c)
    BY DEF Ahead
<1>3. PICK b \in 1..Len(s) :
         /\ Finds(s, a, w[k], b)
         /\ k + 1 <= Len(w) => \E c \in 1..Len(s) : Finds(s, b, w[k + 1], c)
    BY <1>2 DEF Ahead
<1>4. b \in 1..Len(t) /\ b \in Nat
    BY <1>1
<1>5. Finds(t, a, w[k], b)
    BY <1>3, FindsStays
<1>6. ASSUME k + 1 <= Len(w) PROVE \E c \in 1..Len(t) : Finds(t, b, w[k + 1], c)
    <2>1. PICK c \in 1..Len(s) : Finds(s, b, w[k + 1], c)
        BY <1>3, <1>6
    <2>2. Finds(t, b, w[k + 1], c)
        BY <1>4, <2>1, FindsStays
    <2> QED
        BY <1>1, <2>2
<1> QED
    BY <1>4, <1>5, <1>6
-----------------------------------------------------------------------------
(* What comes next in a text *)

LEMMA BlankNext ==
    ASSUME NEW s, TextOf(s), NEW a \in Nat, NEW b \in Nat, Blank(s, a, b),
           b + 1 \in 1..Len(s) => s[b + 1] = "nl"
    PROVE  Blank(s, a, b + 1)
<1>1. Len(s) \in Nat
    BY DEF TextOf
<1> QED
    BY <1>1 DEF Blank

\* What is found after a is found after u, too, if all between is blank.
LEMMA FindsBeyond ==
    ASSUME NEW s, TextOf(s), NEW a \in Nat, NEW u \in Nat, a <= u, Blank(s, a, u), NEW x, x # "nl",
           NEW b, Finds(s, a, x, b)
    PROVE  Finds(s, u, x, b)
<1>1. Len(s) \in Nat /\ b \in 1..Len(s) /\ a < b /\ s[b] = x
    BY DEF TextOf, Finds
<1>2. u < b
    BY <1>1 DEF Blank
<1> QED
    BY <1>1, <1>2 DEF Finds, Blank

LEMMA FindsHere ==
    ASSUME NEW s, TextOf(s), NEW u \in Nat, u + 1 \in 1..Len(s), s[u + 1] # "nl", NEW x,
           NEW b, Finds(s, u, x, b)
    PROVE  b = u + 1 /\ s[u + 1] = x
<1>1. Len(s) \in Nat /\ b \in 1..Len(s) /\ u < b /\ s[b] = x
    BY DEF TextOf, Finds
<1>2. b = u + 1
    <2>1. SUFFICES ASSUME u + 1 # b PROVE FALSE
        OBVIOUS
    <2>2. u < u + 1 /\ u + 1 <= b - 1
        BY <1>1, <2>1
    <2> QED
        BY <2>2 DEF Finds, Blank
<1> QED
    BY <1>1, <1>2

LEMMA HereFinds ==
    ASSUME NEW s, TextOf(s), NEW a \in Nat, NEW u \in Nat, a <= u, Blank(s, a, u),
           u + 1 \in 1..Len(s)
    PROVE  Finds(s, a, s[u + 1], u + 1)
<1>1. (u + 1) - 1 = u /\ a < u + 1
    OBVIOUS
<1> QED
    BY <1>1 DEF Finds

LEMMA AheadBeyond ==
    ASSUME NEW s, TextOf(s), NEW u \in Nat, s[u + 1] = "nl", NEW w, NEW k,
           k <= Len(w) => w[k] # "nl", Ahead(s, u, w, k)
    PROVE  Ahead(s, u + 1, w, k)
<1>1. Blank(s, u, u + 1)
    BY DEF Blank, TextOf
<1>2. SUFFICES ASSUME k <= Len(w)
               PROVE  \E b \in 1..Len(s) :
                         /\ Finds(s, u + 1, w[k], b)
                         /\ k + 1 <= Len(w) => \E c \in 1..Len(s) : Finds(s, b, w[k + 1], c)
    BY DEF Ahead
<1>3. PICK b \in 1..Len(s) :
         /\ Finds(s, u, w[k], b)
         /\ k + 1 <= Len(w) => \E c \in 1..Len(s) : Finds(s, b, w[k + 1], c)
    BY <1>2 DEF Ahead
<1>4. u + 1 \in Nat /\ u <= u + 1
    OBVIOUS
<1>5. Finds(s, u + 1, w[k], b)
    BY <1>1, <1>2, <1>3, <1>4, FindsBeyond
<1> QED
    BY <1>3, <1>5

\* What comes next is the first of the two.
LEMMA AheadHere ==
    ASSUME NEW s, TextOf(s), NEW u \in Nat, u + 1 \in 1..Len(s), s[u + 1] # "nl",
           NEW w, NEW k \in Nat, k <= Len(w), Len(w) \in Nat, Len(w) <= k + 1, Ahead(s, u, w, k)
    PROVE  w[k] = s[u + 1] /\ Ahead(s, u + 1, w, k + 1)
<1>1. PICK b \in 1..Len(s) :
         /\ Finds(s, u, w[k], b)
         /\ k + 1 <= Len(w) => \E c \in 1..Len(s) : Finds(s, b, w[k + 1], c)
    BY DEF Ahead
<1>2. b = u + 1 /\ s[u + 1] = w[k]
    BY <1>1, FindsHere
<1>3. ~(k + 1 + 1 <= Len(w))
    OBVIOUS
<1> QED
    BY <1>1, <1>2, <1>3 DEF Ahead
-----------------------------------------------------------------------------
(* The steps of get_token() are of six kinds: it skips a space, begins a   *)
(* word, number or string, goes on with one, ends one, returns one         *)
(* character, or finds the end of the file.                                *)

InTokenModes == {"string", "escape", "quoted", "word", "number"}
LexType == [mode : Mode, first : 0..MaxText, val : Seq(Char \cup {"EOF"})]

Kept == UNCHANGED <<currentToken, currentTokenVal, saved, operator, path, files, searched, tokens>>

Skips ==
    /\ In("begin")
    /\ lastChar \in {"NUL", "nl"}
    /\ \E c \in Upcoming : Next_lastChar(c)
    /\ UNCHANGED <<lexing, status>>
    /\ Kept

Begins ==
    /\ In("begin")
    /\ lastChar \in Letters \cup Digits \cup {"quote"}
    /\ UNCHANGED <<source, status>>
    /\ lexing' \in LexType
    /\ lexing'.mode \in InTokenModes
    /\ lexing'.first = at[File]
    /\ lexing'.mode \in {"word", "number"} => lexing'.val = <<lastChar>>
    /\ Kept

GoesOn(c) ==
    /\ Reading
    /\ InToken
    /\ Advance(c)
    /\ \/ lastChars' = [lastChars EXCEPT ![File] = c]
       \/ UNCHANGED lastChars /\ lexing'.mode = "string"
    /\ lexing' \in LexType
    /\ lexing'.mode \in InTokenModes
    /\ lexing'.first = lexing.first
    /\ lexing'.mode \in {"word", "number"} =>
          /\ lexing'.mode = lexing.mode
          /\ lexing'.val = Append(lexing.val, c)
          /\ c # "EOF"
    /\ status' \in {status, "endless"}
    /\ Kept

EndsToken(c) ==
    /\ Reading
    /\ InToken
    /\ Next_lastChar(c)
    /\ \E t \in Valued \cup {"keyword"}, val \in Seq(Char \cup {"EOF"}) :
          /\ Returns(t, val, lexing.first, at[File])
          /\ t \in {"identifier", "integer", "decimal"} =>
                val = lexing.val /\ lexing.mode \in {"word", "number"}

LEMMA LexTyped == TypeOK => lexing \in LexType /\ lexing = [mode |-> lexing.mode, first |-> lexing.first, val |-> lexing.val]
    BY DEF TypeOK, LexType

LEMMA KeptIs == ASSUME NEW l, Continue(l) PROVE lexing' = l /\ Kept /\ status' = status
    BY DEF Continue, Kept, parser

LEMMA BeginKinds ==
    ASSUME TypeOK, NoCharYet \/ SkipSpace \/ BeginString \/ BeginWord \/ BeginNumber
    PROVE  Skips \/ Begins
<1>1. File \in Files /\ at[File] \in 0..MaxText
    BY CurrentFile DEF TypeOK
<1>2. CASE NoCharYet
    BY <1>2, KeptIs DEF NoCharYet, Skips
<1>3. CASE SkipSpace
    BY <1>3, KeptIs DEF SkipSpace, Skips, Isspace
<1>4. ASSUME NEW m \in {"string", "word", "number"}, NEW v \in Seq(Char \cup {"EOF"}), Begin(m, v),
             m # "string" => v = <<lastChar>>
      PROVE  /\ UNCHANGED <<source, status>>
             /\ lexing' \in LexType
             /\ lexing'.mode \in InTokenModes
             /\ lexing'.first = at[File]
             /\ lexing'.mode \in {"word", "number"} => lexing'.val = <<lastChar>>
             /\ Kept
    <2>1. /\ lexing' = [mode |-> m, first |-> at[File], val |-> v]
          /\ Kept /\ UNCHANGED <<source, status>>
        BY <1>4, KeptIs DEF Begin
    <2>2. lexing' \in LexType
        BY <1>1, <2>1 DEF LexType, Mode
    <2>3. lexing'.mode = m /\ lexing'.first = at[File] /\ lexing'.val = v
        BY <2>1
    <2> QED
        BY <1>4, <2>1, <2>2, <2>3 DEF InTokenModes
<1>5. <<>> \in Seq(Char \cup {"EOF"}) /\ (lastChar \in Char => <<lastChar>> \in Seq(Char \cup {"EOF"}))
    OBVIOUS
<1>6. CASE BeginString
    BY <1>4, <1>5, <1>6 DEF BeginString, Begins
<1>7. CASE BeginWord
    BY <1>4, <1>5, <1>7 DEF BeginWord, Begins, Isalpha, Char
<1>8. CASE BeginNumber
    BY <1>4, <1>5, <1>8 DEF BeginNumber, Begins, Char
<1> QED
    BY <1>2, <1>3, <1>6, <1>7, <1>8

\* How a step of the lexer goes on with what it is in.
LEMMA GoingOn ==
    ASSUME TypeOK, Reading, NEW m \in InTokenModes, NEW n \in InTokenModes,
           NEW v \in Seq(Char \cup {"EOF"}), NEW c, Advance(c), lexing.mode = n,
           \/ lastChars' = [lastChars EXCEPT ![File] = c]
           \/ UNCHANGED lastChars /\ m = "string",
           lexing' = [lexing EXCEPT !.mode = m, !.val = v], Kept, status' \in {status, "endless"},
           m \in {"word", "number"} => m = n /\ v = Append(lexing.val, c) /\ c # "EOF"
    PROVE  GoesOn(c)
<1>1. lexing' = [mode |-> m, first |-> lexing.first, val |-> v] /\ lexing.first \in 0..MaxText
    BY LexTyped DEF LexType
<1>2. lexing' \in LexType
    BY <1>1 DEF LexType, Mode, InTokenModes
<1>3. lexing'.mode = m /\ lexing'.first = lexing.first /\ lexing'.val = v
    BY <1>1
<1>4. InToken
    BY DEF InToken, InTokenModes
<1> QED
    BY <1>2, <1>3, <1>4 DEF GoesOn

LEMMA TokenKinds ==
    ASSUME TypeOK, Sources,
           StringChar \/ StringWithoutEnd \/ EscapedChar \/ EndString \/ WordChar \/ NumberChar
    PROVE  \E c \in Upcoming : GoesOn(c) \/ EndsToken(c)
<1>1. lexing.val \in Seq(Char \cup {"EOF"})
    BY LexTyped DEF LexType
<1>2. \A c \in Char \cup {"EOF"} : Append(lexing.val, c) \in Seq(Char \cup {"EOF"})
    BY <1>1, AppendProperties
<1>3. \A c \in Upcoming : Advance(c) => c \in Char \cup {"EOF"}
    BY OneRead
<1>4. CASE StringChar
    <2>1. PICK c \in Upcoming \ {"EOF"} :
             /\ Next_lastChar(c)
             /\ Continue([lexing EXCEPT
                    !.mode = CASE c = "backslash" -> "escape"
                               [] c = "quote"     -> "quoted"
                               [] OTHER           -> "string",
                    !.val = IF c \in {"backslash", "quote"} THEN @ ELSE Append(@, c)])
        BY <1>4 DEF StringChar
    <2>2. PICK m \in {"escape", "quoted", "string"}, v \in Seq(Char \cup {"EOF"}) :
             lexing' = [lexing EXCEPT !.mode = m, !.val = v]
        <3>1. PICK m \in {"escape", "quoted", "string"} :
                 m = CASE c = "backslash" -> "escape"
                       [] c = "quote"     -> "quoted"
                       [] OTHER           -> "string"
            <4>1. CASE c = "backslash"
                BY <4>1
            <4>2. CASE c = "quote"
                BY <4>2
            <4>3. CASE c # "backslash" /\ c # "quote"
                BY <4>3
            <4> QED
                BY <4>1, <4>2, <4>3
        <3>2. PICK v \in Seq(Char \cup {"EOF"}) :
                 v = IF c \in {"backslash", "quote"} THEN lexing.val ELSE Append(lexing.val, c)
            BY <1>1, <1>2, <1>3, <2>1 DEF Next_lastChar
        <3>3. lexing' = [lexing EXCEPT !.mode = m, !.val = v]
            BY <2>1, <3>1, <3>2, KeptIs
        <3> QED
            BY <3>3
    <2>3. Kept /\ status' = status
        BY <2>1, KeptIs
    <2>4. GoesOn(c)
        BY <1>4, <2>1, <2>2, <2>3, GoingOn DEF StringChar, In, InTokenModes, Next_lastChar
    <2> QED
        BY <2>4
<1>5. CASE StringWithoutEnd
    <2>1. lexing' = [lexing EXCEPT !.mode = "string", !.val = lexing.val]
        BY <1>5, LexTyped DEF StringWithoutEnd, In, LexType
    <2>2. Kept /\ status' = "endless"
        BY <1>5 DEF StringWithoutEnd, Kept
    <2>3. GoesOn("EOF")
        BY <1>1, <1>5, <2>1, <2>2, GoingOn DEF StringWithoutEnd, In, InTokenModes
    <2> QED
        BY <1>5, <2>3 DEF StringWithoutEnd
<1>6. CASE EscapedChar
    <2>1. PICK c \in Upcoming :
             Advance(c) /\ Continue([lexing EXCEPT !.mode = "string", !.val = Append(@, c)])
        BY <1>6 DEF EscapedChar
    <2>2. lexing' = [lexing EXCEPT !.mode = "string", !.val = Append(lexing.val, c)]
        BY <2>1, KeptIs
    <2>3. Kept /\ status' = status
        BY <2>1, KeptIs
    <2>4. GoesOn(c)
        BY <1>2, <1>3, <1>6, <2>1, <2>2, <2>3, GoingOn DEF EscapedChar, In, InTokenModes
    <2> QED
        BY <2>4
<1>7. CASE EndString
    BY <1>1, <1>7 DEF EndString, EndsToken, In, InToken, Valued
<1>8. ASSUME NEW c \in Upcoming, Next_lastChar(c), In("word") \/ In("number"), c # "EOF",
             Continue([lexing EXCEPT !.val = Append(@, c)])
      PROVE  GoesOn(c)
    <2>1. PICK m \in {"word", "number"} : lexing.mode = m
        BY <1>8 DEF In
    <2>2. lexing' = [lexing EXCEPT !.mode = m, !.val = Append(lexing.val, c)]
        BY <1>8, <2>1, KeptIs, LexTyped DEF LexType
    <2>3. Kept /\ status' = status
        BY <1>8, KeptIs
    <2> QED
        BY <1>2, <1>3, <1>8, <2>1, <2>2, <2>3, GoingOn DEF In, InTokenModes, Next_lastChar
<1>9. CASE WordChar
    <2>1. PICK c \in Upcoming :
             /\ Next_lastChar(c)
             /\ IF Isalnum(c)
                THEN Continue([lexing EXCEPT !.val = Append(@, c)])
                ELSE IF lexing.val \in Keywords
                     THEN Returns("keyword", currentTokenVal, lexing.first, at[File])
                     ELSE Returns("identifier", lexing.val, lexing.first, at[File])
        BY <1>9 DEF WordChar
    <2>2. CASE Isalnum(c)
        BY <1>8, <1>9, <2>1, <2>2, CharSets DEF WordChar, Isalnum
    <2>3. CASE ~Isalnum(c)
        <3>1. currentTokenVal \in Seq(Char \cup {"EOF"})
            BY DEF TypeOK
        <3>2. EndsToken(c)
            BY <1>1, <1>9, <2>1, <2>3, <3>1 DEF WordChar, EndsToken, In, InToken, Valued
        <3> QED
            BY <3>2
    <2> QED
        BY <2>2, <2>3
<1>10. CASE NumberChar
    <2>1. PICK c \in Upcoming :
             /\ Next_lastChar(c)
             /\ IF NumberGoesOn(c)
                THEN Continue([lexing EXCEPT !.val = Append(@, c)])
                ELSE Returns(IF foundDecimal THEN "decimal" ELSE "integer",
                             lexing.val, lexing.first, at[File])
        BY <1>10 DEF NumberChar
    <2>2. CASE NumberGoesOn(c)
        BY <1>8, <1>10, <2>1, <2>2, CharSets DEF NumberChar, NumberGoesOn
    <2>3. CASE ~NumberGoesOn(c)
        <3>1. PICK t \in {"decimal", "integer"} : Returns(t, lexing.val, lexing.first, at[File])
            BY <2>1, <2>3
        <3>2. EndsToken(c)
            BY <1>1, <1>10, <2>1, <3>1 DEF NumberChar, EndsToken, In, InToken, Valued
        <3> QED
            BY <3>2
    <2> QED
        BY <2>2, <2>3
<1> QED
    BY <1>4, <1>5, <1>6, <1>7, <1>9, <1>10
-----------------------------------------------------------------------------
(* Where the lexer is *)

LEMMA SpanTyped == TypeOK => \A g \in Files : tokens[g] \in Seq(Span)
    BY DEF TypeOK, Span

LEMMA TakenRange ==
    ASSUME TypeOK, Sources, Saved, Places, NEW g \in Files
    PROVE  /\ Taken(g) \in 0..at[g]
           /\ at[g] \in 0..Len(text[g])
           /\ TextOf(text[g])
           /\ Taken(g) \in Nat /\ at[g] \in Nat /\ Taken(g) <= Len(text[g])
<1>1. TextOf(text[g]) /\ at[g] \in 0..Len(text[g]) /\ Len(text[g]) \in Nat
    BY DEF Sources, Reached, TextOf
<1>2. CASE g = File /\ Peeking
    <2>1. Before \in SnapshotType /\ Before.at <= at[g] /\ LastIs(Before.lastChar, text[g], Before.at)
        BY <1>2, SavedIs DEF Saved
    <2>2. Before.at \in 0..Len(text[g])
        <3>1. Before.at \in Nat
            BY <2>1, LexerAssumption DEF SnapshotType
        <3> QED
            BY <1>1, <2>1, <3>1
    <2>3. UsedBy(Before.lastChar, Before.at) \in 0..Before.at
        BY <1>1, <2>1, <2>2, UsedInRange
    <2> QED
        BY <1>1, <1>2, <2>1, <2>2, <2>3 DEF Taken
<1>3. CASE g = File /\ ~Peeking /\ InToken
    BY <1>1, <1>3 DEF Taken, Places
<1>4. CASE ~(g = File /\ Peeking) /\ ~(g = File /\ InToken)
    <2>1. LastIs(lastChars[g], text[g], at[g])
        BY <1>4 DEF Sources, InToken
    <2>2. UsedBy(lastChars[g], at[g]) \in 0..at[g]
        BY <1>1, <2>1, UsedInRange
    <2> QED
        BY <1>1, <1>4, <2>2 DEF Taken
<1> QED
    BY <1>2, <1>3, <1>4

\* When a character has been read ahead, all before it have been used.
LEMMA UsedAfter ==
    ASSUME TypeOK, Sources, NEW c \in Upcoming, Next_lastChar(c), File' = File
    PROVE  /\ UsedBy(lastChars'[File], at'[File]) = at[File]
           /\ Used1' = at[File]
           /\ at[File] \in Nat
<1>1. /\ File \in Files /\ at \in [Files -> 0..MaxText] /\ MaxText \in Nat
      /\ lastChars \in [Files -> Char \cup {"EOF", "NUL"}]
    BY CurrentFile, LexerAssumption DEF TypeOK
<1>2. c \in Char \cup {"EOF"} /\ at' = [at EXCEPT ![File] = Onward(c, @)]
    BY OneRead DEF Next_lastChar
<1>3. lastChars'[File] = c /\ at'[File] = Onward(c, at[File]) /\ at[File] \in Nat
    BY <1>1, <1>2 DEF Next_lastChar
<1>4. c # "NUL"
    BY <1>2, CharSets
<1>5. UsedBy(c, Onward(c, at[File])) = at[File]
    BY <1>3, <1>4 DEF UsedBy, Onward
<1>6. UsedBy(lastChars'[File], at'[File]) = at[File]
    BY <1>3, <1>5
<1>7. lastChars'[File'] = lastChars'[File] /\ at'[File'] = at'[File]
    OBVIOUS
<1> QED
    BY <1>3, <1>6, <1>7 DEF Used1

\* What the last character says of those used.
LEMMA LastMeans ==
    ASSUME TypeOK, Sources, lexing.mode # "string"
    PROVE  LET n == at[File] s == text[File] IN
           /\ n \in 0..Len(s) /\ Len(s) \in Nat
           /\ lastChar = "NUL" => n = 0 /\ Used1 = 0
           /\ lastChar = "EOF" => n < Len(s) /\ s[n + 1] = "EOF" /\ Used1 = n
           /\ lastChar \notin {"NUL", "EOF"} => n >= 1 /\ s[n] = lastChar /\ Used1 = n - 1
           /\ Used1 \in 0..n
<1>1. /\ File \in Files
      /\ LastIs(lastChar, text[File], at[File])
      /\ at[File] \in 0..Len(text[File]) /\ Len(text[File]) \in Nat
    BY CurrentFile DEF Sources, Reached, TextOf, lastChar
<1>2. Used1 = UsedBy(lastChar, at[File])
    BY DEF Used1, lastChar
<1> QED
    BY <1>1, <1>2 DEF LastIs, UsedBy

LEMMA KeptFile == Kept => File' = File /\ tokens' = tokens /\ (Peeking' <=> Peeking) /\ Before' = Before
    BY DEF Kept, File, Peeking, Before

LEMMA KeptTypes ==
    ASSUME TypeOK, SourceTypes', Kept, lexing' \in LexType, status' \in {status, "endless"}
    PROVE  TypeOK'
    BY DEF TypeOK, SourceTypes, Kept, LexType

\* The files that are not being read.
LEMMA OthersCovered ==
    ASSUME TypeOK, Sources, Saved, Places, Covered, File' = File,
           (\E c \in Upcoming : Advance(c)) \/ UNCHANGED <<text, at>>,
           \A g \in Files : g # File => tokens'[g] = tokens[g] /\ lastChars'[g] = lastChars[g],
           Covers(tokens'[File], Taken(File)', text'[File])
    PROVE  Covered'
<1>1. SUFFICES ASSUME NEW g \in Files PROVE Covers(tokens'[g], Taken(g)', text'[g])
    BY DEF Covered
<1>2. CASE g = File
    <2>1. Taken(g)' = Taken(File)'
        BY <1>2 DEF Taken
    <2> QED
        BY <1>2, <2>1
<1>3. CASE g # File
    <2>1. text'[g] = text[g] /\ at'[g] = at[g]
        BY <1>3, OneRead
    <2>2. Taken(g)' = Taken(g)
        BY <1>3, <2>1 DEF Taken
    <2> QED
        BY <1>3, <2>1, <2>2 DEF Covered
<1> QED
    BY <1>2, <1>3

\* Nothing is taken from the text while it grows.
LEMMA SameTaken ==
    ASSUME TypeOK, Sources, Saved, Places, Covered, File' = File, NEW c \in Upcoming, Advance(c),
           tokens' = tokens, Taken(File)' = Taken(File)
    PROVE  Covers(tokens'[File], Taken(File)', text'[File])
<1>1. File \in Files /\ tokens[File] \in Seq(Span)
    BY CurrentFile, SpanTyped
<1>2. Taken(File) \in Nat /\ Taken(File) <= Len(text[File]) /\ TextOf(text[File])
    BY <1>1, TakenRange
<1>3. Extends(text[File], text'[File])
    BY <1>1, OneRead
<1>4. Covers(tokens[File], Taken(File), text[File])
    BY <1>1 DEF Covered
<1> QED
    BY <1>2, <1>3, <1>4, CoversLonger

\* What has been saved of a token.
LEMMA SavedValue ==
    ASSUME TypeOK, Sources, Saved, Places, Covered, Values, Peeking, Peeking', Before' = Before,
           File' = File, tokens' = tokens, (\E c \in Upcoming : Advance(c)) \/ UNCHANGED text
    PROVE  BelongsTo(tokens'[File'], text'[File'], Before'.currentToken, Before'.currentTokenVal)
<1>1. File \in Files /\ tokens[File] \in Seq(Span)
    BY CurrentFile, SpanTyped
<1>2. Taken(File) \in Nat /\ Taken(File) <= Len(text[File]) /\ TextOf(text[File])
    BY <1>1, TakenRange
<1>3. Covers(tokens[File], Taken(File), text[File])
    BY <1>1 DEF Covered
<1>4. BelongsTo(tokens[File], text[File], Before.currentToken, Before.currentTokenVal)
    BY DEF Values
<1>5. ASSUME NEW c \in Upcoming, Advance(c)
      PROVE  BelongsTo(tokens[File], text'[File], Before.currentToken, Before.currentTokenVal)
    <2>1. Extends(text[File], text'[File]) /\ TextOf(text'[File])
        BY <1>1, <1>5, OneRead
    <2> QED
        BY <1>1, <1>2, <1>3, <1>4, <2>1, BelongsStays
<1>6. BelongsTo(tokens[File], text'[File], Before.currentToken, Before.currentTokenVal)
    BY <1>4, <1>5
<1> QED
    BY <1>6
-----------------------------------------------------------------------------
(* What the steps of get_token() keep of the tokens read *)

Reader == TypeOK /\ Sources /\ Saved /\ Places /\ Covered /\ Values

LEMMA KeptSaved ==
    ASSUME TypeOK, Sources, Saved, Kept, (\E c \in Upcoming : Advance(c)) \/ UNCHANGED <<text, at>>
    PROVE  Saved'
<1>1. CASE Peeking
    <2>1. PICK k \in 0..2 : k = saved[1].left
        BY <1>1, SavedIs
    <2>2. saved' = <<[snapshot |-> Before, left |-> k]>>
        BY <1>1, <2>1, SavedIs DEF Kept
    <2>3. File' = File /\ UNCHANGED operator
        BY KeptFile DEF Kept
    <2> QED
        BY <1>1, <2>2, <2>3, SavedKeeps
<1>2. CASE ~Peeking
    BY <1>2, KeptFile DEF Saved
<1> QED
    BY <1>1, <1>2

LEMMA SkipsReads ==
    ASSUME Reader, Skips
    PROVE  Reader' /\ lexing.mode = "begin" /\ lexing'.mode = "begin"
<1> USE DEF Reader
<1>1. /\ lexing' = lexing /\ status' = status /\ lexing.mode = "begin" /\ Kept
      /\ lastChar \in {"NUL", "nl"}
    BY DEF Skips, In
<1>2. PICK c \in Upcoming : Next_lastChar(c)
    BY DEF Skips
<1>3. /\ File \in Files /\ File' = File /\ tokens' = tokens /\ (Peeking' <=> Peeking)
      /\ Before' = Before /\ tokens[File] \in Seq(Span)
    BY <1>1, KeptFile, CurrentFile, SpanTyped
<1>4. Advance(c) /\ lastChars' = [lastChars EXCEPT ![File] = c]
    BY <1>2 DEF Next_lastChar
<1>5. Sources' /\ SourceTypes'
    BY <1>3, <1>4, ReadKeepsSources
<1>6. TypeOK'
    BY <1>1, <1>5, LexTyped, KeptTypes
<1>7. Saved'
    BY <1>1, <1>4, KeptSaved
<1>8. ~InToken /\ ~InToken'
    BY <1>1 DEF InToken
<1>9. Places'
    BY <1>8 DEF Places
<1>10. Covers(tokens'[File], Taken(File)', text'[File])
    <2>1. CASE Peeking
        <3>1. Taken(File)' = Taken(File)
            BY <1>3, <2>1 DEF Taken
        <3> QED
            BY <1>3, <1>4, <3>1, SameTaken
    <2>2. CASE ~Peeking
        <3>1. Taken(File)' = at[File] /\ Taken(File) = Used1
            BY <1>2, <1>3, <1>8, <2>2, UsedAfter DEF Taken, Used1
        <3>2. /\ lastChar = "NUL" => at[File] = 0 /\ Used1 = 0
              /\ lastChar = "nl" => at[File] >= 1 /\ text[File][at[File]] = "nl" /\ Used1 = at[File] - 1
              /\ Used1 \in Nat /\ at[File] \in 0..Len(text[File]) /\ Len(text[File]) \in Nat
            BY <1>1, LastMeans
        <3>3. Covers(tokens[File], Used1, text[File])
            BY <1>3, <3>1 DEF Covered
        <3>4. Covers(tokens[File], at[File], text[File])
            <4>1. CASE lastChar = "NUL"
                BY <3>2, <3>3, <4>1
            <4>2. CASE lastChar = "nl"
                <5>1. Used1 + 1 = at[File] /\ Isspace(text[File][Used1 + 1])
                    BY <3>2, <4>2 DEF Isspace
                <5>2. Covers(tokens[File], Used1 + 1, text[File])
                    BY <1>3, <3>2, <3>3, <5>1, CoversSpace
                <5> QED
                    BY <5>1, <5>2
            <4> QED
                BY <1>1, <4>1, <4>2
        <3>5. Extends(text[File], text'[File]) /\ TextOf(text[File])
            BY <1>3, <1>4, OneRead
        <3>6. Covers(tokens[File], at[File], text'[File])
            BY <3>2, <3>4, <3>5, CoversLonger
        <3> QED
            BY <1>3, <3>1, <3>6
    <2> QED
        BY <2>1, <2>2
<1>11. Covered'
    <2>1. \A g \in Files : g # File => tokens'[g] = tokens[g] /\ lastChars'[g] = lastChars[g]
        BY <1>3, <1>4 DEF TypeOK
    <2> QED
        BY <1>3, <1>4, <1>10, <2>1, OthersCovered
<1>12. Values'
    <2>1. Peeking' => BelongsTo(tokens'[File'], text'[File'], Before'.currentToken, Before'.currentTokenVal)
        BY <1>3, <1>4, SavedValue
    <2> QED
        BY <1>1, <2>1 DEF Values, Idle, In
<1> QED
    BY <1>1, <1>5, <1>6, <1>7, <1>9, <1>11, <1>12

LEMMA BeginsReads ==
    ASSUME Reader, Begins
    PROVE  Reader' /\ lexing.mode = "begin" /\ InToken' /\ Taken(File)' = Taken(File)
<1> USE DEF Reader
<1>1. /\ status' = status /\ lexing.mode = "begin" /\ Kept
      /\ lastChar \in Letters \cup Digits \cup {"quote"}
      /\ UNCHANGED source /\ UNCHANGED <<text, at, lastChars>>
      /\ lexing' \in LexType /\ lexing'.mode \in InTokenModes /\ lexing'.first = at[File]
      /\ lexing'.mode \in {"word", "number"} => lexing'.val = <<lastChar>>
    BY DEF Begins, In, source
<1>2. /\ File \in Files /\ File' = File /\ tokens' = tokens /\ (Peeking' <=> Peeking)
      /\ Before' = Before
    BY <1>1, KeptFile, CurrentFile
<1>3. Sources' /\ SourceTypes'
    BY <1>1, QuietKeepsSources
<1>4. TypeOK'
    BY <1>1, <1>3, KeptTypes
<1>5. Saved'
    BY <1>1, KeptSaved
<1>6. ~InToken /\ InToken'
    BY <1>1 DEF InToken, InTokenModes
<1>7. /\ at[File] >= 1 /\ text[File][at[File]] = lastChar /\ Used1 = at[File] - 1
      /\ at[File] \in 0..Len(text[File]) /\ Len(text[File]) \in Nat
    <2>1. lastChar \notin {"NUL", "EOF"}
        BY <1>1, CharSets
    <2> QED
        BY <1>1, <2>1, LastMeans
<1>8. Places'
    BY <1>1, <1>2, <1>7 DEF Places
<1>9. Taken(File)' = Taken(File)
    BY <1>1, <1>2, <1>6, <1>7 DEF Taken, Used1
<1>10. Covered'
    <2>1. Covers(tokens'[File], Taken(File)', text'[File])
        BY <1>1, <1>2, <1>9 DEF Covered
    <2> QED
        BY <1>1, <1>2, <2>1, OthersCovered
<1>11. Values'
    <2>1. Peeking' => BelongsTo(tokens'[File'], text'[File'], Before'.currentToken, Before'.currentTokenVal)
        BY <1>1, <1>2, SavedValue
    <2>2. ~Idle'
        BY <1>1 DEF Idle, In, InTokenModes
    <2>3. ASSUME lexing'.mode \in {"word", "number"}
          PROVE  lexing'.val = SubSeq(text'[File'], lexing'.first, at'[File'])
        <3>1. PICK s, n : s = text[File] /\ n = at[File]
            OBVIOUS
        <3>2. TextOf(s) /\ n \in Nat /\ n >= 1 /\ n <= Len(s) /\ s[n] = lastChar
            BY <1>2, <1>7, <3>1 DEF Sources
        <3>3. SubSeq(s, n, n) = <<s[n]>>
            <4>1. PICK m : m = n - 1
                OBVIOUS
            <4>2. m \in Nat /\ n = m + 1 /\ m < n /\ n \in Nat \ {0} /\ n <= m + 1 /\ m + 1 <= Len(s)
                BY <3>2, <4>1
            <4>3. SubSeq(s, n, m + 1) = Append(SubSeq(s, n, m), s[m + 1])
                BY <3>2, <4>2, SubSeqNext
            <4>4. SubSeq(s, n, m) = <<>>
                BY <4>2, SubSeqEmpty
            <4>5. Append(<<>>, s[n]) = <<s[n]>>
                OBVIOUS
            <4> QED
                BY <4>2, <4>3, <4>4, <4>5
        <3> QED
            BY <1>1, <1>2, <2>3, <3>1, <3>2, <3>3
    <2> QED
        BY <2>1, <2>2, <2>3 DEF Values
<1> QED
    BY <1>1, <1>3, <1>4, <1>5, <1>6, <1>8, <1>9, <1>10, <1>11

LEMMA GoesOnReads ==
    ASSUME Reader, NEW c \in Upcoming, GoesOn(c)
    PROVE  Reader' /\ InToken /\ InToken' /\ Taken(File)' = Taken(File)
<1> USE DEF Reader
<1>1. /\ InToken /\ Kept /\ Advance(c) /\ status' \in {status, "endless"}
      /\ \/ lastChars' = [lastChars EXCEPT ![File] = c]
         \/ UNCHANGED lastChars /\ lexing'.mode = "string"
      /\ lexing' \in LexType /\ lexing'.mode \in InTokenModes /\ lexing'.first = lexing.first
      /\ lexing'.mode \in {"word", "number"} =>
            lexing'.mode = lexing.mode /\ lexing'.val = Append(lexing.val, c) /\ c # "EOF"
    BY DEF GoesOn
<1>2. /\ File \in Files /\ File' = File /\ tokens' = tokens /\ (Peeking' <=> Peeking)
      /\ Before' = Before
    BY <1>1, KeptFile, CurrentFile
<1>3. Sources' /\ SourceTypes'
    BY <1>1, <1>2, ReadKeepsSources
<1>4. TypeOK'
    BY <1>1, <1>3, KeptTypes
<1>5. Saved'
    BY <1>1, KeptSaved
<1>6. InToken'
    BY <1>1 DEF InToken, InTokenModes
<1>7. PICK s, t, n, a : s = text[File] /\ t = text'[File] /\ n = at[File] /\ a = lexing.first
    OBVIOUS
<1>8. /\ TextOf(s) /\ TextOf(t) /\ Extends(s, t) /\ n \in Nat /\ n <= Len(s)
      /\ n + 1 \in 1..Len(t) /\ t[n + 1] = c
      /\ at'[File] = Onward(c, n) /\ a \in 1..n
    <2>1. at[File] \in 0..Len(text[File]) /\ Len(text[File]) \in Nat
        BY <1>2, TakenRange DEF TextOf
    <2>2. at' = [at EXCEPT ![File] = Onward(c, @)] /\ at \in [Files -> 0..MaxText]
        BY <1>1, OneRead DEF TypeOK
    <2>3. lexing.first \in 1..at[File]
        BY <1>1 DEF Places
    <2>4. /\ TextOf(text[File]) /\ TextOf(text'[File]) /\ Extends(text[File], text'[File])
          /\ at[File] + 1 \in 1..Len(text'[File]) /\ text'[File][at[File] + 1] = c
        BY <1>1, <1>2, OneRead
    <2> QED
        BY <1>2, <1>7, <2>1, <2>2, <2>3, <2>4
<1>9. Places'
    BY <1>1, <1>2, <1>7, <1>8 DEF Places, Onward
<1>10. Taken(File)' = Taken(File)
    BY <1>1, <1>2, <1>6 DEF Taken
<1>11. Covered'
    <2>1. Covers(tokens'[File], Taken(File)', text'[File])
        BY <1>1, <1>2, <1>10, SameTaken
    <2>2. \A g \in Files : g # File => tokens'[g] = tokens[g] /\ lastChars'[g] = lastChars[g]
        BY <1>1, <1>2 DEF TypeOK
    <2> QED
        BY <1>1, <1>2, <2>1, <2>2, OthersCovered
<1>12. Values'
    <2>1. Peeking' => BelongsTo(tokens'[File'], text'[File'], Before'.currentToken, Before'.currentTokenVal)
        BY <1>1, <1>2, SavedValue
    <2>2. ~Idle'
        BY <1>1 DEF Idle, In, InTokenModes
    <2>3. ASSUME lexing'.mode \in {"word", "number"}
          PROVE  lexing'.val = SubSeq(text'[File'], lexing'.first, at'[File'])
        <3>1. lexing.val = SubSeq(s, a, n)
            BY <1>1, <1>7, <2>3 DEF Values
        <3>2. SubSeq(t, a, n) = SubSeq(s, a, n)
            BY <1>8, SubSeqStays
        <3>3. SubSeq(t, a, n + 1) = Append(SubSeq(t, a, n), t[n + 1])
            <4>1. a \in Nat \ {0} /\ a <= n + 1 /\ n + 1 <= Len(t)
                BY <1>8
            <4> QED
                BY <1>8, <4>1, SubSeqNext
        <3>4. at'[File] = n + 1
            BY <1>1, <1>8, <2>3 DEF Onward
        <3>5. lexing'.val = Append(SubSeq(t, a, n), t[n + 1])
            BY <1>1, <1>8, <2>3, <3>1, <3>2
        <3> QED
            BY <1>1, <1>2, <1>7, <3>3, <3>4, <3>5
    <2> QED
        BY <2>1, <2>2, <2>3 DEF Values
<1> QED
    BY <1>1, <1>3, <1>4, <1>5, <1>6, <1>9, <1>10, <1>11, <1>12
\* get_next_token() returns t, to peek_next_token() or to the parser.
LEMMA ReturnsSaved ==
    ASSUME TypeOK, Sources, Saved, LookingAhead, lexing.mode # "idle",
           NEW t, NEW val, NEW first, NEW last, Returns(t, val, first, last),
           (\E c \in Upcoming : Advance(c)) \/ UNCHANGED <<text, at>>
    PROVE  /\ Saved' /\ Len(saved') <= 1
           /\ Peeking' <=> Peeking
           /\ Peeking => /\ Before' = Before
                         /\ saved[1].left \in 1..2
                         /\ saved'[1].left = saved[1].left - 1
           /\ File' = File /\ UNCHANGED <<operator, path, files, searched, status>>
<1>1. File' = File /\ UNCHANGED <<operator, path, files, searched, status>>
    BY DEF Returns, parser, File
<1>2. CASE Peeking
    <2>1. saved[1].left \in 0..2 /\ saved = <<[snapshot |-> Before, left |-> saved[1].left]>>
        BY <1>2, SavedIs
    <2>2. ASSUME saved[1].left = 0 PROVE FALSE
        <3>1. PICK b : LooksAt(text[File], Taken(File), b, Used1, saved[1].left, lexing.mode,
                               currentToken)
            BY <1>2 DEF LookingAhead
        <3>2. LooksAt(text[File], Taken(File), b, Used1, 0, lexing.mode, currentToken)
            BY <2>2, <3>1
        <3> QED
            BY <3>2 DEF LooksAt
    <2>3. PICK k : k = saved[1].left
        OBVIOUS
    <2>4. k \in 1..2 /\ k - 1 \in 0..2
        BY <2>1, <2>2, <2>3
    <2>5. saved' = <<[snapshot |-> Before, left |-> k - 1]>>
        <3>1. saved[1] = [snapshot |-> Before, left |-> k]
            BY <2>1, <2>3
        <3>2. saved' = <<[saved[1] EXCEPT !.left = @ - 1]>>
            BY <1>2 DEF Returns, Peeking
        <3>3. [saved[1] EXCEPT !.left = @ - 1] = [snapshot |-> Before, left |-> k - 1]
            BY <3>1
        <3> QED
            BY <3>2, <3>3
    <2>6. Saved' /\ Peeking' /\ Before' = Before /\ saved'[1].left = k - 1 /\ Len(saved') <= 1
        BY <1>1, <1>2, <2>4, <2>5, SavedKeeps
    <2> QED
        BY <1>1, <1>2, <2>3, <2>4, <2>6
<1>3. CASE ~Peeking
    <2>1. saved' = saved /\ saved = <<>>
        BY <1>3 DEF Returns, Peeking
    <2> QED
        BY <1>1, <1>3, <2>1, EmptySeq DEF Saved, Peeking
<1> QED
    BY <1>2, <1>3

LEMMA ReturnsTypes ==
    ASSUME TypeOK, SourceTypes', NEW t \in Token, NEW val \in Seq(Char \cup {"EOF"}),
           NEW first, NEW last, Returns(t, val, first, last), Len(saved') <= 1,
           UNCHANGED <<operator, path, files, searched, status>>,
           tokens' \in [Files -> Seq(Span)]
    PROVE  TypeOK'
<1>1. lexing' \in LexType
    <2>1. lexing' = [mode |-> "idle", first |-> 0, val |-> <<>>]
        BY DEF Returns
    <2>2. MaxText \in Nat
        BY LexerAssumption
    <2> QED
        BY <2>1, <2>2 DEF LexType, Mode
<1>2. currentToken' \in Token /\ currentTokenVal' \in Seq(Char \cup {"EOF"})
    BY DEF Returns
<1>3. /\ operator' \in [step : Steps, op : Seq(Symbols \cup {"."}), first : 0..MaxText,
                        left : 0..(IF MaxAsks < 2 THEN 3 ELSE MaxAsks + 1)]
      /\ path' \in {"none", "inside", "read"}
      /\ files' \in Seq([file : Files, old_current_token : Token]) \ {<<>>}
      /\ searched' \subseteq Files
      /\ status' \in {"reading", "read", "rejected", "endless"}
    BY DEF TypeOK
<1>4. /\ text' \in [Files -> Seq(Char \cup {"EOF"})]
      /\ at' \in [Files -> 0..MaxText]
      /\ lastChars' \in [Files -> Char \cup {"EOF", "NUL"}]
      /\ Line' \in 1..MaxText + 1
    BY DEF SourceTypes
<1>5. /\ lexing' \in [mode : Mode, first : 0..MaxText, val : Seq(Char \cup {"EOF"})]
      /\ tokens' \in [Files -> Seq([kind : Token, first : 1..MaxText, last : 1..MaxText])]
    BY <1>1 DEF LexType, Span
<1> QED
    BY <1>2, <1>3, <1>4, <1>5 DEF TypeOK

LEMMA TokenReads ==
    ASSUME Reader, LookingAhead, lexing.mode # "idle", NEW c \in Upcoming, Next_lastChar(c),
           NEW t \in Token \ {"EOF"}, NEW val \in Seq(Char \cup {"EOF"}), NEW first,
           first \in 1..at[File], Returns(t, val, first, at[File]),
           ~Peeking => Taken(File) = first - 1,
           t \in {"identifier", "integer", "decimal"} => val = SubSeq(text[File], first, at[File])
    PROVE  /\ Reader'
           /\ Used1' = at[File]
           /\ Peeking => tokens' = tokens /\ Taken(File)' = Taken(File)
           /\ ~Peeking => /\ tokens'[File] = Append(tokens[File], [kind |-> t, first |-> first,
                                                                   last |-> at[File]])
                          /\ Taken(File)' = at[File]
<1> USE DEF Reader
<1>1. /\ Saved' /\ Len(saved') <= 1 /\ (Peeking' <=> Peeking) /\ (Peeking => Before' = Before)
      /\ File' = File /\ UNCHANGED <<operator, path, files, searched, status>>
    BY ReturnsSaved DEF Next_lastChar
<1>2. File \in Files /\ tokens[File] \in Seq(Span) /\ tokens \in [Files -> Seq(Span)]
    BY CurrentFile, SpanTyped DEF TypeOK, Span
<1>3. Advance(c) /\ lastChars' = [lastChars EXCEPT ![File] = c]
    BY DEF Next_lastChar
<1>4. Sources' /\ SourceTypes'
    BY <1>1, <1>3, ReadKeepsSources
<1>5. ~InToken' /\ Places' /\ lexing'.mode = "idle"
    BY DEF Returns, InToken, Places
<1>6. at[File] \in 0..MaxText /\ MaxText \in Nat /\ at[File] \in 0..Len(text[File])
      /\ Taken(File) <= Len(text[File]) /\ TextOf(text[File]) /\ Len(text[File]) \in Nat
    <2>1. at[File] \in 0..MaxText /\ MaxText \in Nat
        BY <1>2, LexerAssumption DEF TypeOK
    <2>2. /\ at[File] \in 0..Len(text[File]) /\ Taken(File) <= Len(text[File])
          /\ TextOf(text[File])
        BY <1>2, TakenRange
    <2>3. Len(text[File]) \in Nat
        BY <2>2 DEF TextOf
    <2> QED
        BY <2>1, <2>2, <2>3
<1>7. PICK r : r = [kind |-> t, first |-> first, last |-> at[File]]
    OBVIOUS
<1>8. r \in Span /\ r.first = first /\ r.last = at[File] /\ r.kind = t
    BY <1>6, <1>7 DEF Span
<1>9. Used1' = at[File]
    BY <1>1, UsedAfter
<1>10. tokens' = IF Peeking THEN tokens ELSE [tokens EXCEPT ![File] = Append(@, r)]
    BY <1>7 DEF Returns, Peeking
<1>11. tokens' \in [Files -> Seq(Span)]
    <2>1. Append(tokens[File], r) \in Seq(Span)
        BY <1>2, <1>8, AppendProperties
    <2> QED
        BY <1>2, <1>10, <2>1
<1>12. TypeOK'
    <2>1. t \in Token
        OBVIOUS
    <2> QED
        BY <1>1, <1>4, <1>11, <2>1, ReturnsTypes
<1>13. CASE Peeking
    <2>1. tokens' = tokens /\ Taken(File)' = Taken(File)
        BY <1>1, <1>10, <1>13 DEF Taken
    <2>2. Covers(tokens'[File], Taken(File)', text'[File])
        BY <1>1, <1>3, <2>1, SameTaken
    <2>3. Covered'
        <3>1. \A g \in Files : g # File => tokens'[g] = tokens[g] /\ lastChars'[g] = lastChars[g]
            BY <1>2, <1>3, <2>1 DEF TypeOK
        <3> QED
            BY <1>1, <1>3, <2>2, <3>1, OthersCovered
    <2>4. BelongsTo(tokens'[File'], text'[File'], Before'.currentToken, Before'.currentTokenVal)
        BY <1>1, <1>3, <1>13, <2>1, SavedValue
    <2>5. Values'
        <3>1. saved' # <<>>
            BY <1>1, <1>13 DEF Peeking
        <3> QED
            BY <1>5, <2>4, <3>1 DEF Values, Idle
    <2> QED
        BY <1>1, <1>4, <1>5, <1>9, <1>12, <1>13, <2>1, <2>3, <2>5
<1>14. CASE ~Peeking
    <2>1. tokens'[File] = Append(tokens[File], r) /\ \A g \in Files : g # File => tokens'[g] = tokens[g]
        BY <1>2, <1>10, <1>14
    <2>2. Taken(File)' = at[File]
        BY <1>1, <1>5, <1>9, <1>14 DEF Taken, Used1
    <2>3. Covers(tokens'[File], Taken(File)', text'[File])
        <3>1. PICK s, u, n, ts : /\ s = text[File] /\ u = text'[File] /\ n = Taken(File)
                                 /\ ts = tokens[File]
            OBVIOUS
        <3>2. Covers(ts, n, s) /\ n = first - 1 /\ n \in Nat /\ n <= Len(s) /\ TextOf(s)
            BY <1>2, <1>6, <1>14, <3>1 DEF Covered
        <3>3. Extends(s, u)
            BY <1>2, <1>3, <3>1, OneRead
        <3>4. Covers(ts, n, u)
            BY <3>2, <3>3, CoversLonger
        <3>5. r.first = n + 1 /\ r.last >= n + 1
            BY <1>6, <1>8, <3>2
        <3>6. Covers(Append(ts, r), r.last, u)
            BY <1>2, <1>8, <3>1, <3>2, <3>4, <3>5, CoversToken
        <3> QED
            BY <1>8, <2>1, <2>2, <3>1, <3>6
    <2>4. Covered'
        <3>1. \A g \in Files : g # File => lastChars'[g] = lastChars[g]
            BY <1>2, <1>3 DEF TypeOK
        <3> QED
            BY <1>1, <1>3, <2>1, <2>3, <3>1, OthersCovered
    <2>5. BelongsTo(tokens'[File'], text'[File'], currentToken', currentTokenVal')
        <3>1. /\ Len(tokens'[File]) >= 1
              /\ tokens'[File][Len(tokens'[File])] = r
            BY <1>2, <1>8, <2>1, AppendProperties
        <3>2. SubSeq(text'[File], first, at[File]) = SubSeq(text[File], first, at[File])
            <4>1. PICK s, u, n : s = text[File] /\ u = text'[File] /\ n = at[File]
                OBVIOUS
            <4>2. TextOf(s) /\ TextOf(u) /\ Extends(s, u) /\ n \in Nat /\ n <= Len(s)
                BY <1>2, <1>3, <1>6, <4>1, OneRead
            <4>3. first \in Nat \ {0}
                BY <4>1, <4>2
            <4>4. SubSeq(u, first, n) = SubSeq(s, first, n)
                BY <4>2, <4>3, SubSeqStays
            <4> QED
                BY <4>1, <4>4
        <3>3. currentToken' = t /\ currentTokenVal' = val
            BY DEF Returns
        <3> QED
            BY <1>1, <1>8, <3>1, <3>2, <3>3 DEF BelongsTo
    <2>6. Values'
        BY <1>1, <1>5, <1>14, <2>5 DEF Values
    <2> QED
        BY <1>1, <1>4, <1>5, <1>7, <1>9, <1>12, <1>14, <2>1, <2>2, <2>4, <2>6
<1> QED
    BY <1>13, <1>14
\* A word, number or string ends before character c.
LEMMA EndsReads ==
    ASSUME Reader, LookingAhead, NEW c \in Upcoming, EndsToken(c)
    PROVE  /\ Reader'
           /\ InToken /\ lexing'.mode = "idle" /\ Advance(c)
           /\ Used1' = at[File]
           /\ Peeking => tokens' = tokens /\ Taken(File)' = Taken(File)
           /\ currentToken' \in Valued \cup {"keyword"}
           /\ \E val \in Seq(Char \cup {"EOF"}) :
                 Returns(currentToken', val, lexing.first, at[File])
           /\ ~Peeking => \E r \in Span : tokens'[File] = Append(tokens[File], r)
<1> USE DEF Reader
<1>1. InToken /\ Next_lastChar(c) /\ lexing.mode # "idle"
    BY DEF EndsToken, InToken
<1>2. PICK t \in Valued \cup {"keyword"}, val \in Seq(Char \cup {"EOF"}) :
         /\ Returns(t, val, lexing.first, at[File])
         /\ t \in {"identifier", "integer", "decimal"} =>
               val = lexing.val /\ lexing.mode \in {"word", "number"}
    BY DEF EndsToken
<1>3. lexing.first \in 1..at[File]
    BY <1>1 DEF Places
<1>4. ~Peeking => Taken(File) = lexing.first - 1
    BY <1>1 DEF Taken
<1>5. t \in {"identifier", "integer", "decimal"} => val = SubSeq(text[File], lexing.first, at[File])
    BY <1>2 DEF Values
<1>6. t \in Token \ {"EOF"}
    BY DEF Token, Valued
<1>7. PICK first : first = lexing.first
    OBVIOUS
<1>8. /\ Reader'
      /\ Used1' = at[File]
      /\ Peeking => tokens' = tokens /\ Taken(File)' = Taken(File)
      /\ ~Peeking => tokens'[File] = Append(tokens[File], [kind |-> t, first |-> first,
                                                            last |-> at[File]])
    BY <1>1, <1>2, <1>3, <1>4, <1>5, <1>6, <1>7, TokenReads
<1>9. currentToken' = t /\ lexing'.mode = "idle"
    BY <1>2 DEF Returns
<1>10. ~Peeking => \E r \in Span : tokens'[File] = Append(tokens[File], r)
    <2>1. first \in 1..MaxText /\ at[File] \in 1..MaxText
        <3>1. at[File] \in 0..MaxText /\ MaxText \in Nat
            BY CurrentFile, LexerAssumption DEF TypeOK
        <3> QED
            BY <1>3, <1>7, <3>1
    <2>2. [kind |-> t, first |-> first, last |-> at[File]] \in Span
        BY <1>6, <2>1 DEF Span
    <2> QED
        BY <1>8, <2>2
<1>11. Advance(c)
    BY <1>1 DEF Next_lastChar
<1> QED
    BY <1>1, <1>2, <1>8, <1>9, <1>10, <1>11

\* One character that is a token of its own.
LEMMA AnyReads ==
    ASSUME Reader, LookingAhead, AnyOther
    PROVE  /\ Reader'
           /\ lexing.mode = "begin" /\ lexing'.mode = "idle" /\ (\E c \in Upcoming : Advance(c))
           /\ lastChar \in Symbols \cup {".", "'", "backslash"}
           /\ currentToken' = lastChar
           /\ Used1 + 1 = at[File] /\ Used1 \in Nat /\ at[File] \in 1..Len(text[File])
           /\ text[File][at[File]] = lastChar
           /\ Used1' = at[File]
           /\ \E val : Returns(lastChar, val, at[File], at[File])
           /\ Peeking => tokens' = tokens /\ Taken(File)' = Taken(File)
           /\ ~Peeking => /\ Taken(File) = Used1 /\ Taken(File)' = at[File]
                          /\ \E r \in Span : /\ tokens'[File] = Append(tokens[File], r)
                                             /\ r.kind = lastChar
<1> USE DEF Reader
<1>1. lexing.mode = "begin" /\ lastChar \in Symbols \cup {".", "'", "backslash"}
    BY DEF AnyOther, In
<1>2. PICK c \in Upcoming : Next_lastChar(c)
    BY DEF AnyOther
<1>3. Returns(lastChar, currentTokenVal, at[File], at[File]) /\ Advance(c)
    BY <1>2 DEF AnyOther, Next_lastChar
<1>4. /\ lastChar \notin {"identifier", "integer", "decimal", "EOF", "NUL"}
      /\ lastChar \in Token \ {"EOF"}
    <2>1. lastChar \notin {"identifier", "integer", "decimal", "EOF", "NUL"}
        BY <1>1, CharSets
    <2> QED
        BY <1>1, <2>1 DEF Token, Special
<1>5. /\ at[File] \in 0..Len(text[File]) /\ Len(text[File]) \in Nat
      /\ at[File] >= 1 /\ text[File][at[File]] = lastChar /\ Used1 = at[File] - 1
    BY <1>1, <1>4, LastMeans
<1>6. at[File] \in 1..at[File] /\ Used1 + 1 = at[File] /\ Used1 \in Nat
      /\ at[File] \in 1..Len(text[File])
    BY <1>5
<1>7. ~Peeking => Taken(File) = at[File] - 1
    BY <1>1, <1>5 DEF Taken, Used1, InToken
<1>8. PICK t, n : t = lastChar /\ n = at[File]
    OBVIOUS
<1>9. currentTokenVal \in Seq(Char \cup {"EOF"}) /\ lexing.mode # "idle"
    BY <1>1 DEF TypeOK
<1>10. /\ t \in Token \ {"EOF"} /\ n \in 1..at[File] /\ (~Peeking => Taken(File) = n - 1)
       /\ Returns(t, currentTokenVal, n, at[File])
       /\ t \notin {"identifier", "integer", "decimal"}
    BY <1>3, <1>4, <1>6, <1>7, <1>8
<1>11. /\ Reader'
       /\ Used1' = at[File]
       /\ Peeking => tokens' = tokens /\ Taken(File)' = Taken(File)
       /\ ~Peeking => /\ tokens'[File] = Append(tokens[File], [kind |-> t, first |-> n,
                                                               last |-> at[File]])
                      /\ Taken(File)' = at[File]
    BY <1>2, <1>9, <1>10, TokenReads
<1>12. ~Peeking => \E r \in Span : /\ tokens'[File] = Append(tokens[File], r)
                                   /\ r.kind = lastChar
    <2>1. n \in 1..MaxText /\ at[File] = n
        <3>1. at[File] \in 0..MaxText /\ MaxText \in Nat
            BY CurrentFile, LexerAssumption DEF TypeOK
        <3> QED
            BY <1>6, <1>8, <3>1
    <2>2. PICK r : r = [kind |-> t, first |-> n, last |-> n]
        OBVIOUS
    <2>3. r \in Span /\ r.kind = lastChar
        BY <1>8, <1>10, <2>1, <2>2 DEF Span
    <2> QED
        BY <1>11, <2>1, <2>2, <2>3
<1>13. currentToken' = lastChar /\ lexing'.mode = "idle"
    BY <1>3 DEF Returns
<1> QED
    BY <1>1, <1>2, <1>3, <1>5, <1>6, <1>7, <1>11, <1>12, <1>13

\* The end of the file.
LEMMA EofReads ==
    ASSUME Reader, LookingAhead, EndOfFile
    PROVE  /\ Reader'
           /\ lexing.mode = "begin" /\ lexing'.mode = "idle" /\ UNCHANGED <<text, at>>
           /\ currentToken' = "EOF"
           /\ Used1 + 1 \in 1..Len(text[File]) /\ text[File][Used1 + 1] = "EOF"
           /\ Used1' = Used1 /\ tokens' = tokens /\ Taken(File)' = Taken(File)
           /\ Returns("EOF", currentTokenVal, 0, 0)
<1> USE DEF Reader
<1>1. /\ lexing.mode = "begin" /\ lastChar = "EOF" /\ UNCHANGED source
      /\ UNCHANGED <<text, at, lastChars>> /\ lexing.mode # "idle" /\ lexing.mode # "string"
    BY DEF EndOfFile, In, source
<1>2. Returns("EOF", currentTokenVal, 0, 0)
    BY DEF EndOfFile
<1>3. /\ Saved' /\ Len(saved') <= 1 /\ (Peeking' <=> Peeking) /\ (Peeking => Before' = Before)
      /\ File' = File /\ UNCHANGED <<operator, path, files, searched, status>>
    BY <1>1, <1>2, ReturnsSaved
<1>4. Sources' /\ SourceTypes'
    BY <1>1, QuietKeepsSources
<1>5. tokens' = tokens /\ currentToken' = "EOF" /\ lexing'.mode = "idle"
    BY <1>2 DEF Returns
<1>6. TypeOK'
    <2>1. "EOF" \in Token /\ currentTokenVal \in Seq(Char \cup {"EOF"})
        BY DEF TypeOK, Token
    <2>2. tokens' \in [Files -> Seq(Span)]
        BY <1>5 DEF TypeOK, Span
    <2> QED
        BY <1>2, <1>3, <1>4, <2>1, <2>2, ReturnsTypes
<1>7. ~InToken /\ ~InToken' /\ Places'
    BY <1>1, <1>5 DEF InToken, Places
<1>8. File \in Files /\ Used1' = Used1 /\ Taken(File)' = Taken(File)
    BY <1>1, <1>3, <1>7, CurrentFile DEF Used1, Taken
<1>9. Covered'
    <2>1. Covers(tokens'[File], Taken(File)', text'[File])
        BY <1>1, <1>5, <1>8 DEF Covered
    <2> QED
        BY <1>1, <1>3, <1>5, <2>1, OthersCovered
<1>10. Values'
    <2>1. ASSUME Peeking
          PROVE  BelongsTo(tokens'[File'], text'[File'], Before'.currentToken, Before'.currentTokenVal)
        BY <1>1, <1>3, <1>5, <2>1, SavedValue
    <2>2. BelongsTo(tokens'[File'], text'[File'], currentToken', currentTokenVal')
        BY <1>5 DEF BelongsTo
    <2> QED
        BY <1>3, <1>5, <2>1, <2>2 DEF Values
<1>11. Used1 + 1 \in 1..Len(text[File]) /\ text[File][Used1 + 1] = "EOF"
    BY <1>1, LastMeans
<1> QED
    BY <1>1, <1>2, <1>3, <1>4, <1>5, <1>6, <1>7, <1>8, <1>9, <1>10, <1>11-----------------------------------------------------------------------------
(* What the steps of get_token() keep of the operator looked for *)

LEMMA TextGrows ==
    ASSUME TypeOK, Sources, (\E c \in Upcoming : Advance(c)) \/ UNCHANGED text
    PROVE  /\ TextOf(text[File]) /\ TextOf(text'[File]) /\ Extends(text[File], text'[File])
           /\ Len(text[File]) \in Nat /\ Len(text'[File]) \in Nat
           /\ Len(text[File]) <= Len(text'[File])
<1>1. File \in Files /\ TextOf(text[File])
    BY CurrentFile DEF Sources
<1>2. TextOf(text'[File]) /\ Extends(text[File], text'[File])
    <2>1. CASE UNCHANGED text
        BY <1>1, <2>1 DEF Extends, TextOf
    <2>2. ASSUME NEW c \in Upcoming, Advance(c)
          PROVE  TextOf(text'[File]) /\ Extends(text[File], text'[File])
        BY <1>1, <2>2, OneRead
    <2> QED
        BY <2>1, <2>2
<1> QED
    BY <1>1, <1>2 DEF TextOf, Extends

LEMMA OpTyped ==
    ASSUME TypeOK
    PROVE  /\ operator.op \in Seq(Symbols \cup {"."}) /\ Len(operator.op) \in Nat
           /\ operator.first \in Nat /\ operator.left \in Nat
           /\ \A i \in 1..Len(operator.op) :
                 operator.op[i] \notin Letters \cup Digits \cup {"nl", "quote", "EOF"}
<1>1. /\ operator.op \in Seq(Symbols \cup {"."})
      /\ operator.first \in 0..MaxText
      /\ operator.left \in 0..(IF MaxAsks < 2 THEN 3 ELSE MaxAsks + 1)
    BY DEF TypeOK
<1>2. MaxText \in Nat /\ MaxAsks \in Nat
    BY LexerAssumption
<1>3. ASSUME NEW i \in 1..Len(operator.op)
      PROVE  operator.op[i] \notin Letters \cup Digits \cup {"nl", "quote", "EOF"}
    <2>1. operator.op[i] \in Symbols \cup {"."}
        BY <1>1, ElementOfSeq
    <2> QED
        BY <2>1, CharSets
<1> QED
    BY <1>1, <1>2, <1>3

LEMMA OperatorStays ==
    ASSUME Reader, OperatorShape, Foreseen, Reading, lexing.mode # "idle",
           UNCHANGED <<operator, path>>, File' = File, Peeking' <=> Peeking,
           Peeking => tokens' = tokens /\ Taken(File)' = Taken(File),
           (\E c \in Upcoming : Advance(c)) \/ UNCHANGED <<text, at>>
    PROVE  OperatorShape' /\ Foreseen'
<1> USE DEF Reader
<1>1. OperatorShape'
    BY DEF OperatorShape, Asking
<1>2. ASSUME Asking PROVE Foreseen'
    <2>1. Peeking
        BY <1>2 DEF OperatorShape
    <2>2. PICK s, t, a : s = text[File] /\ t = text'[File] /\ a = Taken(File)
        OBVIOUS
    <2>3. TextOf(s) /\ TextOf(t) /\ Extends(s, t)
        BY <2>2, TextGrows
    <2>4. a \in Nat
        BY <2>2, CurrentFile, TakenRange
    <2>5. Ahead(s, a, operator.op, 2)
        BY <1>2, <2>2 DEF Foreseen
    <2>6. Ahead(t, a, operator.op, 2)
        BY <2>3, <2>4, <2>5, AheadStays
    <2> QED
        BY <1>2, <2>1, <2>2, <2>6 DEF Foreseen, Asking
<1>3. ~Asking => Foreseen'
    BY DEF Foreseen, Asking
<1> QED
    BY <1>1, <1>2, <1>3

\* It is enough that LooksAt() holds again, for the same operator.
LEMMA LooksOn ==
    ASSUME Reader, LookingAhead, Peeking, Peeking', UNCHANGED operator, File' = File,
           Taken(File)' = Taken(File), (\E c \in Upcoming : Advance(c)) \/ UNCHANGED <<text, at>>,
           saved'[1].left \in {saved[1].left, saved[1].left - 1},
           \A b \in 0..Len(text[File]) :
               /\ LooksAt(text[File], Taken(File), b, Used1, saved[1].left, lexing.mode,
                          currentToken)
               /\ saved[1].left = 2 => Finds(text[File], Taken(File), operator.op[1], b)
               => LooksAt(text'[File], Taken(File), b, Used1', saved'[1].left, lexing'.mode,
                          currentToken')
    PROVE  LookingAhead'
<1> USE DEF Reader
<1>1. PICK b \in 0..Len(text[File]) :
         /\ LooksAt(text[File], Taken(File), b, Used1, saved[1].left, lexing.mode, currentToken)
         /\ IF operator.step = "third"
            THEN Finds(text[File], Taken(File), operator.op[1], b)
            ELSE b = Taken(File) /\ saved[1].left < 2
    BY DEF LookingAhead
<1>2. saved[1].left \in 0..2
    BY SavedIs
<1>3. saved[1].left = 2 => Finds(text[File], Taken(File), operator.op[1], b)
    BY <1>1
<1>4. LooksAt(text'[File], Taken(File), b, Used1', saved'[1].left, lexing'.mode, currentToken')
    BY <1>1, <1>3
<1>5. b \in 0..Len(text'[File])
    BY <1>1, TextGrows
<1>6. ASSUME operator.step = "third"
      PROVE  Finds(text'[File], Taken(File), operator.op[1], b)
    <2>1. PICK s, t, a, x : s = text[File] /\ t = text'[File] /\ a = Taken(File) /\ x = operator.op[1]
        OBVIOUS
    <2>2. TextOf(s) /\ TextOf(t) /\ Extends(s, t)
        BY <2>1, TextGrows
    <2>3. a \in Nat
        BY <2>1, CurrentFile, TakenRange
    <2>4. Finds(s, a, x, b)
        BY <1>1, <1>6, <2>1
    <2>5. Finds(t, a, x, b)
        BY <2>2, <2>3, <2>4, FindsStays
    <2> QED
        BY <2>1, <2>5
<1>7. operator.step # "third" => b = Taken(File) /\ saved'[1].left < 2
    BY <1>1, <1>2
<1>8. \E d \in 0..Len(text'[File]) :
         /\ LooksAt(text'[File], Taken(File), d, Used1', saved'[1].left, lexing'.mode, currentToken')
         /\ IF operator.step = "third"
            THEN Finds(text'[File], Taken(File), operator.op[1], d)
            ELSE d = Taken(File) /\ saved'[1].left < 2
    BY <1>4, <1>5, <1>6, <1>7
<1> QED
    BY <1>8 DEF LookingAhead
-----------------------------------------------------------------------------
(* Looking at the tokens one by one *)

LEMMA LooksSkips ==
    ASSUME NEW s, NEW t, TextOf(s), TextOf(t), Extends(s, t), NEW a \in Nat, NEW b \in Nat,
           NEW u \in Nat, NEW v \in Nat, v <= Len(s), u <= Len(s),
           v = u \/ (v = u + 1 /\ s[u + 1] = "nl"),
           NEW n \in 0..2, NEW x, NEW y, LooksAt(s, a, b, u, n, "begin", x)
    PROVE  LooksAt(t, a, b, v, n, "begin", y)
<1>1. ASSUME n = 0 PROVE FALSE
    <2>1. LooksAt(s, a, b, u, 0, "begin", x)
        BY <1>1
    <2> QED
        BY <2>1 DEF LooksAt
<1>2. ASSUME NEW d \in Nat, d <= u, Blank(s, d, u)
      PROVE  d <= v /\ Blank(t, d, v)
    <2>1. Blank(s, d, v)
        BY <1>2, BlankNext
    <2> QED
        BY <1>2, <2>1, BlankStays
<1>3. CASE n = 2
    BY <1>2, <1>3 DEF LooksAt
<1>4. CASE n = 1
    BY <1>2, <1>4 DEF LooksAt
<1> QED
    BY <1>1, <1>3, <1>4

LEMMA LooksInToken ==
    ASSUME NEW s, NEW a, NEW b, NEW u, NEW n \in 0..2, NEW m, m \notin {"idle", "begin"}, NEW y,
           LooksAt(s, a, b, u, n, m, y)
    PROVE  n = 1
<1>1. ASSUME n = 0 PROVE FALSE
    BY <1>1 DEF LooksAt
<1>2. ASSUME n = 2 PROVE FALSE
    BY <1>2 DEF LooksAt
<1> QED
    BY <1>1, <1>2

\* The next token begins with the character at u + 1.
LEMMA LooksHere ==
    ASSUME NEW s, TextOf(s), NEW a \in Nat, NEW b \in Nat, NEW u \in Nat, u + 1 \in 1..Len(s),
           s[u + 1] # "nl", NEW x, x # "nl", NEW y, LooksAt(s, a, b, u, 2, "begin", y),
           Finds(s, a, x, b)
    PROVE  b = u + 1 /\ s[u + 1] = x
<1>1. a <= u /\ Blank(s, a, u)
    BY DEF LooksAt
<1>2. Finds(s, u, x, b)
    BY <1>1, FindsBeyond
<1> QED
    BY <1>2, FindsHere

LEMMA LooksOther ==
    ASSUME NEW s, NEW t, TextOf(s), TextOf(t), Extends(s, t), NEW a \in Nat, NEW b \in Nat,
           NEW u \in Nat, u + 1 \in 1..Len(s), s[u + 1] # "nl",
           NEW n \in 1..2, NEW x, x # "nl", NEW y, LooksAt(s, a, b, u, n, "begin", y),
           n = 2 => Finds(s, a, x, b)
    PROVE  LooksAt(t, a, b, u + 1, n - 1, "idle", s[u + 1])
<1>1. CASE n = 2
    <2>1. b = u + 1
        BY <1>1, LooksHere
    <2> QED
        BY <1>1, <2>1 DEF LooksAt
<1>2. CASE n = 1
    <2>1. b <= u /\ Blank(s, b, u)
        BY <1>2 DEF LooksAt
    <2>2. Finds(s, b, s[u + 1], u + 1)
        BY <2>1, HereFinds
    <2>3. Finds(t, b, s[u + 1], u + 1)
        BY <2>2, FindsStays
    <2> QED
        BY <1>2, <2>3 DEF LooksAt
<1> QED
    BY <1>1, <1>2
-----------------------------------------------------------------------------
(* The lengths of operators *)

LEMMA OperatorLengths ==
    /\ \A op \in Ones : Len(op) = 1
    /\ \A op \in Twos : Len(op) = 2
    /\ \A op \in Threes : Len(op) = 3
<1>1. \A op \in Ones : Len(op) = 1
    BY DEF Ones
<1>2. \A op \in Twos : Len(op) = 2
    BY DEF Twos
<1>3. \A op \in Threes : Len(op) = 3
    BY DEF Threes
<1> QED
    BY <1>1, <1>2, <1>3
-----------------------------------------------------------------------------
(* The steps of get_token() keep the invariant *)

\* Looking ahead is over before an operator is taken.
LEMMA NotWhileTaken == Saved /\ operator.step = "advance" => ~Peeking
    BY DEF Saved

LEMMA OperatorSeen ==
    ASSUME Saved, OperatorShape, Peeking
    PROVE  Len(operator.op) >= 1
<1>1. operator.step \in {"double", "third", "equal"}
    BY DEF Saved
<1>2. /\ operator.step = "double" => \E c \in Double : operator.op = <<c>>
      /\ operator.step = "equal" => \E c \in Double \cup Equal : operator.op = <<c>>
      /\ operator.step = "third" => \E c \in Third : operator.op = <<c, c>>
    BY DEF OperatorShape
<1>3. ASSUME NEW c PROVE Len(<<c>>) = 1 /\ Len(<<c, c>>) = 2
    OBVIOUS
<1>4. PICK c : operator.op = <<c>> \/ operator.op = <<c, c>>
    BY <1>1, <1>2
<1>5. CASE operator.op = <<c>>
    BY <1>3, <1>5
<1>6. CASE operator.op = <<c, c>>
    BY <1>3, <1>6
<1> QED
    BY <1>4, <1>5, <1>6

LEMMA SkipsKeeps ==
    ASSUME Inv, Skips
    PROVE  Inv'
<1> USE DEF Inv
<1>1. /\ lexing.mode = "begin" /\ lexing' = lexing /\ Kept /\ Reading
      /\ lastChar \in {"NUL", "nl"} /\ lexing.mode # "string" /\ lexing.mode # "idle"
    BY DEF Skips, In
<1>2. PICK c \in Upcoming : Next_lastChar(c)
    BY DEF Skips
<1>3. Advance(c)
    BY <1>2 DEF Next_lastChar
<1>4. Reader /\ Reader'
    BY SkipsReads DEF Reader
<1>5. /\ File' = File /\ tokens' = tokens /\ (Peeking' <=> Peeking) /\ Before' = Before
      /\ UNCHANGED <<operator, path, saved, currentToken>> /\ saved' = saved /\ operator' = operator
    BY <1>1, KeptFile DEF Kept
<1>6. Used1' = at[File] /\ at[File] \in Nat
    BY <1>2, <1>5, UsedAfter
<1>7. ~InToken /\ ~InToken'
    BY <1>1 DEF InToken
<1>8. /\ Peeking => Taken(File)' = Taken(File)
      /\ ~Peeking => Taken(File) = Used1 /\ Taken(File)' = at[File]
    <2>1. Peeking => Taken(File)' = Taken(File)
        BY <1>5 DEF Taken
    <2>2. ~Peeking => Taken(File) = Used1 /\ Taken(File)' = Used1'
        BY <1>5, <1>7 DEF Taken, Used1
    <2> QED
        BY <1>6, <2>1, <2>2
<1>9. /\ Used1 \in Nat /\ Used1 <= at[File] /\ at[File] <= Len(text[File])
      /\ at[File] = Used1 \/ (at[File] = Used1 + 1 /\ text[File][Used1 + 1] = "nl")
    <2>1. /\ lastChar = "NUL" => at[File] = 0 /\ Used1 = 0
          /\ lastChar = "nl" => at[File] >= 1 /\ text[File][at[File]] = "nl" /\ Used1 = at[File] - 1
          /\ Used1 \in 0..at[File] /\ at[File] \in 0..Len(text[File]) /\ Len(text[File]) \in Nat
        BY <1>1, LastMeans
    <2> QED
        BY <1>1, <2>1
<1>10. /\ TextOf(text[File]) /\ TextOf(text'[File]) /\ Extends(text[File], text'[File])
       /\ Len(text[File]) \in Nat
    BY <1>3, TextGrows
<1>11. Taken(File) \in Nat
    BY CurrentFile, TakenRange
<1>12. OperatorShape' /\ Foreseen'
    BY <1>1, <1>3, <1>4, <1>5, <1>8, OperatorStays
<1>13. LookingAhead'
    <2>1. CASE ~Peeking
        BY <1>5, <2>1 DEF LookingAhead
    <2>2. CASE Peeking
        <3>1. saved[1].left \in 0..2 /\ saved'[1].left = saved[1].left
            BY <1>5, <2>2, SavedIs
        <3>2. ASSUME NEW b \in 0..Len(text[File]),
                     LooksAt(text[File], Taken(File), b, Used1, saved[1].left, lexing.mode,
                             currentToken)
              PROVE  LooksAt(text'[File], Taken(File), b, Used1', saved'[1].left, lexing'.mode,
                             currentToken')
            <4>1. PICK s, t, a, u, v, n, x :
                     /\ s = text[File] /\ t = text'[File] /\ a = Taken(File) /\ u = Used1
                     /\ v = at[File] /\ n = saved[1].left /\ x = currentToken
                OBVIOUS
            <4>2. LooksAt(s, a, b, u, n, "begin", x)
                BY <1>1, <3>2, <4>1
            <4>3. /\ TextOf(s) /\ TextOf(t) /\ Extends(s, t) /\ a \in Nat /\ b \in Nat
                  /\ u \in Nat /\ v \in Nat /\ v <= Len(s) /\ u <= Len(s) /\ n \in 0..2
                  /\ v = u \/ (v = u + 1 /\ s[u + 1] = "nl")
                BY <1>6, <1>9, <1>10, <1>11, <3>1, <3>2, <4>1
            <4>4. LooksAt(t, a, b, v, n, "begin", x)
                BY <4>2, <4>3, LooksSkips
            <4> QED
                BY <1>1, <1>5, <1>6, <3>1, <4>1, <4>4
        <3> QED
            BY <1>3, <1>4, <1>5, <1>8, <2>2, <3>1, <3>2, LooksOn
    <2> QED
        BY <2>1, <2>2
<1>14. Advanced'
    <2>1. SUFFICES ASSUME operator.step = "advance" PROVE Advanced'
        BY <1>5 DEF Advanced
    <2>2. ~Peeking /\ Done' = Done
        BY <1>1, <1>5, <2>1, NotWhileTaken DEF Done
    <2>3. Ahead(text'[File], at[File], operator.op, Done + 2)
        <3>1. PICK s, t, u, v, w, k : /\ s = text[File] /\ t = text'[File] /\ u = Used1
                                      /\ v = at[File] /\ w = operator.op /\ k = Done + 2
            OBVIOUS
        <3>2. Ahead(s, u, w, k)
            BY <1>8, <2>1, <2>2, <3>1 DEF Advanced
        <3>3. k <= Len(w) => w[k] # "nl"
            <4>1. k \in Nat \ {0} /\ Len(w) \in Nat
                <5>1. Done >= 0 /\ Done \in Int
                    BY <2>1, OpTyped DEF Advanced, Done
                <5> QED
                    BY <3>1, <5>1, OpTyped
            <4>2. k <= Len(w) => k \in 1..Len(w)
                BY <4>1
            <4>3. \A i \in 1..Len(w) : w[i] # "nl"
                BY <3>1, OpTyped
            <4> QED
                BY <4>2, <4>3
        <3>4. Ahead(s, v, w, k)
            <4>1. CASE v = u
                BY <3>2, <4>1
            <4>2. CASE v = u + 1 /\ s[u + 1] = "nl"
                BY <1>9, <1>10, <3>1, <3>2, <3>3, <4>2, AheadBeyond
            <4> QED
                BY <1>9, <3>1, <4>1, <4>2
        <3>5. Ahead(t, v, w, k)
            BY <1>6, <1>10, <3>1, <3>4, AheadStays
        <3> QED
            BY <3>1, <3>5
    <2>4. Ahead(text'[File'], Taken(File)', operator'.op, Done' + 2)
        BY <1>5, <1>8, <2>2, <2>3
    <2> QED
        BY <1>1, <1>5, <1>7, <2>1, <2>2, <2>4 DEF Advanced
<1> QED
    BY <1>4, <1>12, <1>13, <1>14 DEF Reader

LEMMA BeginsKeeps ==
    ASSUME Inv, Begins
    PROVE  Inv'
<1> USE DEF Inv
<1>1. /\ lexing.mode = "begin" /\ Kept /\ Reading /\ lexing'.mode \in InTokenModes
      /\ lastChar \in Letters \cup Digits \cup {"quote"} /\ UNCHANGED <<text, at, lastChars>>
      /\ lexing.mode # "string" /\ lexing.mode # "idle"
    BY DEF Begins, In, source
<1>2. Reader /\ Reader' /\ InToken' /\ Taken(File)' = Taken(File)
    BY BeginsReads DEF Reader
<1>3. /\ File' = File /\ tokens' = tokens /\ (Peeking' <=> Peeking) /\ Before' = Before
      /\ UNCHANGED <<operator, path, saved, currentToken>> /\ saved' = saved /\ operator' = operator
    BY <1>1, KeptFile DEF Kept
<1>4. Used1' = Used1
    BY <1>1, <1>3 DEF Used1
<1>5. ~InToken
    BY <1>1 DEF InToken
<1>6. /\ Used1 \in Nat /\ Used1 + 1 = at[File] /\ at[File] \in 1..Len(text[File])
      /\ text[File][Used1 + 1] = lastChar /\ lastChar # "nl"
    <2>1. lastChar \notin {"NUL", "EOF", "nl"}
        BY <1>1, CharSets
    <2>2. /\ at[File] >= 1 /\ text[File][at[File]] = lastChar /\ Used1 = at[File] - 1
          /\ at[File] \in 0..Len(text[File]) /\ Len(text[File]) \in Nat
        BY <1>1, <2>1, LastMeans
    <2> QED
        BY <2>1, <2>2
<1>7. TextOf(text[File]) /\ Len(text[File]) \in Nat
    BY <1>1, TextGrows
<1>8. Taken(File) \in Nat
    BY CurrentFile, TakenRange
<1>9. \A i \in 1..Len(operator.op) : operator.op[i] # lastChar /\ operator.op[i] # "nl"
    BY <1>1, OpTyped
<1>10. OperatorShape' /\ Foreseen'
    BY <1>1, <1>2, <1>3, OperatorStays
<1>11. LookingAhead'
    <2>1. CASE ~Peeking
        BY <1>3, <2>1 DEF LookingAhead
    <2>2. CASE Peeking
        <3>1. saved[1].left \in 0..2 /\ saved'[1].left = saved[1].left
            BY <1>3, <2>2, SavedIs
        <3>2. Len(operator.op) >= 1
            BY <2>2, OperatorSeen
        <3>3. operator.op[1] # lastChar /\ operator.op[1] # "nl"
            BY <1>9, <3>2, OpTyped
        <3>4. ASSUME NEW b \in 0..Len(text[File]),
                     LooksAt(text[File], Taken(File), b, Used1, saved[1].left, lexing.mode,
                             currentToken),
                     saved[1].left = 2 => Finds(text[File], Taken(File), operator.op[1], b)
              PROVE  LooksAt(text'[File], Taken(File), b, Used1', saved'[1].left, lexing'.mode,
                             currentToken')
            <4>1. PICK s, a, u, n, x, w :
                     /\ s = text[File] /\ a = Taken(File) /\ u = Used1
                     /\ n = saved[1].left /\ x = currentToken /\ w = operator.op[1]
                OBVIOUS
            <4>2. LooksAt(s, a, b, u, n, "begin", x)
                BY <1>1, <3>4, <4>1
            <4>3. n # 2
                <5>1. SUFFICES ASSUME n = 2 PROVE FALSE
                    OBVIOUS
                <5>2. /\ TextOf(s) /\ a \in Nat /\ b \in Nat /\ u \in Nat /\ u + 1 \in 1..Len(s)
                      /\ s[u + 1] # "nl" /\ w # "nl" /\ s[u + 1] # w /\ Finds(s, a, w, b)
                    BY <1>6, <1>7, <1>8, <3>3, <3>4, <4>1, <5>1
                <5>3. LooksAt(s, a, b, u, 2, "begin", x)
                    BY <4>2, <5>1
                <5> QED
                    BY <5>2, <5>3, LooksHere
            <4>4. n # 0
                <5>1. SUFFICES ASSUME n = 0 PROVE FALSE
                    OBVIOUS
                <5>2. LooksAt(s, a, b, u, 0, "begin", x)
                    BY <4>2, <5>1
                <5> QED
                    BY <5>2 DEF LooksAt
            <4>5. saved'[1].left = 1
                BY <3>1, <4>1, <4>3, <4>4
            <4> QED
                BY <1>1, <4>5 DEF LooksAt, InTokenModes
        <3> QED
            BY <1>1, <1>2, <1>3, <2>2, <3>1, <3>4, LooksOn
    <2> QED
        BY <2>1, <2>2
<1>12. Advanced'
    <2>1. SUFFICES ASSUME operator.step = "advance" PROVE Advanced'
        BY <1>3 DEF Advanced
    <2>2. ~Peeking /\ Taken(File) = Used1
        BY <1>5, <2>1, NotWhileTaken DEF Taken, Used1
    <2>3. Done' = Done
        BY <1>1, <1>3 DEF Done, InTokenModes
    <2>4. Done \in Nat /\ operator.left = Len(operator.op) - Done - 1
        BY <1>1, <2>1, OpTyped DEF Done, Advanced
    <2>5. ~(Done + 2 <= Len(operator.op))
        <3>1. SUFFICES ASSUME Done + 2 <= Len(operator.op) PROVE FALSE
            OBVIOUS
        <3>2. PICK s, u, w, k : s = text[File] /\ u = Used1 /\ w = operator.op /\ k = Done + 2
            OBVIOUS
        <3>3. Ahead(s, u, w, k) /\ k \in 1..Len(w)
            BY <2>1, <2>2, <2>4, <3>1, <3>2, OpTyped DEF Advanced
        <3>4. PICK b \in 1..Len(s) : Finds(s, u, w[k], b)
            BY <3>3, OpTyped DEF Ahead
        <3>5. s[u + 1] = w[k]
            BY <1>6, <1>7, <3>2, <3>4, FindsHere
        <3> QED
            BY <1>6, <1>9, <3>2, <3>3, <3>5
    <2>6. operator.left = 0
        BY <2>4, <2>5, OpTyped
    <2>7. lexing'.mode # "idle" /\ lexing.mode # "idle"
        BY <1>1 DEF InTokenModes
    <2>8. Ahead(text'[File'], Taken(File)', operator'.op, Done' + 2)
        BY <1>1, <1>2, <1>3, <2>1, <2>3 DEF Advanced
    <2> QED
        BY <1>3, <2>1, <2>3, <2>6, <2>7, <2>8 DEF Advanced
<1> QED
    BY <1>2, <1>10, <1>11, <1>12 DEF Reader
LEMMA GoesOnKeeps ==
    ASSUME Inv, NEW c \in Upcoming, GoesOn(c)
    PROVE  Inv'
<1> USE DEF Inv
<1>1. /\ InToken /\ Kept /\ Reading /\ Advance(c) /\ lexing'.mode \in InTokenModes
      /\ lexing.mode # "idle" /\ lexing.mode # "begin"
    BY DEF GoesOn, InToken
<1>2. Reader /\ Reader' /\ InToken' /\ Taken(File)' = Taken(File)
    BY GoesOnReads DEF Reader
<1>3. /\ File' = File /\ tokens' = tokens /\ (Peeking' <=> Peeking) /\ Before' = Before
      /\ UNCHANGED <<operator, path, saved, currentToken>> /\ saved' = saved /\ operator' = operator
    BY <1>1, KeptFile DEF Kept
<1>4. OperatorShape' /\ Foreseen'
    BY <1>1, <1>2, <1>3, OperatorStays
<1>5. LookingAhead'
    <2>1. CASE ~Peeking
        BY <1>3, <2>1 DEF LookingAhead
    <2>2. CASE Peeking
        <3>1. saved[1].left \in 0..2 /\ saved'[1].left = saved[1].left
            BY <1>3, <2>2, SavedIs
        <3>2. ASSUME NEW b \in 0..Len(text[File]),
                     LooksAt(text[File], Taken(File), b, Used1, saved[1].left, lexing.mode,
                             currentToken)
              PROVE  LooksAt(text'[File], Taken(File), b, Used1', saved'[1].left, lexing'.mode,
                             currentToken')
            <4>1. saved[1].left = 1
                BY <1>1, <3>1, <3>2, LooksInToken
            <4> QED
                BY <1>1, <3>1, <4>1 DEF LooksAt, InTokenModes
        <3> QED
            BY <1>1, <1>2, <1>3, <2>2, <3>1, <3>2, LooksOn
    <2> QED
        BY <2>1, <2>2
<1>6. Advanced'
    <2>1. SUFFICES ASSUME operator.step = "advance" PROVE Advanced'
        BY <1>3 DEF Advanced
    <2>2. Done' = Done
        BY <1>1, <1>3 DEF Done, InTokenModes
    <2>3. operator.left = 0 /\ lexing'.mode # "idle"
        BY <1>1, <2>1 DEF Advanced, InTokenModes
    <2>4. Ahead(text'[File], Taken(File), operator.op, Done + 2)
        <3>1. PICK s, t, u, w, k : /\ s = text[File] /\ t = text'[File] /\ u = Taken(File)
                                   /\ w = operator.op /\ k = Done + 2
            OBVIOUS
        <3>2. Ahead(s, u, w, k)
            BY <2>1, <3>1 DEF Advanced
        <3>3. TextOf(s) /\ TextOf(t) /\ Extends(s, t)
            BY <1>1, <3>1, TextGrows
        <3>4. u \in Nat
            BY <3>1, CurrentFile, TakenRange
        <3>5. Ahead(t, u, w, k)
            BY <3>2, <3>3, <3>4, AheadStays
        <3> QED
            BY <3>1, <3>5
    <2>5. Ahead(text'[File'], Taken(File)', operator'.op, Done' + 2)
        BY <1>2, <1>3, <2>2, <2>4
    <2> QED
        BY <1>1, <1>3, <2>1, <2>2, <2>3, <2>5 DEF Advanced
<1> QED
    BY <1>2, <1>4, <1>5, <1>6 DEF Reader

LEMMA EndsKeeps ==
    ASSUME Inv, NEW c \in Upcoming, EndsToken(c)
    PROVE  Inv'
<1> USE DEF Inv
<1>1. /\ Reader /\ Reader' /\ InToken /\ lexing'.mode = "idle" /\ Advance(c) /\ Reading
      /\ Peeking => tokens' = tokens /\ Taken(File)' = Taken(File)
      /\ currentToken' \in Valued \cup {"keyword"}
      /\ ~Peeking => \E r \in Span : tokens'[File] = Append(tokens[File], r)
    BY EndsReads DEF Reader, EndsToken
<1>2. PICK val \in Seq(Char \cup {"EOF"}) : Returns(currentToken', val, lexing.first, at[File])
    BY EndsReads DEF Reader
<1>3. lexing.mode # "idle" /\ lexing.mode # "begin"
    BY <1>1 DEF InToken
<1>4. /\ Peeking' <=> Peeking
      /\ Peeking => saved[1].left \in 1..2 /\ saved'[1].left = saved[1].left - 1
      /\ File' = File /\ UNCHANGED <<operator, path>> /\ operator' = operator
    BY <1>1, <1>2, <1>3, ReturnsSaved
<1>5. OperatorShape' /\ Foreseen'
    BY <1>1, <1>3, <1>4, OperatorStays
<1>6. LookingAhead'
    <2>1. CASE ~Peeking
        BY <1>4, <2>1 DEF LookingAhead
    <2>2. CASE Peeking
        <3>1. currentToken' \notin Symbols
            BY <1>1, CharSets DEF Valued
        <3>2. ASSUME NEW b \in 0..Len(text[File]),
                     LooksAt(text[File], Taken(File), b, Used1, saved[1].left, lexing.mode,
                             currentToken)
              PROVE  LooksAt(text'[File], Taken(File), b, Used1', saved'[1].left, lexing'.mode,
                             currentToken')
            <4>1. saved[1].left = 1
                BY <1>3, <1>4, <2>2, <3>2, LooksInToken
            <4>2. saved'[1].left = 0
                BY <1>4, <2>2, <4>1
            <4> QED
                BY <1>1, <3>1, <4>2 DEF LooksAt
        <3> QED
            BY <1>1, <1>4, <2>2, <3>2, LooksOn
    <2> QED
        BY <2>1, <2>2
<1>7. Advanced'
    <2>1. SUFFICES ASSUME operator.step = "advance" PROVE Advanced'
        BY <1>4 DEF Advanced
    <2>2. ~Peeking
        BY <2>1, NotWhileTaken
    <2>3. operator.left = 0 /\ Done = Len(operator.op) - 1 /\ Done' = Len(operator.op)
          /\ Len(operator.op) \in Nat /\ operator.first \in Nat /\ operator.first >= 1 /\ Done >= 0
        <3>1. operator.left = 0 /\ operator.first >= 1 /\ Done >= 0
            BY <1>1, <2>1 DEF Advanced
        <3> QED
            BY <1>1, <1>3, <1>4, <3>1, OpTyped DEF Done
    <2>4. PICK r \in Span : tokens'[File] = Append(tokens[File], r)
        BY <1>1, <2>2
    <2>5. tokens[File] \in Seq(Span) /\ Len(tokens[File]) = operator.first + Done
        BY <1>3, <2>1, CurrentFile, SpanTyped DEF Advanced
    <2>6. /\ Len(tokens'[File]) = operator.first + Done'
          /\ \A i \in 1..Len(tokens[File]) : tokens'[File][i] = tokens[File][i]
        <3>1. /\ Len(Append(tokens[File], r)) = Len(tokens[File]) + 1
              /\ \A i \in 1..Len(tokens[File]) : Append(tokens[File], r)[i] = tokens[File][i]
            BY <2>5, AppendProperties
        <3> QED
            BY <2>3, <2>4, <2>5, <3>1
    <2>7. ASSUME NEW i \in 1..Len(operator.op)
          PROVE  tokens'[File][operator.first + i - 1].kind = operator.op[i]
        <3>1. tokens[File][operator.first + i - 1].kind = operator.op[i]
            BY <2>1, <2>3 DEF Advanced
        <3>2. operator.first + i - 1 \in 1..Len(tokens[File])
            BY <2>3, <2>5
        <3> QED
            BY <2>6, <3>1, <3>2
    <2>8. Ahead(text'[File'], Taken(File)', operator'.op, Done' + 2)
        <3>1. ~(Done' + 2 <= Len(operator'.op))
            BY <1>4, <2>3
        <3> QED
            BY <3>1 DEF Ahead
    <2>9. Done' >= 0 /\ ~InToken' /\ currentToken' # "EOF"
        BY <1>1, <2>3, CharSets DEF InToken, Valued
    <2> QED
        BY <1>4, <2>1, <2>3, <2>6, <2>7, <2>8, <2>9 DEF Advanced
<1> QED
    BY <1>1, <1>5, <1>6, <1>7 DEF Reader
LEMMA OtherKeeps ==
    ASSUME Inv, AnyOther
    PROVE  Inv'
<1> USE DEF Inv
<1>1. /\ Reader /\ Reader' /\ lexing.mode = "begin" /\ lexing'.mode = "idle"
      /\ \E c \in Upcoming : Advance(c)
      /\ lastChar \in Symbols \cup {".", "'", "backslash"} /\ currentToken' = lastChar
      /\ Used1 + 1 = at[File] /\ Used1 \in Nat /\ at[File] \in 1..Len(text[File])
      /\ text[File][at[File]] = lastChar
      /\ Used1' = at[File]
      /\ Peeking => tokens' = tokens /\ Taken(File)' = Taken(File)
      /\ ~Peeking => /\ Taken(File) = Used1 /\ Taken(File)' = at[File]
                     /\ \E r \in Span : /\ tokens'[File] = Append(tokens[File], r)
                                        /\ r.kind = lastChar
    BY AnyReads DEF Reader
<1>2. PICK val : Returns(lastChar, val, at[File], at[File])
    BY AnyReads DEF Reader
<1>3. Reading /\ lexing.mode # "idle" /\ ~InToken /\ ~InToken'
    BY <1>1 DEF AnyOther, In, InToken
<1>4. /\ Peeking' <=> Peeking
      /\ Peeking => saved[1].left \in 1..2 /\ saved'[1].left = saved[1].left - 1
      /\ File' = File /\ UNCHANGED <<operator, path>> /\ operator' = operator
    BY <1>1, <1>2, <1>3, ReturnsSaved
<1>5. lastChar # "nl" /\ lastChar # "EOF"
    BY <1>1, CharSets
<1>6. /\ TextOf(text[File]) /\ TextOf(text'[File]) /\ Extends(text[File], text'[File])
      /\ Len(text[File]) \in Nat
    BY <1>1, TextGrows
<1>7. Taken(File) \in Nat
    BY CurrentFile, TakenRange
<1>8. OperatorShape' /\ Foreseen'
    BY <1>1, <1>3, <1>4, OperatorStays
<1>9. LookingAhead'
    <2>1. CASE ~Peeking
        BY <1>4, <2>1 DEF LookingAhead
    <2>2. CASE Peeking
        <3>1. operator.op[1] # "nl"
            <4>1. Len(operator.op) >= 1 /\ Len(operator.op) \in Nat
                BY <2>2, OperatorSeen, OpTyped
            <4>2. 1 \in 1..Len(operator.op)
                BY <4>1
            <4> QED
                BY <4>2, OpTyped
        <3>2. ASSUME NEW b \in 0..Len(text[File]),
                     LooksAt(text[File], Taken(File), b, Used1, saved[1].left, lexing.mode,
                             currentToken),
                     saved[1].left = 2 => Finds(text[File], Taken(File), operator.op[1], b)
              PROVE  LooksAt(text'[File], Taken(File), b, Used1', saved'[1].left, lexing'.mode,
                             currentToken')
            <4>1. PICK s, t, a, u, n, x, w :
                     /\ s = text[File] /\ t = text'[File] /\ a = Taken(File) /\ u = Used1
                     /\ n = saved[1].left /\ x = currentToken /\ w = operator.op[1]
                OBVIOUS
            <4>2. LooksAt(s, a, b, u, n, "begin", x) /\ (n = 2 => Finds(s, a, w, b))
                BY <1>1, <3>2, <4>1
            <4>3. /\ TextOf(s) /\ TextOf(t) /\ Extends(s, t) /\ a \in Nat /\ b \in Nat /\ u \in Nat
                  /\ u + 1 \in 1..Len(s) /\ s[u + 1] # "nl" /\ n \in 1..2 /\ w # "nl"
                BY <1>1, <1>4, <1>5, <1>6, <1>7, <2>2, <3>1, <3>2, <4>1
            <4>4. LooksAt(t, a, b, u + 1, n - 1, "idle", s[u + 1])
                BY <4>2, <4>3, LooksOther
            <4>5. /\ u + 1 = Used1' /\ n - 1 = saved'[1].left /\ s[u + 1] = currentToken'
                BY <1>1, <1>4, <2>2, <4>1
            <4> QED
                BY <1>1, <4>1, <4>4, <4>5
        <3> QED
            BY <1>1, <1>4, <2>2, <3>2, LooksOn
    <2> QED
        BY <2>1, <2>2
<1>10. Advanced'
    <2>1. SUFFICES ASSUME operator.step = "advance" PROVE Advanced'
        BY <1>4 DEF Advanced
    <2>2. ~Peeking
        BY <2>1, NotWhileTaken
    <2>3. /\ Done >= 0 /\ operator.first >= 1
          /\ \A i \in 1..Len(operator.op) :
                i <= Done + 1 => tokens[File][operator.first + i - 1].kind = operator.op[i]
          /\ Ahead(text[File], Used1, operator.op, Done + 2)
          /\ Len(tokens[File]) = operator.first + Done
        BY <1>1, <2>1, <2>2 DEF Advanced
    <2>4. PICK k, f, op, m : k = Done /\ f = operator.first /\ op = operator.op /\ m = operator.left
        OBVIOUS
    <2>5. /\ Len(op) \in Nat /\ f \in Nat /\ m \in Nat /\ f >= 1 /\ k \in Nat
          /\ k = Len(op) - m - 1 /\ Done' = k + 1 /\ operator' = operator
        <3>1. Len(op) \in Nat /\ f \in Nat /\ m \in Nat
            BY <2>4, OpTyped
        <3>2. Done = Len(operator.op) - operator.left - 1
            BY <1>1 DEF Done
        <3>3. Done' = Len(operator'.op) - operator'.left - 0
            BY <1>1 DEF Done
        <3>4. operator'.op = op /\ operator'.left = m /\ operator' = operator
            BY <1>4, <2>4
        <3>5. k = Len(op) - m - 1 /\ Done' = Len(op) - m - 0
            BY <2>4, <3>2, <3>3, <3>4
        <3>6. k >= 0 /\ f >= 1
            BY <2>3, <2>4
        <3> QED
            BY <3>1, <3>4, <3>5, <3>6
    <2>6. PICK r \in Span : tokens'[File] = Append(tokens[File], r) /\ r.kind = lastChar
        BY <1>1, <2>2
    <2>7. tokens[File] \in Seq(Span)
        BY CurrentFile, SpanTyped
    <2>8. /\ Len(tokens'[File]) = f + (k + 1)
          /\ \A i \in 1..Len(tokens[File]) : tokens'[File][i] = tokens[File][i]
          /\ tokens'[File][f + (k + 1)].kind = lastChar
        <3>1. /\ Len(Append(tokens[File], r)) = Len(tokens[File]) + 1
              /\ \A i \in 1..Len(tokens[File]) : Append(tokens[File], r)[i] = tokens[File][i]
              /\ Append(tokens[File], r)[Len(tokens[File]) + 1] = r
            BY <2>7, AppendProperties
        <3>2. Len(tokens[File]) + 1 = f + (k + 1)
            <4>1. Len(tokens[File]) = f + k
                BY <2>3, <2>4
            <4> QED
                BY <2>5, <4>1
        <3> QED
            BY <2>6, <3>1, <3>2
    <2>9. ASSUME k + 2 <= Len(op)
          PROVE  op[k + 2] = lastChar /\ Ahead(text'[File], at[File], op, k + 3)
        <3>1. PICK s, t, u : s = text[File] /\ t = text'[File] /\ u = Used1
            OBVIOUS
        <3>2. Len(op) <= (k + 2) + 1
            <4>1. op \in Ones \cup Twos \cup Threes
                BY <2>1, <2>4 DEF OperatorShape
            <4>2. Len(op) = 1 \/ Len(op) = 2 \/ Len(op) = 3
                BY <4>1, OperatorLengths, Zenon
            <4> QED
                BY <2>5, <4>2
        <3>3. /\ TextOf(s) /\ u \in Nat /\ u + 1 \in 1..Len(s) /\ s[u + 1] # "nl"
              /\ k + 2 \in Nat /\ Ahead(s, u, op, k + 2) /\ s[u + 1] = lastChar
            <4>1. Ahead(s, u, op, k + 2) /\ k + 2 \in Nat
                BY <2>3, <2>4, <2>5, <3>1
            <4>2. u + 1 = at[File] /\ u \in Nat /\ at[File] \in 1..Len(s) /\ s[at[File]] = lastChar
                BY <1>1, <3>1
            <4>3. u + 1 \in 1..Len(s) /\ s[u + 1] = lastChar
                BY <4>2
            <4> QED
                BY <1>5, <1>6, <3>1, <4>1, <4>2, <4>3
        <3>4. op[k + 2] = s[u + 1] /\ Ahead(s, u + 1, op, (k + 2) + 1)
            BY <2>5, <2>9, <3>2, <3>3, AheadHere
        <3>5. Ahead(t, u + 1, op, (k + 2) + 1)
            BY <1>6, <3>1, <3>3, <3>4, AheadStays
        <3>6. (k + 2) + 1 = k + 3 /\ u + 1 = at[File]
            BY <1>1, <2>5, <3>1
        <3> QED
            BY <3>1, <3>3, <3>4, <3>5, <3>6
    <2>10. Ahead(text'[File], at[File], op, k + 3)
        <3>1. CASE k + 2 <= Len(op)
            BY <2>9, <3>1
        <3>2. CASE ~(k + 2 <= Len(op))
            <4>1. ~(k + 3 <= Len(op))
                BY <2>5, <3>2
            <4> QED
                BY <4>1 DEF Ahead
        <3> QED
            BY <3>1, <3>2
    <2>11. ASSUME NEW i \in 1..Len(op), i <= k + 2
           PROVE  tokens'[File][f + i - 1].kind = op[i]
        <3>1. CASE i <= k + 1
            <4>1. tokens[File][f + i - 1].kind = op[i]
                BY <2>3, <2>4, <3>1
            <4>2. f + i - 1 \in 1..Len(tokens[File])
                <5>1. Len(tokens[File]) = f + k
                    BY <2>3, <2>4
                <5>2. f + i - 1 \in 1..(f + k)
                    BY <2>5, <3>1
                <5> QED
                    BY <5>1, <5>2
            <4> QED
                BY <2>8, <4>1, <4>2
        <3>2. CASE i = k + 2
            <4>1. f + i - 1 = f + (k + 1)
                BY <2>5, <3>2
            <4> QED
                BY <2>8, <2>9, <3>2, <4>1
        <3> QED
            BY <2>5, <2>11, <3>1, <3>2
    <2>12. /\ Done' >= 0
           /\ Ahead(text'[File'], Taken(File)', operator'.op, Done' + 2)
           /\ \A i \in 1..Len(operator'.op) :
                i <= Done' + 1 => tokens'[File'][operator'.first + i - 1].kind = operator'.op[i]
           /\ Len(tokens'[File']) = operator'.first + Done'
        <3>1. Done' >= 0 /\ Done' + 2 = k + 3 /\ Done' + 1 = k + 2
            BY <2>5
        <3>2. operator'.op = op /\ operator'.first = f /\ File' = File /\ Taken(File)' = at[File]
            BY <1>1, <1>4, <2>2, <2>4
        <3> QED
            BY <2>5, <2>8, <2>10, <2>11, <3>1, <3>2
    <2> QED
        BY <1>1, <1>3, <1>4, <1>5, <2>3, <2>12 DEF Advanced
<1> QED
    BY <1>1, <1>8, <1>9, <1>10 DEF Reader

LEMMA EofKeeps ==
    ASSUME Inv, EndOfFile
    PROVE  Inv'
<1> USE DEF Inv
<1>1. /\ Reader /\ Reader' /\ lexing.mode = "begin" /\ lexing'.mode = "idle"
      /\ UNCHANGED <<text, at>> /\ text' = text /\ currentToken' = "EOF"
      /\ Used1 + 1 \in 1..Len(text[File]) /\ text[File][Used1 + 1] = "EOF"
      /\ Used1' = Used1 /\ tokens' = tokens /\ Taken(File)' = Taken(File)
      /\ Returns("EOF", currentTokenVal, 0, 0)
    BY EofReads DEF Reader
<1>2. Reading /\ lexing.mode # "idle" /\ ~InToken /\ ~InToken'
    BY <1>1 DEF EndOfFile, In, InToken
<1>3. /\ Peeking' <=> Peeking
      /\ Peeking => saved[1].left \in 1..2 /\ saved'[1].left = saved[1].left - 1
      /\ File' = File /\ UNCHANGED <<operator, path>> /\ operator' = operator
    BY <1>1, <1>2, ReturnsSaved
<1>4. TextOf(text[File]) /\ Len(text[File]) \in Nat
    BY <1>1, TextGrows
<1>5. Used1 \in Nat /\ Taken(File) \in Nat
    <2>1. Used1 \in 0..at[File]
        BY <1>1, LastMeans
    <2>2. Taken(File) \in Nat /\ at[File] \in Nat
        BY CurrentFile, TakenRange
    <2> QED
        BY <2>1, <2>2
<1>6. OperatorShape' /\ Foreseen'
    BY <1>1, <1>2, <1>3, OperatorStays
<1>7. LookingAhead'
    <2>1. CASE ~Peeking
        BY <1>3, <2>1 DEF LookingAhead
    <2>2. CASE Peeking
        <3>1. operator.op[1] # "nl" /\ operator.op[1] # "EOF"
            <4>1. Len(operator.op) >= 1 /\ Len(operator.op) \in Nat
                BY <2>2, OperatorSeen, OpTyped
            <4>2. 1 \in 1..Len(operator.op)
                BY <4>1
            <4> QED
                BY <4>2, OpTyped
        <3>2. ASSUME NEW b \in 0..Len(text[File]),
                     LooksAt(text[File], Taken(File), b, Used1, saved[1].left, lexing.mode,
                             currentToken),
                     saved[1].left = 2 => Finds(text[File], Taken(File), operator.op[1], b)
              PROVE  LooksAt(text'[File], Taken(File), b, Used1', saved'[1].left, lexing'.mode,
                             currentToken')
            <4>1. saved[1].left # 2
                <5>1. SUFFICES ASSUME saved[1].left = 2 PROVE FALSE
                    OBVIOUS
                <5>2. PICK s, a, u, x, w : /\ s = text[File] /\ a = Taken(File) /\ u = Used1
                                           /\ x = currentToken /\ w = operator.op[1]
                    OBVIOUS
                <5>3. LooksAt(s, a, b, u, 2, "begin", x)
                    BY <1>1, <3>2, <5>1, <5>2
                <5>4. /\ TextOf(s) /\ a \in Nat /\ b \in Nat /\ u \in Nat /\ u + 1 \in 1..Len(s)
                      /\ s[u + 1] = "EOF" /\ w # "nl" /\ w # "EOF" /\ Finds(s, a, w, b)
                    BY <1>1, <1>4, <1>5, <3>1, <3>2, <5>1, <5>2
                <5> QED
                    BY <5>3, <5>4, LooksHere
            <4>2. saved'[1].left = 0 /\ "EOF" \notin Symbols
                BY <1>3, <2>2, <4>1, CharSets
            <4> QED
                BY <1>1, <4>2 DEF LooksAt
        <3> QED
            BY <1>1, <1>3, <2>2, <3>2, LooksOn
    <2> QED
        BY <2>1, <2>2
<1>8. Advanced'
    <2>1. SUFFICES ASSUME operator.step = "advance" PROVE Advanced'
        BY <1>3 DEF Advanced
    <2>2. ~Peeking
        BY <2>1, NotWhileTaken
    <2>3. /\ Done >= 0 /\ operator.first >= 1
          /\ \A i \in 1..Len(operator.op) :
                i <= Done + 1 => tokens[File][operator.first + i - 1].kind = operator.op[i]
          /\ Ahead(text[File], Taken(File), operator.op, Done + 2)
          /\ Len(tokens[File]) = operator.first + Done
        BY <1>1, <2>1 DEF Advanced
    <2>4. PICK k, op, m : k = Done /\ op = operator.op /\ m = operator.left
        OBVIOUS
    <2>5. /\ Len(op) \in Nat /\ m \in Nat /\ k \in Nat
          /\ k = Len(op) - m - 1 /\ Done' = k + 1
        <3>1. Len(op) \in Nat /\ m \in Nat
            BY <2>4, OpTyped
        <3>2. k = Len(op) - m - 1
            BY <1>1, <2>4 DEF Done
        <3>3. Done' = Len(op) - m - 0
            BY <1>1, <1>3, <2>4 DEF Done
        <3>4. k >= 0
            BY <2>3, <2>4
        <3> QED
            BY <3>1, <3>2, <3>3, <3>4
    <2>6. Taken(File) = Used1
        BY <1>2, <2>2 DEF Taken, Used1
    <2>7. ~(k + 2 <= Len(op))
        <3>1. SUFFICES ASSUME k + 2 <= Len(op) PROVE FALSE
            OBVIOUS
        <3>2. PICK s, u : s = text[File] /\ u = Used1
            OBVIOUS
        <3>3. Ahead(s, u, op, k + 2) /\ k + 2 \in 1..Len(op)
            BY <2>3, <2>4, <2>5, <2>6, <3>1, <3>2
        <3>4. PICK b \in 1..Len(s) : Finds(s, u, op[k + 2], b)
            BY <3>3 DEF Ahead
        <3>5. s[u + 1] = op[k + 2]
            BY <1>1, <1>4, <1>5, <3>2, <3>4, FindsHere
        <3>6. op[k + 2] # "EOF"
            BY <2>4, <3>3, OpTyped
        <3> QED
            BY <1>1, <3>2, <3>5, <3>6
    <2>8. m = 0 /\ k + 1 = Len(op)
        BY <2>5, <2>7
    <2>9. Ahead(text'[File'], Taken(File)', operator'.op, Done' + 2)
        <3>1. ~(Done' + 2 <= Len(operator'.op))
            BY <1>3, <2>4, <2>5, <2>8
        <3> QED
            BY <3>1 DEF Ahead
    <2>10. Len(tokens'[File']) = operator'.first + (Done' - 1)
        BY <1>1, <1>3, <2>3, <2>4, <2>5
    <2>11. ASSUME NEW i \in 1..Len(operator'.op)
           PROVE  tokens'[File'][operator'.first + i - 1].kind = operator'.op[i]
        BY <1>1, <1>3, <2>3, <2>4, <2>5, <2>8
    <2> QED
        BY <1>1, <1>2, <1>3, <2>3, <2>4, <2>5, <2>8, <2>9, <2>10, <2>11 DEF Advanced
<1> QED
    BY <1>1, <1>6, <1>7, <1>8 DEF Reader

LEMMA LexerKeeps ==
    ASSUME Inv, get_token
    PROVE  Inv'
<1>1. CASE NoCharYet \/ SkipSpace \/ BeginString \/ BeginWord \/ BeginNumber
    BY <1>1, BeginKinds, SkipsKeeps, BeginsKeeps DEF Inv
<1>2. CASE StringChar \/ StringWithoutEnd \/ EscapedChar \/ EndString \/ WordChar \/ NumberChar
    BY <1>2, TokenKinds, GoesOnKeeps, EndsKeeps DEF Inv
<1>3. CASE EndOfFile
    BY <1>3, EofKeeps
<1>4. CASE AnyOther
    BY <1>4, OtherKeeps
<1> QED
    BY <1>1, <1>2, <1>3, <1>4 DEF get_token-----------------------------------------------------------------------------
(* The steps of the parser between two tokens *)

OperatorType ==
    [step : Steps, op : Seq(Symbols \cup {"."}), first : 0..MaxText,
     left : 0..(IF MaxAsks < 2 THEN 3 ELSE MaxAsks + 1)]

LEMMA GetTyped == Get => lexing' \in LexType /\ lexing'.mode = "begin"
<1>1. SUFFICES ASSUME Get PROVE lexing' \in LexType /\ lexing'.mode = "begin"
    OBVIOUS
<1>2. lexing' = [mode |-> "begin", first |-> 0, val |-> <<>>] /\ MaxText \in Nat
    BY <1>1, LexerAssumption DEF Get
<1> QED
    BY <1>2 DEF LexType, Mode

LEMMA ParserTypes ==
    ASSUME TypeOK, SourceTypes', lexing' \in LexType, currentToken' \in Token,
           currentTokenVal' \in Seq(Char \cup {"EOF"}), Len(saved') <= 1,
           operator' \in OperatorType, path' \in {"none", "inside", "read"},
           files' \in Seq([file : Files, old_current_token : Token]) \ {<<>>},
           searched' \subseteq Files, tokens' = tokens,
           status' \in {"reading", "read", "rejected", "endless"}
    PROVE  TypeOK'
<1>1. /\ text' \in [Files -> Seq(Char \cup {"EOF"})]
      /\ at' \in [Files -> 0..MaxText]
      /\ lastChars' \in [Files -> Char \cup {"EOF", "NUL"}]
      /\ Line' \in 1..MaxText + 1
    BY DEF SourceTypes
<1>2. /\ lexing' \in [mode : Mode, first : 0..MaxText, val : Seq(Char \cup {"EOF"})]
      /\ operator' \in [step : Steps, op : Seq(Symbols \cup {"."}), first : 0..MaxText,
                        left : 0..(IF MaxAsks < 2 THEN 3 ELSE MaxAsks + 1)]
      /\ tokens' \in [Files -> Seq([kind : Token, first : 1..MaxText, last : 1..MaxText])]
    BY DEF LexType, OperatorType, TypeOK
<1> QED
    BY <1>1, <1>2 DEF TypeOK

LEMMA QuietReads ==
    ASSUME Reader, Idle, UNCHANGED source, tokens' = tokens, saved' = <<>>,
           lexing'.mode \in {"idle", "begin"}
    PROVE  /\ Sources' /\ SourceTypes' /\ Saved' /\ Places' /\ Covered'
           /\ ~Peeking /\ ~Peeking' /\ Len(saved') <= 1 /\ lexing.mode = "idle" /\ Reading
           /\ \A g \in Files : Taken(g)' = Taken(g)
           /\ Taken(File) = Used1
<1> USE DEF Reader
<1>1. lexing.mode = "idle" /\ saved = <<>> /\ Reading
    BY DEF Idle, In
<1>2. ~Peeking /\ ~Peeking' /\ ~InToken /\ ~InToken' /\ Len(saved') <= 1
    BY <1>1, EmptySeq DEF Peeking, InToken
<1>3. Sources' /\ SourceTypes'
    BY <1>1, QuietKeepsSources
<1>4. UNCHANGED <<text, at, lastChars>>
    BY DEF source
<1>5. \A g \in Files : Taken(g)' = Taken(g)
    BY <1>2, <1>4 DEF Taken
<1>6. Taken(File) = Used1
    BY <1>2 DEF Taken, Used1
<1>7. Covered'
    BY <1>4, <1>5 DEF Covered
<1>8. Saved' /\ Places'
    BY <1>2 DEF Saved, Places
<1> QED
    BY <1>1, <1>2, <1>3, <1>5, <1>6, <1>7, <1>8

LEMMA ParseReads ==
    ASSUME Inv, Idle, NEW o, NEW p, Parse(o, p), operator' = o => o \in OperatorType,
           p \in {"none", "inside", "read"}, UNCHANGED lexing \/ Get
    PROVE  /\ Reader' /\ LookingAhead'
           /\ lexing.mode = "idle" /\ Reading /\ status' = status
           /\ ~Peeking /\ ~Peeking'
           /\ operator' = o /\ path' = p /\ File' = File /\ tokens' = tokens
           /\ currentToken' = currentToken
           /\ text' = text /\ Taken(File)' = Taken(File)
<1> USE DEF Inv
<1>1. /\ operator' = o /\ path' = p /\ UNCHANGED source /\ tokens' = tokens
      /\ UNCHANGED <<currentToken, currentTokenVal, files, searched, status>>
      /\ saved' = <<>> /\ saved = <<>>
    BY DEF Parse, Idle
<1>2. lexing.mode = "idle" /\ (UNCHANGED lexing \/ lexing'.mode = "begin")
    BY GetTyped DEF Idle, In
<1>3. lexing' \in LexType /\ lexing'.mode \in {"idle", "begin"}
    BY <1>2, LexTyped, GetTyped
<1>4. /\ Sources' /\ SourceTypes' /\ Saved' /\ Places' /\ Covered'
      /\ ~Peeking /\ ~Peeking' /\ Len(saved') <= 1 /\ Reading
      /\ \A g \in Files : Taken(g)' = Taken(g)
    BY <1>1, <1>3, QuietReads DEF Reader
<1>5. TypeOK'
    <2>1. /\ currentToken' \in Token /\ currentTokenVal' \in Seq(Char \cup {"EOF"})
          /\ files' \in Seq([file : Files, old_current_token : Token]) \ {<<>>}
          /\ searched' \subseteq Files
          /\ status' \in {"reading", "read", "rejected", "endless"}
        BY <1>1 DEF TypeOK
    <2> QED
        BY <1>1, <1>3, <1>4, <2>1, ParserTypes
<1>6. File' = File /\ File \in Files /\ text' = text
    BY <1>1, CurrentFile DEF File, source
<1>7. Values'
    <2>1. lexing'.mode \notin {"word", "number"}
        BY <1>3
    <2>2. Idle' => BelongsTo(tokens'[File'], text'[File'], currentToken', currentTokenVal')
        BY <1>1, <1>6 DEF Values
    <2> QED
        BY <1>4, <2>1, <2>2 DEF Values
<1>8. LookingAhead'
    BY <1>4 DEF LookingAhead
<1>9. Taken(File)' = Taken(File)
    BY <1>4, <1>6
<1> QED
    BY <1>1, <1>2, <1>4, <1>5, <1>6, <1>7, <1>8, <1>9 DEF Reader

LEMMA Unasked ==
    ASSUME operator'.step \in {"none", "left"}
    PROVE  Foreseen' /\ Advanced'
    BY DEF Foreseen, Advanced, Asking

LEMMA NoOperatorTyped ==
    /\ NoOperator \in OperatorType
    /\ NoOperator.step = "none"
    /\ operator' = NoOperator => OperatorShape'
<1>1. MaxText \in Nat /\ MaxAsks \in Nat
    BY LexerAssumption
<1>2. NoOperator.step = "none"
    BY DEF NoOperator
<1>3. NoOperator \in OperatorType
    BY <1>1 DEF NoOperator, OperatorType, Steps
<1>4. ASSUME operator' = NoOperator PROVE OperatorShape'
    <2>1. operator'.step = "none"
        BY <1>2, <1>4
    <2> QED
        BY <1>4, <2>1 DEF OperatorShape, Asking
<1> QED
    BY <1>2, <1>3, <1>4-----------------------------------------------------------------------------
(* parse_operator() and advance_op() keep the invariant *)

OperatorChars == Double \cup Equal \cup Single

LEMMA OperatorToken ==
    /\ \A c \in Token : c \in OperatorChars => c \in Symbols \cup {"."}
    /\ \A c \in OperatorChars : c \notin {"EOF", "keyword"}
    /\ \A c \in Double \cup Equal : c # "."
<1>1. \A c \in OperatorChars :
         c \notin {"identifier", "integer", "decimal", "string", "EOF", "keyword", "backslash", "'"}
    BY DEF OperatorChars, Double, Equal, Single
<1>2. \A c \in Double \cup Equal : c # "."
    BY DEF Double, Equal
<1>3. \A c \in Token : \/ c \in Symbols \cup {"."}
                       \/ c \in {"identifier", "integer", "decimal", "string", "EOF", "keyword",
                                 "backslash", "'"}
    BY DEF Token, Valued, Special
<1> QED
    BY <1>1, <1>2, <1>3

LEMMA OneOf ==
    ASSUME NEW c \in Token, c \in OperatorChars
    PROVE  /\ <<c>> \in Seq(Symbols \cup {"."}) /\ Len(<<c>>) = 1 /\ <<c>>[1] = c
           /\ <<c>> \in Ones
<1>1. c \in Symbols \cup {"."}
    BY OperatorToken
<1>2. <<c>> \in Ones
    BY DEF Ones, OperatorChars
<1> QED
    BY <1>1, <1>2

LEMMA LastTokenRead ==
    ASSUME Reader, Idle, currentToken \notin {"keyword", "EOF"}
    PROVE  /\ Len(tokens[File]) \in 1..MaxText
           /\ tokens[File][Len(tokens[File])].kind = currentToken
<1> USE DEF Reader
<1>1. BelongsTo(tokens[File], text[File], currentToken, currentTokenVal)
    BY DEF Values
<1>2. Len(tokens[File]) >= 1 /\ tokens[File][Len(tokens[File])].kind = currentToken
    BY <1>1 DEF BelongsTo
<1>3. Len(tokens[File]) \in 0..MaxText
    <2>1. PICK ts, n, s : ts = tokens[File] /\ n = Taken(File) /\ s = text[File]
        OBVIOUS
    <2>2. File \in Files /\ tokens[File] \in Seq(Span)
        BY CurrentFile, SpanTyped
    <2>3. n \in Nat /\ n <= at[File] /\ at[File] \in 0..MaxText
        <3>1. at[File] \in 0..MaxText
            BY <2>2 DEF TypeOK
        <3>2. Taken(File) \in 0..at[File] /\ Taken(File) \in Nat /\ at[File] \in Nat
            BY <2>2, TakenRange
        <3> QED
            BY <2>1, <3>1, <3>2
    <2>4. Covers(ts, n, s) /\ ts \in Seq(Span)
        BY <2>1, <2>2 DEF Covered
    <2>5. Len(ts) \in 0..n
        BY <2>3, <2>4, TokensInText
    <2>6. MaxText \in Nat
        BY LexerAssumption
    <2> QED
        BY <2>1, <2>3, <2>5, <2>6
<1> QED
    BY <1>2, <1>3

LEMMA OperatorTyped ==
    TypeOK => operator \in OperatorType
    BY DEF TypeOK, OperatorType

LEMMA ParseOperatorKeeps ==
    ASSUME Inv, ParseOperator
    PROVE  Inv'
<1> USE DEF Inv
<1>1. PICK c : c = currentToken
    OBVIOUS
<1>2. /\ Idle /\ c \in OperatorChars /\ c \in Token /\ operator.left <= MaxAsks
      /\ path = "none" /\ operator.step \in {"none", "left"}
    BY <1>1 DEF ParseOperator, InCalls, OperatorChars, TypeOK
<1>3. c \notin {"EOF", "keyword"} /\ c \in Symbols \cup {"."}
    BY <1>2, OperatorToken
<1>4. /\ Len(tokens[File]) \in 1..MaxText
      /\ tokens[File][Len(tokens[File])].kind = c
    BY <1>1, <1>2, <1>3, LastTokenRead DEF Reader
<1>5. PICK w, f, m, l : w = FirstTest(c) /\ f = Len(tokens[File]) /\ m = <<c>> /\ l = operator.left
    OBVIOUS
<1>6. m \in Seq(Symbols \cup {"."}) /\ Len(m) = 1 /\ m[1] = c /\ m \in Ones
    BY <1>2, <1>5, OneOf
<1>7. /\ w \in {"double", "equal", "found"}
      /\ w = "double" => c \in Double
      /\ w = "equal" => c \in Equal
    <2>1. CASE c \in Double
        BY <1>5, <2>1 DEF FirstTest
    <2>2. CASE c \in Equal /\ c \notin Double
        BY <1>5, <2>2 DEF FirstTest
    <2>3. CASE c \notin Equal /\ c \notin Double
        BY <1>5, <2>3 DEF FirstTest
    <2> QED
        BY <2>1, <2>2, <2>3
<1>8. PICK o : o = [step |-> w, op |-> m, first |-> f, left |-> l]
    OBVIOUS
<1>9. Parse(o, path) /\ UNCHANGED lexing
    <2>1. operator = [step |-> operator.step, op |-> operator.op, first |-> operator.first,
                      left |-> operator.left]
        BY OperatorTyped DEF OperatorType
    <2>2. PICK a, b : /\ a = [operator EXCEPT !.step = FirstTest(currentToken)]
                      /\ b = [a EXCEPT !.op = <<currentToken>>]
        OBVIOUS
    <2>3. a = [step |-> w, op |-> operator.op, first |-> operator.first, left |-> l]
        BY <1>1, <1>5, <2>1, <2>2
    <2>4. b = [step |-> w, op |-> m, first |-> operator.first, left |-> l]
        BY <1>1, <1>5, <2>2, <2>3
    <2>5. [b EXCEPT !.first = Len(tokens[File])] = o
        BY <1>5, <1>8, <2>4
    <2>6. [operator EXCEPT !.step = FirstTest(currentToken), !.op = <<currentToken>>,
                           !.first = Len(tokens[File])] = o
        BY <2>2, <2>5, Zenon
    <2> QED
        BY <2>6, Zenon DEF ParseOperator
<1>10. o \in OperatorType
    <2>1. w \in Steps /\ l \in 0..(IF MaxAsks < 2 THEN 3 ELSE MaxAsks + 1) /\ f \in 0..MaxText
        BY <1>4, <1>5, <1>7, OperatorTyped DEF Steps, OperatorType
    <2> QED
        BY <1>6, <1>8, <2>1 DEF OperatorType
<1>11. /\ Reader' /\ LookingAhead' /\ lexing.mode = "idle" /\ ~Peeking'
       /\ operator' = o /\ path' = path /\ File' = File /\ tokens' = tokens
       /\ text' = text /\ Taken(File)' = Taken(File)
    BY <1>2, <1>9, <1>10, ParseReads
<1>12. /\ operator'.step = w /\ operator'.op = m /\ operator'.first = f /\ operator'.left = l
       /\ lexing'.mode = "idle"
    BY <1>8, <1>9, <1>11
<1>13. OperatorShape'
    BY <1>2, <1>5, <1>6, <1>7, <1>11, <1>12 DEF OperatorShape, Asking
<1>14. Foreseen'
    <2>1. Ahead(text'[File'], Taken(File)', operator'.op, 2)
        <3>1. ~(2 <= Len(operator'.op))
            BY <1>6, <1>12
        <3> QED
            BY <3>1 DEF Ahead
    <2> QED
        BY <1>4, <1>5, <1>6, <1>11, <1>12, <2>1 DEF Foreseen
<1>15. Advanced'
    BY <1>7, <1>12 DEF Advanced
<1> QED
    BY <1>11, <1>13, <1>14, <1>15 DEF Reader

LEMMA LeaveKeeps ==
    ASSUME Inv, LeaveOperator
    PROVE  Inv'
<1> USE DEF Inv
<1>1. Idle /\ operator.step = "found"
    BY DEF LeaveOperator
<1>2. PICK m, f, l : m = operator.op /\ f = operator.first /\ l = operator.left
    OBVIOUS
<1>3. /\ m \in Seq(Symbols \cup {"."}) /\ f \in 0..MaxText /\ l \in Nat
      /\ operator = [step |-> "found", op |-> m, first |-> f, left |-> l]
    BY <1>1, <1>2, OperatorTyped DEF OperatorType
<1>4. PICK o : o = [step |-> "left", op |-> m, first |-> f, left |-> l + 1]
    OBVIOUS
<1>5. Parse(o, path) /\ UNCHANGED lexing
    <2>1. PICK a : a = [operator EXCEPT !.step = "left"]
        OBVIOUS
    <2>2. a = [step |-> "left", op |-> m, first |-> f, left |-> l]
        BY <1>3, <2>1
    <2>3. [a EXCEPT !.left = l + 1] = o
        BY <1>4, <2>2
    <2>4. [operator EXCEPT !.step = "left", !.left = l + 1] = o
        BY <2>1, <2>3, Zenon
    <2> QED
        BY <1>2, <2>4, Zenon DEF LeaveOperator
<1>6. l <= MaxAsks /\ path = "none" /\ MaxAsks \in Nat
    BY <1>1, <1>2, LexerAssumption DEF OperatorShape, Asking
<1>7. o \in OperatorType
    <2>1. l + 1 \in 0..(IF MaxAsks < 2 THEN 3 ELSE MaxAsks + 1)
        BY <1>3, <1>6
    <2> QED
        BY <1>3, <1>4, <2>1 DEF OperatorType, Steps
<1>8. Reader' /\ LookingAhead' /\ operator' = o /\ path' = path
    BY <1>1, <1>5, <1>6, <1>7, ParseReads
<1>9. operator'.step = "left" /\ operator'.left = l + 1
    BY <1>4, <1>8
<1>10. OperatorShape'
    BY <1>3, <1>6, <1>8, <1>9 DEF OperatorShape, Asking
<1>11. Foreseen' /\ Advanced'
    BY <1>9, Unasked
<1> QED
    BY <1>8, <1>10, <1>11 DEF Reader

\* advance_op() takes as many tokens as the operator has characters.
LEMMA AdvancesAll ==
    ASSUME NEW op \in Ones \cup Twos \cup Threes
    PROVE  Advances(op) = Len(op) /\ Len(op) \in 1..3
<1>1. CASE op \in Ones
    BY <1>1, OperatorLengths DEF Advances
<1>2. CASE op \in Twos
    <2>1. Len(op) = 2 /\ op \notin Ones
        BY <1>2, OperatorLengths
    <2> QED
        BY <1>2, <2>1 DEF Advances
<1>3. CASE op \in Threes
    <2>1. Len(op) = 3 /\ op \notin Ones /\ op \notin Twos
        BY <1>3, OperatorLengths
    <2> QED
        BY <2>1 DEF Advances
<1> QED
    BY <1>1, <1>2, <1>3

LEMMA TakeOperatorKeeps ==
    ASSUME Inv, TakeOperator
    PROVE  Inv'
<1> USE DEF Inv
<1>1. Idle /\ operator.step = "found" /\ Asking
    BY DEF TakeOperator, Asking
<1>2. PICK m, f, l, n : m = operator.op /\ f = operator.first /\ l = operator.left /\ n = Len(m)
    OBVIOUS
<1>3. /\ m \in Seq(Symbols \cup {"."}) /\ f \in 0..MaxText
      /\ operator = [step |-> "found", op |-> m, first |-> f, left |-> l]
    BY <1>1, <1>2, OperatorTyped DEF OperatorType
<1>4. m \in Ones \cup Twos \cup Threes /\ path = "none"
    BY <1>1, <1>2 DEF OperatorShape
<1>5. Advances(m) = n /\ n \in 1..3
    BY <1>2, <1>4, AdvancesAll
<1>6. PICK o : o = [step |-> "advance", op |-> m, first |-> f, left |-> n]
    OBVIOUS
<1>7. Parse(o, path) /\ UNCHANGED lexing
    <2>1. PICK a : a = [operator EXCEPT !.step = "advance"]
        OBVIOUS
    <2>2. a = [step |-> "advance", op |-> m, first |-> f, left |-> l]
        BY <1>3, <2>1
    <2>3. [a EXCEPT !.left = n] = o
        BY <1>6, <2>2
    <2>4. [operator EXCEPT !.step = "advance", !.left = n] = o
        BY <2>1, <2>3, Zenon
    <2> QED
        BY <1>2, <1>5, <2>4, Zenon DEF TakeOperator
<1>8. o \in OperatorType
    <2>1. n \in 0..(IF MaxAsks < 2 THEN 3 ELSE MaxAsks + 1)
        BY <1>5, LexerAssumption
    <2> QED
        BY <1>3, <1>6, <2>1 DEF OperatorType, Steps
<1>9. /\ Reader' /\ LookingAhead' /\ operator' = o /\ path' = path
      /\ File' = File /\ tokens' = tokens /\ text' = text /\ Taken(File)' = Taken(File)
      /\ lexing.mode = "idle"
    BY <1>1, <1>4, <1>7, <1>8, ParseReads
<1>10. /\ operator'.step = "advance" /\ operator'.op = m /\ operator'.first = f
       /\ operator'.left = n /\ lexing'.mode = "idle"
    BY <1>6, <1>7, <1>9
<1>11. OperatorShape'
    BY <1>2, <1>4, <1>5, <1>9, <1>10 DEF OperatorShape, Asking
<1>12. Foreseen'
    BY <1>10 DEF Foreseen, Asking
<1>13. Advanced'
    <2>1. Done' = 0
        BY <1>2, <1>5, <1>10 DEF Done
    <2>2. /\ f = Len(tokens[File]) /\ f >= 1 /\ f \in Nat /\ tokens[File][f].kind = m[1]
          /\ Ahead(text[File], Taken(File), m, 2)
        BY <1>1, <1>2, OpTyped DEF Foreseen
    <2>3. Ahead(text'[File'], Taken(File)', operator'.op, Done' + 2)
        <3>1. Done' + 2 = 2
            BY <2>1
        <3> QED
            BY <1>9, <1>10, <2>2, <3>1
    <2>4. \A i \in 1..Len(operator'.op) :
             i <= Done' + 1 => tokens'[File'][operator'.first + i - 1].kind = operator'.op[i]
        <3>1. SUFFICES ASSUME NEW i \in 1..Len(m), i <= 1
                       PROVE  tokens[File][f + i - 1].kind = m[i]
            BY <1>9, <1>10, <2>1
        <3>2. i = 1 /\ f + i - 1 = f
            BY <1>2, <1>5, <2>2, <3>1
        <3> QED
            BY <2>2, <3>2
    <2>5. Len(tokens'[File']) = operator'.first + Done' /\ operator'.left # 0 /\ ~InToken'
        BY <1>5, <1>9, <1>10, <2>1, <2>2 DEF InToken
    <2> QED
        BY <1>10, <2>1, <2>2, <2>3, <2>4, <2>5 DEF Advanced
<1> QED
    BY <1>9, <1>11, <1>12, <1>13 DEF Reader
LEMMA AdvanceOneKeeps ==
    ASSUME Inv, AdvanceOne
    PROVE  Inv'
<1> USE DEF Inv
<1>1. Idle /\ operator.step = "advance" /\ operator.left > 0 /\ Get /\ lexing'.mode = "begin"
    BY GetTyped DEF AdvanceOne
<1>2. PICK m, f, l : m = operator.op /\ f = operator.first /\ l = operator.left
    OBVIOUS
<1>3. /\ m \in Seq(Symbols \cup {"."}) /\ f \in 0..MaxText /\ l \in Nat /\ l > 0
      /\ l \in 0..(IF MaxAsks < 2 THEN 3 ELSE MaxAsks + 1)
      /\ operator = [step |-> "advance", op |-> m, first |-> f, left |-> l]
      /\ Len(m) \in Nat /\ f \in Nat
    BY <1>1, <1>2, OperatorTyped, OpTyped DEF OperatorType
<1>4. PICK o : o = [step |-> "advance", op |-> m, first |-> f, left |-> l - 1]
    OBVIOUS
<1>5. Parse(o, path)
    <2>1. [operator EXCEPT !.left = l - 1] = o
        BY <1>3, <1>4
    <2> QED
        BY <1>2, <2>1 DEF AdvanceOne
<1>6. m \in Ones \cup Twos \cup Threes /\ path = "none" /\ l <= Len(m)
    BY <1>1, <1>2 DEF OperatorShape
<1>7. o \in OperatorType
    <2>1. l - 1 \in 0..(IF MaxAsks < 2 THEN 3 ELSE MaxAsks + 1)
        BY <1>3, LexerAssumption
    <2> QED
        BY <1>3, <1>4, <2>1 DEF OperatorType, Steps
<1>8. /\ Reader' /\ LookingAhead' /\ operator' = o /\ path' = path /\ lexing.mode = "idle"
      /\ File' = File /\ tokens' = tokens /\ text' = text /\ Taken(File)' = Taken(File)
    BY <1>1, <1>5, <1>6, <1>7, ParseReads
<1>9. /\ operator'.step = "advance" /\ operator'.op = m /\ operator'.first = f
      /\ operator'.left = l - 1
    BY <1>4, <1>8
<1>10. OperatorShape'
    BY <1>3, <1>6, <1>8, <1>9 DEF OperatorShape, Asking
<1>11. Foreseen'
    BY <1>9 DEF Foreseen, Asking
<1>12. Advanced'
    <2>1. Done' = Done /\ Done = Len(m) - l
        <3>1. Done = Len(m) - l
            BY <1>2, <1>3, <1>8 DEF Done
        <3>2. Done' = Len(m) - (l - 1) - 1
            BY <1>1, <1>9 DEF Done
        <3> QED
            BY <1>3, <3>1, <3>2
    <2>2. /\ Done >= 0 /\ f >= 1
          /\ Len(tokens[File]) = f + Done
          /\ \A i \in 1..Len(m) : i <= Done + 1 => tokens[File][f + i - 1].kind = m[i]
          /\ Ahead(text[File], Taken(File), m, Done + 2)
        BY <1>1, <1>2, <1>3 DEF Advanced
    <2>3. Ahead(text'[File'], Taken(File)', operator'.op, Done' + 2)
        BY <1>8, <1>9, <2>1, <2>2
    <2>4. ~InToken' /\ lexing'.mode # "idle"
        BY <1>1 DEF InToken
    <2> QED
        BY <1>8, <1>9, <2>1, <2>2, <2>3, <2>4 DEF Advanced
<1> QED
    BY <1>8, <1>10, <1>11, <1>12 DEF Reader

\* The operator is no longer of interest.
LEMMA NoOperatorKeeps ==
    ASSUME Inv, Idle, NEW p \in {"none", "inside", "read"}, Parse(NoOperator, p),
           UNCHANGED lexing \/ Get
    PROVE  Inv'
<1> USE DEF Inv
<1>1. PICK o : o = NoOperator
    OBVIOUS
<1>2. o \in OperatorType /\ o.step = "none" /\ Parse(o, p)
    BY <1>1, NoOperatorTyped
<1>3. Reader' /\ LookingAhead' /\ operator' = o
    BY <1>2, ParseReads
<1>4. OperatorShape' /\ operator'.step = "none"
    BY <1>1, <1>2, <1>3, NoOperatorTyped
<1>5. Foreseen' /\ Advanced'
    BY <1>4, Unasked
<1> QED
    BY <1>3, <1>4, <1>5 DEF Reader

LEMMA EndOperatorKeeps ==
    ASSUME Inv, EndOperator
    PROVE  Inv'
<1>1. path \in {"none", "inside", "read"}
    BY DEF Inv, TypeOK
<1> QED
    BY <1>1, NoOperatorKeeps DEF EndOperator

LEMMA OperatorsKeep ==
    ASSUME Inv, Operators
    PROVE  Inv'
    BY ParseOperatorKeeps, LeaveKeeps, TakeOperatorKeeps, AdvanceOneKeeps, EndOperatorKeeps
    DEF Operators
-----------------------------------------------------------------------------
(* parse_file() keeps the invariant *)

LEMMA TakeTokenKeeps ==
    ASSUME Inv, TakeToken
    PROVE  Inv'
<1>1. Idle /\ path \in {"none", "inside"} /\ Get
    BY DEF Inv, TypeOK, TakeToken
<1>2. PICK p : /\ p = CASE currentToken # "'" -> path
                        [] path = "none"     -> "inside"
                        [] path = "inside"   -> "read"
               /\ Parse(NoOperator, p)
    BY DEF TakeToken
<1>3. p \in {"none", "inside", "read"}
    <2>1. CASE currentToken # "'" /\ path = "none"
        BY <1>2, <2>1
    <2>2. CASE currentToken # "'" /\ path = "inside"
        BY <1>2, <2>2
    <2>3. CASE currentToken = "'" /\ path = "none"
        BY <1>2, <2>3
    <2>4. CASE currentToken = "'" /\ path = "inside"
        BY <1>2, <2>4
    <2> QED
        BY <1>1, <2>1, <2>2, <2>3, <2>4
<1> QED
    BY <1>1, <1>2, <1>3, NoOperatorKeeps

\* Between two constructs, and in a path, no operator is being read.
LEMMA NoCalls ==
    ASSUME OperatorShape, path # "none" \/ ~InCalls
    PROVE  operator.step \in {"none", "left"}
    BY DEF OperatorShape, InCalls

LEMMA ReadAlreadyKeeps ==
    ASSUME Inv, ReadAlready
    PROVE  Inv'
<1> USE DEF Inv
<1>1. Idle /\ path = "read" /\ Parse(operator, "none") /\ UNCHANGED lexing
    BY DEF ReadAlready
<1>2. operator.step \in {"none", "left"}
    BY <1>1, NoCalls
<1>3. PICK o : o = operator
    OBVIOUS
<1>4. o \in OperatorType /\ Parse(o, "none")
    BY <1>1, <1>3, OperatorTyped
<1>5. Reader' /\ LookingAhead' /\ operator' = o /\ path' = "none" /\ status' = status
    BY <1>1, <1>4, ParseReads
<1>6. operator' = operator
    BY <1>3, <1>5
<1>7. OperatorShape'
    BY <1>2, <1>5, <1>6 DEF OperatorShape, Asking
<1>8. Foreseen' /\ Advanced'
    BY <1>2, <1>6, Unasked
<1> QED
    BY <1>5, <1>7, <1>8 DEF Reader

\* Another file, or none, is read; or reading ends.
LEMMA FileKeeps ==
    ASSUME Inv, Idle, operator.step \in {"none", "left"}, UNCHANGED <<source, operator, saved, tokens>>,
           lexing' \in LexType, lexing'.mode \in {"idle", "begin"},
           currentToken' \in Token, currentTokenVal' = currentTokenVal,
           path' \in {"none", "inside", "read"},
           files' \in Seq([file : Files, old_current_token : Token]) \ {<<>>},
           searched' \subseteq Files, status' \in {"reading", "read", "rejected", "endless"},
           Idle' => currentToken' \in {"keyword", "EOF"}
    PROVE  Inv'
<1> USE DEF Inv
<1>1. /\ operator' = operator /\ saved' = <<>> /\ tokens' = tokens
    BY DEF Idle
<1>2. /\ Sources' /\ SourceTypes' /\ Saved' /\ Places' /\ Covered'
      /\ ~Peeking' /\ Len(saved') <= 1
    BY <1>1, QuietReads DEF Reader
<1>3. TypeOK'
    <2>1. operator' \in OperatorType /\ currentTokenVal' \in Seq(Char \cup {"EOF"})
        BY <1>1, OperatorTyped DEF TypeOK
    <2> QED
        BY <1>1, <1>2, <2>1, ParserTypes
<1>4. Values'
    <2>1. lexing'.mode \notin {"word", "number"}
        OBVIOUS
    <2>2. Idle' => BelongsTo(tokens'[File'], text'[File'], currentToken', currentTokenVal')
        BY DEF BelongsTo
    <2> QED
        BY <1>2, <2>1, <2>2 DEF Values
<1>5. LookingAhead'
    BY <1>2 DEF LookingAhead
<1>6. OperatorShape'
    BY <1>1 DEF OperatorShape, Asking
<1>7. Foreseen' /\ Advanced'
    BY <1>1, Unasked
<1> QED
    BY <1>2, <1>3, <1>4, <1>5, <1>6, <1>7

LEMMA EndsKeep ==
    ASSUME Inv, Idle, operator.step \in {"none", "left"}, NEW s \in {"read", "endless"}, Ends(s)
    PROVE  Inv'
<1>1. /\ UNCHANGED <<source, operator, saved, tokens>> /\ lexing' = lexing
      /\ currentToken' = currentToken /\ currentTokenVal' = currentTokenVal /\ path' = path
      /\ files' = files /\ searched' = searched /\ status' = s
    BY DEF Ends
<1>2. lexing.mode = "idle" /\ lexing \in LexType
    BY LexTyped DEF Idle, In, Inv
<1>3. ~Idle'
    BY <1>1 DEF Idle, In, Reading
<1>4. /\ currentToken \in Token /\ path \in {"none", "inside", "read"}
      /\ files \in Seq([file : Files, old_current_token : Token]) \ {<<>>}
      /\ searched \subseteq Files
    BY DEF Inv, TypeOK
<1> QED
    BY <1>1, <1>2, <1>3, <1>4, FileKeeps

LEMMA ReadFileKeeps ==
    ASSUME Inv, NEW f \in Files, ReadFile(f)
    PROVE  Inv'
<1>1. /\ Idle /\ path = "read" /\ Get /\ lexing' \in LexType /\ lexing'.mode = "begin"
      /\ UNCHANGED <<source, operator, saved, tokens>>
      /\ currentToken' = currentToken /\ currentTokenVal' = currentTokenVal
      /\ path' = "none" /\ searched' = searched \cup {f} /\ status' = status
      /\ files' = Append(files, [file |-> f, old_current_token |-> currentToken])
    BY GetTyped DEF ReadFile
<1>2. operator.step \in {"none", "left"}
    BY <1>1, NoCalls DEF Inv
<1>3. /\ currentToken \in Token /\ searched \subseteq Files
      /\ files \in Seq([file : Files, old_current_token : Token])
      /\ status \in {"reading", "read", "rejected", "endless"}
    BY DEF Inv, TypeOK
<1>4. files' \in Seq([file : Files, old_current_token : Token]) \ {<<>>}
    <2>1. PICK r : r = [file |-> f, old_current_token |-> currentToken]
        OBVIOUS
    <2>2. r \in [file : Files, old_current_token : Token] /\ files' = Append(files, r)
        BY <1>1, <1>3, <2>1
    <2> QED
        BY <1>3, <2>2, AppendProperties
<1>5. ~Idle'
    BY <1>1 DEF Idle, In
<1> QED
    BY <1>1, <1>2, <1>3, <1>4, <1>5, FileKeeps

LEMMA EndIncludeKeeps ==
    ASSUME Inv, EndInclude
    PROVE  Inv'
<1>1. /\ Idle /\ ~InCalls /\ Len(files) > 1
      /\ UNCHANGED <<source, operator, saved, tokens>> /\ lexing' = lexing
      /\ currentToken' = files[Len(files)].old_current_token
      /\ currentTokenVal' = currentTokenVal /\ path' = path /\ searched' = searched
      /\ status' = IF currentToken' \in {"keyword", "EOF"} THEN status ELSE "rejected"
      /\ files' = SubSeq(files, 1, Len(files) - 1)
    BY DEF EndInclude, AtEnd
<1>2. operator.step \in {"none", "left"}
    BY <1>1, NoCalls DEF Inv
<1>3. lexing.mode = "idle" /\ lexing \in LexType
    BY <1>1, LexTyped DEF Idle, In, Inv
<1>4. /\ path \in {"none", "inside", "read"} /\ searched \subseteq Files
      /\ files \in Seq([file : Files, old_current_token : Token]) /\ Len(files) \in Nat
      /\ status \in {"reading", "read", "rejected", "endless"}
    <2>1. TypeOK
        BY DEF Inv
    <2>2. /\ path \in {"none", "inside", "read"} /\ searched \subseteq Files
          /\ status \in {"reading", "read", "rejected", "endless"}
        BY <2>1 DEF TypeOK
    <2>3. files \in Seq([file : Files, old_current_token : Token])
        BY <2>1 DEF TypeOK
    <2> QED
        BY <2>2, <2>3, LenProperties
<1>5. currentToken' \in Token
    <2>1. Len(files) \in 1..Len(files)
        BY <1>1, <1>4
    <2>2. files[Len(files)] \in [file : Files, old_current_token : Token]
        BY <1>4, <2>1, ElementOfSeq
    <2> QED
        BY <1>1, <2>2
<1>6. files' \in Seq([file : Files, old_current_token : Token]) \ {<<>>}
    <2>1. PICK n, R : n = Len(files) - 1 /\ R = [file : Files, old_current_token : Token]
        OBVIOUS
    <2>2. n \in Nat /\ n >= 1 /\ n <= Len(files) /\ n \in Int
        BY <1>1, <1>4, <2>1
    <2>3. \A i \in 1..n : files[i] \in R
        <3>1. \A i \in 1..n : i \in 1..Len(files)
            BY <1>4, <2>2
        <3> QED
            BY <1>4, <2>1, <3>1, ElementOfSeq
    <2>4. SubSeq(files, 1, n) \in Seq(R) /\ Len(SubSeq(files, 1, n)) = n
        <3>1. Len(SubSeq(files, 1, n)) = IF 1 <= n THEN n - 1 + 1 ELSE 0
            BY <2>2, <2>3, SubSeqProperties
        <3>2. SubSeq(files, 1, n) \in Seq(R)
            BY <2>2, <2>3, SubSeqProperties
        <3> QED
            BY <2>2, <3>1, <3>2
    <2>5. SubSeq(files, 1, n) # <<>>
        BY <2>2, <2>4, EmptySeq
    <2> QED
        BY <1>1, <2>1, <2>4, <2>5
<1>7. Idle' => currentToken' \in {"keyword", "EOF"}
    BY <1>1 DEF Idle, In, Reading
<1>8. status' \in {"reading", "read", "rejected", "endless"}
    BY <1>1, <1>4
<1> QED
    BY <1>1, <1>2, <1>3, <1>4, <1>5, <1>6, <1>7, <1>8, FileKeeps

LEMMA ParseFileKeeps ==
    ASSUME Inv, parse_file
    PROVE  Inv'
<1>1. CASE TakeToken
    BY <1>1, TakeTokenKeeps
<1>2. CASE PathWithoutEnd
    <2>1. Idle /\ path = "inside" /\ Ends("endless")
        BY <1>2 DEF PathWithoutEnd
    <2>2. operator.step \in {"none", "left"}
        BY <2>1, NoCalls DEF Inv
    <2> QED
        BY <2>1, <2>2, EndsKeep
<1>3. CASE ReadAlready
    BY <1>3, ReadAlreadyKeeps
<1>4. ASSUME NEW f \in Files, ReadFile(f) PROVE Inv'
    BY <1>4, ReadFileKeeps
<1>5. CASE EndInclude
    BY <1>5, EndIncludeKeeps
<1>6. CASE EndMain
    <2>1. Idle /\ ~InCalls /\ Ends("read")
        BY <1>6 DEF EndMain, AtEnd
    <2>2. operator.step \in {"none", "left"}
        BY <2>1, NoCalls DEF Inv
    <2> QED
        BY <2>1, <2>2, EndsKeep
<1> QED
    BY <1>1, <1>2, <1>3, <1>4, <1>5, <1>6 DEF parse_file-----------------------------------------------------------------------------
(* peek_next_token() keeps the invariant *)

LEMMA BlankNone == ASSUME NEW s, NEW u \in Nat PROVE Blank(s, u, u)
    BY DEF Blank

LEMMA PeekKeeps ==
    ASSUME Inv, NEW k \in 1..2, operator.step \in {"double", "third", "equal"},
           k = 2 <=> operator.step = "third", Peek(k)
    PROVE  Inv'
<1> USE DEF Inv
<1>1. /\ Idle /\ lexing.mode = "idle" /\ ~Peeking /\ ~InToken /\ Reading
      /\ lexing' \in LexType /\ lexing'.mode = "begin" /\ UNCHANGED source
      /\ UNCHANGED <<text, at, lastChars, Line>> /\ text' = text /\ at' = at
      /\ currentToken' = currentToken /\ currentTokenVal' = currentTokenVal
      /\ operator' = operator /\ path' = path /\ files' = files /\ searched' = searched
      /\ status' = status /\ tokens' = tokens
    BY GetTyped DEF Peek, Idle, In, Peeking, InToken, parser, source
<1>2. File' = File /\ File \in Files
    BY <1>1, CurrentFile DEF File
<1>3. PICK r : r = Snapshot
    OBVIOUS
<1>4. saved' = <<[snapshot |-> r, left |-> k]>>
    BY <1>3 DEF Peek
<1>5. /\ r.at = at[File] /\ r.lastChar = lastChar /\ r.Line = Line
      /\ r.currentToken = currentToken /\ r.currentTokenVal = currentTokenVal
      /\ r \in SnapshotType
    <2>1. /\ at[File] \in 0..MaxText /\ lastChar \in Char \cup {"EOF", "NUL"}
          /\ Line \in 1..MaxText + 1 /\ currentToken \in Token
          /\ currentTokenVal \in Seq(Char \cup {"EOF"})
        BY <1>2 DEF TypeOK, lastChar
    <2>2. r = [at |-> at[File], lastChar |-> lastChar, Line |-> Line,
               currentToken |-> currentToken, currentTokenVal |-> currentTokenVal]
        BY <1>3 DEF Snapshot
    <2> QED
        BY <2>1, <2>2 DEF SnapshotType
<1>6. Before' = r /\ Peeking' /\ saved'[1].left = k /\ Len(saved') <= 1 /\ saved' \in Seq(SaveType)
    <2>1. PICK q : q = [snapshot |-> r, left |-> k]
        OBVIOUS
    <2>2. q \in SaveType /\ q.snapshot = r /\ q.left = k
        BY <1>5, <2>1 DEF SaveType
    <2>3. saved' = <<q>>
        BY <1>4, <2>1
    <2>4. saved'[1] = q /\ saved' # <<>> /\ Len(saved') = 1 /\ saved' \in Seq(SaveType)
        BY <2>2, <2>3
    <2> QED
        BY <2>2, <2>4 DEF Before, Peeking
<1>7. Sources' /\ SourceTypes'
    BY <1>1, QuietKeepsSources
<1>8. TypeOK'
    <2>1. /\ operator' \in OperatorType
          /\ currentToken' \in Token /\ currentTokenVal' \in Seq(Char \cup {"EOF"})
          /\ path' \in {"none", "inside", "read"}
          /\ files' \in Seq([file : Files, old_current_token : Token]) \ {<<>>}
          /\ searched' \subseteq Files
          /\ status' \in {"reading", "read", "rejected", "endless"}
        BY <1>1, OperatorTyped DEF TypeOK
    <2> QED
        BY <1>1, <1>6, <1>7, <2>1, ParserTypes
<1>9. Saved'
    <2>1. r.at <= at[File]
        BY <1>2, <1>5, LexerAssumption DEF TypeOK
    <2>2. LastIs(r.lastChar, text[File], r.at)
        BY <1>1, <1>2, <1>5 DEF Sources, lastChar
    <2>3. r.Line = 1 + Cardinality(BreaksTo(text, [at EXCEPT ![File] = r.at]))
        <3>1. [at EXCEPT ![File] = r.at] = at
            BY <1>2, <1>5 DEF TypeOK
        <3> QED
            BY <1>5, <3>1 DEF Sources
    <2> QED
        BY <1>1, <1>2, <1>6, <2>1, <2>2, <2>3 DEF Saved, SaveType
<1>10. ~InToken' /\ Places'
    BY <1>1 DEF InToken, Places
<1>11. \A g \in Files : Taken(g)' = Taken(g)
    <2>1. SUFFICES ASSUME NEW g \in Files PROVE Taken(g)' = Taken(g)
        OBVIOUS
    <2>2. Taken(g) = UsedBy(lastChars[g], at[g])
        BY <1>1 DEF Taken
    <2>3. Taken(g)' = IF g = File THEN UsedBy(r.lastChar, r.at) ELSE UsedBy(lastChars[g], at[g])
        BY <1>1, <1>2, <1>6, <1>10 DEF Taken
    <2> QED
        BY <1>5, <2>2, <2>3 DEF lastChar
<1>12. Covered'
    BY <1>1, <1>11 DEF Covered
<1>13. Values'
    <2>1. BelongsTo(tokens[File], text[File], currentToken, currentTokenVal)
        BY <1>1 DEF Values
    <2>2. ~Idle'
        BY <1>1 DEF Idle, In
    <2> QED
        BY <1>1, <1>2, <1>5, <1>6, <2>1, <2>2 DEF Values
<1>14. OperatorShape'
    BY <1>1, <1>6 DEF OperatorShape, Asking
<1>15. Taken(File)' = Taken(File)
    BY <1>2, <1>11
<1>16. Foreseen'
    BY <1>1, <1>2, <1>15 DEF Foreseen, Asking
<1>17. Advanced'
    BY <1>1 DEF Advanced
<1>18. LookingAhead'
    <2>1. PICK s, a, u : s = text[File] /\ a = Taken(File) /\ u = Used1
        OBVIOUS
    <2>2. u = a /\ a \in Nat /\ a \in 0..Len(s)
        <3>1. Taken(File) \in 0..at[File] /\ at[File] \in 0..Len(text[File]) /\ Taken(File) \in Nat
              /\ Taken(File) <= Len(text[File]) /\ TextOf(text[File])
            BY <1>2, TakenRange
        <3>2. Len(text[File]) \in Nat
            BY <3>1 DEF TextOf
        <3>3. Taken(File) = Used1
            BY <1>1 DEF Taken, Used1
        <3> QED
            BY <2>1, <3>1, <3>2, <3>3
    <2>3. Used1' = u
        BY <1>1, <1>2, <2>1 DEF Used1
    <2>4. Blank(s, u, u)
        BY <2>2, BlankNone
    <2>5. CASE k = 1
        <3>1. LooksAt(s, a, a, u, 1, "begin", currentToken)
            BY <2>2, <2>4 DEF LooksAt
        <3>2. \E b \in 0..Len(s) :
                 /\ LooksAt(s, a, b, u, k, "begin", currentToken)
                 /\ IF operator.step = "third" THEN Finds(s, a, operator.op[1], b)
                    ELSE b = a /\ k < 2
            BY <2>2, <2>5, <3>1
        <3> QED
            BY <1>1, <1>2, <1>6, <1>15, <2>1, <2>3, <3>2 DEF LookingAhead
    <2>6. CASE k = 2
        <3>1. operator.step = "third" /\ Asking
            BY <2>6 DEF Asking
        <3>2. PICK c : operator.op = <<c, c>>
            BY <3>1 DEF OperatorShape
        <3>3. Len(operator.op) = 2 /\ operator.op[1] = c /\ operator.op[2] = c
            BY <3>2
        <3>4. Ahead(s, a, operator.op, 2)
            BY <2>1, <3>1 DEF Foreseen
        <3>5. PICK b \in 1..Len(s) : Finds(s, a, c, b)
            BY <3>3, <3>4 DEF Ahead
        <3>6. LooksAt(s, a, b, u, 2, "begin", currentToken)
            BY <2>2, <2>4 DEF LooksAt
        <3>7. b \in 0..Len(s)
            BY <3>5
        <3>8. \E d \in 0..Len(s) :
                 /\ LooksAt(s, a, d, u, k, "begin", currentToken)
                 /\ IF operator.step = "third" THEN Finds(s, a, operator.op[1], d)
                    ELSE d = a /\ k < 2
            BY <2>6, <3>1, <3>3, <3>5, <3>6, <3>7
        <3> QED
            BY <1>1, <1>2, <1>6, <1>15, <2>1, <2>3, <3>8 DEF LookingAhead
    <2> QED
        BY <2>5, <2>6
<1> QED
    BY <1>7, <1>8, <1>9, <1>10, <1>12, <1>13, <1>14, <1>16, <1>17, <1>18

LEMMA PeekOneMoreKeeps ==
    ASSUME Inv, PeekOneMore
    PROVE  Inv'
<1> USE DEF Inv
<1>1. /\ lexing.mode = "idle" /\ Peeking /\ saved[1].left > 0 /\ ~InToken /\ Reading
      /\ lexing' \in LexType /\ lexing'.mode = "begin" /\ UNCHANGED source
      /\ UNCHANGED <<text, at, lastChars, Line>> /\ text' = text
      /\ status' = status /\ Kept /\ operator' = operator /\ saved' = saved /\ path' = path
      /\ currentToken' = currentToken
    BY GetTyped DEF PeekOneMore, In, Peeking, InToken, parser, source, Kept
<1>2. /\ File' = File /\ File \in Files /\ tokens' = tokens /\ Peeking' /\ Before' = Before
    BY <1>1, KeptFile, CurrentFile
<1>3. Sources' /\ SourceTypes'
    BY <1>1, QuietKeepsSources
<1>4. TypeOK'
    BY <1>1, <1>3, KeptTypes
<1>5. Saved'
    BY <1>1, KeptSaved
<1>6. ~InToken' /\ Places'
    BY <1>1 DEF InToken, Places
<1>7. Taken(File)' = Taken(File)
    BY <1>1, <1>2 DEF Taken
<1>8. Covered'
    <2>1. Covers(tokens'[File], Taken(File)', text'[File])
        BY <1>1, <1>2, <1>7 DEF Covered
    <2> QED
        BY <1>1, <1>2, <2>1, OthersCovered
<1>9. Values'
    <2>1. BelongsTo(tokens'[File'], text'[File'], Before'.currentToken, Before'.currentTokenVal)
        BY <1>1, <1>2, SavedValue
    <2>2. ~Idle'
        BY <1>1 DEF Idle, In
    <2> QED
        BY <1>1, <2>1, <2>2 DEF Values
<1>10. OperatorShape'
    BY <1>1, <1>2 DEF OperatorShape, Asking
<1>11. Foreseen'
    BY <1>1, <1>2, <1>7 DEF Foreseen, Asking
<1>12. Advanced'
    BY <1>1, NotWhileTaken DEF Advanced
<1>13. LookingAhead'
    <2>1. saved[1].left \in 1..2 /\ saved'[1].left = saved[1].left
        BY <1>1, SavedIs
    <2>2. Used1' = Used1
        BY <1>1, <1>2 DEF Used1
    <2>3. ASSUME NEW b \in 0..Len(text[File]),
                 LooksAt(text[File], Taken(File), b, Used1, saved[1].left, lexing.mode, currentToken)
          PROVE  LooksAt(text'[File], Taken(File), b, Used1', saved'[1].left, lexing'.mode,
                         currentToken')
        <3>1. PICK s, a, u, n, x : /\ s = text[File] /\ a = Taken(File) /\ u = Used1
                                   /\ n = saved[1].left /\ x = currentToken
            OBVIOUS
        <3>2. LooksAt(s, a, b, u, n, "idle", x) /\ b \in Nat
            BY <1>1, <2>3, <3>1
        <3>3. n # 2
            <4>1. ASSUME n = 2 PROVE FALSE
                BY <3>2, <4>1 DEF LooksAt
            <4> QED
                BY <4>1
        <3>4. n = 1
            BY <2>1, <3>1, <3>3
        <3>5. u = b
            BY <3>2, <3>4 DEF LooksAt
        <3>6. LooksAt(s, a, b, u, n, "begin", x)
            BY <3>2, <3>4, <3>5, BlankNone DEF LooksAt
        <3> QED
            BY <1>1, <2>1, <2>2, <3>1, <3>6
    <2>4. Reader
        BY DEF Reader
    <2> QED
        BY <1>1, <1>2, <1>7, <2>1, <2>3, <2>4, LooksOn
<1> QED
    BY <1>3, <1>4, <1>5, <1>6, <1>8, <1>9, <1>10, <1>11, <1>12, <1>13
\* What the step that ends looking ahead finds of the tokens that have been looked at.
LEMMA EndPeekSees ==
    ASSUME Inv, EndPeek
    PROVE  /\ operator.step # "third" /\ currentToken \in Symbols =>
                  \E u \in 1..Len(text[File]) : Finds(text[File], Taken(File), currentToken, u)
           /\ operator.step = "third" =>
                  \E b \in 1..Len(text[File]) :
                     /\ Finds(text[File], Taken(File), operator.op[1], b)
                     /\ currentToken \in Symbols =>
                           \E u \in 1..Len(text[File]) : Finds(text[File], b, currentToken, u)
<1> USE DEF Inv
<1>1. Peeking /\ saved[1].left = 0
    BY DEF EndPeek, Peeking
<1>2. PICK b \in 0..Len(text[File]) :
         /\ LooksAt(text[File], Taken(File), b, Used1, 0, lexing.mode, currentToken)
         /\ IF operator.step = "third"
            THEN Finds(text[File], Taken(File), operator.op[1], b)
            ELSE b = Taken(File)
    BY <1>1 DEF LookingAhead
<1>3. currentToken \in Symbols => Finds(text[File], b, currentToken, Used1)
    BY <1>2 DEF LooksAt
<1>4. currentToken \in Symbols => Used1 \in 1..Len(text[File])
    BY <1>3 DEF Finds
<1>5. operator.step = "third" => b \in 1..Len(text[File])
    BY <1>2 DEF Finds
<1> QED
    BY <1>2, <1>3, <1>4, <1>5

LEMMA EndPeekReads ==
    ASSUME Inv, EndPeek, operator' \in OperatorType
    PROVE  /\ Reader' /\ LookingAhead' /\ ~Peeking' /\ lexing'.mode = "idle" /\ Reading
           /\ File' = File /\ text' = text /\ tokens' = tokens /\ path' = path
           /\ Taken(File)' = Taken(File)
<1> USE DEF Inv
<1>1. /\ lexing.mode = "idle" /\ Peeking /\ Reading /\ ~InToken
      /\ lexing' = lexing /\ lexing \in LexType /\ saved' = <<>> /\ ~Peeking' /\ Len(saved') <= 1
      /\ text' = text /\ tokens' = tokens /\ path' = path /\ files' = files /\ searched' = searched
      /\ status' \in {status, "rejected"}
    BY EmptySeq, LexTyped DEF EndPeek, Restore, In, Peeking, InToken
<1>2. /\ at' = [at EXCEPT ![File] = Before.at]
      /\ lastChars' = [lastChars EXCEPT ![File] = Before.lastChar]
      /\ Line' = Before.Line /\ currentToken' = Before.currentToken
      /\ currentTokenVal' = Before.currentTokenVal
    BY DEF EndPeek, Restore, Before
<1>3. File' = File /\ File \in Files
    BY <1>1, CurrentFile DEF File
<1>4. PICK r : r = Before
    OBVIOUS
<1>5. /\ r \in SnapshotType /\ r.at <= at[File] /\ LastIs(r.lastChar, text[File], r.at)
      /\ r.Line = 1 + Cardinality(BreaksTo(text, [at EXCEPT ![File] = r.at]))
    BY <1>1, <1>4, SavedIs DEF Saved
<1>6. /\ r.at \in 0..MaxText /\ r.lastChar \in Char \cup {"EOF", "NUL"} /\ r.Line \in 1..MaxText + 1
      /\ r.currentToken \in Token /\ r.currentTokenVal \in Seq(Char \cup {"EOF"})
      /\ r.at \in Nat
    BY <1>5, LexerAssumption DEF SnapshotType
<1>7. /\ at \in [Files -> 0..MaxText] /\ lastChars \in [Files -> Char \cup {"EOF", "NUL"}]
      /\ at' \in [Files -> 0..MaxText] /\ lastChars' \in [Files -> Char \cup {"EOF", "NUL"}]
      /\ at'[File] = r.at /\ lastChars'[File] = r.lastChar
      /\ \A g \in Files : g # File => at'[g] = at[g] /\ lastChars'[g] = lastChars[g]
    BY <1>2, <1>3, <1>4, <1>6 DEF TypeOK
<1>8. SourceTypes'
    BY <1>1, <1>2, <1>4, <1>6, <1>7 DEF SourceTypes, TypeOK
<1>9. Sources'
    <2>1. \A g \in Files : TextOf(text[g]) /\ Reached(text[g], at'[g])
        <3>1. SUFFICES ASSUME NEW g \in Files PROVE TextOf(text[g]) /\ Reached(text[g], at'[g])
            OBVIOUS
        <3>2. TextOf(text[g]) /\ Reached(text[g], at[g]) /\ Len(text[g]) \in Nat
            BY DEF Sources, TextOf
        <3>3. CASE g = File
            BY <1>5, <1>6, <1>7, <3>2, <3>3 DEF Reached
        <3>4. CASE g # File
            BY <1>7, <3>2, <3>4
        <3> QED
            BY <3>3, <3>4
    <2>2. \A g \in Files : LastIs(lastChars'[g], text[g], at'[g])
        <3>1. SUFFICES ASSUME NEW g \in Files PROVE LastIs(lastChars'[g], text[g], at'[g])
            OBVIOUS
        <3>2. CASE g = File
            BY <1>5, <1>7, <3>2
        <3>3. CASE g # File
            BY <1>1, <1>7, <3>3 DEF Sources
        <3> QED
            BY <3>2, <3>3
    <2>3. Characters' <= MaxText
        BY <1>1 DEF Characters, Sources
    <2>4. Line' = 1 + Cardinality(BreaksTo(text', at'))
        BY <1>1, <1>2, <1>4, <1>5
    <2> QED
        BY <1>1, <2>1, <2>2, <2>3, <2>4 DEF Sources
<1>10. TypeOK'
    <2>1. /\ path' \in {"none", "inside", "read"}
          /\ files' \in Seq([file : Files, old_current_token : Token]) \ {<<>>}
          /\ searched' \subseteq Files
          /\ status' \in {"reading", "read", "rejected", "endless"}
        BY <1>1 DEF TypeOK
    <2>2. currentToken' \in Token /\ currentTokenVal' \in Seq(Char \cup {"EOF"})
        BY <1>2, <1>4, <1>6
    <2> QED
        BY <1>1, <1>8, <2>1, <2>2, ParserTypes
<1>11. ~InToken' /\ Places' /\ Saved' /\ LookingAhead' /\ lexing'.mode = "idle"
    BY <1>1 DEF InToken, Places, Saved, LookingAhead
<1>12. \A g \in Files : Taken(g)' = Taken(g)
    <2>1. SUFFICES ASSUME NEW g \in Files PROVE Taken(g)' = Taken(g)
        OBVIOUS
    <2>2. Taken(g)' = UsedBy(lastChars'[g], at'[g])
        BY <1>1, <1>11 DEF Taken
    <2>3. Taken(g) = IF g = File THEN UsedBy(r.lastChar, r.at) ELSE UsedBy(lastChars[g], at[g])
        BY <1>1, <1>4 DEF Taken
    <2> QED
        BY <1>7, <2>2, <2>3
<1>13. Covered'
    BY <1>1, <1>12 DEF Covered
<1>14. Values'
    <2>1. BelongsTo(tokens[File], text[File], r.currentToken, r.currentTokenVal)
        BY <1>1, <1>4 DEF Values
    <2> QED
        BY <1>1, <1>2, <1>3, <1>4, <2>1 DEF Values
<1>15. Taken(File)' = Taken(File)
    BY <1>3, <1>12
<1> QED
    BY <1>1, <1>3, <1>9, <1>10, <1>11, <1>13, <1>14, <1>15 DEF Reader
\* The operator found so far is m, and the next step is w.
LEMMA ToldKeeps ==
    ASSUME Inv, EndPeek, NEW w \in {"third", "equal", "found"}, NEW m \in Seq(Symbols \cup {"."}),
           operator' = [step |-> w, op |-> m, first |-> operator.first, left |-> operator.left],
           m[1] = operator.op[1], Ahead(text[File], Taken(File), m, 2),
           w = "third" => \E c \in Third : m = <<c, c>>,
           w = "equal" => \E c \in Double \cup Equal : m = <<c>> /\ (c \in Equal \/ ~Reading'),
           w = "found" => m \in Ones \cup Twos \cup Threes
    PROVE  Inv'
<1> USE DEF Inv
<1>1. operator.step \in {"double", "third", "equal"} /\ Asking
    <2>1. Peeking
        BY DEF EndPeek, Peeking
    <2>2. operator.step \in {"double", "third", "equal"}
        BY <2>1 DEF Saved
    <2> QED
        BY <2>2 DEF Asking
<1>2. PICK f, l : f = operator.first /\ l = operator.left
    OBVIOUS
<1>3. /\ f \in 0..MaxText /\ l \in 0..(IF MaxAsks < 2 THEN 3 ELSE MaxAsks + 1)
      /\ l <= MaxAsks /\ path = "none"
    BY <1>1, <1>2, OperatorTyped DEF OperatorShape, OperatorType
<1>4. /\ operator'.step = w /\ operator'.op = m /\ operator'.first = f /\ operator'.left = l
      /\ operator' \in OperatorType
    <2>1. operator' = [step |-> w, op |-> m, first |-> f, left |-> l]
        BY <1>2
    <2>2. w \in Steps
        BY DEF Steps
    <2> QED
        BY <1>3, <2>1, <2>2 DEF OperatorType
<1>5. /\ Reader' /\ LookingAhead' /\ lexing'.mode = "idle"
      /\ File' = File /\ text' = text /\ tokens' = tokens /\ path' = path
      /\ Taken(File)' = Taken(File)
    BY <1>4, EndPeekReads
<1>6. OperatorShape'
    BY <1>3, <1>4, <1>5 DEF OperatorShape, Asking
<1>7. Foreseen'
    <2>1. f = Len(tokens[File]) /\ f >= 1 /\ tokens[File][f].kind = m[1]
        BY <1>1, <1>2 DEF Foreseen
    <2>2. Ahead(text'[File'], Taken(File)', operator'.op, 2)
        BY <1>4, <1>5
    <2> QED
        BY <1>4, <1>5, <2>1, <2>2 DEF Foreseen
<1>8. Advanced'
    BY <1>4 DEF Advanced
<1> QED
    BY <1>5, <1>6, <1>7, <1>8 DEF Reader

LEMMA AheadOf ==
    ASSUME NEW s, NEW a, NEW m, Len(m) \in 1..3,
           Len(m) >= 2 => \E b \in 1..Len(s) :
                             /\ Finds(s, a, m[2], b)
                             /\ Len(m) >= 3 => \E u \in 1..Len(s) : Finds(s, b, m[3], u)
    PROVE  Ahead(s, a, m, 2)
<1>1. 2 + 1 = 3
    OBVIOUS
<1> QED
    BY <1>1 DEF Ahead

LEMMA AppendOne == ASSUME NEW c, NEW x PROVE Append(<<c>>, x) = <<c, x>>
<1>1. PICK S : S = {c, x}
    OBVIOUS
<1>2. <<c>> \in Seq(S) /\ x \in S /\ <<c, x>> \in Seq(S)
    BY <1>1
<1>3. Len(<<c>>) = 1 /\ <<c>>[1] = c /\ Len(<<c, x>>) = 2
    OBVIOUS
<1>4. PICK q : q = Append(<<c>>, x)
    OBVIOUS
<1>5. q \in Seq(S) /\ Len(q) = 2 /\ q[1] = c /\ q[2] = x
    BY <1>2, <1>3, <1>4, AppendProperties
<1>6. q = <<q[1], q[2]>>
    BY <1>5
<1> QED
    BY <1>4, <1>5, <1>6

LEMMA AppendTwo == ASSUME NEW c, NEW d, NEW x PROVE Append(<<c, d>>, x) = <<c, d, x>>
<1>1. PICK S : S = {c, d, x}
    OBVIOUS
<1>2. <<c, d>> \in Seq(S) /\ x \in S
    BY <1>1
<1>3. Len(<<c, d>>) = 2 /\ <<c, d>>[1] = c /\ <<c, d>>[2] = d
    OBVIOUS
<1>4. PICK q : q = Append(<<c, d>>, x)
    OBVIOUS
<1>5. q \in Seq(S) /\ Len(q) = 3 /\ q[1] = c /\ q[2] = d /\ q[3] = x
    BY <1>2, <1>3, <1>4, AppendProperties
<1>6. q = <<q[1], q[2], q[3]>>
    BY <1>5
<1> QED
    BY <1>4, <1>5, <1>6

LEMMA EndPeekKeeps ==
    ASSUME Inv, EndPeek
    PROVE  Inv'
<1> USE DEF Inv
<1>1. PICK t, f, l, p, s, a : /\ t = currentToken /\ f = operator.first /\ l = operator.left
                              /\ p = operator.op /\ s = text[File] /\ a = Taken(File)
    OBVIOUS
<1>2. /\ operator' = Told(operator, t) /\ Peeking /\ Reading
      /\ status' = IF operator.op = <<":">> /\ t # ":" THEN "rejected" ELSE status
    BY <1>1 DEF EndPeek, Peeking, In
<1>3. operator.step \in {"double", "third", "equal"}
    BY <1>2 DEF Saved
<1>4. PICK c \in Double \cup Equal :
         /\ operator.step = "double" => p = <<c>> /\ c \in Double
         /\ operator.step = "equal" => p = <<c>> /\ c \in Equal
         /\ operator.step = "third" => p = <<c, c>> /\ c \in Third
    <2>1. CASE operator.step = "double"
        BY <1>1, <2>1 DEF OperatorShape
    <2>2. CASE operator.step = "equal"
        BY <1>1, <1>2, <2>2 DEF OperatorShape
    <2>3. CASE operator.step = "third"
        <3>1. \A x \in Third : x \in Double
            BY DEF Third, Double
        <3> QED
            BY <1>1, <2>3, <3>1 DEF OperatorShape
    <2> QED
        BY <1>3, <2>1, <2>2, <2>3
<1>5. /\ p \in Seq(Symbols \cup {"."}) /\ p[1] = c /\ c \in Symbols \cup {"."} /\ c \in Symbols
      /\ operator.op[1] = c
      /\ operator = [step |-> operator.step, op |-> p, first |-> f, left |-> l]
    <2>1. /\ p \in Seq(Symbols \cup {"."})
          /\ operator = [step |-> operator.step, op |-> p, first |-> f, left |-> l]
        BY <1>1, OperatorTyped DEF OperatorType
    <2>2. p[1] = c /\ Len(p) >= 1
        <3>1. <<c>>[1] = c /\ <<c, c>>[1] = c /\ Len(<<c>>) = 1 /\ Len(<<c, c>>) = 2
            OBVIOUS
        <3>2. p = <<c>> \/ p = <<c, c>>
            BY <1>3, <1>4
        <3>3. CASE p = <<c>>
            BY <3>1, <3>3
        <3>4. CASE p = <<c, c>>
            BY <3>1, <3>4
        <3> QED
            BY <3>2, <3>3, <3>4
    <2>3. c \in Symbols \cup {"."}
        <3>1. 1 \in 1..Len(p)
            BY <2>1, <2>2
        <3> QED
            BY <2>1, <2>2, <3>1, ElementOfSeq
    <2>4. c # "."
        BY OperatorToken
    <2> QED
        BY <1>1, <2>1, <2>2, <2>3, <2>4
<1>6. t = "=" => t \in Symbols
    <2>1. t \in Token /\ "=" \in Equal /\ "=" \in OperatorChars
        BY <1>1 DEF TypeOK, Equal, OperatorChars
    <2>2. t = "=" => t \in Symbols \cup {"."}
        BY <2>1, OperatorToken
    <2> QED
        BY <2>2
<1>7. /\ operator.step # "third" /\ t \in Symbols => \E u \in 1..Len(s) : Finds(s, a, t, u)
      /\ operator.step = "third" =>
            \E b \in 1..Len(s) :
               /\ Finds(s, a, c, b)
               /\ t \in Symbols => \E u \in 1..Len(s) : Finds(s, b, t, u)
    BY <1>1, <1>5, EndPeekSees
<1>8. CASE operator.step = "double" /\ t = c
    <2>1. PICK m : m = <<c, c>>
        OBVIOUS
    <2>2. PICK w : w = IF c \in Third THEN "third" ELSE "found"
        OBVIOUS
    <2>3. m \in Seq(Symbols \cup {"."}) /\ Len(m) = 2 /\ m[1] = c /\ m[2] = c
        BY <1>5, <2>1
    <2>4. operator' = [step |-> w, op |-> m, first |-> f, left |-> l]
        <3>1. PICK q : q = [operator EXCEPT !.op = <<operator.op[1], operator.op[1]>>]
            OBVIOUS
        <3>7. <<operator.op[1], operator.op[1]>> = m
            BY <1>5, <2>1, Zenon
        <3>8. q = [operator EXCEPT !.op = m]
            BY <3>1, <3>7, Zenon
        <3>2. q = [step |-> operator.step, op |-> m, first |-> f, left |-> l]
            BY <1>5, <3>8
        <3>3. [q EXCEPT !.step = w] = [step |-> w, op |-> m, first |-> f, left |-> l]
            BY <3>2
        <3>4. operator' = [operator EXCEPT
                              !.op = <<operator.op[1], operator.op[1]>>,
                              !.step = IF operator.op[1] \in Third THEN "third" ELSE "found"]
            BY <1>2, <1>5, <1>8, Zenon DEF Told
        <3>5. w = IF operator.op[1] \in Third THEN "third" ELSE "found"
            BY <1>5, <2>2
        <3>6. operator' = [q EXCEPT !.step = w]
            BY <3>1, <3>4, <3>5, Zenon
        <3> QED
            BY <3>3, <3>6
    <2>5. Ahead(s, a, m, 2)
        BY <1>5, <1>7, <1>8, <2>3, AheadOf
    <2>6. m \in Ones \cup Twos \cup Threes
        BY <1>4, <1>8, <2>1 DEF Twos
    <2>7. w \in {"third", "found"} /\ (w = "third" => c \in Third)
        BY <2>2
    <2> QED
        BY <1>1, <1>5, <2>1, <2>3, <2>4, <2>5, <2>6, <2>7, ToldKeeps
<1>9. CASE operator.step = "double" /\ t # c
    <2>1. operator' = [step |-> "equal", op |-> p, first |-> f, left |-> l]
        <3>1. operator' = [operator EXCEPT !.step = "equal"]
            BY <1>2, <1>5, <1>9, Zenon DEF Told
        <3> QED
            BY <1>5, <3>1
    <2>2. p = <<c>> /\ Len(p) = 1
        BY <1>4, <1>9
    <2>3. Ahead(s, a, p, 2)
        BY <2>2, AheadOf
    <2>4. c \in Equal \/ ~Reading'
        <3>1. SUFFICES ASSUME c \notin Equal PROVE ~Reading'
            OBVIOUS
        <3>2. c = ":"
            BY <1>4, <1>9, <3>1 DEF Double, Equal
        <3>3. status' = "rejected"
            BY <1>1, <1>2, <1>9, <2>2, <3>2
        <3> QED
            BY <3>3 DEF Reading
    <2> QED
        BY <1>1, <1>5, <2>1, <2>2, <2>3, <2>4, ToldKeeps
<1>10. CASE operator.step = "equal" /\ t = "="
    <2>1. PICK m : m = <<c, "=">>
        OBVIOUS
    <2>2. m \in Seq(Symbols \cup {"."}) /\ Len(m) = 2 /\ m[1] = c /\ m[2] = "="
        BY <1>5, <1>6, <1>10, <2>1
    <2>3. p = <<c>> /\ c \in Equal
        BY <1>4, <1>10
    <2>4. operator' = [step |-> "found", op |-> m, first |-> f, left |-> l]
        <3>1. operator' = [operator EXCEPT !.step = "found", !.op = Append(operator.op, "=")]
            BY <1>2, <1>10, Zenon DEF Told
        <3>2. Append(<<c>>, "=") = m
            BY <2>1, AppendOne
        <3>3. Append(operator.op, "=") = m
            BY <1>1, <2>3, <3>2
        <3>4. PICK q : q = [operator EXCEPT !.step = "found"]
            OBVIOUS
        <3>5. q = [step |-> "found", op |-> p, first |-> f, left |-> l]
            BY <1>5, <3>4
        <3>6. [q EXCEPT !.op = m] = [step |-> "found", op |-> m, first |-> f, left |-> l]
            BY <3>5
        <3>7. operator' = [q EXCEPT !.op = m]
            BY <3>1, <3>3, <3>4, Zenon
        <3> QED
            BY <3>6, <3>7
    <2>5. Ahead(s, a, m, 2)
        BY <1>6, <1>7, <1>10, <2>2, AheadOf
    <2>6. m \in Ones \cup Twos \cup Threes
        BY <2>1, <2>3 DEF Twos
    <2> QED
        BY <1>1, <1>5, <2>2, <2>4, <2>5, <2>6, ToldKeeps
<1>11. CASE operator.step = "third" /\ t = "="
    <2>1. PICK m : m = <<c, c, "=">>
        OBVIOUS
    <2>2. m \in Seq(Symbols \cup {"."}) /\ Len(m) = 3 /\ m[1] = c /\ m[2] = c /\ m[3] = "="
        BY <1>5, <1>6, <1>11, <2>1
    <2>3. p = <<c, c>> /\ c \in Third
        BY <1>4, <1>11
    <2>4. operator' = [step |-> "found", op |-> m, first |-> f, left |-> l]
        <3>1. operator' = [operator EXCEPT !.step = "found", !.op = Append(operator.op, "=")]
            BY <1>2, <1>11, Zenon DEF Told
        <3>2. Append(<<c, c>>, "=") = m
            BY <2>1, AppendTwo
        <3>3. Append(operator.op, "=") = m
            BY <1>1, <2>3, <3>2
        <3>4. PICK q : q = [operator EXCEPT !.step = "found"]
            OBVIOUS
        <3>5. q = [step |-> "found", op |-> p, first |-> f, left |-> l]
            BY <1>5, <3>4
        <3>6. [q EXCEPT !.op = m] = [step |-> "found", op |-> m, first |-> f, left |-> l]
            BY <3>5
        <3>7. operator' = [q EXCEPT !.op = m]
            BY <3>1, <3>3, <3>4, Zenon
        <3> QED
            BY <3>6, <3>7
    <2>5. Ahead(s, a, m, 2)
        BY <1>6, <1>7, <1>11, <2>2, AheadOf
    <2>6. m \in Ones \cup Twos \cup Threes
        BY <2>1, <2>3 DEF Threes
    <2> QED
        BY <1>1, <1>5, <2>2, <2>4, <2>5, <2>6, ToldKeeps
<1>12. CASE operator.step \in {"equal", "third"} /\ t # "="
    <2>1. operator' = [step |-> "found", op |-> p, first |-> f, left |-> l]
        <3>1. operator' = [operator EXCEPT !.step = "found", !.op = operator.op]
            BY <1>2, <1>12, Zenon DEF Told
        <3>2. PICK q : q = [operator EXCEPT !.step = "found"]
            OBVIOUS
        <3>3. q = [step |-> "found", op |-> p, first |-> f, left |-> l]
            BY <1>5, <3>2
        <3>4. [q EXCEPT !.op = p] = [step |-> "found", op |-> p, first |-> f, left |-> l]
            BY <3>3
        <3>5. operator' = [q EXCEPT !.op = p]
            BY <1>1, <3>1, <3>2, Zenon
        <3> QED
            BY <3>4, <3>5
    <2>2. Ahead(s, a, p, 2)
        BY <1>1, <1>3 DEF Foreseen, Asking
    <2>3. p \in Ones \cup Twos \cup Threes
        <3>1. CASE operator.step = "equal"
            BY <1>4, <3>1 DEF Ones
        <3>2. CASE operator.step = "third"
            <4>1. \A x \in Third : x \in Double
                BY DEF Third, Double
            <4> QED
                BY <1>4, <3>2, <4>1 DEF Twos
        <3> QED
            BY <1>12, <3>1, <3>2
    <2> QED
        BY <1>1, <1>5, <2>1, <2>2, <2>3, ToldKeeps
<1> QED
    BY <1>3, <1>8, <1>9, <1>10, <1>11, <1>12-----------------------------------------------------------------------------
(* The invariant of the specification *)

LEMMA InitTyped == Init => TypeOK
<1>1. SUFFICES ASSUME Init PROVE TypeOK
    OBVIOUS
<1>2. MaxText \in Nat /\ MaxAsks \in Nat /\ Main \in Files
    BY LexerAssumption
<1>3. "EOF" \in Token /\ "begin" \in Mode
    BY DEF Token, Mode
<1>4. operator \in OperatorType
    BY <1>1, NoOperatorTyped DEF Init
<1>5. /\ text \in [Files -> Seq(Char \cup {"EOF"})]
      /\ at \in [Files -> 0..MaxText]
      /\ lastChars \in [Files -> Char \cup {"EOF", "NUL"}]
      /\ tokens \in [Files -> Seq([kind : Token, first : 1..MaxText, last : 1..MaxText])]
    BY <1>1, <1>2 DEF Init
<1>6. /\ Line \in 1..MaxText + 1 /\ currentToken \in Token
      /\ currentTokenVal \in Seq(Char \cup {"EOF"}) /\ Len(saved) <= 1
      /\ path \in {"none", "inside", "read"} /\ searched \subseteq Files
      /\ status \in {"reading", "read", "rejected", "endless"}
    BY <1>1, <1>2, <1>3, EmptySeq DEF Init
<1>7. lexing \in [mode : Mode, first : 0..MaxText, val : Seq(Char \cup {"EOF"})]
    BY <1>1, <1>2, <1>3 DEF Init
<1>8. files \in Seq([file : Files, old_current_token : Token]) \ {<<>>}
    <2>1. PICK r : r = [file |-> Main, old_current_token |-> "EOF"]
        OBVIOUS
    <2>2. r \in [file : Files, old_current_token : Token]
        BY <1>2, <1>3, <2>1
    <2>3. files = <<r>>
        BY <1>1, <2>1 DEF Init
    <2>4. <<r>> # <<>>
        OBVIOUS
    <2> QED
        BY <2>2, <2>3, <2>4
<1> QED
    BY <1>4, <1>5, <1>6, <1>7, <1>8 DEF TypeOK, OperatorType

LEMMA InitSources == Init => Sources
<1>1. SUFFICES ASSUME Init PROVE Sources
    OBVIOUS
<1>2. /\ \A f \in Files : text[f] = <<>> /\ at[f] = 0 /\ lastChars[f] = "NUL"
      /\ Line = 1 /\ MaxText \in Nat
    BY <1>1, LexerAssumption DEF Init
<1>3. \A f \in Files : TextOf(text[f]) /\ Reached(text[f], at[f])
                       /\ LastIs(lastChars[f], text[f], at[f])
    <2>1. TextOf(<<>>) /\ Reached(<<>>, 0)
        BY DEF TextOf, Reached
    <2>2. LastIs("NUL", <<>>, 0)
        BY DEF LastIs
    <2> QED
        BY <1>2, <2>1, <2>2
<1>4. CharsOf(text) = {}
    <2>1. \A f \in Files : DOMAIN text[f] = {}
        BY <1>2
    <2> QED
        BY <2>1 DEF CharsOf
<1>5. BreaksTo(text, at) = {}
    BY <1>2 DEF BreaksTo
<1>6. Cardinality({}) = 0
    BY FS_EmptySet
<1>7. Characters <= MaxText
    BY <1>2, <1>4, <1>6, CharactersMeans
<1>8. Line = 1 + Cardinality(BreaksTo(text, at))
    BY <1>2, <1>5, <1>6
<1> QED
    BY <1>3, <1>7, <1>8 DEF Sources

LEMMA InitInv == Init => Inv
<1>1. SUFFICES ASSUME Init PROVE Inv
    OBVIOUS
<1>2. /\ ~Peeking /\ ~InToken /\ ~Idle /\ lexing.mode = "begin"
      /\ operator.step = "none" /\ operator = NoOperator
    BY <1>1 DEF Init, Peeking, InToken, Idle, In, NoOperator
<1>3. Covered
    <2>1. SUFFICES ASSUME NEW f \in Files PROVE Covers(tokens[f], Taken(f), text[f])
        BY DEF Covered
    <2>2. tokens[f] = <<>> /\ at[f] = 0 /\ lastChars[f] = "NUL"
        BY <1>1 DEF Init
    <2>3. Taken(f) = 0
        BY <1>2, <2>2 DEF Taken, UsedBy
    <2> QED
        BY <2>2, <2>3 DEF Covers
<1>4. Saved /\ Places /\ Values /\ LookingAhead
    BY <1>2 DEF Saved, Places, Values, LookingAhead
<1>5. OperatorShape /\ Foreseen /\ Advanced
    BY <1>2 DEF OperatorShape, Foreseen, Advanced, Asking
<1> QED
    BY <1>1, <1>3, <1>4, <1>5, InitTyped, InitSources DEF Inv

LEMMA StutterKeeps ==
    ASSUME Inv, UNCHANGED vars
    PROVE  Inv'
<1> USE DEF Inv
<1>1. /\ UNCHANGED <<text, at, lastChars, Line>>
      /\ UNCHANGED <<currentToken, currentTokenVal, lexing, saved, tokens>>
      /\ UNCHANGED <<operator, path, files, searched, status>>
    BY DEF vars, source, parser
<1>2. File' = File /\ Before' = Before /\ (Peeking' <=> Peeking) /\ (InToken' <=> InToken)
      /\ Characters' = Characters /\ (Idle' <=> Idle) /\ Used1' = Used1 /\ Done' = Done
      /\ (Asking' <=> Asking) /\ (Reading' <=> Reading)
    BY <1>1 DEF File, Before, Peeking, InToken, Characters, Idle, In, Reading, Used1, Done, Asking
<1>3. \A f \in Files : Taken(f)' = Taken(f)
    BY <1>1, <1>2 DEF Taken
<1>4. Taken(File)' = Taken(File)
    BY <1>1, <1>2 DEF Taken
<1>5. TypeOK'
    BY <1>1 DEF TypeOK
<1>6. Sources'
    BY <1>1, <1>2 DEF Sources
<1>7. Saved' /\ Places' /\ Covered'
    BY <1>1, <1>2, <1>3 DEF Saved, Places, Covered
<1>8. Values'
    BY <1>1, <1>2 DEF Values
<1>9. OperatorShape'
    BY <1>1, <1>2 DEF OperatorShape
<1>10. LookingAhead'
    BY <1>1, <1>2, <1>4 DEF LookingAhead
<1>11. Foreseen'
    BY <1>1, <1>2, <1>4 DEF Foreseen
<1>12. Advanced'
    BY <1>1, <1>2, <1>4 DEF Advanced
<1> QED
    BY <1>5, <1>6, <1>7, <1>8, <1>9, <1>10, <1>11, <1>12

LEMMA NextInv == Inv /\ [Next]_vars => Inv'
<1>1. SUFFICES ASSUME Inv, [Next]_vars PROVE Inv'
    OBVIOUS
<1>2. CASE get_token
    BY <1>1, <1>2, LexerKeeps
<1>3. CASE BeginPeek
    <2>1. CASE operator.step \in {"double", "equal"} /\ Peek(1)
        BY <1>1, <2>1, PeekKeeps
    <2>2. CASE operator.step = "third" /\ Peek(2)
        BY <1>1, <2>2, PeekKeeps
    <2> QED
        BY <1>3, <2>1, <2>2 DEF BeginPeek
<1>4. CASE PeekOneMore
    BY <1>1, <1>4, PeekOneMoreKeeps
<1>5. CASE EndPeek
    BY <1>1, <1>5, EndPeekKeeps
<1>6. CASE Operators
    BY <1>1, <1>6, OperatorsKeep
<1>7. CASE parse_file
    BY <1>1, <1>7, ParseFileKeeps
<1>8. CASE Ended \/ UNCHANGED vars
    BY <1>1, <1>8, StutterKeeps DEF Ended
<1> QED
    BY <1>1, <1>2, <1>3, <1>4, <1>5, <1>6, <1>7, <1>8 DEF Next, peek_next_token
-----------------------------------------------------------------------------
(* What the lexer promises *)

\* When nothing is being read, a token of each file is one that has been taken.
LEMMA InvEveryChar == Inv => EveryCharOnce
<1>1. SUFFICES ASSUME Inv, Idle, NEW f \in Files
               PROVE  /\ \A p \in 1..Used(f) :
                            Isspace(text[f][p])
                              \/ \E i \in DOMAIN tokens[f] :
                                    p \in tokens[f][i].first..tokens[f][i].last
                      /\ \A i \in DOMAIN tokens[f] :
                            /\ tokens[f][i].first <= tokens[f][i].last
                            /\ tokens[f][i].last <= Used(f)
                            /\ i > 1 => tokens[f][i - 1].last < tokens[f][i].first
    BY DEF EveryCharOnce
<1>2. ~Peeking /\ ~InToken
    BY <1>1 DEF Idle, In, Peeking, InToken
<1>3. Taken(f) = Used(f)
    BY <1>2 DEF Taken, UsedBy, Used
<1>4. Covers(tokens[f], Used(f), text[f])
    BY <1>1, <1>3 DEF Inv, Covered
<1> QED
    BY <1>4 DEF Covers

LEMMA InvLookAhead == Inv => LookAheadUndone
<1>1. SUFFICES ASSUME Inv, Idle
               PROVE  LinesCounted /\ ValueOfToken
    BY DEF LookAheadUndone, LinesCounted, ValueOfToken
<1>2. LinesCounted
    BY <1>1 DEF Inv, Sources, LinesCounted, BreaksTo
<1>3. BelongsTo(tokens[File], text[File], currentToken, currentTokenVal)
    BY <1>1 DEF Inv, Values
<1>4. ValueOfToken
    BY <1>3 DEF BelongsTo, ValueOfToken
<1> QED
    BY <1>2, <1>4

LEMMA InvSpelled == Inv => OperatorSpelled
<1>1. SUFFICES ASSUME Inv, Idle, operator.step = "advance", operator.left = 0
               PROVE  LET n == Len(operator.op)
                          after == operator.first + n
                      IN  /\ \A i \in 1..n :
                                tokens[File][operator.first + i - 1].kind = operator.op[i]
                          /\ Len(tokens[File]) =
                                IF currentToken = "EOF" THEN after - 1 ELSE after
    BY DEF OperatorSpelled
<1>2. lexing.mode = "idle"
    BY <1>1 DEF Idle, In
<1>3. Len(operator.op) \in Nat /\ operator.first \in Nat
    BY <1>1, OpTyped DEF Inv
<1>4. Done = Len(operator.op)
    BY <1>1, <1>2, <1>3 DEF Done
<1>5. /\ Len(tokens[File]) =
            operator.first + (IF currentToken = "EOF" THEN Done - 1 ELSE Done)
      /\ \A i \in 1..Len(operator.op) :
            i <= Done + 1 => tokens[File][operator.first + i - 1].kind = operator.op[i]
    BY <1>1, <1>2 DEF Inv, Advanced
<1> QED
    BY <1>3, <1>4, <1>5

\* What the lexer and the parser keep of a file stays well formed, and within the
\* file, for every text of it.
THEOREM TypeCorrect == Spec => []TypeOK
<1>1. Init => Inv
    BY InitInv
<1>2. Inv /\ [Next]_vars => Inv'
    BY NextInv
<1>3. Inv => TypeOK
    BY DEF Inv
<1> QED
    BY <1>1, <1>2, <1>3, PTL DEF Spec

\* Each character of a file that is no space is in exactly one token, and the
\* tokens are in its order, however often the parser has looked ahead and
\* whatever it has included in between (parsing.cpp:143-159).
THEOREM EachCharOnce == Spec => []EveryCharOnce
<1>1. Init => Inv
    BY InitInv
<1>2. Inv /\ [Next]_vars => Inv'
    BY NextInv
<1>3. Inv => EveryCharOnce
    BY InvEveryChar
<1> QED
    BY <1>1, <1>2, <1>3, PTL DEF Spec

\* When the parser has looked ahead, the line it tells and the value of its token
\* are those from before (parsing.cpp:153-158).
THEOREM LookAheadLeavesNoTrace == Spec => []LookAheadUndone
<1>1. Init => Inv
    BY InitInv
<1>2. Inv /\ [Next]_vars => Inv'
    BY NextInv
<1>3. Inv => LookAheadUndone
    BY InvLookAhead
<1> QED
    BY <1>1, <1>2, <1>3, PTL DEF Spec

\* The tokens that advance_op() takes spell the operator that parse_operator()
\* has found by looking ahead (pratt_parser.cpp:11-165).
THEOREM OperatorsSpelled == Spec => []OperatorSpelled
<1>1. Init => Inv
    BY InitInv
<1>2. Inv /\ [Next]_vars => Inv'
    BY NextInv
<1>3. Inv => OperatorSpelled
    BY InvSpelled
<1> QED
    BY <1>1, <1>2, <1>3, PTL DEF Spec
=============================================================================
