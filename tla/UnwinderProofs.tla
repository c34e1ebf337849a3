--------------------------- MODULE UnwinderProofs ---------------------------
(***************************************************************************)
(* Proofs about the exception runtime, for any program, any tables whose   *)
(* call sites are disjoint, any depth of the stack and any number of       *)
(* exceptions: the types, that a frame with a clean-up is not left before  *)
(* it has been cleaned up, that an exception comes to the innermost frame  *)
(* that catches it, and that nothing is read outside of the tables.        *)
(***************************************************************************)
EXTENDS Unwinder, SequenceTheorems, WellFoundedInduction, TLAPS

(* Tables and their call sites. *)

LEMMA SiteTyped ==
    ASSUME NEW t \in Tables, NEW i \in DOMAIN t
    PROVE  /\ t \in Seq(Site)
           /\ t[i] \in Site
           /\ i \in Nat
<1>1. t \in Seq(Site)
    BY UnwinderAssumption
<1> QED
    BY <1>1

LEMMA LandingPadTyped ==
    ASSUME NEW s \in Site
    PROVE  landing_pad(s) \in Nat
<1>1. s.pad - 1 \in Nat
    BY DEF Site
<1>2. \A c, n \in Nat : c * n \in Nat
    OBVIOUS
<1> QED
    BY <1>1, <1>2, UnwinderAssumption DEF landing_pad

LEMMA RecordTyped ==
    ASSUME NEW t, NEW o \in RecordOffsets(t)
    PROVE  o \in Int
BY DEF RecordOffsets

\* The address that is looked for is in a call site exactly if the call is.
LEMMA Monotone ==
    ASSUME NEW c \in Nat, NEW m \in Int, NEW n \in Int, m <= n
    PROVE  c * m <= c * n
<1>1. n - m \in Nat
    OBVIOUS
<1>2. \A a, b \in Nat : a * b >= 0
    OBVIOUS
<1>3. c * (n - m) >= 0
    BY <1>1, <1>2
<1> QED
    BY <1>3

LEMMA InSiteMeans ==
    ASSUME NEW s \in Site, Walked.slot \in Nat, InSite(s)
    PROVE  Walked.slot \in s.from..s.to
<1> DEFINE c == CallSize
           n == Walked.slot
<1>1. c \in Nat /\ c >= 2 /\ n \in Nat /\ s.from \in Int /\ s.to \in Int
    BY UnwinderAssumption DEF Site
<1>2. /\ c * n - 1 > c * (s.from - 1)
      /\ c * n - 1 <= c * (s.from - 1) + c * (s.to - s.from + 1)
    BY DEF InSite, throw_ip, try_start, try_length
<1> HIDE DEF c, n
<1>3. c * (s.from - 1) + c * (s.to - s.from + 1) = c * s.to
    BY <1>1
<1>4. n >= s.from
    <2>1. CASE n <= s.from - 1
        <3>1. c * n <= c * (s.from - 1)
            BY <1>1, <2>1, Monotone
        <3> DEFINE x == c * n
                   y == c * (s.from - 1)
        <3>2. x \in Int /\ y \in Int /\ x <= y /\ x - 1 > y
            BY <1>1, <1>2, <3>1
        <3> HIDE DEF x, y
        <3> QED
            BY <3>2
    <2> QED
        BY <1>1, <2>1
<1>5. n <= s.to
    <2>1. CASE n >= s.to + 1
        <3> DEFINE x == c * n
                   y == c * s.to
                   z == c * (s.to + 1)
        <3>1. z <= x
            BY <1>1, <2>1, Monotone
        <3>2. x \in Int /\ y \in Int /\ z = y + c /\ x - 1 <= y
            BY <1>1, <1>2, <1>3
        <3> HIDE DEF x, y, z
        <3> QED
            BY <3>1, <3>2, <1>1
    <2> QED
        BY <1>1, <2>1
<1> QED
    BY <1>1, <1>4, <1>5 DEF n

LEMMA RecordsTyped ==
    ASSUME NEW o
    PROVE  leb128_signed_decode_1char(next_action_record(WalkTable, o)) \in Int
BY DEF leb128_signed_decode_1char, next_action_record

-----------------------------------------------------------------------------
(* The stack. *)

LEMMA TopTyped ==
    ASSUME stack \in Seq(Frame), stack # <<>>
    PROVE  /\ Len(stack) \in Nat \ {0}
           /\ Len(stack) \in DOMAIN stack
           /\ Top \in Frame
<1>1. Len(stack) \in 1..Len(stack)
    BY EmptySeq, LenProperties
<1>2. stack[Len(stack)] \in Frame
    BY <1>1
<1> QED
    BY <1>1, <1>2 DEF Top

LEMMA UnderTyped ==
    ASSUME stack \in Seq(Frame), stack # <<>>
    PROVE  /\ Under \in Seq(Frame)
           /\ Len(Under) = Len(stack) - 1
           /\ \A k \in 1..Len(stack) - 1 : Under[k] = stack[k]
<1>1. Len(stack) \in Nat \ {0}
    BY TopTyped
<1> DEFINE n == Len(stack) - 1
<1>2. n \in Nat /\ \A k \in 1..n : stack[k] \in Frame
    BY <1>1
<1>3. Under = SubSeq(stack, 1, n)
    BY DEF Under
<1> HIDE DEF n
<1>4. /\ Under \in Seq(Frame)
      /\ Len(Under) = IF 1 <= n THEN n - 1 + 1 ELSE 0
      /\ \A k \in 1..n - 1 + 1 : Under[k] = stack[1 + k - 1]
    BY <1>2, <1>3, SubSeqProperties
<1>5. Len(Under) = n
    BY <1>2, <1>4
<1>6. \A k \in 1..n : Under[k] = stack[k]
    BY <1>2, <1>4
<1> QED
    BY <1>4, <1>5, <1>6 DEF n

\* What replaces the innermost frame leaves the others alone.
LEMMA GoesTyped ==
    ASSUME stack \in Seq(Frame), stack # <<>>, NEW f \in Frame
    PROVE  LET next == Append(Under, f)
           IN  /\ next \in Seq(Frame)
               /\ next # <<>>
               /\ Len(next) = Len(stack)
               /\ next[Len(stack)] = f
               /\ \A k \in 1..Len(stack) - 1 : next[k] = stack[k]
<1> DEFINE next == Append(Under, f)
<1>1. Len(stack) \in Nat \ {0}
    BY TopTyped
<1>2. /\ Under \in Seq(Frame)
      /\ Len(Under) = Len(stack) - 1
      /\ \A k \in 1..Len(stack) - 1 : Under[k] = stack[k]
    BY UnderTyped
<1> HIDE DEF Under
<1>3. /\ next \in Seq(Frame)
      /\ Len(next) = Len(Under) + 1
      /\ next[Len(Under) + 1] = f
      /\ \A k \in 1..Len(Under) : next[k] = Under[k]
    BY <1>2, AppendProperties
<1> HIDE DEF next
<1>4. Len(next) = Len(stack)
    BY <1>1, <1>2, <1>3
<1>5. next # <<>>
    BY <1>1, <1>3, <1>4, EmptySeq
<1>6. next[Len(stack)] = f
    BY <1>1, <1>2, <1>3
<1>7. \A k \in 1..Len(stack) - 1 : next[k] = stack[k]
    BY <1>2, <1>3
<1> QED
    BY <1>3, <1>4, <1>5, <1>6, <1>7 DEF next

-----------------------------------------------------------------------------
(* The inductive invariant. *)

\* A frame that was found is known with the landing pad to go on at.
HandlerKnown == exc.handler > 0 => exc.ipToSet.fn # {}

\* The second walk is always at the innermost frame.
AtInnermost == unw.phase = "cleanup" => unw.level = Len(stack)

\* The action records that are read are those of a call site of the call.
AtCallSite ==
    unw.step = "actions" =>
        /\ unw.level \in 1..Len(stack)
        /\ Walked \in Frame
        /\ WalkTable \in Tables
        /\ unw.site \in DOMAIN WalkTable
        /\ Walked.slot \in FoundSite.from..FoundSite.to
        /\ FoundSite.actions # <<>>

Places == HandlerKnown /\ AtInnermost /\ AtCallSite

\* For the exception that is on its way a frame has been cleaned up at most once, in
\* the search nobody has been, and on the way to the handler only the innermost one,
\* which is then the last.  While the program runs, so have only frames of a clean-up,
\* or of what it has called.  A frame may be in a clean-up for an earlier exception
\* only if one has been raised there.
OnceEach ==
    \A k \in DOMAIN stack :
        /\ stack[k].cleaned # 2
        /\ stack[k].cleaning => nested \/ stack[k].cleaned = 1
        /\ stack[k].cleaning /\ stack[k].cleaned = 1 => stack[k].fn \in exc.lastCleanedFn
        /\ unw.phase = "search" => stack[k].cleaned = 0
        /\ unw.phase = "cleanup" /\ stack[k].cleaned = 1 =>
              k = Len(stack) /\ stack[k].fn \in exc.lastCleanedFn
        /\ unw.phase = "none" /\ stack[k].cleaning =>
              \A j \in DOMAIN stack : stack[j].cleaned = 1 => k <= j

IInv == TypeOK /\ Places /\ OnceEach

LEMMA WalkTyped ==
    ASSUME NEW p \in {"search", "cleanup"}, NEW l \in Nat
    PROVE  /\ Walk(p, l) \in Unwinding
           /\ Walk(p, l).phase = p
           /\ Walk(p, l).level = l
           /\ Walk(p, l).step = "sites"
<1> DEFINE x == [Idle EXCEPT !.phase = p]
<1>1. x = [phase |-> p, level |-> 0, step |-> "sites", site |-> 0, record |-> 0]
    BY DEF Idle
<1> HIDE DEF x
<1>2. [x EXCEPT !.level = l]
        = [phase |-> p, level |-> l, step |-> "sites", site |-> 0, record |-> 0]
    BY <1>1
<1>3. Walk(p, l) = [x EXCEPT !.level = l]
    BY DEF Walk, x
<1> QED
    BY <1>2, <1>3 DEF Unwinding

\* Where the unwinder is.
LEMMA WalkedTyped ==
    ASSUME TypeOK, Walking
    PROVE  /\ stack # <<>>
           /\ unw \in Unwinding
           /\ unw.level \in DOMAIN stack
           /\ unw.level \in 1..Len(stack)
           /\ Walked \in Frame
           /\ Walked.slot \in Nat
           /\ Walked.fn \in Function
           /\ WalkTable \in Tables
<1>1. unw \in Unwinding
    BY DEF TypeOK, Walking, Idle
<1>2. Len(stack) \in Nat /\ DOMAIN stack = 1..Len(stack)
    BY LenProperties DEF TypeOK
<1>3. unw.level \in 1..Len(stack)
    BY <1>1, <1>2 DEF TypeOK, Walking, Unwinding
<1>4. stack # <<>>
    BY <1>2, <1>3, EmptySeq
<1>5. Walked \in Frame
    BY <1>2, <1>3 DEF TypeOK, Walked
<1>6. Walked.slot \in Nat /\ Walked.fn \in Function
    BY <1>5 DEF Frame
<1>7. WalkTable \in Tables
    BY <1>6 DEF TypeOK, WalkTable
<1> QED
    BY <1>1, <1>2, <1>3, <1>4, <1>5, <1>6, <1>7

LEMMA SmallestMember ==
    ASSUME NEW S, S \subseteq Nat, S # {}
    PROVE  \E i \in S : \A j \in S : i <= j
<1> DEFINE R == OpToRel(<, Nat)
<1>1. PICK i \in S : \A j \in S : <<j, i>> \notin R
    <2>1. IsWellFoundedOn(R, Nat)
        BY NatLessThanWellFounded, Zenon
    <2> HIDE DEF R
    <2> QED
        BY <2>1, WFMin
<1>2. \A j \in S : ~(j < i)
    BY <1>1 DEF OpToRel
<1> QED
    BY <1>2

LEMMA FirstMatchMeans ==
    ASSUME TypeOK, Walking, Matching # {}
    PROVE  /\ FirstMatch \in DOMAIN WalkTable
           /\ FirstMatch \in Nat
           /\ WalkTable[FirstMatch] \in Site
           /\ Walked.slot \in WalkTable[FirstMatch].from..WalkTable[FirstMatch].to
<1>1. WalkTable \in Seq(Site) /\ WalkTable \in Tables
    BY WalkedTyped, UnwinderAssumption
<1>2. Matching \subseteq Nat
    BY <1>1, SiteTyped DEF Matching
<1>3. \E i \in Matching : \A j \in Matching : i <= j
    BY <1>2, SmallestMember
<1>4. FirstMatch \in Matching
    BY <1>3 DEF FirstMatch
<1>5. FirstMatch \in DOMAIN WalkTable /\ InSite(WalkTable[FirstMatch])
    BY <1>4 DEF Matching
<1>6. WalkTable[FirstMatch] \in Site /\ FirstMatch \in Nat
    BY <1>1, <1>5, SiteTyped
<1> QED
    BY <1>5, <1>6, InSiteMeans, WalkedTyped

-----------------------------------------------------------------------------
(* Types and places, one lemma for each way a step goes. *)

Sound == TypeOK /\ Places

LEMMA EndsSound ==
    ASSUME Sound, NEW how \in {"uncaught", "fatal", "undefined"}, Ends(how),
           exc' \in Buffer, HandlerKnown'
    PROVE  Sound'
<1>1. unw' = Idle /\ status' = how /\ UNCHANGED <<table, stack, raises, nested>>
    BY DEF Ends
<1>2. Len(stack') \in Nat
    BY <1>1, LenProperties DEF Sound, TypeOK
<1>3. unw'.level = 0 /\ unw'.phase = "none" /\ unw'.step = "sites"
    BY <1>1 DEF Idle
<1>4. TypeOK'
    BY <1>1, <1>2, <1>3 DEF Sound, TypeOK
<1>5. AtInnermost' /\ AtCallSite'
    BY <1>3 DEF AtInnermost, AtCallSite
<1> QED
    BY <1>4, <1>5 DEF Sound, Places

\* On to the next frame, or to the beginning of the second walk.
LEMMA WalkSound ==
    ASSUME Sound, NEW p \in {"search", "cleanup"}, NEW l \in Nat,
           unw' = Walk(p, l), stack' \in Seq(Frame), l <= Len(stack'),
           p = "cleanup" => l = Len(stack'),
           exc' \in Buffer, HandlerKnown', raises' \in 0..MaxRaises, nested' \in BOOLEAN,
           UNCHANGED <<table, status>>
    PROVE  Sound'
<1>1. /\ unw' \in Unwinding
      /\ unw'.phase = p
      /\ unw'.level = l
      /\ unw'.step = "sites"
    BY WalkTyped
<1>2. TypeOK'
    BY <1>1 DEF Sound, TypeOK
<1>3. AtInnermost' /\ AtCallSite'
    BY <1>1 DEF AtInnermost, AtCallSite
<1> QED
    BY <1>2, <1>3 DEF Sound, Places

LEMMA ContinueSound ==
    ASSUME Sound, Walking, ContinueUnwind, UNCHANGED exc
    PROVE  Sound'
<1> DEFINE l == unw.level - 1
<1>1. /\ stack # <<>>
      /\ unw.phase \in {"search", "cleanup"}
      /\ unw.level \in 1..Len(stack)
    BY WalkedTyped DEF Sound, Unwinding
<1>2. stack \in Seq(Frame) /\ Len(stack) \in Nat
    BY LenProperties DEF Sound, TypeOK
<1>3. Under \in Seq(Frame) /\ Len(Under) = Len(stack) - 1
    BY <1>1, <1>2, UnderTyped
<1>4. l \in Nat /\ l < Len(stack)
    BY <1>1, <1>2
<1>5. /\ unw' = Walk(unw.phase, l)
      /\ stack' = IF unw.phase = "cleanup" THEN Under ELSE stack
      /\ UNCHANGED <<table, raises, nested, status>>
    BY DEF ContinueUnwind, FrameOutside
<1>6. unw.phase = "cleanup" => l = Len(stack) - 1
    BY DEF Sound, Places, AtInnermost
<1>7. /\ stack' \in Seq(Frame)
      /\ l <= Len(stack')
      /\ unw.phase = "cleanup" => l = Len(stack')
    BY <1>2, <1>3, <1>4, <1>5, <1>6
<1>8. exc' \in Buffer /\ HandlerKnown' /\ raises' \in 0..MaxRaises /\ nested' \in BOOLEAN
    BY <1>5 DEF Sound, TypeOK, Places, HandlerKnown
<1> HIDE DEF l
<1> QED
    BY <1>1, <1>4, <1>5, <1>7, <1>8, WalkSound

\* What is installed is a frame of the function, at a slot of its own.
LEMMA InstallTyped ==
    ASSUME Sound, Walking, NEW a \in Address, a.fn # {}, NEW clean \in BOOLEAN,
           InstallContext(a, clean)
    PROVE  \E f \in Frame :
              /\ Goes(f)
              /\ f.slot = a.offset \div CallSize
              /\ LET p == f.slot + 1
                 IN  /\ f.last = IF p > Body THEN IF clean THEN p + 1 ELSE p ELSE Body
                     /\ f.cleaning = (clean /\ p > Body)
              /\ f.cleaning => clean
              /\ f.cleaned = IF clean /\ Top.cleaned < 2 THEN Top.cleaned + 1
                                                         ELSE Top.cleaned
              /\ f.fn \in a.fn
<1> DEFINE p   == a.offset \div CallSize + 1
           pad == p > Body
           f   == [fn |-> CHOOSE g \in Function : g \in a.fn,
                   slot |-> p - 1,
                   last |-> IF ~pad THEN Body ELSE IF clean THEN p + 1 ELSE p,
                   cleaning |-> clean /\ pad,
                   cleaned |-> IF clean /\ Top.cleaned < 2 THEN Top.cleaned + 1
                                                           ELSE Top.cleaned]
<1>1. stack # <<>> /\ stack \in Seq(Frame)
    BY WalkedTyped DEF Sound, TypeOK
<1>2. Top.cleaned \in 0..2
    BY <1>1, TopTyped DEF Frame
<1>3. f.fn \in Function /\ f.fn \in a.fn
    BY DEF Address
<1>4. p - 1 \in Nat /\ p \in Nat /\ Body \in Nat
    BY UnwinderAssumption DEF Address
<1> HIDE DEF p
<1>5. f.slot \in Nat /\ f.last \in Nat
    BY <1>4
<1>6. f.cleaned \in 0..2 /\ f.cleaning \in BOOLEAN
    BY <1>2
<1>7. f \in Frame
    BY <1>3, <1>5, <1>6 DEF Frame
<1>8. Goes(f)
    BY DEF InstallContext, p
<1>9. f.cleaning => clean
    OBVIOUS
<1>10. f.cleaned = IF clean /\ Top.cleaned < 2 THEN Top.cleaned + 1 ELSE Top.cleaned
    OBVIOUS
<1>11. /\ f.last = IF p > Body THEN IF clean THEN p + 1 ELSE p ELSE Body
       /\ f.cleaning = (clean /\ p > Body)
    OBVIOUS
<1>12. f.slot = p - 1
    OBVIOUS
<1>13. a.offset \div CallSize \in Nat
    BY UnwinderAssumption DEF Address
<1> HIDE DEF f
<1>14. f.slot = a.offset \div CallSize /\ f.slot + 1 = p
    BY <1>12, <1>13 DEF p
<1> QED
    BY <1>3, <1>7, <1>8, <1>9, <1>10, <1>11, <1>14

LEMMA InstallSound ==
    ASSUME Sound, Walking, NEW a \in Address, a.fn # {}, NEW clean \in BOOLEAN,
           InstallContext(a, clean), exc' \in Buffer, HandlerKnown'
    PROVE  Sound'
<1>1. stack # <<>> /\ stack \in Seq(Frame)
    BY WalkedTyped DEF Sound, TypeOK
<1>2. PICK f \in Frame : Goes(f)
    BY InstallTyped
<1>3. stack' \in Seq(Frame) /\ Len(stack') \in Nat
    BY <1>1, <1>2, GoesTyped, LenProperties DEF Goes
<1>4. unw' = Idle /\ UNCHANGED <<table, raises, nested, status>>
    BY DEF InstallContext
<1>5. unw'.level = 0 /\ unw'.phase = "none" /\ unw'.step = "sites"
    BY <1>4 DEF Idle
<1>6. TypeOK'
    BY <1>3, <1>4, <1>5 DEF Sound, TypeOK
<1>7. AtInnermost' /\ AtCallSite'
    BY <1>5 DEF AtInnermost, AtCallSite
<1> QED
    BY <1>6, <1>7 DEF Sound, Places

-----------------------------------------------------------------------------
(* Types and places: the steps of the program. *)

LEMMA SlotTyped ==
    ASSUME NEW f \in Frame, NEW n \in Nat
    PROVE  /\ [f EXCEPT !.slot = n] \in Frame
           /\ [f EXCEPT !.slot = n].fn = f.fn
           /\ [f EXCEPT !.slot = n].slot = n
           /\ [f EXCEPT !.slot = n].last = f.last
           /\ [f EXCEPT !.slot = n].cleaning = f.cleaning
           /\ [f EXCEPT !.slot = n].cleaned = f.cleaned
BY DEF Frame

LEMMA ActivationTyped ==
    ASSUME NEW f \in Function
    PROVE  /\ Activation(f) \in Frame
           /\ Activation(f).fn = f
           /\ Activation(f).slot = 0
           /\ Activation(f).last = Body
           /\ ~Activation(f).cleaning
           /\ Activation(f).cleaned = 0
BY UnwinderAssumption DEF Activation, Frame

LEMMA AheadTyped ==
    ASSUME TypeOK, NEW s \in Ahead
    PROVE  /\ Running
           /\ s \in Nat
           /\ stack \in Seq(Frame)
           /\ stack # <<>>
           /\ Top \in Frame
<1>1. Running
    BY DEF Ahead
<1>2. stack \in Seq(Frame) /\ stack # <<>>
    BY <1>1 DEF TypeOK, Running
<1>3. Top \in Frame
    BY <1>2, TopTyped
<1>4. s \in Top.slot + 1..Top.last /\ Top.slot \in Nat /\ Top.last \in Nat
    BY <1>1, <1>3 DEF Ahead, Frame
<1> QED
    BY <1>1, <1>2, <1>3, <1>4

\* Between two walks.
LEMMA IdleSound ==
    ASSUME Sound, unw = Idle, stack' \in Seq(Frame), UNCHANGED <<table, exc, unw, raises, nested>>,
           status' \in {"running", "returned"}
    PROVE  Sound'
<1>1. unw.level = 0 /\ unw.phase = "none" /\ unw.step = "sites"
    BY DEF Idle
<1>2. Len(stack') \in Nat
    BY LenProperties
<1>3. TypeOK'
    BY <1>1, <1>2 DEF Sound, TypeOK
<1>4. AtInnermost' /\ AtCallSite'
    BY <1>1 DEF AtInnermost, AtCallSite
<1>5. HandlerKnown'
    BY DEF Sound, Places, HandlerKnown
<1> QED
    BY <1>3, <1>4, <1>5 DEF Sound, Places

LEMMA RunningIdle ==
    ASSUME TypeOK, Running
    PROVE  unw = Idle /\ stack \in Seq(Frame) /\ stack # <<>>
BY DEF TypeOK, Running, Unwinding

\* What a call makes of the stack.
LEMMA CalledTyped ==
    ASSUME stack \in Seq(Frame), stack # <<>>, NEW g \in Frame, NEW h \in Frame
    PROVE  LET next == Append(Append(Under, g), h)
           IN  /\ next \in Seq(Frame)
               /\ Len(next) = Len(stack) + 1
               /\ next[Len(stack) + 1] = h
               /\ next[Len(stack)] = g
               /\ \A k \in 1..Len(stack) - 1 : next[k] = stack[k]
<1> DEFINE mid  == Append(Under, g)
           next == Append(mid, h)
<1>1. /\ mid \in Seq(Frame)
      /\ Len(mid) = Len(stack)
      /\ mid[Len(stack)] = g
      /\ \A k \in 1..Len(stack) - 1 : mid[k] = stack[k]
    BY GoesTyped
<1>2. Len(stack) \in Nat \ {0}
    BY TopTyped
<1> HIDE DEF mid
<1>3. /\ next \in Seq(Frame)
      /\ Len(next) = Len(mid) + 1
      /\ next[Len(mid) + 1] = h
      /\ \A k \in 1..Len(mid) : next[k] = mid[k]
    BY <1>1, AppendProperties
<1> HIDE DEF next
<1>4. /\ next \in Seq(Frame)
      /\ Len(next) = Len(stack) + 1
      /\ next[Len(stack) + 1] = h
      /\ next[Len(stack)] = g
      /\ \A k \in 1..Len(stack) - 1 : next[k] = stack[k]
    BY <1>1, <1>2, <1>3
<1> QED
    BY <1>4 DEF next, mid

LEMMA CallFunctionSound ==
    ASSUME Sound, NEW f \in Function, CallFunction(f)
    PROVE  Sound'
<1>1. PICK s \in Ahead :
        /\ stack' = Append(Append(Under, [Top EXCEPT !.slot = s]), Activation(f))
        /\ UNCHANGED <<table, exc, unw, raises, nested, status>>
    BY DEF CallFunction
<1>2. Running /\ s \in Nat /\ stack \in Seq(Frame) /\ stack # <<>> /\ Top \in Frame
    BY AheadTyped DEF Sound
<1>3. [Top EXCEPT !.slot = s] \in Frame /\ Activation(f) \in Frame
    BY <1>2, SlotTyped, ActivationTyped
<1>4. stack' \in Seq(Frame)
    BY <1>1, <1>2, <1>3, CalledTyped
<1>5. status' \in {"running", "returned"}
    BY <1>1, <1>2 DEF Running
<1>6. unw = Idle
    BY <1>2, RunningIdle DEF Sound
<1> QED
    BY <1>1, <1>4, <1>5, <1>6, IdleSound

LEMMA ReturnSound ==
    ASSUME Sound, Return
    PROVE  Sound'
<1>1. unw = Idle /\ stack \in Seq(Frame) /\ stack # <<>>
    BY RunningIdle DEF Sound, Return
<1>2. stack' \in Seq(Frame)
    BY <1>1, UnderTyped DEF Return
<1>3. status' \in {"running", "returned"}
    BY DEF Return, Running
<1> QED
    BY <1>1, <1>2, <1>3, IdleSound DEF Return

LEMMA RaisedTyped ==
    ASSUME NEW f \in Frame, NEW n \in Nat
    PROVE  LET g == [f EXCEPT !.cleaned = 0, !.slot = n]
           IN  /\ g \in Frame
               /\ g.fn = f.fn
               /\ g.slot = n
               /\ g.last = f.last
               /\ g.cleaning = f.cleaning
               /\ g.cleaned = 0
<1> DEFINE x == [f EXCEPT !.cleaned = 0]
<1>1. /\ x \in Frame
      /\ x.fn = f.fn
      /\ x.last = f.last
      /\ x.cleaning = f.cleaning
      /\ x.cleaned = 0
    BY DEF Frame
<1> HIDE DEF x
<1>2. LET g == [x EXCEPT !.slot = n]
      IN  /\ g \in Frame
          /\ g.fn = x.fn
          /\ g.slot = n
          /\ g.last = x.last
          /\ g.cleaning = x.cleaning
          /\ g.cleaned = x.cleaned
    BY <1>1, SlotTyped
<1> QED
    BY <1>1, <1>2 DEF x

LEMMA RaiseSound ==
    ASSUME Sound, NEW c \in Codes, __zno_raise(c)
    PROVE  /\ Sound'
           /\ stack \in Seq(Frame)
           /\ DOMAIN stack' = DOMAIN stack
           /\ \A k \in DOMAIN stack :
                 /\ stack'[k].fn = stack[k].fn
                 /\ stack'[k].last = stack[k].last
                 /\ stack'[k].cleaning = stack[k].cleaning
                 /\ stack'[k].cleaned = 0
                 /\ IF k = Len(stack) THEN stack'[k].slot \in Top.slot + 1..Top.last
                                      ELSE stack'[k].slot = stack[k].slot
           /\ unw' = Walk("search", Len(stack))
           /\ unw'.phase = "search"
<1>1. PICK s \in Ahead :
        /\ raises < MaxRaises
        /\ raises' = raises + 1
        /\ nested' = (nested \/ Cleaning)
        /\ exc' = [exc EXCEPT !.errorCode = c]
        /\ stack' = [k \in DOMAIN stack |->
                        [stack[k] EXCEPT !.cleaned = 0,
                                         !.slot = IF k = Len(stack) THEN s ELSE @]]
        /\ unw' = Walk("search", Len(stack))
        /\ UNCHANGED <<table, status>>
    BY DEF __zno_raise
<1>2. Running /\ s \in Nat /\ stack \in Seq(Frame) /\ stack # <<>> /\ Top \in Frame
    BY AheadTyped DEF Sound
<1>3. Len(stack) \in Nat /\ DOMAIN stack = 1..Len(stack)
    BY <1>2, LenProperties
<1>16. s \in Top.slot + 1..Top.last
    BY <1>2 DEF Ahead
<1>4. \A k \in DOMAIN stack :
        /\ stack'[k] \in Frame
        /\ stack'[k].fn = stack[k].fn
        /\ stack'[k].last = stack[k].last
        /\ stack'[k].cleaning = stack[k].cleaning
        /\ stack'[k].cleaned = 0
        /\ IF k = Len(stack) THEN stack'[k].slot \in Top.slot + 1..Top.last
                             ELSE stack'[k].slot = stack[k].slot
    <2> SUFFICES ASSUME NEW k \in DOMAIN stack
                 PROVE  /\ stack'[k] \in Frame
                        /\ stack'[k].fn = stack[k].fn
                        /\ stack'[k].last = stack[k].last
                        /\ stack'[k].cleaning = stack[k].cleaning
                        /\ stack'[k].cleaned = 0
                        /\ IF k = Len(stack)
                           THEN stack'[k].slot \in Top.slot + 1..Top.last
                           ELSE stack'[k].slot = stack[k].slot
        OBVIOUS
    <2>1. stack[k] \in Frame
        BY <1>2
    <2> DEFINE n == IF k = Len(stack) THEN s ELSE stack[k].slot
    <2>2. n \in Nat
        BY <1>2, <2>1 DEF Frame
    <2>3. stack'[k] = [stack[k] EXCEPT !.cleaned = 0, !.slot = n]
        BY <1>1
    <2>4. IF k = Len(stack) THEN n \in Top.slot + 1..Top.last ELSE n = stack[k].slot
        BY <1>16
    <2> HIDE DEF n
    <2> DEFINE g == [stack[k] EXCEPT !.cleaned = 0, !.slot = n]
    <2>5. /\ g \in Frame
          /\ g.fn = stack[k].fn
          /\ g.slot = n
          /\ g.last = stack[k].last
          /\ g.cleaning = stack[k].cleaning
          /\ g.cleaned = 0
        BY <2>1, <2>2, RaisedTyped
    <2>6. stack'[k] = g
        BY <2>3
    <2> HIDE DEF g
    <2>7. IF k = Len(stack) THEN stack'[k].slot \in Top.slot + 1..Top.last
                            ELSE stack'[k].slot = stack[k].slot
        BY <2>4, <2>5, <2>6
    <2> QED
        BY <2>5, <2>6, <2>7
<1>5. DOMAIN stack' = 1..Len(stack) /\ stack' = [k \in 1..Len(stack) |-> stack'[k]]
    BY <1>1, <1>3
<1>6. stack' \in Seq(Frame)
    BY <1>3, <1>4, <1>5, SeqDef
<1>7. Len(stack') = Len(stack)
    BY <1>3, <1>5, <1>6, LenProperties
<1>8. exc' \in Buffer /\ exc'.handler = exc.handler /\ exc'.ipToSet = exc.ipToSet
    BY <1>1 DEF Sound, TypeOK, Buffer
<1>9. HandlerKnown'
    BY <1>8 DEF Sound, Places, HandlerKnown
<1>10. nested' \in BOOLEAN
    <2>1. nested \in BOOLEAN /\ Cleaning \in BOOLEAN
        BY DEF Sound, TypeOK, Cleaning
    <2> QED
        BY <1>1, <2>1, Zenon
<1>11. raises' = raises + 1 /\ raises < MaxRaises /\ UNCHANGED <<table, status>>
    BY <1>1, Zenon
<1>12. raises' \in 0..MaxRaises
    BY <1>11, UnwinderAssumption DEF Sound, TypeOK
<1>13. Len(stack) <= Len(stack')
    BY <1>3, <1>7
<1>14. Sound'
    BY <1>1, <1>3, <1>6, <1>8, <1>9, <1>10, <1>7, <1>11, <1>12, <1>13, WalkSound
<1>15. unw'.phase = "search"
    BY <1>1, <1>3, WalkTyped
<1> QED
    BY <1>1, <1>2, <1>3, <1>4, <1>5, <1>14, <1>15

LEMMA ResumeSound ==
    ASSUME Sound, _Unwind_Resume
    PROVE  Sound'
<1>1. stack \in Seq(Frame) /\ stack # <<>>
    BY RunningIdle DEF Sound, _Unwind_Resume
<1>2. Top \in Frame /\ Top.last \in Nat /\ Len(stack) \in Nat
    BY <1>1, TopTyped DEF Frame
<1>3. [Top EXCEPT !.slot = Top.last] \in Frame
    BY <1>2, SlotTyped
<1>4. stack' \in Seq(Frame) /\ Len(stack') = Len(stack)
    BY <1>1, <1>3, GoesTyped DEF _Unwind_Resume, Goes
<1>5. exc' \in Buffer /\ HandlerKnown' /\ raises' \in 0..MaxRaises /\ nested' \in BOOLEAN
    BY DEF _Unwind_Resume, Sound, TypeOK, Places, HandlerKnown
<1> QED
    BY <1>2, <1>4, <1>5, WalkSound DEF _Unwind_Resume

-----------------------------------------------------------------------------
(* Types and places: the steps of the unwinder and of the personality function. *)

LEMMA BufferKept ==
    ASSUME Sound, UNCHANGED exc
    PROVE  exc' \in Buffer /\ HandlerKnown'
BY DEF Sound, TypeOK, Places, HandlerKnown

LEMMA EndOfStackSound ==
    ASSUME Sound, EndOfStack
    PROVE  Sound'
<1>1. UNCHANGED exc /\ \E how \in {"uncaught", "fatal"} : Ends(how)
    BY DEF EndOfStack
<1> QED
    BY <1>1, BufferKept, EndsSound

\* The steps that pass on to the frame outside.
LEMMA PassesOnSound ==
    ASSUME Sound,
           NoPersonality \/ SearchPassesCleanup \/ AlreadyCleanedUp \/ NoMoreRecords
    PROVE  Sound' /\ Walking /\ ContinueUnwind /\ UNCHANGED exc
<1>1. Walking /\ ContinueUnwind /\ UNCHANGED exc
    BY DEF NoPersonality, SearchPassesCleanup, AlreadyCleanedUp, NoMoreRecords,
           AtCleanupSite, SearchesSites, AtRecord
<1> QED
    BY <1>1, ContinueSound

LEMMA OutsideCallSitesSound ==
    ASSUME Sound, OutsideCallSites
    PROVE  Sound'
BY BufferKept, EndsSound DEF OutsideCallSites

LEMMA InHandlerFrameInstalls ==
    ASSUME Sound, InHandlerFrame
    PROVE  /\ Walking
           /\ exc.ipToSet \in Address
           /\ exc.ipToSet.fn # {}
           /\ InstallContext(exc.ipToSet, FALSE)
           /\ UNCHANGED exc
<1>1. Walking /\ unw.level = exc.handler /\ InstallContext(exc.ipToSet, FALSE) /\ UNCHANGED exc
    BY DEF InHandlerFrame, HandlerFrame
<1>2. exc.ipToSet \in Address
    BY DEF Sound, TypeOK, Buffer
<1>3. exc.ipToSet.fn # {}
    BY <1>1 DEF Sound, Places, HandlerKnown, Walking
<1> QED
    BY <1>1, <1>2, <1>3

LEMMA InHandlerFrameSound ==
    ASSUME Sound, InHandlerFrame
    PROVE  Sound'
BY InHandlerFrameInstalls, BufferKept, InstallSound

\* A clean-up goes on at the landing pad of the function's own call site.
LEMMA RunCleanupInstalls ==
    ASSUME Sound, RunCleanup
    PROVE  /\ Walking
           /\ unw.phase = "cleanup"
           /\ Walked.fn \notin exc.lastCleanedFn
           /\ exc' \in Buffer
           /\ exc'.lastCleanedFn = {Walked.fn}
           /\ HandlerKnown'
           /\ \E a \in Address : a.fn = {Walked.fn} /\ InstallContext(a, TRUE)
<1> DEFINE a == [fn |-> {Walked.fn}, offset |-> landing_pad(WalkTable[FirstMatch])]
<1>1. /\ Walking
      /\ Matching # {}
      /\ unw.phase = "cleanup"
      /\ Walked.fn \notin exc.lastCleanedFn
      /\ InstallContext(a, TRUE)
      /\ exc' = [exc EXCEPT !.lastCleanedFn = {Walked.fn}]
    BY DEF RunCleanup, AtCleanupSite, SearchesSites, AlreadyCleaned, CleanedFn
<1>2. Walked.fn \in Function
    BY <1>1, WalkedTyped DEF Sound
<1>3. landing_pad(WalkTable[FirstMatch]) \in Nat
    BY <1>1, FirstMatchMeans, LandingPadTyped DEF Sound
<1>4. a \in Address /\ a.fn = {Walked.fn}
    BY <1>2, <1>3 DEF Address
<1>5. /\ exc' \in Buffer
      /\ exc'.lastCleanedFn = {Walked.fn}
      /\ exc'.handler = exc.handler
      /\ exc'.ipToSet = exc.ipToSet
    BY <1>1, <1>2 DEF Sound, TypeOK, Buffer
<1>6. HandlerKnown'
    BY <1>5 DEF Sound, Places, HandlerKnown
<1> HIDE DEF a
<1> QED
    BY <1>1, <1>4, <1>5, <1>6

LEMMA RunCleanupSound ==
    ASSUME Sound, RunCleanup
    PROVE  Sound'
<1>1. PICK a \in Address : a.fn = {Walked.fn} /\ InstallContext(a, TRUE)
    BY RunCleanupInstalls
<1>2. a.fn # {}
    BY <1>1
<1> QED
    BY <1>1, <1>2, RunCleanupInstalls, InstallSound

\* Reading on in a call site of the call.
LEMMA ReadRecordSound ==
    ASSUME Sound, Walking, NEW i \in DOMAIN WalkTable, NEW o, ReadRecord(i, o),
           Walked.slot \in WalkTable[i].from..WalkTable[i].to, WalkTable[i].actions # <<>>
    PROVE  Sound'
<1>1. UNCHANGED exc
    BY DEF ReadRecord
<1>2. exc' \in Buffer /\ HandlerKnown'
    BY <1>1, BufferKept
<1>3. CASE Ends("undefined")
    BY <1>2, <1>3, EndsSound
<1>4. CASE o \in RecordOffsets(WalkTable)
    <2>1. /\ unw' = [unw EXCEPT !.step = "actions", !.site = i, !.record = o]
          /\ UNCHANGED <<table, stack, raises, nested, status>>
        BY <1>4 DEF ReadRecord
    <2>2. /\ unw \in Unwinding
          /\ unw.level \in 1..Len(stack)
          /\ Walked \in Frame
          /\ WalkTable \in Tables
        BY WalkedTyped DEF Sound
    <2>3. i \in Nat /\ o \in Int
        BY <1>4, <2>2, SiteTyped, RecordTyped
    <2> DEFINE x == [unw EXCEPT !.step = "actions"]
               y == [x EXCEPT !.site = i]
    <2>4. x \in Unwinding /\ x.phase = unw.phase /\ x.level = unw.level /\ x.step = "actions"
        BY <2>2 DEF Unwinding
    <2> HIDE DEF x
    <2>5. /\ y \in Unwinding
          /\ y.phase = unw.phase
          /\ y.level = unw.level
          /\ y.step = "actions"
          /\ y.site = i
        BY <2>3, <2>4 DEF Unwinding
    <2>6. unw' = [y EXCEPT !.record = o]
        BY <2>1 DEF x
    <2> HIDE DEF y
    <2>7. /\ unw' \in Unwinding
          /\ unw'.phase = unw.phase
          /\ unw'.level = unw.level
          /\ unw'.step = "actions"
          /\ unw'.site = i
        BY <2>3, <2>5, <2>6 DEF Unwinding
    <2>8. TypeOK'
        BY <1>2, <2>1, <2>7 DEF Sound, TypeOK
    <2>9. AtInnermost'
        BY <2>1, <2>7 DEF Sound, Places, AtInnermost
    <2>10. Walked' = Walked /\ WalkTable' = WalkTable /\ FoundSite' = WalkTable[i]
        BY <2>1, <2>7 DEF Walked, WalkTable, FoundSite
    <2> HIDE DEF Walked, WalkTable, FoundSite
    <2>11. AtCallSite'
        BY <2>1, <2>2, <2>7, <2>10 DEF AtCallSite
    <2> QED
        BY <1>2, <2>8, <2>9, <2>11 DEF Sound, Places
<1> QED
    BY <1>3, <1>4 DEF ReadRecord

LEMMA EnterActionsSound ==
    ASSUME Sound, EnterActions
    PROVE  Sound'
<1>1. /\ Walking
      /\ Matching # {}
      /\ action(WalkTable, FirstMatch) # 0
      /\ ReadRecord(FirstMatch, FirstRecord(action(WalkTable, FirstMatch)))
    BY DEF EnterActions, SearchesSites
<1>2. /\ FirstMatch \in DOMAIN WalkTable
      /\ Walked.slot \in WalkTable[FirstMatch].from..WalkTable[FirstMatch].to
    BY <1>1, FirstMatchMeans DEF Sound
<1>3. WalkTable[FirstMatch].actions # <<>>
    BY <1>1 DEF action
<1> QED
    BY <1>1, <1>2, <1>3, ReadRecordSound

\* Where a record is read.
LEMMA AtRecordMeans ==
    ASSUME Sound, AtRecord
    PROVE  /\ Walking
           /\ unw.site \in DOMAIN WalkTable
           /\ FoundSite = WalkTable[unw.site]
           /\ FoundSite \in Site
           /\ Walked.slot \in FoundSite.from..FoundSite.to
           /\ FoundSite.actions # <<>>
<1>1. Walking /\ unw.step = "actions"
    BY DEF AtRecord
<1>2. /\ WalkTable \in Tables
      /\ unw.site \in DOMAIN WalkTable
      /\ Walked.slot \in FoundSite.from..FoundSite.to
      /\ FoundSite.actions # <<>>
    BY <1>1 DEF Sound, Places, AtCallSite
<1>3. FoundSite = WalkTable[unw.site]
    BY DEF FoundSite
<1> QED
    BY <1>1, <1>2, <1>3, SiteTyped

LEMMA NextRecordSound ==
    ASSUME Sound, NextRecord
    PROVE  Sound'
<1>1. AtRecord /\ ReadRecord(unw.site, unw.record + 1 + Displacement)
    BY DEF NextRecord
<1> QED
    BY <1>1, AtRecordMeans, ReadRecordSound

LEMMA HandlerFoundSound ==
    ASSUME Sound, HandlerFound
    PROVE  Sound' /\ exc'.lastCleanedFn = exc.lastCleanedFn
<1> DEFINE a == [fn |-> {Walked.fn}, offset |-> landing_pad(FoundSite)]
           h == IF unw.phase = "search" THEN unw.level ELSE exc.handler
<1>1. /\ AtRecord
      /\ exc' = [exc EXCEPT !.ipToSet = a, !.handler = h]
      /\ IF unw.phase = "search"
         THEN /\ unw' = Walk("cleanup", Len(stack))
              /\ UNCHANGED <<table, stack, raises, nested, status>>
         ELSE Ends("fatal")
    BY DEF HandlerFound
<1>2. /\ Walking
      /\ FoundSite \in Site
      /\ Walked.fn \in Function
      /\ stack \in Seq(Frame)
      /\ unw.level \in Nat
    BY <1>1, AtRecordMeans, WalkedTyped DEF Sound, TypeOK, Unwinding
<1>3. a \in Address /\ a.fn # {}
    BY <1>2, LandingPadTyped DEF Address
<1>4. h \in Nat
    BY <1>2 DEF Sound, TypeOK, Buffer
<1> HIDE DEF a, h
<1> DEFINE x == [exc EXCEPT !.ipToSet = a]
<1>5. x \in Buffer /\ x.lastCleanedFn = exc.lastCleanedFn /\ x.ipToSet = a
    BY <1>3 DEF Sound, TypeOK, Buffer
<1>6. exc' = [x EXCEPT !.handler = h]
    BY <1>1
<1> HIDE DEF x
<1>7. exc' \in Buffer /\ exc'.lastCleanedFn = exc.lastCleanedFn /\ exc'.ipToSet = a
    BY <1>4, <1>5, <1>6 DEF Buffer
<1>8. HandlerKnown'
    BY <1>3, <1>7 DEF HandlerKnown
<1>9. CASE unw.phase = "search"
    <2>1. raises' \in 0..MaxRaises /\ nested' \in BOOLEAN
        BY <1>1, <1>9 DEF Sound, TypeOK
    <2>2. Len(stack) \in Nat /\ Len(stack) <= Len(stack') /\ stack' = stack
        BY <1>1, <1>2, <1>9, LenProperties
    <2>3. unw' = Walk("cleanup", Len(stack)) /\ UNCHANGED <<table, status>>
        BY <1>1, <1>9
    <2> QED
        BY <1>2, <1>7, <1>8, <2>1, <2>2, <2>3, WalkSound
<1>10. CASE unw.phase # "search"
    BY <1>1, <1>7, <1>8, <1>10, EndsSound
<1> QED
    BY <1>7, <1>9, <1>10

-----------------------------------------------------------------------------
(* How often a frame has been cleaned up. *)

LEMMA Domains ==
    ASSUME NEW q \in Seq(Frame)
    PROVE  /\ DOMAIN q = 1..Len(q)
           /\ Len(q) \in Nat
           /\ \A k \in DOMAIN q : q[k] \in Frame /\ q[k].cleaned \in 0..2
<1>1. DOMAIN q = 1..Len(q) /\ Len(q) \in Nat
    BY LenProperties
<1>2. \A k \in DOMAIN q : q[k] \in Frame
    BY <1>1
<1> QED
    BY <1>1, <1>2 DEF Frame

\* The program goes on: frames keep their marks, and a new one has none.
LEMMA CallFunctionOnce ==
    ASSUME IInv, OnceEach, NEW f \in Function, CallFunction(f)
    PROVE  OnceEach'
<1>1. PICK s \in Ahead :
        /\ stack' = Append(Append(Under, [Top EXCEPT !.slot = s]), Activation(f))
        /\ UNCHANGED <<table, exc, unw, raises, nested, status>>
    BY DEF CallFunction
<1>2. Running /\ s \in Nat /\ stack \in Seq(Frame) /\ stack # <<>> /\ Top \in Frame
    BY AheadTyped DEF IInv
<1> DEFINE g == [Top EXCEPT !.slot = s]
           h == Activation(f)
           n == Len(stack)
<1>3. /\ g \in Frame
      /\ g.fn = Top.fn
      /\ g.cleaning = Top.cleaning
      /\ g.cleaned = Top.cleaned
    BY <1>2, SlotTyped
<1>4. h \in Frame /\ ~h.cleaning /\ h.cleaned = 0
    BY ActivationTyped
<1>5. stack' = Append(Append(Under, g), h)
    BY <1>1
<1> HIDE DEF g, h
<1>6. /\ stack' \in Seq(Frame)
      /\ Len(stack') = n + 1
      /\ stack'[n + 1] = h
      /\ stack'[n] = g
      /\ \A k \in 1..n - 1 : stack'[k] = stack[k]
    <2> DEFINE next == Append(Append(Under, g), h)
    <2>1. /\ next \in Seq(Frame)
          /\ Len(next) = n + 1
          /\ next[n + 1] = h
          /\ next[n] = g
          /\ \A k \in 1..n - 1 : next[k] = stack[k]
        BY <1>2, <1>3, <1>4, CalledTyped
    <2>2. stack' = next
        BY <1>5
    <2> HIDE DEF next
    <2> QED
        BY <2>1, <2>2
<1>7. /\ DOMAIN stack = 1..n
      /\ DOMAIN stack' = 1..n + 1
      /\ n \in Nat
    BY <1>2, <1>6, Domains
<1>8. Top = stack[n]
    BY DEF Top
<1> HIDE DEF n
<1>9. \A k \in 1..n : /\ stack'[k].fn = stack[k].fn
                      /\ stack'[k].cleaning = stack[k].cleaning
                      /\ stack'[k].cleaned = stack[k].cleaned
    BY <1>3, <1>6, <1>7, <1>8
<1>10. unw.phase = "none" /\ unw' = unw /\ exc' = exc /\ nested' = nested
    BY <1>1, <1>2 DEF Running
<1>11. \A k \in 1..n + 1 : k \in 1..n \/ k = n + 1
    BY <1>7
<1>12. ASSUME NEW k \in 1..n, stack[k].cleaning, NEW j \in 1..n + 1, stack'[j].cleaned = 1
       PROVE  k <= j
    BY <1>4, <1>6, <1>7, <1>9, <1>10, <1>11, <1>12 DEF OnceEach
<1> QED
    BY <1>4, <1>6, <1>7, <1>9, <1>10, <1>11, <1>12 DEF OnceEach

LEMMA ReturnOnce ==
    ASSUME IInv, OnceEach, Return
    PROVE  OnceEach'
<1>1. stack \in Seq(Frame) /\ stack # <<>> /\ unw.phase = "none"
    BY RunningIdle DEF IInv, Return, Running
<1>2. /\ stack' \in Seq(Frame)
      /\ Len(stack') = Len(stack) - 1
      /\ \A k \in 1..Len(stack) - 1 : stack'[k] = stack[k]
    BY <1>1, UnderTyped DEF Return
<1>3. /\ DOMAIN stack = 1..Len(stack)
      /\ DOMAIN stack' = 1..Len(stack) - 1
      /\ Len(stack) \in Nat
    BY <1>1, <1>2, Domains
<1>4. unw' = unw /\ exc' = exc /\ nested' = nested
    BY DEF Return
<1>5. unw.phase = "none" /\ unw'.phase = "none"
    BY <1>1, <1>4
<1>6. \A k \in DOMAIN stack' : k \in DOMAIN stack /\ stack'[k] = stack[k]
    BY <1>2, <1>3
<1> QED
    BY <1>4, <1>5, <1>6 DEF OnceEach

\* The count begins anew.
LEMMA RaiseOnce ==
    ASSUME IInv, NEW c \in Codes, __zno_raise(c)
    PROVE  OnceEach'
<1>1. /\ DOMAIN stack' = DOMAIN stack
      /\ \A k \in DOMAIN stack :
            stack'[k].cleaned = 0 /\ stack'[k].cleaning = stack[k].cleaning
      /\ unw'.phase = "search"
    BY RaiseSound DEF IInv, Sound
<1>2. nested' = (nested \/ Cleaning)
    BY Zenon DEF __zno_raise
<1>3. \A k \in DOMAIN stack : stack[k].cleaning => nested'
    BY <1>2, Zenon DEF Cleaning
<1> QED
    BY <1>1, <1>3 DEF OnceEach

\* The frame whose clean-up has come to its end is the only one that was in any for the
\* exception that is on its way.
LEMMA ResumeOnce ==
    ASSUME IInv, OnceEach, _Unwind_Resume
    PROVE  OnceEach'
<1>1. stack \in Seq(Frame) /\ stack # <<>> /\ unw.phase = "none" /\ Top.cleaning
    BY RunningIdle DEF IInv, _Unwind_Resume, Running
<1> DEFINE g == [Top EXCEPT !.slot = Top.last]
           n == Len(stack)
<1>2. Top \in Frame /\ Top.last \in Nat /\ n \in Nat \ {0}
    BY <1>1, TopTyped DEF Frame
<1>3. /\ g \in Frame
      /\ g.fn = Top.fn
      /\ g.cleaning = Top.cleaning
      /\ g.cleaned = Top.cleaned
    BY <1>2, SlotTyped
<1>4. /\ stack' = Append(Under, g) /\ unw' = Walk("cleanup", Len(stack))
      /\ exc' = exc /\ nested' = nested
    BY DEF _Unwind_Resume, Goes
<1> HIDE DEF g
<1>5. /\ stack' \in Seq(Frame)
      /\ Len(stack') = n
      /\ stack'[n] = g
      /\ \A k \in 1..n - 1 : stack'[k] = stack[k]
    BY <1>1, <1>3, <1>4, GoesTyped
<1>6. unw'.phase = "cleanup"
    BY <1>2, <1>4, WalkTyped
<1>7. DOMAIN stack = 1..n /\ DOMAIN stack' = 1..n
    BY <1>1, <1>5, Domains
<1>8. Top = stack[n]
    BY DEF Top
<1> HIDE DEF n
<1>9. \A k \in 1..n : /\ stack'[k].fn = stack[k].fn
                      /\ stack'[k].cleaning = stack[k].cleaning
                      /\ stack'[k].cleaned = stack[k].cleaned
    BY <1>2, <1>3, <1>5, <1>8
<1>10. /\ n \in 1..n /\ stack[n].cleaning
       /\ stack[n].cleaned = 1 => stack[n].fn \in exc.lastCleanedFn
    BY <1>1, <1>2, <1>7, <1>8 DEF OnceEach
<1>11. \A k \in 1..n : stack[k].cleaned = 1 => k = n
    <2>1. \A k \in 1..n : stack[k].cleaned = 1 => n <= k
        BY <1>1, <1>7, <1>10 DEF OnceEach
    <2> QED
        BY <1>2, <2>1
<1> QED
    BY <1>4, <1>5, <1>6, <1>7, <1>9, <1>10, <1>11 DEF OnceEach

\* Whoever has been in a clean-up during a walk is the innermost frame; the others that
\* are in one are so for an earlier exception.
LEMMA OnlyInnermost ==
    ASSUME IInv, OnceEach, unw.phase \in {"search", "cleanup"}, NEW k \in DOMAIN stack,
           k # Len(stack)
    PROVE  stack[k].cleaned = 0 /\ (stack[k].cleaning => nested)
<1>1. stack[k].cleaned \in 0..2
    BY Domains DEF IInv, TypeOK
<1> QED
    BY <1>1 DEF OnceEach

LEMMA PassesOnOnce ==
    ASSUME IInv, OnceEach,
           NoPersonality \/ SearchPassesCleanup \/ AlreadyCleanedUp \/ NoMoreRecords
    PROVE  OnceEach'
<1>1. Walking /\ ContinueUnwind /\ exc' = exc
    BY PassesOnSound DEF IInv, Sound
<1>2. /\ stack \in Seq(Frame)
      /\ stack # <<>>
      /\ unw.phase \in {"search", "cleanup"}
      /\ unw.level - 1 \in Nat
    BY <1>1, WalkedTyped DEF IInv, TypeOK, Unwinding
<1>3. unw'.phase = unw.phase /\ nested' = nested
    BY <1>1, <1>2, WalkTyped DEF ContinueUnwind, FrameOutside
<1>4. CASE unw.phase = "search"
    <2>1. stack' = stack
        BY <1>1, <1>4 DEF ContinueUnwind
    <2> QED
        BY <1>1, <1>3, <1>4, <2>1 DEF OnceEach
<1>5. CASE unw.phase = "cleanup"
    <2>1. stack' = Under
        BY <1>1, <1>5 DEF ContinueUnwind
    <2>2. /\ Len(stack') = Len(stack) - 1
          /\ stack' \in Seq(Frame)
          /\ \A k \in 1..Len(stack) - 1 : stack'[k] = stack[k]
        BY <1>2, <2>1, UnderTyped
    <2>3. /\ DOMAIN stack = 1..Len(stack)
          /\ DOMAIN stack' = 1..Len(stack) - 1
          /\ Len(stack) \in Nat
        BY <1>2, <2>2, Domains
    <2>4. \A k \in DOMAIN stack' : stack'[k].cleaned = 0 /\ (stack'[k].cleaning => nested)
        BY <1>2, <2>2, <2>3, OnlyInnermost
    <2> QED
        BY <1>3, <1>5, <2>4 DEF OnceEach
<1> QED
    BY <1>2, <1>4, <1>5

\* When the walk is over, by an end of the program.
LEMMA EndsOnce ==
    ASSUME IInv, OnceEach, unw.phase \in {"search", "cleanup"}, NEW how, Ends(how),
           exc'.lastCleanedFn = exc.lastCleanedFn
    PROVE  OnceEach'
<1>1. stack' = stack /\ unw'.phase = "none" /\ nested' = nested
    BY DEF Ends, Idle
<1>2. DOMAIN stack = 1..Len(stack) /\ Len(stack) \in Nat
    BY Domains DEF IInv, TypeOK
<1>3. \A k \in DOMAIN stack : k <= Len(stack)
    BY <1>2
<1>4. \A k \in DOMAIN stack : stack[k].cleaned = 1 => k = Len(stack)
    BY OnlyInnermost
<1> QED
    BY <1>1, <1>3, <1>4 DEF OnceEach

\* What the innermost frame becomes when a context is installed.
LEMMA InstalledStack ==
    ASSUME IInv, Walking, NEW a \in Address, a.fn # {}, NEW clean \in BOOLEAN,
           InstallContext(a, clean)
    PROVE  /\ unw'.phase = "none"
           /\ Len(stack) \in Nat \ {0}
           /\ Len(stack') = Len(stack)
           /\ DOMAIN stack = 1..Len(stack)
           /\ DOMAIN stack' = 1..Len(stack)
           /\ \A k \in 1..Len(stack) - 1 : stack'[k] = stack[k]
           /\ stack'[Len(stack)].cleaning => clean
           /\ stack'[Len(stack)].cleaned =
                 IF clean /\ Top.cleaned < 2 THEN Top.cleaned + 1 ELSE Top.cleaned
           /\ stack'[Len(stack)].fn \in a.fn
<1>1. stack # <<>> /\ stack \in Seq(Frame)
    BY WalkedTyped DEF IInv, TypeOK
<1>2. PICK f \in Frame :
        /\ Goes(f)
        /\ f.cleaning => clean
        /\ f.cleaned = IF clean /\ Top.cleaned < 2 THEN Top.cleaned + 1 ELSE Top.cleaned
        /\ f.fn \in a.fn
    BY InstallTyped DEF IInv, Sound
<1>3. /\ stack' \in Seq(Frame)
      /\ Len(stack') = Len(stack)
      /\ stack'[Len(stack)] = f
      /\ \A k \in 1..Len(stack) - 1 : stack'[k] = stack[k]
    BY <1>1, <1>2, GoesTyped DEF Goes
<1>4. Len(stack) \in Nat \ {0}
    BY <1>1, TopTyped
<1>5. DOMAIN stack = 1..Len(stack) /\ DOMAIN stack' = 1..Len(stack)
    BY <1>1, <1>3, Domains
<1>6. unw'.phase = "none"
    BY DEF InstallContext, Idle
<1> QED
    BY <1>2, <1>3, <1>4, <1>5, <1>6

\* The handler is no clean-up.
LEMMA InHandlerFrameOnce ==
    ASSUME IInv, OnceEach, InHandlerFrame
    PROVE  OnceEach'
<1>1. /\ Walking
      /\ exc.ipToSet \in Address
      /\ exc.ipToSet.fn # {}
      /\ InstallContext(exc.ipToSet, FALSE)
    BY InHandlerFrameInstalls DEF IInv, Sound
<1>2. unw.phase = "cleanup"
    BY DEF InHandlerFrame, HandlerFrame
<1> DEFINE n == Len(stack)
<1>3. /\ unw'.phase = "none"
      /\ n \in Nat \ {0}
      /\ DOMAIN stack = 1..n
      /\ DOMAIN stack' = 1..n
      /\ \A k \in 1..n - 1 : stack'[k] = stack[k]
      /\ ~stack'[n].cleaning
      /\ stack'[n].cleaned = Top.cleaned
    BY <1>1, InstalledStack
<1>4. \A k \in 1..n - 1 : stack[k].cleaned = 0 /\ (stack[k].cleaning => nested)
    <2>1. \A k \in 1..n - 1 : k \in DOMAIN stack /\ k # Len(stack)
        <3>1. \A m \in Nat \ {0} : \A k \in 1..m - 1 : k \in 1..m /\ k # m
            OBVIOUS
        <3>2. n \in Nat \ {0} /\ DOMAIN stack = 1..n /\ n = Len(stack)
            BY <1>3
        <3> HIDE DEF n
        <3> QED
            BY <3>1, <3>2
    <2> QED
        BY <1>2, <2>1, OnlyInnermost
<1>5. stack'[n].cleaned # 2
    <2>1. n \in DOMAIN stack /\ Top = stack[n]
        BY <1>3 DEF Top
    <2>2. Top.cleaned # 2
        BY <2>1 DEF OnceEach
    <2> QED
        BY <1>3, <2>2
<1>6. n \in Nat \ {0} /\ nested' = nested
    BY <1>3 DEF InHandlerFrame, InstallContext
<1> HIDE DEF n
<1>7. ASSUME NEW k \in DOMAIN stack'
      PROVE  /\ stack'[k].cleaned # 2
             /\ stack'[k].cleaning => nested' /\ stack'[k].cleaned = 0
             /\ stack'[k].cleaned = 1 => k = n
             /\ k <= n
    <2>1. \A j \in 1..n : j = n \/ j \in 1..n - 1
        BY <1>6
    <2>2. k <= n
        BY <1>3, <1>6
    <2> QED
        BY <1>3, <1>4, <1>5, <1>6, <2>1, <2>2
<1> QED
    BY <1>3, <1>7 DEF OnceEach

\* A clean-up is run in a frame that has been in none, or that would be skipped.
LEMMA RunCleanupOnce ==
    ASSUME IInv, OnceEach, RunCleanup
    PROVE  OnceEach'
<1>1. /\ Walking
      /\ unw.phase = "cleanup"
      /\ Walked.fn \notin exc.lastCleanedFn
      /\ exc'.lastCleanedFn = {Walked.fn}
    BY RunCleanupInstalls DEF IInv, Sound
<1>2. PICK a \in Address : a.fn = {Walked.fn} /\ InstallContext(a, TRUE)
    BY RunCleanupInstalls DEF IInv, Sound
<1> DEFINE n == Len(stack)
<1>3. /\ unw'.phase = "none"
      /\ n \in Nat \ {0}
      /\ DOMAIN stack = 1..n
      /\ DOMAIN stack' = 1..n
      /\ \A k \in 1..n - 1 : stack'[k] = stack[k]
      /\ stack'[n].cleaned = IF Top.cleaned < 2 THEN Top.cleaned + 1 ELSE Top.cleaned
      /\ stack'[n].fn = Walked.fn
    <2>1. a.fn # {}
        BY <1>2
    <2>2. /\ stack'[n].fn \in a.fn
          /\ stack'[n].cleaned =
                IF TRUE /\ Top.cleaned < 2 THEN Top.cleaned + 1 ELSE Top.cleaned
          /\ unw'.phase = "none"
          /\ n \in Nat \ {0}
          /\ DOMAIN stack = 1..n
          /\ DOMAIN stack' = 1..n
          /\ \A k \in 1..n - 1 : stack'[k] = stack[k]
        BY <1>1, <1>2, <2>1, InstalledStack
    <2> QED
        BY <1>2, <2>2
<1>4. \A k \in 1..n - 1 : stack[k].cleaned = 0 /\ (stack[k].cleaning => nested)
    <2>1. \A k \in 1..n - 1 : k \in DOMAIN stack /\ k # Len(stack)
        <3>1. \A m \in Nat \ {0} : \A k \in 1..m - 1 : k \in 1..m /\ k # m
            OBVIOUS
        <3>2. n \in Nat \ {0} /\ DOMAIN stack = 1..n /\ n = Len(stack)
            BY <1>3
        <3> HIDE DEF n
        <3> QED
            BY <3>1, <3>2
    <2> QED
        BY <1>1, <2>1, OnlyInnermost
<1>5. Top = Walked /\ Top = stack[n]
    BY <1>1 DEF Top, Walked, IInv, Places, AtInnermost
<1>6. Top.cleaned = 0
    <2>1. n \in DOMAIN stack /\ stack[n].cleaned \in 0..2
        BY <1>3, Domains DEF IInv, TypeOK
    <2>2. stack[n].cleaned # 2 /\ stack[n].cleaned # 1
        BY <1>1, <1>5, <2>1 DEF OnceEach
    <2> QED
        BY <1>5, <2>1, <2>2
<1>7. stack'[n].cleaned = 1 /\ stack'[n].fn \in exc'.lastCleanedFn
    BY <1>1, <1>3, <1>6
<1>8. /\ \A k \in 1..n : k = n \/ k \in 1..n - 1
      /\ \A k \in 1..n : k <= n
      /\ nested' = nested
    BY <1>3 DEF RunCleanup, InstallContext
<1> HIDE DEF n
<1>9. \A k \in DOMAIN stack' :
        /\ k # n => stack'[k].cleaned = 0 /\ (stack'[k].cleaning => nested')
        /\ k <= n
    BY <1>3, <1>4, <1>8
<1> QED
    BY <1>3, <1>7, <1>9 DEF OnceEach

LEMMA ReadRecordOnce ==
    ASSUME IInv, OnceEach, Walking, NEW i, NEW o, ReadRecord(i, o)
    PROVE  OnceEach'
<1>1. unw \in Unwinding /\ unw.phase \in {"search", "cleanup"}
    BY WalkedTyped DEF IInv, Unwinding
<1>2. exc' = exc /\ nested' = nested
    BY DEF ReadRecord, Ends
<1>3. CASE Ends("undefined")
    BY <1>1, <1>2, <1>3, EndsOnce
<1>4. CASE o \in RecordOffsets(WalkTable)
    <2>1. stack' = stack /\ unw' = [unw EXCEPT !.step = "actions", !.site = i, !.record = o]
        BY <1>4 DEF ReadRecord
    <2>2. unw'.phase = unw.phase
        BY <1>1, <2>1 DEF Unwinding
    <2> QED
        BY <1>2, <2>1, <2>2 DEF OnceEach
<1> QED
    BY <1>3, <1>4 DEF ReadRecord

LEMMA HandlerFoundOnce ==
    ASSUME IInv, OnceEach, HandlerFound
    PROVE  OnceEach'
<1>1. Walking /\ exc'.lastCleanedFn = exc.lastCleanedFn
    BY HandlerFoundSound DEF IInv, Sound, HandlerFound, AtRecord
<1>2. unw.phase \in {"search", "cleanup"}
    BY <1>1, WalkedTyped DEF IInv, Unwinding
<1>3. CASE unw.phase = "search"
    <2>1. unw' = Walk("cleanup", Len(stack)) /\ stack' = stack /\ nested' = nested
        BY <1>3 DEF HandlerFound
    <2>2. unw'.phase = "cleanup"
        BY <2>1, Domains, WalkTyped DEF IInv, TypeOK
    <2>3. \A k \in DOMAIN stack : (stack[k].cleaning => nested) /\ stack[k].cleaned = 0
        BY <1>3 DEF OnceEach
    <2> QED
        BY <2>1, <2>2, <2>3 DEF OnceEach
<1>4. CASE unw.phase # "search"
    BY <1>1, <1>2, <1>4, EndsOnce DEF HandlerFound
<1> QED
    BY <1>3, <1>4

-----------------------------------------------------------------------------
(* The theorems. *)

LEMMA SingletonSeq ==
    ASSUME NEW f \in Frame
    PROVE  <<f>> \in Seq(Frame) /\ Len(<<f>>) = 1 /\ <<f>>[1] = f
OBVIOUS

LEMMA Initially ==
    ASSUME Init
    PROVE  IInv
<1>1. /\ table \in [Function -> Tables]
      /\ stack = <<Activation(Main)>>
      /\ exc = [errorCode |-> 0, ipToSet |-> Null, lastCleanedFn |-> {}, handler |-> 0]
      /\ unw = Idle
      /\ raises = 0 /\ nested = FALSE /\ status = "running"
    BY DEF Init
<1>2. Activation(Main) \in Frame /\ ~Activation(Main).cleaning /\ Activation(Main).cleaned = 0
    BY UnwinderAssumption, ActivationTyped
<1>3. unw.level = 0 /\ unw.phase = "none" /\ unw.step = "sites"
    BY <1>1 DEF Idle
<1>4. exc \in Buffer
    BY <1>1 DEF Buffer, Address, Null
<1>5. stack \in Seq(Frame) /\ Len(stack) = 1 /\ stack[1] = Activation(Main)
    <2>1. stack = <<Activation(Main)>>
        BY <1>1
    <2> QED
        BY <1>2, <2>1, SingletonSeq
<1>6. TypeOK
    <2>1. /\ table \in [Function -> Tables]
          /\ unw \in Unwinding \cup {Idle}
          /\ nested \in BOOLEAN
          /\ status \in {"running", "returned", "uncaught", "fatal", "undefined"}
          /\ raises = 0
        BY <1>1
    <2>2. raises \in 0..MaxRaises
        BY <2>1, UnwinderAssumption
    <2>3. unw.level <= Len(stack)
        BY <1>3, <1>5
    <2> QED
        BY <1>4, <1>5, <2>1, <2>2, <2>3 DEF TypeOK
<1>7. Places
    BY <1>1, <1>3 DEF Places, HandlerKnown, AtInnermost, AtCallSite
<1>8. DOMAIN stack = 1..1
    BY <1>5, Domains
<1>9. OnceEach
    BY <1>2, <1>3, <1>5, <1>8 DEF OnceEach
<1> QED
    BY <1>6, <1>7, <1>9 DEF IInv

LEMMA StepSound ==
    ASSUME Sound, [Next]_vars
    PROVE  Sound'
<1>1. ASSUME NEW f \in Function, CallFunction(f) PROVE Sound'
    BY <1>1, CallFunctionSound
<1>2. CASE Return
    BY <1>2, ReturnSound
<1>3. ASSUME NEW c \in Codes, __zno_raise(c) PROVE Sound'
    BY <1>3, RaiseSound
<1>4. CASE _Unwind_Resume
    BY <1>4, ResumeSound
<1>5. CASE _Unwind_Step
    BY <1>5, EndOfStackSound, PassesOnSound DEF _Unwind_Step
<1>6. CASE __zno_personality_fn
    BY <1>6, InHandlerFrameSound, OutsideCallSitesSound, PassesOnSound, RunCleanupSound,
       EnterActionsSound, HandlerFoundSound, NextRecordSound DEF __zno_personality_fn
<1>7. CASE UNCHANGED vars
    <2>1. UNCHANGED <<table, stack, exc, unw, raises, nested, status>>
        BY <1>7 DEF vars
    <2>2. TypeOK'
        BY <2>1 DEF Sound, TypeOK
    <2>3. Places'
        BY <2>1 DEF Sound, Places, HandlerKnown, AtInnermost, AtCallSite, Walked,
                    WalkTable, FoundSite
    <2> QED
        BY <2>2, <2>3 DEF Sound
<1> QED
    BY <1>1, <1>2, <1>3, <1>4, <1>5, <1>6, <1>7 DEF Next, Ended

\* A walk is in progress, in one of the two phases.
LEMMA WalkingPhase ==
    ASSUME IInv, Walking
    PROVE  unw.phase \in {"search", "cleanup"}
BY WalkedTyped DEF IInv, Unwinding

LEMMA EndOfStackOnce ==
    ASSUME IInv, OnceEach, EndOfStack
    PROVE  OnceEach'
<1>1. unw \in Unwinding
    BY DEF IInv, TypeOK, EndOfStack, Idle
<1>2. unw.phase \in {"search", "cleanup"}
    BY <1>1 DEF Unwinding
<1>3. exc' = exc /\ \E how : Ends(how)
    BY DEF EndOfStack
<1> QED
    BY <1>2, <1>3, EndsOnce

LEMMA StepOnce ==
    ASSUME IInv, [Next]_vars
    PROVE  OnceEach'
<1> OnceEach
    BY DEF IInv
<1>1. ASSUME NEW c \in Codes, __zno_raise(c) PROVE OnceEach'
    BY <1>1, RaiseOnce
<1>2. ASSUME NEW f \in Function, CallFunction(f) PROVE OnceEach'
    BY <1>2, CallFunctionOnce
<1>3. CASE Return
    BY <1>3, ReturnOnce
<1>4. CASE _Unwind_Resume
    BY <1>4, ResumeOnce
<1>5. CASE _Unwind_Step
    BY <1>5, EndOfStackOnce, PassesOnOnce DEF _Unwind_Step
<1>6. CASE __zno_personality_fn
    <2>1. CASE InHandlerFrame
        BY <2>1, InHandlerFrameOnce
    <2>2. CASE OutsideCallSites
        <3>1. exc' = exc /\ Ends("undefined") /\ Walking
            BY <2>2 DEF OutsideCallSites, SearchesSites
        <3> QED
            BY <3>1, WalkingPhase, EndsOnce
    <2>3. CASE SearchPassesCleanup \/ AlreadyCleanedUp \/ NoMoreRecords
        BY <2>3, PassesOnOnce
    <2>4. CASE RunCleanup
        BY <2>4, RunCleanupOnce
    <2>5. CASE EnterActions \/ NextRecord
        <3>1. Walking /\ \E i, o : ReadRecord(i, o)
            BY <2>5 DEF EnterActions, NextRecord, SearchesSites, AtRecord
        <3> QED
            BY <3>1, ReadRecordOnce
    <2>6. CASE HandlerFound
        BY <2>6, HandlerFoundOnce
    <2> QED
        BY <1>6, <2>1, <2>2, <2>3, <2>4, <2>5, <2>6 DEF __zno_personality_fn
<1>7. CASE UNCHANGED vars
    <2>1. UNCHANGED <<stack, exc, unw, nested>>
        BY <1>7 DEF vars
    <2> QED
        BY <2>1 DEF OnceEach
<1> QED
    BY <1>1, <1>2, <1>3, <1>4, <1>5, <1>6, <1>7 DEF Next, Ended

LEMMA StepInv ==
    IInv /\ [Next]_vars => IInv'
<1> SUFFICES ASSUME IInv, [Next]_vars
             PROVE  IInv'
    OBVIOUS
<1>1. TypeOK' /\ Places'
    BY StepSound DEF IInv, Sound
<1>2. OnceEach'
    BY StepOnce
<1> QED
    BY <1>1, <1>2 DEF IInv

LEMMA Invariance == Spec => []IInv
<1>1. Init => IInv
    BY Initially
<1> QED
    BY <1>1, StepInv, PTL DEF Spec

\* The variables of the runtime, of the unwinder and of the program keep their types.
THEOREM TypeCorrect == Spec => []TypeOK
<1>1. IInv => TypeOK
    BY DEF IInv
<1> QED
    BY <1>1, Invariance, PTL

\* The steps of the program.
CallsOrReturns ==
    \/ \E f \in Function : CallFunction(f)
    \/ Return
    \/ \E c \in Codes : __zno_raise(c)
    \/ _Unwind_Resume

\* Only the steps that pass on to the frame outside leave a frame in the second walk.
LEMMA LeavesByPassingOn ==
    ASSUME IInv, [Next]_vars, unw.phase = "cleanup", Len(stack') < Len(stack)
    PROVE  NoPersonality \/ AlreadyCleanedUp \/ NoMoreRecords
<1>1. Len(stack) \in Nat
    BY Domains DEF IInv, TypeOK
<1>2. stack' # stack
    BY <1>1
<1>3. ~Running
    BY DEF Running
<1>4. ASSUME NEW how, Ends(how) PROVE FALSE
    BY <1>2, <1>4 DEF Ends
<1>5. ASSUME NEW a \in Address, a.fn # {}, NEW clean \in BOOLEAN, Walking,
             InstallContext(a, clean)
      PROVE  FALSE
    <2>1. Len(stack') = Len(stack)
        BY <1>5, InstalledStack
    <2> QED
        BY <1>1, <2>1
<1>6. ~CallsOrReturns
    BY <1>3 DEF CallsOrReturns, CallFunction, Ahead, Return, __zno_raise, _Unwind_Resume
<1>7. ~EndOfStack /\ ~OutsideCallSites
    BY <1>4 DEF EndOfStack, OutsideCallSites
<1>8. ~InHandlerFrame
    BY <1>5, InHandlerFrameInstalls DEF IInv, Sound
<1>9. ~RunCleanup
    <2>1. SUFFICES ASSUME RunCleanup PROVE FALSE
        OBVIOUS
    <2>2. Walking
        BY <2>1, RunCleanupInstalls DEF IInv, Sound
    <2>3. PICK a \in Address : a.fn = {Walked.fn} /\ InstallContext(a, TRUE)
        BY <2>1, RunCleanupInstalls DEF IInv, Sound
    <2>4. a.fn # {}
        BY <2>3
    <2> QED
        BY <1>5, <2>2, <2>3, <2>4
<1>10. ~EnterActions /\ ~NextRecord
    BY <1>2, <1>4 DEF EnterActions, NextRecord, ReadRecord
<1>11. ~HandlerFound
    BY <1>4 DEF HandlerFound
<1>12. ~SearchPassesCleanup
    BY DEF SearchPassesCleanup
<1>13. ~UNCHANGED vars
    BY <1>2 DEF vars
<1> QED
    BY <1>6, <1>7, <1>8, <1>9, <1>10, <1>11, <1>12, <1>13
    DEF Next, Ended, CallsOrReturns, _Unwind_Step, __zno_personality_fn

\* A frame that is left after its action records owes no clean-up but that of one of
\* these: the call site they belong to is the only one of the call.
LEMMA NoCleanupOwed ==
    ASSUME IInv, NoMoreRecords
    PROVE  ~Owes(Walked) \/ CleansByRecord(Walked)
<1>1. /\ Walking
      /\ unw.site \in DOMAIN WalkTable
      /\ FoundSite = WalkTable[unw.site]
      /\ Walked.slot \in FoundSite.from..FoundSite.to
      /\ FoundSite.actions # <<>>
    BY AtRecordMeans DEF IInv, Sound, NoMoreRecords
<1>2. WalkTable \in Tables
    BY <1>1, WalkedTyped DEF IInv
<1>3. SUFFICES ASSUME Owes(Walked), ~CleansByRecord(Walked) PROVE FALSE
    OBVIOUS
<1>4. PICK j \in DOMAIN WalkTable :
        Walked.slot \in WalkTable[j].from..WalkTable[j].to /\ WalkTable[j].actions = <<>>
    BY <1>3 DEF Owes, CleansByRecord, SitesOf, CleansUp, CleanupOnly, WalkTable
<1>5. j = unw.site
    BY <1>1, <1>2, <1>4, SitesDisjoint
<1> QED
    BY <1>1, <1>4, <1>5

\* No frame with a clean-up is left on the way to a handler before it has been run,
\* once, also if clean-ups raise: unless the last one that ran was of the same function,
\* or the clean-up is an action record among others, which is not obeyed.
THEOREM CleanedUp == Spec => CleanedBeforeLeft
<1> DEFINE Leaves == unw.phase = "cleanup" /\ Len(stack') < Len(stack)
           Good   == \/ ~Owes(Top)
                     \/ Top.cleaned = 1
                     \/ Top.cleaned = 0 /\ Top.fn \in exc.lastCleanedFn
                     \/ CleansByRecord(Top)
<1>1. IInv /\ [Next]_vars => [Leaves => Good]_vars
    <2> SUFFICES ASSUME IInv, [Next]_vars, Leaves
                 PROVE  Good
        OBVIOUS
    <2>1. /\ NoPersonality \/ AlreadyCleanedUp \/ NoMoreRecords
          /\ OnceEach
        BY LeavesByPassingOn DEF IInv
    <2>2. Walking
        BY <2>1, PassesOnSound DEF IInv, Sound
    <2>3. Top = Walked /\ unw.level \in DOMAIN stack
        BY <2>2, WalkedTyped DEF IInv, Places, AtInnermost, Top, Walked
    <2>4. CASE NoPersonality
        <3>1. table[Walked.fn] = <<>>
            BY <2>4 DEF NoPersonality, WalkTable
        <3>2. ~Owes(Walked)
            BY <3>1 DEF Owes, SitesOf
        <3> QED
            BY <2>3, <3>2
    <2>5. CASE NoMoreRecords
        BY <2>3, <2>5, NoCleanupOwed
    <2>6. CASE AlreadyCleanedUp
        <3>1. Walked.fn \in exc.lastCleanedFn
            BY <2>6 DEF AlreadyCleanedUp, AlreadyCleaned
        <3>2. Walked.cleaned \in 0..2
            BY <2>2, WalkedTyped DEF IInv, Frame
        <3>3. Walked.cleaned # 2
            BY <2>1, <2>3 DEF OnceEach, Walked
        <3> QED
            BY <2>3, <3>1, <3>2, <3>3
    <2> QED
        BY <2>1, <2>4, <2>5, <2>6
<1> QED
    BY <1>1, Invariance, PTL DEF Spec, CleanedBeforeLeft
-----------------------------------------------------------------------------
(* The bytes of the action records.  RecordsUpTo is a recursive function: that it
   exists, and what it grows by, is shown for the smallest table, or number of call
   sites, for which it might not be so. *)

Records(t, k) == IF k \in DOMAIN t THEN Len(t[k].actions) ELSE 0

LEMMA RecordsTypedHere ==
    ASSUME NEW t \in Seq(Site), NEW k
    PROVE  Records(t, k) \in Nat
<1>1. CASE k \in DOMAIN t
    <2>1. t[k] \in Site
        BY <1>1
    <2>2. t[k].actions \in Seq(Codes \cup {0})
        BY <2>1 DEF Site
    <2> QED
        BY <1>1, <2>2, LenProperties DEF Records
<1> QED
    BY <1>1 DEF Records

\* Up to any number of call sites there is a count of their records.
LEMMA CountExists ==
    ASSUME NEW t \in Seq(Site), NEW m \in Nat
    PROVE  \E f \in [Nat -> Nat] :
              f[0] = 0 /\ \A k \in 1..m : f[k] = f[k - 1] + Records(t, k)
<1> DEFINE Counts(f, j) == f[0] = 0 /\ \A k \in 1..j : f[k] = f[k - 1] + Records(t, k)
           Bad == {j \in Nat : ~ \E f \in [Nat -> Nat] : Counts(f, j)}
<1>1. SUFFICES ASSUME Bad # {} PROVE FALSE
    OBVIOUS
<1>2. Bad \subseteq Nat
    OBVIOUS
<1>3. PICK j \in Nat : j \in Bad /\ \A i \in Bad : j <= i
    BY <1>1, <1>2, SmallestMember
<1>6. \A i \in Nat : i \in Bad <=> ~ \E f \in [Nat -> Nat] : Counts(f, i)
    OBVIOUS
<1> HIDE DEF Bad
<1>4. CASE j = 0
    <2> DEFINE f == [x \in Nat |-> 0]
    <2>1. f \in [Nat -> Nat] /\ f[0] = 0
        OBVIOUS
    <2>2. \A k \in 1..j : FALSE
        BY <1>4
    <2>3. Counts(f, j)
        BY <2>1, <2>2
    <2> QED
        BY <2>1, <2>3, <1>3, <1>6
<1>5. CASE j # 0
    <2>1. j - 1 \in Nat /\ j - 1 \notin Bad
        BY <1>3, <1>5
    <2>2. PICK f \in [Nat -> Nat] : Counts(f, j - 1)
        BY <2>1, <1>6
    <2> DEFINE v == f[j - 1] + Records(t, j)
               g == [f EXCEPT ![j] = v]
    <2>3. v \in Nat
        <3>1. f[j - 1] \in Nat /\ Records(t, j) \in Nat
            BY <2>1, RecordsTypedHere
        <3>2. \A a, b \in Nat : a + b \in Nat
            OBVIOUS
        <3> QED
            BY <3>1, <3>2, Zenon
    <2> HIDE DEF v
    <2>4. /\ g \in [Nat -> Nat]
          /\ g[j] = v
          /\ \A k \in Nat : k # j => g[k] = f[k]
        BY <1>3, <2>3
    <2> HIDE DEF g
    <2>5. g[0] = 0
        BY <1>5, <2>2, <2>4
    <2>6. ASSUME NEW k \in 1..j PROVE g[k] = g[k - 1] + Records(t, k)
        <3>1. CASE k = j
            <4>1. g[k - 1] = f[j - 1]
                BY <1>3, <2>1, <2>4, <3>1
            <4> QED
                BY <2>4, <3>1, <4>1 DEF v
        <3>2. CASE k # j
            <4>1. k \in 1..j - 1 /\ k - 1 # j /\ k - 1 \in Nat /\ k \in Nat
                BY <1>3, <3>2
            <4>2. f[k] = f[k - 1] + Records(t, k)
                BY <2>2, <4>1
            <4> QED
                BY <2>4, <3>2, <4>1, <4>2
        <3> QED
            BY <3>1, <3>2
    <2>7. Counts(g, j)
        BY <2>5, <2>6
    <2> QED
        BY <2>4, <2>7, <1>3, <1>6
<1> QED
    BY <1>4, <1>5

LEMMA RecordsUpToMeans ==
    ASSUME NEW t \in Seq(Site)
    PROVE  /\ RecordsUpTo(t, 0) = 0
           /\ \A k \in 1..Len(t) :
                 RecordsUpTo(t, k) = RecordsUpTo(t, k - 1) + Len(t[k].actions)
           /\ \A k \in 0..Len(t) : RecordsUpTo(t, k) \in Nat
<1> DEFINE Def(n) == n = [k \in 0..Len(t) |-> IF k = 0 THEN 0
                                              ELSE n[k - 1] + Len(t[k].actions)]
           count == CHOOSE n : Def(n)
<1>1. Len(t) \in Nat /\ DOMAIN t = 1..Len(t)
    BY LenProperties
<1>2. PICK f \in [Nat -> Nat] :
        f[0] = 0 /\ \A k \in 1..Len(t) : f[k] = f[k - 1] + Records(t, k)
    BY <1>1, CountExists
<1>3. \E n : Def(n)
    <2> DEFINE h == [k \in 0..Len(t) |-> f[k]]
    <2>1. \A k \in 0..Len(t) : h[k] = IF k = 0 THEN 0 ELSE h[k - 1] + Len(t[k].actions)
        <3> SUFFICES ASSUME NEW k \in 0..Len(t)
                     PROVE  h[k] = IF k = 0 THEN 0 ELSE h[k - 1] + Len(t[k].actions)
            OBVIOUS
        <3>1. CASE k = 0
            BY <1>1, <1>2, <3>1
        <3>2. CASE k # 0
            <4>1. k \in 1..Len(t) /\ k - 1 \in 0..Len(t) /\ k \in DOMAIN t
                BY <1>1, <3>2
            <4>2. Records(t, k) = Len(t[k].actions)
                BY <4>1 DEF Records
            <4>3. h[k] = f[k] /\ h[k - 1] = f[k - 1]
                BY <4>1
            <4> QED
                BY <1>2, <3>2, <4>1, <4>2, <4>3
        <3> QED
            BY <3>1, <3>2
    <2> DEFINE body == [k \in 0..Len(t) |-> IF k = 0 THEN 0
                                            ELSE h[k - 1] + Len(t[k].actions)]
    <2>2. h = body
        BY <2>1
    <2> HIDE DEF h
    <2> QED
        BY <2>2
<1>4. Def(count)
    BY <1>3, Zenon
<1>5. \A i : RecordsUpTo(t, i) = count[i]
    BY Zenon DEF RecordsUpTo
<1> HIDE DEF count
<1>6. count[0] = 0
    BY <1>1, <1>4
<1>7. \A k \in 1..Len(t) : count[k] = count[k - 1] + Len(t[k].actions)
    <2> SUFFICES ASSUME NEW k \in 1..Len(t)
                 PROVE  count[k] = count[k - 1] + Len(t[k].actions)
        OBVIOUS
    <2>1. k \in 0..Len(t) /\ k # 0
        BY <1>1
    <2>2. count[k] = IF k = 0 THEN 0 ELSE count[k - 1] + Len(t[k].actions)
        BY <1>4, <2>1
    <2> QED
        BY <2>1, <2>2
<1>8. \A k \in 0..Len(t) : count[k] = f[k]
    <2> DEFINE Bad == {k \in 0..Len(t) : count[k] # f[k]}
    <2>1. SUFFICES ASSUME Bad # {} PROVE FALSE
        OBVIOUS
    <2>7. Bad \subseteq Nat
        BY <1>1
    <2>2. PICK k \in Nat : k \in Bad /\ \A i \in Bad : k <= i
        BY <2>1, <2>7, SmallestMember
    <2>8. \A i \in 0..Len(t) : i \in Bad <=> count[i] # f[i]
        OBVIOUS
    <2>3. k \in 0..Len(t) /\ k # 0
        BY <1>2, <1>6, <2>2
    <2> DEFINE l == Len(t)
    <2> HIDE DEF Bad, l
    <2>9. k \in 1..l /\ k - 1 \in 0..l
        BY <1>1, <2>3 DEF l
    <2>10. k - 1 \notin Bad
        <3>1. k - 1 \in Nat /\ ~(k <= k - 1)
            BY <2>2, <2>9
        <3> QED
            BY <2>2, <3>1
    <2>4. k \in 1..Len(t) /\ k - 1 \in 0..Len(t) /\ k - 1 \notin Bad
        BY <2>9, <2>10 DEF l
    <2>5. count[k - 1] = f[k - 1] /\ Records(t, k) = Len(t[k].actions)
        BY <1>1, <2>4, <2>8 DEF Records
    <2>6. count[k] = f[k]
        BY <1>2, <1>7, <2>4, <2>5
    <2> QED
        BY <2>2, <2>3, <2>6, <2>8
<1>9. \A k \in 0..Len(t) : f[k] \in Nat
    BY <1>1
<1>10. \A k \in 0..Len(t) : RecordsUpTo(t, k) \in Nat
    <2> SUFFICES ASSUME NEW k \in 0..Len(t) PROVE RecordsUpTo(t, k) \in Nat
        OBVIOUS
    <2>1. count[k] \in Nat
        BY <1>8, <1>9
    <2> QED
        BY <1>5, <2>1, Zenon
<1>11. \A k \in 1..Len(t) : RecordsUpTo(t, k) = RecordsUpTo(t, k - 1) + Len(t[k].actions)
    <2> SUFFICES ASSUME NEW k \in 1..Len(t)
                 PROVE  RecordsUpTo(t, k) = RecordsUpTo(t, k - 1) + Len(t[k].actions)
        OBVIOUS
    <2>1. RecordsUpTo(t, k) = count[k] /\ RecordsUpTo(t, k - 1) = count[k - 1]
        BY <1>5, Zenon
    <2> QED
        BY <1>7, <2>1, Zenon
<1>12. RecordsUpTo(t, 0) = 0
    BY <1>5, <1>6, Zenon
<1> QED
    BY <1>10, <1>11, <1>12

LEMMA RecordsGrow ==
    ASSUME NEW t \in Seq(Site), NEW i \in 0..Len(t), NEW j \in 0..Len(t), i <= j
    PROVE  RecordsUpTo(t, i) <= RecordsUpTo(t, j)
<1> DEFINE Bad == {k \in 0..Len(t) : i <= k /\ ~(RecordsUpTo(t, i) <= RecordsUpTo(t, k))}
<1>1. Len(t) \in Nat /\ DOMAIN t = 1..Len(t)
    BY LenProperties
<1>2. SUFFICES ASSUME Bad # {} PROVE FALSE
    OBVIOUS
<1>8. Bad \subseteq Nat
    BY <1>1
<1>3. PICK k \in Nat : k \in Bad /\ \A m \in Bad : k <= m
    BY <1>2, <1>8, SmallestMember
<1>4. k \in 0..Len(t) /\ i <= k /\ k # i
    BY <1>1, <1>3, RecordsUpToMeans
<1>5. k \in 1..Len(t) /\ k - 1 \in 0..Len(t) /\ i <= k - 1 /\ k - 1 \notin Bad
    BY <1>1, <1>3, <1>4
<1>6. RecordsUpTo(t, k) = RecordsUpTo(t, k - 1) + Records(t, k) /\ Records(t, k) \in Nat
    BY <1>1, <1>5, RecordsUpToMeans, RecordsTypedHere DEF Records
<1>7. RecordsUpTo(t, i) \in Nat /\ RecordsUpTo(t, k - 1) \in Nat
    BY <1>5, RecordsUpToMeans
<1>9. RecordsUpTo(t, i) <= RecordsUpTo(t, k - 1) /\ ~(RecordsUpTo(t, i) <= RecordsUpTo(t, k))
    BY <1>3, <1>5
<1> DEFINE x == RecordsUpTo(t, i)
           y == RecordsUpTo(t, k - 1)
           z == Records(t, k)
<1>10. x \in Nat /\ y \in Nat /\ z \in Nat /\ x <= y /\ ~(x <= y + z)
    BY <1>6, <1>7, <1>9
<1> HIDE DEF x, y, z
<1> QED
    BY <1>10

\* The records of a call site are its own.
LEMMA OwnerMeans ==
    ASSUME NEW t \in Seq(Site), NEW i \in DOMAIN t,
           NEW r \in RecordsUpTo(t, i - 1) + 1..RecordsUpTo(t, i)
    PROVE  Owner(t, r) = i
<1> DEFINE OwnedBy(j) == RecordsUpTo(t, j - 1) < r /\ r <= RecordsUpTo(t, j)
<1>1. Len(t) \in Nat /\ DOMAIN t = 1..Len(t)
    BY LenProperties
<1>2. \A k \in 0..Len(t) : RecordsUpTo(t, k) \in Nat
    BY RecordsUpToMeans
<1>3. OwnedBy(i) /\ r \in Int
    BY <1>1, <1>2
<1>4. ASSUME NEW j \in DOMAIN t, OwnedBy(j) PROVE j = i
    <2>1. CASE j < i
        <3>1. RecordsUpTo(t, j) <= RecordsUpTo(t, i - 1)
            BY <1>1, <2>1, RecordsGrow
        <3>2. RecordsUpTo(t, j) \in Nat /\ RecordsUpTo(t, i - 1) \in Nat
            BY <1>1, <1>2
        <3> QED
            BY <1>3, <1>4, <3>1, <3>2
    <2>2. CASE i < j
        <3>1. RecordsUpTo(t, i) <= RecordsUpTo(t, j - 1)
            BY <1>1, <2>2, RecordsGrow
        <3>2. RecordsUpTo(t, i) \in Nat /\ RecordsUpTo(t, j - 1) \in Nat
            BY <1>1, <1>2
        <3> QED
            BY <1>3, <1>4, <3>1, <3>2
    <2> QED
        BY <1>1, <2>1, <2>2
<1>5. Owner(t, r) = CHOOSE j \in DOMAIN t : OwnedBy(j)
    BY DEF Owner
<1> HIDE DEF OwnedBy
<1> QED
    BY <1>3, <1>4, <1>5
-----------------------------------------------------------------------------
(* The second inductive invariant: where an exception goes. *)

\* A table has a call site with the call of frame f that catches exception c.
Holds(tb, f, c, i) ==
    f.slot \in tb[f.fn][i].from..tb[f.fn][i].to /\ Catches(tb[f.fn][i], c)
HandlesIn(tb, f, c) == \E i \in DOMAIN tb[f.fn] : Holds(tb, f, c, i)

\* Among the first n frames the handler in the buffer is the innermost one.
InnermostOf(tb, st, e, n) ==
    /\ e.handler \in 1..n
    /\ LET f == st[e.handler]
       IN  \E i \in DOMAIN tb[f.fn] :
              /\ Holds(tb, f, e.errorCode, i)
              /\ e.ipToSet = [fn |-> {f.fn}, offset |-> landing_pad(tb[f.fn][i])]
    /\ \A k \in e.handler + 1..n : ~HandlesIn(tb, st[k], e.errorCode)

\* The buffer leads to a landing pad of the handler's function that catches.
LeadsToPad(tb, st, e) ==
    LET g == st[e.handler].fn
    IN  \E i \in DOMAIN tb[g] :
           /\ tb[g][i].actions # <<>>
           /\ e.ipToSet = [fn |-> {g}, offset |-> landing_pad(tb[g][i])]

\* A frame goes from one call of its function to another one; in a clean-up the last
\* of them is that of _Unwind_Resume().
InFunction(tb, f) ==
    /\ f.slot + 1..f.last \subseteq Slots(tb[f.fn])
    /\ f.cleaning =>
          \E i \in DOMAIN tb[f.fn] : /\ tb[f.fn][i].actions = <<>>
                                     /\ tb[f.fn][i].pad > Body
                                     /\ f.last = tb[f.fn][i].pad + 1

\* All frames are in one of these calls, but the innermost one of a running program,
\* which may be between two.
AtCalls ==
    /\ \A k \in DOMAIN stack : InFunction(table, stack[k])
    /\ \A k \in DOMAIN stack :
          k < Len(stack) \/ unw.phase # "none" => stack[k].slot \in Slots(table[stack[k].fn])

\* The search has passed no frame that catches the exception ...
Searched ==
    unw.phase = "search" =>
        \A k \in unw.level + 1..Len(stack) : ~HandlesIn(table, stack[k], exc.errorCode)

\* ... and no record of the call site either, which it reads from the last one on.
ReadSoFar ==
    unw.step = "actions" =>
        \E r \in RecordsUpTo(WalkTable, unw.site - 1) + 1..RecordsUpTo(WalkTable, unw.site) :
            /\ unw.record = 2 * (r - 1)
            /\ \A j \in 1..RecordsUpTo(WalkTable, unw.site) - r :
                  ~Matches(FoundSite.actions[j])

\* Whichever exceptions clean-ups have raised, a walk that meets the frame in the
\* buffer finds a landing pad for it there, now or when a clean-up has come to its end.
HandlerPad ==
    /\ unw.phase = "cleanup" /\ exc.handler \in 1..Len(stack)
          => LeadsToPad(table, stack, exc)
    /\ unw.phase = "none" /\ status = "running" =>
          \A d \in DOMAIN stack :
              stack[d].cleaning /\ exc.handler \in 1..d => LeadsToPad(table, stack, exc)

\* If they have raised none it is the innermost handler of all frames, or of those
\* outside of the clean-up.
OnTheWay ==
    ~nested =>
        /\ unw.phase = "cleanup" =>
              /\ InnermostOf(table, stack, exc, Len(stack))
              /\ exc.handler = Len(stack) => unw.step = "sites"
        /\ unw.phase = "none" /\ status = "running" =>
              \A d \in DOMAIN stack :
                  stack[d].cleaning => InnermostOf(table, stack, exc, d - 1)

\* How the program may have ended.
Outcome ==
    /\ status = "uncaught" =>
          \A k \in DOMAIN stack : ~HandlesIn(table, stack[k], exc.errorCode)
    /\ NoFatalAnswer
    /\ StaysInTables

WayInv == AtCalls /\ Searched /\ ReadSoFar /\ HandlerPad /\ OnTheWay /\ Outcome

-----------------------------------------------------------------------------
(* Where a frame is in its function. *)

LEMMA InSiteIfCalled ==
    ASSUME NEW s \in Site, Walked.slot \in Nat, Walked.slot \in s.from..s.to
    PROVE  InSite(s)
<1> DEFINE c == CallSize
           n == Walked.slot
<1>1. c \in Nat /\ c >= 2 /\ n \in Nat /\ s.from \in Int /\ s.to \in Int
    BY UnwinderAssumption DEF Site
<1>2. s.from <= n /\ n <= s.to
    BY <1>1
<1> HIDE DEF c, n
<1> DEFINE x == c * n
           y == c * (s.from - 1)
           z == c * s.to
<1>3. y + c <= x
    <2>1. c * s.from <= c * n
        BY <1>1, <1>2, Monotone
    <2>2. c * s.from = c * (s.from - 1) + c
        BY <1>1
    <2> QED
        BY <2>1, <2>2
<1>4. x <= z
    BY <1>1, <1>2, Monotone
<1>5. y + c * (s.to - s.from + 1) = z
    BY <1>1
<1>6. x \in Int /\ y \in Int /\ z \in Int
    BY <1>1
<1>7. throw_ip = x - 1 /\ try_start(s) = y /\ try_length(s) = c * (s.to - s.from + 1)
    BY DEF throw_ip, try_start, try_length, c, n
<1> DEFINE w == c * (s.to - s.from + 1)
<1>8. y + w = z /\ w \in Int
    BY <1>1, <1>5
<1> HIDE DEF x, y, z, w
<1>9. x - 1 > y /\ x - 1 <= y + w
    BY <1>1, <1>3, <1>4, <1>6, <1>8
<1> QED
    BY <1>7, <1>9 DEF InSite, w

\* The call of a frame belongs to no other call site.
LEMMA OnlySite ==
    ASSUME NEW tb \in [Function -> Tables], NEW f \in Frame, NEW i \in DOMAIN tb[f.fn],
           f.slot \in tb[f.fn][i].from..tb[f.fn][i].to, NEW c
    PROVE  HandlesIn(tb, f, c) <=> Catches(tb[f.fn][i], c)
<1>1. tb[f.fn] \in Tables
    BY DEF Frame
<1>2. ASSUME NEW j \in DOMAIN tb[f.fn], f.slot \in tb[f.fn][j].from..tb[f.fn][j].to
      PROVE  j = i
    BY <1>1, <1>2, SitesDisjoint
<1> QED
    BY <1>2 DEF HandlesIn, Holds

\* An address that is installed is that of the landing pad it was made from.
LEMMA PadInstalled ==
    ASSUME NEW s \in Site
    PROVE  landing_pad(s) \div CallSize = s.pad - 1
<1> DEFINE c == CallSize
           n == s.pad - 1
           q == (c * n) \div c
<1>1. c \in Nat /\ c >= 2 /\ n \in Nat
    BY UnwinderAssumption DEF Site
<1>2. landing_pad(s) = c * n
    BY DEF landing_pad
<1> HIDE DEF c, n
<1>3. c * n \in Nat
    BY <1>1
<1>4. q \in Int /\ c * q <= c * n /\ c * n < c * (q + 1)
    <2> DEFINE x == c * n
    <2>1. x \in Nat
        BY <1>3
    <2> HIDE DEF x
    <2>2. x \div c \in Int /\ c * (x \div c) <= x /\ x < c * ((x \div c) + 1)
        BY <1>1, <2>1
    <2> QED
        BY <2>2 DEF x
<1> HIDE DEF q
<1>5. q <= n
    <2>1. CASE n + 1 <= q
        <3>1. c * (n + 1) <= c * q
            BY <1>1, <1>4, <2>1, Monotone
        <3>2. c * (n + 1) = c * n + c
            BY <1>1
        <3> DEFINE x == c * n
                   y == c * q
        <3>3. x \in Int /\ y \in Int /\ x + c <= y /\ y <= x
            BY <1>1, <1>4, <3>1, <3>2
        <3> HIDE DEF x, y
        <3> QED
            BY <1>1, <3>3
    <2> QED
        BY <1>1, <1>4, <2>1
<1>6. n <= q
    <2>1. CASE q + 1 <= n
        <3>1. c * (q + 1) <= c * n
            BY <1>1, <1>4, <2>1, Monotone
        <3> DEFINE x == c * n
                   y == c * (q + 1)
        <3>2. x \in Int /\ y \in Int /\ y <= x /\ x < y
            BY <1>1, <1>4, <3>1
        <3> HIDE DEF x, y
        <3> QED
            BY <3>2
    <2> QED
        BY <1>1, <1>4, <2>1
<1>7. q = n
    BY <1>1, <1>4, <1>5, <1>6
<1> QED
    BY <1>2, <1>7 DEF c, n, q

\* The slots of a landing pad are slots of the function.
LEMMA PadInFunction ==
    ASSUME NEW t \in Seq(Site), NEW i \in DOMAIN t, t[i].pad > Body
    PROVE  /\ t[i].pad \in Slots(t)
           /\ t[i].actions = <<>> => t[i].pad + 1 \in Slots(t)
<1>1. t[i].pad \in Nat
    <2>1. t[i] \in Site
        OBVIOUS
    <2> QED
        BY <2>1 DEF Site
<1>2. t[i].pad \in PadSlots(t[i]) /\ (t[i].actions = <<>> => t[i].pad + 1 \in PadSlots(t[i]))
    BY <1>1 DEF PadSlots
<1>3. PadSlots(t[i]) \subseteq Slots(t)
    <2>1. i \in {j \in DOMAIN t : t[j].pad > Body}
        OBVIOUS
    <2>2. PadSlots(t[i]) \in {PadSlots(t[k]) : k \in {j \in DOMAIN t : t[j].pad > Body}}
        BY <2>1, Zenon
    <2> QED
        BY <2>2, Zenon DEF Slots
<1> QED
    BY <1>2, <1>3

LEMMA BodyInFunction ==
    ASSUME NEW t
    PROVE  1..Body \subseteq Slots(t)
BY DEF Slots
-----------------------------------------------------------------------------
(* What each kind of step makes of the stack. *)

LEMMA CallEffect ==
    ASSUME TypeOK, NEW f \in Function, CallFunction(f)
    PROVE  LET n == Len(stack)
           IN  /\ n \in Nat \ {0}
               /\ DOMAIN stack = 1..n /\ DOMAIN stack' = 1..n + 1 /\ Len(stack') = n + 1
               /\ stack[n] \in Frame
               /\ stack'[n].slot \in stack[n].slot + 1..stack[n].last
               /\ stack'[n].fn = stack[n].fn
               /\ stack'[n].last = stack[n].last
               /\ stack'[n].cleaning = stack[n].cleaning
               /\ stack'[n + 1] = Activation(f)
               /\ \A k \in 1..n - 1 : stack'[k] = stack[k]
               /\ status = "running" /\ unw.phase = "none"
               /\ UNCHANGED <<table, exc, unw, raises, nested, status>>
<1>1. PICK s \in Ahead :
        /\ stack' = Append(Append(Under, [Top EXCEPT !.slot = s]), Activation(f))
        /\ UNCHANGED <<table, exc, unw, raises, nested, status>>
    BY DEF CallFunction
<1>2. Running /\ s \in Nat /\ stack \in Seq(Frame) /\ stack # <<>> /\ Top \in Frame
    BY AheadTyped
<1>3. s \in Top.slot + 1..Top.last
    BY <1>2 DEF Ahead
<1> DEFINE g == [Top EXCEPT !.slot = s]
           h == Activation(f)
           n == Len(stack)
<1>4. /\ g \in Frame
      /\ g.fn = Top.fn
      /\ g.slot = s
      /\ g.last = Top.last
      /\ g.cleaning = Top.cleaning
    BY <1>2, SlotTyped
<1>5. h \in Frame
    BY ActivationTyped
<1> DEFINE next == Append(Append(Under, g), h)
<1>6. stack' = next
    BY <1>1
<1>7. /\ next \in Seq(Frame)
      /\ Len(next) = n + 1
      /\ next[n + 1] = h
      /\ next[n] = g
      /\ \A k \in 1..n - 1 : next[k] = stack[k]
    BY <1>2, <1>4, <1>5, CalledTyped
<1> HIDE DEF next, g
<1>8. n \in Nat \ {0} /\ Top = stack[n]
    BY <1>2, TopTyped DEF Top
<1>9. DOMAIN stack = 1..n /\ DOMAIN stack' = 1..n + 1
    BY <1>2, <1>6, <1>7, Domains
<1>10. status = "running" /\ unw.phase = "none"
    BY <1>2 DEF Running
<1> HIDE DEF n, h
<1>11. /\ n \in Nat \ {0}
       /\ DOMAIN stack = 1..n /\ DOMAIN stack' = 1..n + 1 /\ Len(stack') = n + 1
       /\ stack[n] \in Frame
       /\ stack'[n].slot \in stack[n].slot + 1..stack[n].last
       /\ stack'[n].fn = stack[n].fn
       /\ stack'[n].last = stack[n].last
       /\ stack'[n].cleaning = stack[n].cleaning
       /\ stack'[n + 1] = h
       /\ \A k \in 1..n - 1 : stack'[k] = stack[k]
    BY <1>2, <1>3, <1>4, <1>6, <1>7, <1>8, <1>9
<1> QED
    BY <1>1, <1>10, <1>11 DEF n, h

LEMMA ReturnEffect ==
    ASSUME TypeOK, Return
    PROVE  LET n == Len(stack)
           IN  /\ n \in Nat \ {0}
               /\ DOMAIN stack = 1..n /\ DOMAIN stack' = 1..n - 1 /\ Len(stack') = n - 1
               /\ ~stack[n].cleaning
               /\ \A k \in 1..n - 1 : stack'[k] = stack[k]
               /\ status = "running" /\ status' \in {"running", "returned"}
               /\ unw.phase = "none"
               /\ UNCHANGED <<table, exc, unw, raises, nested>>
<1>1. stack \in Seq(Frame) /\ stack # <<>> /\ status = "running" /\ unw.phase = "none"
    BY RunningIdle DEF Return, Running
<1>2. /\ stack' \in Seq(Frame)
      /\ Len(stack') = Len(stack) - 1
      /\ \A k \in 1..Len(stack) - 1 : stack'[k] = stack[k]
    BY <1>1, UnderTyped DEF Return
<1>3. Len(stack) \in Nat \ {0} /\ ~stack[Len(stack)].cleaning
    BY <1>1, TopTyped DEF Return, Top
<1>4. DOMAIN stack = 1..Len(stack) /\ DOMAIN stack' = 1..Len(stack) - 1
    BY <1>1, <1>2, Domains
<1>5. status' \in {"running", "returned"} /\ UNCHANGED <<table, exc, unw, raises, nested>>
    BY <1>1 DEF Return
<1> QED
    BY <1>1, <1>2, <1>3, <1>4, <1>5

LEMMA RaiseEffect ==
    ASSUME Sound, NEW c \in Codes, __zno_raise(c)
    PROVE  LET n == Len(stack)
           IN  /\ n \in Nat \ {0}
               /\ DOMAIN stack = 1..n /\ DOMAIN stack' = 1..n /\ Len(stack') = n
               /\ stack[n] \in Frame
               /\ stack'[n].slot \in stack[n].slot + 1..stack[n].last
               /\ \A k \in 1..n - 1 : stack'[k].slot = stack[k].slot
               /\ \A k \in 1..n : /\ stack'[k].fn = stack[k].fn
                                  /\ stack'[k].last = stack[k].last
                                  /\ stack'[k].cleaning = stack[k].cleaning
               /\ unw'.phase = "search" /\ unw'.level = n /\ unw'.step = "sites"
               /\ status = "running" /\ status' = status /\ table' = table
               /\ ~nested' => ~nested /\ \A k \in 1..n : ~stack[k].cleaning
<1>1. /\ stack \in Seq(Frame)
      /\ DOMAIN stack' = DOMAIN stack
      /\ \A k \in DOMAIN stack :
            /\ stack'[k].fn = stack[k].fn
            /\ stack'[k].last = stack[k].last
            /\ stack'[k].cleaning = stack[k].cleaning
            /\ IF k = Len(stack) THEN stack'[k].slot \in Top.slot + 1..Top.last
                                 ELSE stack'[k].slot = stack[k].slot
      /\ unw' = Walk("search", Len(stack))
      /\ Sound'
    BY RaiseSound
<1>2. /\ Running
      /\ nested' = (nested \/ Cleaning)
      /\ UNCHANGED <<table, status>>
    BY DEF __zno_raise, Ahead
<1>3. stack # <<>> /\ status = "running"
    BY <1>2 DEF Running
<1>4. /\ Len(stack) \in Nat \ {0}
      /\ DOMAIN stack = 1..Len(stack)
      /\ Top \in Frame
      /\ Top = stack[Len(stack)]
    BY <1>1, <1>3, Domains, TopTyped DEF Top
<1>5. Len(stack') = Len(stack)
    BY <1>1, <1>4, LenProperties DEF Sound, TypeOK
<1>6. unw'.phase = "search" /\ unw'.level = Len(stack) /\ unw'.step = "sites"
    BY <1>1, <1>4, WalkTyped
<1>7. ~nested' => ~nested /\ \A k \in DOMAIN stack : ~stack[k].cleaning
    BY <1>2 DEF Cleaning
<1> DEFINE n == Len(stack)
<1>8. \A k \in 1..n - 1 : k \in 1..n /\ k # n
    <2>1. n \in Nat
        BY <1>4
    <2> HIDE DEF n
    <2> QED
        BY <2>1
<1>9. n \in 1..n
    BY <1>4
<1>12. \A k \in 1..n : k # n => stack'[k].slot = stack[k].slot
    BY <1>1, <1>4
<1> HIDE DEF n
<1>10. \A k \in 1..n - 1 : stack'[k].slot = stack[k].slot
    BY <1>8, <1>12
<1>11. stack'[n].slot \in stack[n].slot + 1..stack[n].last
    BY <1>1, <1>4, <1>9 DEF n
<1> QED
    BY <1>1, <1>2, <1>3, <1>4, <1>5, <1>6, <1>7, <1>10, <1>11 DEF n

LEMMA ResumeEffect ==
    ASSUME TypeOK, _Unwind_Resume
    PROVE  LET n == Len(stack)
           IN  /\ n \in Nat \ {0}
               /\ DOMAIN stack = 1..n /\ DOMAIN stack' = 1..n /\ Len(stack') = n
               /\ stack[n] \in Frame
               /\ stack[n].cleaning
               /\ stack'[n].slot = stack[n].last
               /\ stack'[n].fn = stack[n].fn
               /\ stack'[n].last = stack[n].last
               /\ stack'[n].cleaning
               /\ \A k \in 1..n - 1 : stack'[k] = stack[k]
               /\ unw'.phase = "cleanup" /\ unw'.level = n /\ unw'.step = "sites"
               /\ status = "running" /\ unw.phase = "none"
               /\ UNCHANGED <<table, exc, raises, nested, status>>
<1>1. /\ stack \in Seq(Frame) /\ stack # <<>>
      /\ status = "running" /\ unw.phase = "none"
      /\ Top.cleaning
    BY RunningIdle DEF _Unwind_Resume, Running
<1>2. Top \in Frame /\ Top.last \in Nat /\ Len(stack) \in Nat \ {0} /\ Top = stack[Len(stack)]
    BY <1>1, TopTyped DEF Frame, Top
<1> DEFINE g == [Top EXCEPT !.slot = Top.last]
<1>3. /\ g \in Frame
      /\ g.fn = Top.fn
      /\ g.slot = Top.last
      /\ g.last = Top.last
      /\ g.cleaning = Top.cleaning
    BY <1>2, SlotTyped
<1>4. stack' = Append(Under, g) /\ unw' = Walk("cleanup", Len(stack))
    BY DEF _Unwind_Resume, Goes
<1> HIDE DEF g
<1>5. /\ stack' \in Seq(Frame)
      /\ Len(stack') = Len(stack)
      /\ stack'[Len(stack)] = g
      /\ \A k \in 1..Len(stack) - 1 : stack'[k] = stack[k]
    BY <1>1, <1>3, <1>4, GoesTyped
<1>6. DOMAIN stack = 1..Len(stack) /\ DOMAIN stack' = 1..Len(stack)
    BY <1>1, <1>5, Domains
<1>7. unw'.phase = "cleanup" /\ unw'.level = Len(stack) /\ unw'.step = "sites"
    BY <1>2, <1>4, WalkTyped
<1>8. UNCHANGED <<table, exc, raises, nested, status>>
    BY DEF _Unwind_Resume
<1> QED
    BY <1>1, <1>2, <1>3, <1>5, <1>6, <1>7, <1>8

LEMMA PassEffect ==
    ASSUME Sound, Walking, ContinueUnwind
    PROVE  LET n == Len(stack)
               m == IF unw.phase = "cleanup" THEN n - 1 ELSE n
           IN  /\ n \in Nat \ {0}
               /\ unw.level \in 1..n
               /\ DOMAIN stack = 1..n /\ DOMAIN stack' = 1..m /\ Len(stack') = m
               /\ \A k \in 1..m : stack'[k] = stack[k]
               /\ unw.phase \in {"search", "cleanup"}
               /\ unw.phase = "cleanup" => unw.level = n
               /\ unw'.phase = unw.phase
               /\ unw'.level = unw.level - 1
               /\ unw'.step = "sites"
               /\ status = "running"
               /\ UNCHANGED <<table, raises, nested, status>>
<1>1. /\ stack \in Seq(Frame) /\ stack # <<>>
      /\ unw.phase \in {"search", "cleanup"}
      /\ unw.level \in 1..Len(stack)
      /\ status = "running"
    BY WalkedTyped DEF Sound, TypeOK, Unwinding, Walking
<1>2. Len(stack) \in Nat \ {0} /\ DOMAIN stack = 1..Len(stack)
    BY <1>1, TopTyped, Domains
<1>3. /\ unw' = Walk(unw.phase, unw.level - 1)
      /\ stack' = IF unw.phase = "cleanup" THEN Under ELSE stack
      /\ UNCHANGED <<table, raises, nested, status>>
    BY DEF ContinueUnwind, FrameOutside
<1>4. /\ unw'.phase = unw.phase
      /\ unw'.level = unw.level - 1
      /\ unw'.step = "sites"
    BY <1>1, <1>2, <1>3, WalkTyped
<1>5. unw.phase = "cleanup" => unw.level = Len(stack)
    BY DEF Sound, Places, AtInnermost
<1>6. /\ Under \in Seq(Frame)
      /\ Len(Under) = Len(stack) - 1
      /\ \A k \in 1..Len(stack) - 1 : Under[k] = stack[k]
    BY <1>1, UnderTyped
<1>7. DOMAIN Under = 1..Len(stack) - 1
    BY <1>6, Domains
<1>8. CASE unw.phase = "cleanup"
    BY <1>1, <1>2, <1>3, <1>4, <1>5, <1>6, <1>7, <1>8
<1>9. CASE unw.phase = "search"
    BY <1>1, <1>2, <1>3, <1>4, <1>5, <1>9
<1> QED
    BY <1>1, <1>8, <1>9

\* A context is installed at landing pad s of function g.
LEMMA InstallEffect ==
    ASSUME Sound, Walking, unw.phase = "cleanup", NEW g \in Function, NEW s \in Site,
           NEW clean \in BOOLEAN,
           InstallContext([fn |-> {g}, offset |-> landing_pad(s)], clean)
    PROVE  LET n == Len(stack)
           IN  /\ n \in Nat \ {0}
               /\ unw.level = n
               /\ DOMAIN stack = 1..n /\ DOMAIN stack' = 1..n /\ Len(stack') = n
               /\ stack'[n].fn = g
               /\ stack'[n].slot = s.pad - 1
               /\ stack'[n].last = IF s.pad > Body THEN IF clean THEN s.pad + 1 ELSE s.pad
                                                   ELSE Body
               /\ stack'[n].cleaning = (clean /\ s.pad > Body)
               /\ \A k \in 1..n - 1 : stack'[k] = stack[k]
               /\ unw'.phase = "none" /\ unw'.step = "sites"
               /\ status = "running"
               /\ UNCHANGED <<table, raises, nested, status>>
<1> DEFINE a == [fn |-> {g}, offset |-> landing_pad(s)]
<1>1. a \in Address /\ a.fn = {g} /\ a.fn # {} /\ a.offset = landing_pad(s)
    BY LandingPadTyped DEF Address
<1>2. InstallContext(a, clean)
    OBVIOUS
<1>3. /\ stack \in Seq(Frame) /\ stack # <<>>
      /\ status = "running"
      /\ unw.level = Len(stack)
    BY WalkedTyped DEF Sound, TypeOK, Walking, Places, AtInnermost
<1> HIDE DEF a
<1>4. PICK f \in Frame :
        /\ Goes(f)
        /\ f.slot = a.offset \div CallSize
        /\ LET p == f.slot + 1
           IN  /\ f.last = IF p > Body THEN IF clean THEN p + 1 ELSE p ELSE Body
               /\ f.cleaning = (clean /\ p > Body)
        /\ f.fn \in a.fn
    BY <1>1, <1>2, InstallTyped
<1>5. s.pad \in Nat \ {0}
    BY DEF Site
<1>6. f.slot = s.pad - 1 /\ f.slot + 1 = s.pad /\ f.fn = g
    BY <1>1, <1>4, <1>5, PadInstalled
<1>7. /\ f.last = IF s.pad > Body THEN IF clean THEN s.pad + 1 ELSE s.pad ELSE Body
      /\ f.cleaning = (clean /\ s.pad > Body)
    BY <1>4, <1>6
<1>8. /\ stack' \in Seq(Frame)
      /\ Len(stack') = Len(stack)
      /\ stack'[Len(stack)] = f
      /\ \A k \in 1..Len(stack) - 1 : stack'[k] = stack[k]
    BY <1>3, <1>4, GoesTyped DEF Goes
<1>9. /\ Len(stack) \in Nat \ {0}
      /\ DOMAIN stack = 1..Len(stack)
      /\ DOMAIN stack' = 1..Len(stack)
    BY <1>3, <1>8, TopTyped, Domains
<1>10. unw'.phase = "none" /\ unw'.step = "sites" /\ UNCHANGED <<table, raises, nested, status>>
    BY <1>2 DEF InstallContext, Idle
<1> QED
    BY <1>3, <1>6, <1>7, <1>8, <1>9, <1>10

\* The program ends.
LEMMA EndEffect ==
    ASSUME NEW how, Ends(how)
    PROVE  /\ unw'.phase = "none" /\ unw'.step = "sites"
           /\ status' = how
           /\ UNCHANGED <<table, stack, raises, nested>>
BY DEF Ends, Idle
-----------------------------------------------------------------------------
(* What is read of a table. *)

\* The call site that is found is the one that the call belongs to.
LEMMA FoundMeans ==
    ASSUME TypeOK, Walking, NEW i \in DOMAIN WalkTable,
           Walked.slot \in WalkTable[i].from..WalkTable[i].to, NEW c
    PROVE  /\ WalkTable[i] \in Site
           /\ HandlesIn(table, Walked, c) <=> Catches(WalkTable[i], c)
<1>1. Walked \in Frame /\ WalkTable \in Tables /\ table \in [Function -> Tables]
    BY WalkedTyped DEF TypeOK
<1>2. WalkTable[i] \in Site
    BY <1>1, SiteTyped
<1>3. WalkTable = table[Walked.fn]
    BY DEF WalkTable
<1> HIDE DEF WalkTable, Walked
<1> QED
    BY <1>1, <1>2, <1>3, OnlySite

LEMMA CleanupSiteMeans ==
    ASSUME TypeOK, AtCleanupSite
    PROVE  /\ Walking
           /\ FirstMatch \in DOMAIN WalkTable
           /\ WalkTable[FirstMatch] \in Site
           /\ WalkTable[FirstMatch].actions = <<>>
           /\ \A c : ~HandlesIn(table, Walked, c)
<1>1. Walking /\ Matching # {} /\ action(WalkTable, FirstMatch) = 0
    BY DEF AtCleanupSite, SearchesSites
<1>2. /\ FirstMatch \in DOMAIN WalkTable
      /\ FirstMatch \in Nat
      /\ WalkTable[FirstMatch] \in Site
      /\ Walked.slot \in WalkTable[FirstMatch].from..WalkTable[FirstMatch].to
    BY <1>1, FirstMatchMeans
<1> DEFINE i == FirstMatch
<1>3. WalkTable \in Seq(Site)
    BY <1>1, WalkedTyped, UnwinderAssumption
<1>4. RecordsUpTo(WalkTable, i) \in Nat
    <2>1. i \in 0..Len(WalkTable)
        BY <1>2, <1>3, LenProperties
    <2> HIDE DEF i, WalkTable
    <2> QED
        BY <1>3, <2>1, RecordsUpToMeans
<1>5. WalkTable[i].actions = <<>>
    <2> DEFINE r == RecordsUpTo(WalkTable, i)
    <2>1. r \in Nat
        BY <1>4
    <2>2. action(WalkTable, i) = IF WalkTable[i].actions = <<>> THEN 0 ELSE 2 * r - 1
        BY DEF action
    <2> HIDE DEF r, i
    <2>3. 2 * r - 1 # 0
        BY <2>1
    <2> QED
        BY <1>1, <2>2, <2>3 DEF i
<1>6. ASSUME NEW c PROVE ~Catches(WalkTable[i], c)
    BY <1>5 DEF Catches, Has
<1> QED
    BY <1>1, <1>2, <1>5, <1>6, FoundMeans

\* Where a record is: its exception, and what leads from it to the next one.
LEMMA RecordMeans ==
    ASSUME NEW t \in Seq(Site), NEW i \in DOMAIN t,
           NEW r \in RecordsUpTo(t, i - 1) + 1..RecordsUpTo(t, i)
    PROVE  /\ type_index(t, 2 * (r - 1)) = t[i].actions[RecordsUpTo(t, i) - r + 1]
           /\ leb128_signed_decode_1char(next_action_record(t, 2 * (r - 1)))
                 = IF r = RecordsUpTo(t, i - 1) + 1 THEN 0 ELSE -3
           /\ 2 * (r - 1) \in RecordOffsets(t)
           /\ RecordsUpTo(t, i) = RecordsUpTo(t, i - 1) + Len(t[i].actions)
           /\ RecordsUpTo(t, i) \in Nat /\ RecordsUpTo(t, i - 1) \in Nat
<1>1. Len(t) \in Nat /\ DOMAIN t = 1..Len(t)
    BY LenProperties
<1>2. i \in 1..Len(t) /\ i - 1 \in 0..Len(t) /\ i \in 0..Len(t) /\ Len(t) \in 0..Len(t)
    BY <1>1
<1>3. /\ RecordsUpTo(t, i) = RecordsUpTo(t, i - 1) + Len(t[i].actions)
      /\ RecordsUpTo(t, i) \in Nat
      /\ RecordsUpTo(t, i - 1) \in Nat
      /\ RecordsUpTo(t, Len(t)) \in Nat
    BY <1>2, RecordsUpToMeans
<1>4. RecordsUpTo(t, i) <= RecordsUpTo(t, Len(t))
    BY <1>1, <1>2, RecordsGrow
<1> DEFINE o == 2 * (r - 1)
<1>5. r \in Nat /\ r >= 1 /\ r <= RecordsUpTo(t, Len(t))
    BY <1>3, <1>4
<1>6. o \div 2 + 1 = r
    BY <1>5
<1>7. Owner(t, r) = i
    BY OwnerMeans
<1>8. o \in RecordOffsets(t)
    BY <1>3, <1>5 DEF RecordOffsets
<1> HIDE DEF o
<1>9. type_index(t, o) = t[i].actions[RecordsUpTo(t, i) - r + 1]
    BY <1>6, <1>7 DEF type_index
<1>10. next_action_record(t, o) = IF r = RecordsUpTo(t, i - 1) + 1 THEN 0 ELSE 125
    BY <1>6, <1>7 DEF next_action_record
<1>11. leb128_signed_decode_1char(0) = 0 /\ leb128_signed_decode_1char(125) = -3
    BY DEF leb128_signed_decode_1char
<1>12. leb128_signed_decode_1char(next_action_record(t, o))
           = IF r = RecordsUpTo(t, i - 1) + 1 THEN 0 ELSE -3
    BY <1>10, <1>11
<1> QED
    BY <1>3, <1>8, <1>9, <1>12 DEF o

\* The record that is read, and all that the search has read of its call site.
LEMMA ReadMeans ==
    ASSUME Sound, ReadSoFar, AtRecord
    PROVE  LET i == unw.site
               t == WalkTable
           IN  /\ t \in Seq(Site) /\ i \in DOMAIN t /\ FoundSite = t[i]
               /\ \E r \in RecordsUpTo(t, i - 1) + 1..RecordsUpTo(t, i) :
                     /\ unw.record = 2 * (r - 1)
                     /\ \A j \in 1..RecordsUpTo(t, i) - r : ~Matches(t[i].actions[j])
                     /\ type_index(t, unw.record) = t[i].actions[RecordsUpTo(t, i) - r + 1]
                     /\ Displacement = IF r = RecordsUpTo(t, i - 1) + 1 THEN 0 ELSE -3
<1>1. /\ Walking
      /\ unw.site \in DOMAIN WalkTable
      /\ FoundSite = WalkTable[unw.site]
    BY AtRecordMeans
<1>2. WalkTable \in Seq(Site)
    BY <1>1, WalkedTyped, UnwinderAssumption DEF Sound
<1>3. unw.step = "actions"
    BY DEF AtRecord
<1>4. PICK r \in RecordsUpTo(WalkTable, unw.site - 1) + 1..RecordsUpTo(WalkTable, unw.site) :
        /\ unw.record = 2 * (r - 1)
        /\ \A j \in 1..RecordsUpTo(WalkTable, unw.site) - r :
              ~Matches(FoundSite.actions[j])
    BY <1>3 DEF ReadSoFar
<1> DEFINE t == WalkTable
           i == unw.site
<1>5. Displacement = leb128_signed_decode_1char(next_action_record(t, unw.record))
    BY DEF Displacement
<1>6. /\ t \in Seq(Site)
      /\ i \in DOMAIN t
      /\ FoundSite = t[i]
      /\ r \in RecordsUpTo(t, i - 1) + 1..RecordsUpTo(t, i)
      /\ unw.record = 2 * (r - 1)
      /\ \A j \in 1..RecordsUpTo(t, i) - r : ~Matches(t[i].actions[j])
    BY <1>1, <1>2, <1>4
<1> HIDE DEF t, i
<1>7. /\ type_index(t, 2 * (r - 1)) = t[i].actions[RecordsUpTo(t, i) - r + 1]
      /\ leb128_signed_decode_1char(next_action_record(t, 2 * (r - 1)))
            = IF r = RecordsUpTo(t, i - 1) + 1 THEN 0 ELSE -3
    BY <1>6, RecordMeans
<1>8. /\ type_index(t, unw.record) = t[i].actions[RecordsUpTo(t, i) - r + 1]
      /\ Displacement = IF r = RecordsUpTo(t, i - 1) + 1 THEN 0 ELSE -3
    BY <1>5, <1>6, <1>7
<1> QED
    BY <1>6, <1>8 DEF t, i

\* Whoever is passed does not catch the exception.
LEMMA PassedUnhandled ==
    ASSUME Sound, ReadSoFar,
           NoPersonality \/ SearchPassesCleanup \/ AlreadyCleanedUp \/ NoMoreRecords
    PROVE  ~HandlesIn(table, Walked, exc.errorCode)
<1>1. CASE NoPersonality
    <2>1. table[Walked.fn] = <<>>
        BY <1>1 DEF NoPersonality, WalkTable
    <2> QED
        BY <2>1 DEF HandlesIn
<1>2. CASE SearchPassesCleanup \/ AlreadyCleanedUp
    BY <1>2, CleanupSiteMeans DEF Sound, SearchPassesCleanup, AlreadyCleanedUp
<1>3. CASE NoMoreRecords
    <2>1. AtRecord /\ ~TypeMatches /\ Displacement = 0
        BY <1>3 DEF NoMoreRecords, LastRecord
    <2> DEFINE i == unw.site
               t == WalkTable
    <2>2. t \in Seq(Site) /\ i \in DOMAIN t /\ FoundSite = t[i]
        BY <2>1, ReadMeans
    <2>3. PICK r \in RecordsUpTo(t, i - 1) + 1..RecordsUpTo(t, i) :
            /\ \A j \in 1..RecordsUpTo(t, i) - r : ~Matches(t[i].actions[j])
            /\ type_index(t, unw.record) = t[i].actions[RecordsUpTo(t, i) - r + 1]
            /\ Displacement = IF r = RecordsUpTo(t, i - 1) + 1 THEN 0 ELSE -3
        BY <2>1, ReadMeans
    <2>4. ~Matches(t[i].actions[RecordsUpTo(t, i) - r + 1])
        BY <2>1, <2>3 DEF TypeMatches
    <2>5. Walking /\ Walked.slot \in t[i].from..t[i].to
        BY <2>1, AtRecordMeans
    <2>6. HandlesIn(table, Walked, exc.errorCode) <=> Catches(t[i], exc.errorCode)
        BY <2>2, <2>5, FoundMeans DEF Sound
    <2>7. t[i] \in Site
        BY <2>2, <2>5, FoundMeans DEF Sound
    <2> HIDE DEF i, t
    <2>8. /\ RecordsUpTo(t, i) = RecordsUpTo(t, i - 1) + Len(t[i].actions)
          /\ RecordsUpTo(t, i) \in Nat /\ RecordsUpTo(t, i - 1) \in Nat
        BY <2>2, <2>3, RecordMeans
    <2>9. r = RecordsUpTo(t, i - 1) + 1
        BY <2>1, <2>3
    <2>10. t[i].actions \in Seq(Codes \cup {0})
        BY <2>7 DEF Site
    <2>11. DOMAIN t[i].actions = 1..Len(t[i].actions) /\ Len(t[i].actions) \in Nat
        BY <2>10, LenProperties
    <2>12. RecordsUpTo(t, i) - r + 1 = Len(t[i].actions)
        <3> DEFINE a == RecordsUpTo(t, i)
                   b == RecordsUpTo(t, i - 1)
                   m == Len(t[i].actions)
        <3>1. a = b + m /\ b \in Nat /\ m \in Nat /\ r = b + 1
            BY <2>8, <2>9, <2>11
        <3> HIDE DEF a, b, m
        <3>2. a - r + 1 = m
            BY <3>1
        <3> QED
            BY <3>2 DEF a, m
    <2>13. \A j \in 1..Len(t[i].actions) : j = Len(t[i].actions) \/ j \in 1..RecordsUpTo(t, i) - r
        <3> DEFINE m == Len(t[i].actions)
        <3>1. m \in Nat /\ RecordsUpTo(t, i) - r = m - 1
            <4> DEFINE a == RecordsUpTo(t, i)
            <4>1. a - r + 1 = m /\ a \in Nat /\ r \in Int /\ m \in Nat
                BY <2>3, <2>8, <2>11, <2>12
            <4> HIDE DEF a, m
            <4>2. a - r = m - 1
                BY <4>1
            <4> QED
                BY <4>1, <4>2 DEF a
        <3> HIDE DEF m
        <3>2. \A j \in 1..m : j = m \/ j \in 1..m - 1
            BY <3>1
        <3> QED
            BY <3>1, <3>2 DEF m
    <2>14. \A j \in DOMAIN t[i].actions : ~Matches(t[i].actions[j])
        BY <2>3, <2>4, <2>11, <2>12, <2>13
    <2> QED
        BY <2>6, <2>14 DEF Catches, Has, Matches
<1> QED
    BY <1>1, <1>2, <1>3
-----------------------------------------------------------------------------
(* The frames stay at the calls of their functions. *)

SameExc == /\ exc'.handler = exc.handler
           /\ exc'.ipToSet = exc.ipToSet
           /\ exc'.errorCode = exc.errorCode

\* A frame goes on at a landing pad of its function: at a handler, or at a clean-up.
GoesOnAt(g, i, clean) ==
    LET n == Len(stack)
        s == table[g][i]
    IN  /\ n \in Nat \ {0}
        /\ unw.level = n
        /\ DOMAIN stack = 1..n /\ DOMAIN stack' = 1..n /\ Len(stack') = n
        /\ stack[n].fn = g
        /\ stack'[n].fn = g
        /\ stack'[n].slot = s.pad - 1
        /\ stack'[n].last = IF s.pad > Body THEN IF clean THEN s.pad + 1 ELSE s.pad
                                            ELSE Body
        /\ stack'[n].cleaning = (clean /\ s.pad > Body)
        /\ \A k \in 1..n - 1 : stack'[k] = stack[k]
        /\ unw'.phase = "none" /\ unw'.step = "sites"
        /\ status = "running"
        /\ UNCHANGED <<table, raises, nested, status>>

LEMMA InHandlerFrameEffect ==
    ASSUME Sound, HandlerPad, InHandlerFrame
    PROVE  /\ unw.phase = "cleanup" /\ exc.handler = Len(stack) /\ exc' = exc
           /\ \E g \in Function : \E i \in DOMAIN table[g] :
                 /\ table[g] \in Seq(Site)
                 /\ table[g][i].actions # <<>>
                 /\ GoesOnAt(g, i, FALSE)
<1>1. /\ Walking
      /\ unw.phase = "cleanup"
      /\ unw.level = exc.handler
      /\ InstallContext(exc.ipToSet, FALSE)
      /\ exc' = exc
    BY DEF InHandlerFrame, HandlerFrame
<1>2. unw.level \in 1..Len(stack) /\ unw.level = Len(stack) /\ Walked.fn \in Function
    BY <1>1, WalkedTyped DEF Sound, Places, AtInnermost
<1> DEFINE g == Walked.fn
<1>3. g = stack[exc.handler].fn
    BY <1>1 DEF Walked
<1>4. LeadsToPad(table, stack, exc)
    BY <1>1, <1>2 DEF HandlerPad
<1>5. table[g] \in Seq(Site)
    BY <1>2, UnwinderAssumption DEF Sound, TypeOK
<1>6. g = stack[Len(stack)].fn /\ g \in Function
    BY <1>1, <1>2, <1>3
<1> HIDE DEF g
<1>7. PICK i \in DOMAIN table[g] :
        /\ table[g][i].actions # <<>>
        /\ exc.ipToSet = [fn |-> {g}, offset |-> landing_pad(table[g][i])]
    BY <1>3, <1>4 DEF LeadsToPad
<1>8. table[g][i] \in Site
    BY <1>5, <1>7
<1>9. InstallContext([fn |-> {g}, offset |-> landing_pad(table[g][i])], FALSE)
    BY <1>1, <1>7
<1>10. GoesOnAt(g, i, FALSE)
    BY <1>1, <1>6, <1>8, <1>9, InstallEffect DEF GoesOnAt
<1> QED
    BY <1>1, <1>2, <1>5, <1>6, <1>7, <1>10

LEMMA RunCleanupEffect ==
    ASSUME Sound, RunCleanup
    PROVE  /\ unw.phase = "cleanup" /\ exc.handler # Len(stack) /\ SameExc
           /\ \E g \in Function : \E i \in DOMAIN table[g] :
                 /\ table[g] \in Seq(Site)
                 /\ table[g][i].actions = <<>>
                 /\ GoesOnAt(g, i, TRUE)
<1>1. /\ AtCleanupSite
      /\ Walking
      /\ ~HandlerFrame
      /\ unw.phase = "cleanup"
      /\ exc' = [exc EXCEPT !.lastCleanedFn = {Walked.fn}]
      /\ InstallContext([fn |-> {Walked.fn},
                         offset |-> landing_pad(WalkTable[FirstMatch])], TRUE)
    BY DEF RunCleanup, AtCleanupSite, SearchesSites, CleanedFn
<1>2. /\ unw.level = Len(stack)
      /\ Walked.fn \in Function
      /\ Walked = stack[Len(stack)]
    BY <1>1, WalkedTyped DEF Sound, Places, AtInnermost, Walked
<1>3. exc.handler # Len(stack)
    BY <1>1, <1>2 DEF HandlerFrame
<1> DEFINE g == Walked.fn
           i == FirstMatch
<1>4. WalkTable = table[g] /\ table[g] \in Seq(Site)
    BY <1>2, UnwinderAssumption DEF WalkTable, Sound, TypeOK
<1>5. i \in DOMAIN table[g] /\ table[g][i] \in Site /\ table[g][i].actions = <<>>
    BY <1>1, <1>4, CleanupSiteMeans DEF Sound
<1>6. SameExc
    BY <1>1 DEF SameExc, Sound, TypeOK, Buffer
<1>7. InstallContext([fn |-> {g}, offset |-> landing_pad(table[g][i])], TRUE)
    BY <1>1, <1>4
<1>8. g = stack[Len(stack)].fn /\ g \in Function
    BY <1>2
<1> HIDE DEF g, i
<1>9. GoesOnAt(g, i, TRUE)
    BY <1>1, <1>5, <1>7, <1>8, InstallEffect DEF GoesOnAt
<1> QED
    BY <1>1, <1>3, <1>4, <1>5, <1>6, <1>8, <1>9

\* A frame that goes on at a landing pad is in the function.
LEMMA GoesOnInFunction ==
    ASSUME NEW g \in Function, NEW i \in DOMAIN table[g], NEW clean \in BOOLEAN,
           GoesOnAt(g, i, clean), table[g] \in Seq(Site),
           clean = (table[g][i].actions = <<>>)
    PROVE  InFunction(table, stack'[Len(stack)])
<1> DEFINE n == Len(stack)
           s == table[g][i]
           f == stack'[n]
<1>1. /\ f.fn = g
      /\ f.slot = s.pad - 1
      /\ f.last = IF s.pad > Body THEN IF clean THEN s.pad + 1 ELSE s.pad ELSE Body
      /\ f.cleaning = (clean /\ s.pad > Body)
    BY DEF GoesOnAt
<1>2. s \in Site
    OBVIOUS
<1>3. s.pad \in Nat \ {0} /\ Body \in Nat
    BY <1>2, UnwinderAssumption DEF Site
<1>4. s.pad > Body => /\ s.pad \in Slots(table[g])
                      /\ clean => s.pad + 1 \in Slots(table[g])
    BY PadInFunction
<1>5. 1..Body \subseteq Slots(table[g])
    BY BodyInFunction
<1>6. f.cleaning => s.actions = <<>> /\ s.pad > Body /\ f.last = s.pad + 1
    BY <1>1
<1> HIDE DEF f
<1>7. f.slot + 1..f.last \subseteq Slots(table[g])
    <2> HIDE DEF s
    <2>1. f.slot + 1 = s.pad
        BY <1>1, <1>3
    <2>2. CASE s.pad > Body /\ clean
        <3>1. f.last = s.pad + 1
            BY <1>1, <2>2
        <3>2. \A k \in s.pad..s.pad + 1 : k = s.pad \/ k = s.pad + 1
            BY <1>3
        <3> QED
            BY <1>4, <2>1, <2>2, <3>1, <3>2
    <2>3. CASE s.pad > Body /\ ~clean
        <3>1. f.last = s.pad
            BY <1>1, <2>3
        <3>2. \A k \in s.pad..s.pad : k = s.pad
            BY <1>3
        <3> QED
            BY <1>4, <2>1, <2>3, <3>1, <3>2
    <2>4. CASE ~(s.pad > Body)
        <3>1. f.last = Body
            BY <1>1, <2>4
        <3>2. s.pad..Body \subseteq 1..Body
            BY <1>3
        <3> QED
            BY <1>5, <2>1, <3>1, <3>2
    <2> QED
        BY <2>2, <2>3, <2>4
<1> QED
    BY <1>1, <1>6, <1>7 DEF InFunction, f

\* A frame that moves on to a call is still in its function.
LEMMA MovesInFunction ==
    ASSUME NEW tb, NEW f \in Frame, InFunction(tb, f), NEW g,
           g.fn = f.fn, g.last = f.last, g.cleaning = f.cleaning,
           g.slot \in f.slot + 1..f.last
    PROVE  InFunction(tb, g) /\ g.slot \in Slots(tb[g.fn])
<1>1. f.slot \in Nat /\ f.last \in Nat
    BY DEF Frame
<1>2. g.slot + 1..f.last \subseteq f.slot + 1..f.last
    BY <1>1
<1> QED
    BY <1>2 DEF InFunction

LEMMA AtCallsStep ==
    ASSUME IInv, WayInv, [Next]_vars
    PROVE  AtCalls'
<1> USE DEF IInv, Sound
<1> DEFINE n == Len(stack)
<1>0. /\ \A k \in DOMAIN stack : InFunction(table, stack[k])
      /\ \A k \in DOMAIN stack :
            k < n \/ unw.phase # "none" => stack[k].slot \in Slots(table[stack[k].fn])
      /\ stack \in Seq(Frame)
    BY DEF WayInv, AtCalls, TypeOK
<1>1. ASSUME NEW f \in Function, CallFunction(f) PROVE AtCalls'
    <2>1. /\ n \in Nat \ {0}
          /\ DOMAIN stack = 1..n /\ DOMAIN stack' = 1..n + 1 /\ Len(stack') = n + 1
          /\ stack[n] \in Frame
          /\ stack'[n].slot \in stack[n].slot + 1..stack[n].last
          /\ stack'[n].fn = stack[n].fn
          /\ stack'[n].last = stack[n].last
          /\ stack'[n].cleaning = stack[n].cleaning
          /\ stack'[n + 1] = Activation(f)
          /\ \A k \in 1..n - 1 : stack'[k] = stack[k]
          /\ table' = table
          /\ unw'.phase = "none"
        BY <1>1, CallEffect
    <2> HIDE DEF n
    <2>2. InFunction(table, stack'[n]) /\ stack'[n].slot \in Slots(table[stack'[n].fn])
        BY <1>0, <2>1, MovesInFunction
    <2>3. InFunction(table, Activation(f))
        <3>1. /\ Activation(f).fn = f /\ Activation(f).slot = 0 /\ Activation(f).last = Body
              /\ ~Activation(f).cleaning
            BY ActivationTyped
        <3>2. 0 + 1..Body \subseteq Slots(table[f])
            BY BodyInFunction
        <3> QED
            BY <3>1, <3>2 DEF InFunction
    <2>4. \A k \in 1..n + 1 : k = n + 1 \/ k = n \/ k \in 1..n - 1
        BY <2>1
    <2>5. \A k \in 1..n - 1 : k \in 1..n /\ k < n
        BY <2>1
    <2>6. \A k \in DOMAIN stack' : InFunction(table', stack'[k])
        BY <1>0, <2>1, <2>2, <2>3, <2>4, <2>5
    <2>7. \A k \in DOMAIN stack' : k < n + 1 => stack'[k].slot \in Slots(table'[stack'[k].fn])
        BY <1>0, <2>1, <2>2, <2>4, <2>5
    <2> QED
        BY <2>1, <2>6, <2>7 DEF AtCalls
<1>2. CASE Return
    <2>1. /\ n \in Nat \ {0}
          /\ DOMAIN stack = 1..n /\ DOMAIN stack' = 1..n - 1 /\ Len(stack') = n - 1
          /\ \A k \in 1..n - 1 : stack'[k] = stack[k]
          /\ table' = table
          /\ unw'.phase = "none"
        BY <1>2, ReturnEffect
    <2> HIDE DEF n
    <2>2. \A k \in 1..n - 1 : k \in 1..n /\ k < n
        BY <2>1
    <2> QED
        BY <1>0, <2>1, <2>2 DEF AtCalls
<1>3. ASSUME NEW c \in Codes, __zno_raise(c) PROVE AtCalls'
    <2>1. /\ n \in Nat \ {0}
          /\ DOMAIN stack = 1..n /\ DOMAIN stack' = 1..n /\ Len(stack') = n
          /\ stack[n] \in Frame
          /\ stack'[n].slot \in stack[n].slot + 1..stack[n].last
          /\ \A k \in 1..n - 1 : stack'[k].slot = stack[k].slot
          /\ \A k \in 1..n : /\ stack'[k].fn = stack[k].fn
                             /\ stack'[k].last = stack[k].last
                             /\ stack'[k].cleaning = stack[k].cleaning
          /\ table' = table
        BY <1>3, RaiseEffect
    <2> HIDE DEF n
    <2>2. n \in 1..n /\ \A k \in 1..n : k = n \/ k \in 1..n - 1
        BY <2>1
    <2>3. \A k \in 1..n - 1 : k \in 1..n /\ k < n
        BY <2>1
    <2>4. InFunction(table, stack'[n]) /\ stack'[n].slot \in Slots(table[stack'[n].fn])
        BY <1>0, <2>1, <2>2, MovesInFunction
    <2>5. ASSUME NEW k \in 1..n - 1
          PROVE  InFunction(table, stack'[k]) /\ stack'[k].slot \in Slots(table[stack'[k].fn])
        BY <1>0, <2>1, <2>3 DEF InFunction
    <2> QED
        BY <2>1, <2>2, <2>4, <2>5 DEF AtCalls
<1>4. CASE _Unwind_Resume
    <2>1. /\ n \in Nat \ {0}
          /\ DOMAIN stack = 1..n /\ DOMAIN stack' = 1..n /\ Len(stack') = n
          /\ stack[n] \in Frame
          /\ stack[n].cleaning
          /\ stack'[n].slot = stack[n].last
          /\ stack'[n].fn = stack[n].fn
          /\ stack'[n].last = stack[n].last
          /\ stack'[n].cleaning
          /\ \A k \in 1..n - 1 : stack'[k] = stack[k]
          /\ table' = table
        BY <1>4, ResumeEffect
    <2> HIDE DEF n
    <2>2. n \in 1..n /\ \A k \in 1..n : k = n \/ k \in 1..n - 1
        BY <2>1
    <2>3. \A k \in 1..n - 1 : k \in 1..n /\ k < n
        BY <2>1
    <2>4. InFunction(table, stack[n])
        BY <1>0, <2>1, <2>2
    <2>5. stack[n].fn \in Function /\ stack[n].last \in Nat
        BY <2>1 DEF Frame
    <2>6. table[stack[n].fn] \in Seq(Site)
        BY <2>5, UnwinderAssumption DEF TypeOK
    <2>7. stack[n].last \in Slots(table[stack[n].fn])
        BY <2>1, <2>4, <2>6, PadInFunction DEF InFunction
    <2>8. InFunction(table, stack'[n])
        <3>1. stack[n].last + 1..stack[n].last = {}
            BY <2>5
        <3> QED
            BY <2>1, <2>4, <3>1 DEF InFunction
    <2>9. ASSUME NEW k \in 1..n - 1
          PROVE  InFunction(table, stack'[k]) /\ stack'[k].slot \in Slots(table[stack'[k].fn])
        BY <1>0, <2>1, <2>3
    <2> QED
        BY <2>1, <2>2, <2>7, <2>8, <2>9 DEF AtCalls
<1>5. CASE NoPersonality \/ SearchPassesCleanup \/ AlreadyCleanedUp \/ NoMoreRecords
    <2> DEFINE m == IF unw.phase = "cleanup" THEN n - 1 ELSE n
    <2>1. /\ n \in Nat \ {0}
          /\ DOMAIN stack = 1..n /\ DOMAIN stack' = 1..m /\ Len(stack') = m
          /\ \A k \in 1..m : stack'[k] = stack[k]
          /\ unw.phase \in {"search", "cleanup"}
          /\ table' = table
        BY <1>5, PassesOnSound, PassEffect
    <2> HIDE DEF n
    <2>2. \A k \in 1..m : k \in 1..n
        BY <2>1
    <2> HIDE DEF m
    <2> QED
        BY <1>0, <2>1, <2>2 DEF AtCalls
<1>6. ASSUME NEW g \in Function, NEW i \in DOMAIN table[g], NEW clean \in BOOLEAN,
             GoesOnAt(g, i, clean), table[g] \in Seq(Site),
             clean = (table[g][i].actions = <<>>)
      PROVE  AtCalls'
    <2>1. InFunction(table, stack'[n])
        BY <1>6, GoesOnInFunction
    <2>2. /\ n \in Nat \ {0}
          /\ DOMAIN stack = 1..n /\ DOMAIN stack' = 1..n /\ Len(stack') = n
          /\ \A k \in 1..n - 1 : stack'[k] = stack[k]
          /\ unw'.phase = "none"
          /\ table' = table
        BY <1>6 DEF GoesOnAt
    <2> HIDE DEF n
    <2>3. \A k \in 1..n : k = n \/ k \in 1..n - 1
        BY <2>2
    <2>4. \A k \in 1..n : k < n => k \in 1..n - 1
        BY <2>2
    <2>5. \A k \in 1..n - 1 : k \in 1..n /\ k < n
        BY <2>2
    <2> QED
        BY <1>0, <2>1, <2>2, <2>3, <2>4, <2>5 DEF AtCalls
<1>7. CASE InHandlerFrame
    BY <1>6, <1>7, InHandlerFrameEffect DEF WayInv
<1>8. CASE RunCleanup
    BY <1>6, <1>8, RunCleanupEffect
<1>9. ASSUME NEW how, Ends(how) PROVE AtCalls'
    BY <1>0, <1>9, EndEffect DEF AtCalls
<1>10. ASSUME UNCHANGED <<table, stack>>, unw.phase # "none" PROVE AtCalls'
    BY <1>0, <1>10 DEF AtCalls
<1>11. ASSUME Walking, NEW i, NEW o, ReadRecord(i, o) PROVE AtCalls'
    BY <1>9, <1>10, <1>11 DEF ReadRecord, Walking
<1>12. CASE HandlerFound
    BY <1>9, <1>10, <1>12 DEF HandlerFound, AtRecord, Walking
<1>13. CASE UNCHANGED vars
    BY <1>0, <1>13 DEF AtCalls, vars
<1>14. CASE _Unwind_Step
    BY <1>5, <1>9, <1>14 DEF _Unwind_Step, EndOfStack
<1>15. CASE __zno_personality_fn
    BY <1>5, <1>7, <1>8, <1>9, <1>11, <1>12, <1>15
    DEF __zno_personality_fn, OutsideCallSites, EnterActions, NextRecord, SearchesSites, AtRecord
<1> QED
    BY <1>1, <1>2, <1>3, <1>4, <1>13, <1>14, <1>15 DEF Next, Ended
-----------------------------------------------------------------------------
(* The search goes on record by record and frame by frame. *)

\* Record number r of call site i of the table is read next.
ReadsOn(i, r) ==
    /\ Walking
    /\ HandlerFrame => unw.step = "actions"
    /\ i \in DOMAIN WalkTable
    /\ WalkTable \in Seq(Site)
    /\ r \in RecordsUpTo(WalkTable, i - 1) + 1..RecordsUpTo(WalkTable, i)
    /\ \A j \in 1..RecordsUpTo(WalkTable, i) - r : ~Matches(WalkTable[i].actions[j])
    /\ unw' = [unw EXCEPT !.step = "actions", !.site = i, !.record = 2 * (r - 1)]
    /\ UNCHANGED <<table, stack, exc, raises, nested, status>>

LEMMA ReadsWithin ==
    ASSUME Walking, HandlerFrame => unw.step = "actions",
           NEW i \in DOMAIN WalkTable, WalkTable \in Seq(Site),
           NEW r \in RecordsUpTo(WalkTable, i - 1) + 1..RecordsUpTo(WalkTable, i),
           \A j \in 1..RecordsUpTo(WalkTable, i) - r : ~Matches(WalkTable[i].actions[j]),
           ReadRecord(i, 2 * (r - 1))
    PROVE  ReadsOn(i, r)
<1> DEFINE t == WalkTable
           o == 2 * (r - 1)
<1>1. o \in RecordOffsets(t)
    <2>1. t \in Seq(Site) /\ i \in DOMAIN t /\ r \in RecordsUpTo(t, i - 1) + 1..RecordsUpTo(t, i)
        OBVIOUS
    <2> HIDE DEF t
    <2> QED
        BY <2>1, RecordMeans
<1>2. /\ unw' = [unw EXCEPT !.step = "actions", !.site = i, !.record = o]
      /\ UNCHANGED <<table, stack, exc, raises, nested, status>>
    BY <1>1 DEF ReadRecord
<1> QED
    BY <1>2 DEF ReadsOn

LEMMA EntersWithin ==
    ASSUME Sound, EnterActions
    PROVE  \E i, r : ReadsOn(i, r)
<1> DEFINE i == FirstMatch
           t == WalkTable
           r == RecordsUpTo(t, i)
<1>1. /\ Walking
      /\ ~HandlerFrame
      /\ Matching # {}
      /\ action(t, i) # 0
      /\ ReadRecord(i, FirstRecord(action(t, i)))
    BY DEF EnterActions, SearchesSites
<1>2. i \in DOMAIN t
    BY <1>1, FirstMatchMeans DEF Sound
<1>3. t \in Seq(Site)
    BY <1>1, WalkedTyped, UnwinderAssumption DEF Sound
<1>4. t[i].actions # <<>> /\ action(t, i) = 2 * r - 1
    BY <1>1 DEF action
<1>5. DOMAIN t = 1..Len(t) /\ Len(t) \in Nat
    BY <1>3, LenProperties
<1> HIDE DEF t, i
<1>6. /\ r = RecordsUpTo(t, i - 1) + Len(t[i].actions)
      /\ r \in Nat
      /\ RecordsUpTo(t, i - 1) \in Nat
    <2> DEFINE l == Len(t)
    <2>1. i \in 1..l /\ l \in Nat
        BY <1>2, <1>5
    <2>2. /\ \A k \in 1..l : RecordsUpTo(t, k) = RecordsUpTo(t, k - 1) + Len(t[k].actions)
          /\ \A k \in 0..l : RecordsUpTo(t, k) \in Nat
        BY <1>3, RecordsUpToMeans
    <2> HIDE DEF l
    <2>3. i \in 0..l /\ i - 1 \in 0..l
        BY <2>1
    <2> QED
        BY <2>1, <2>2, <2>3
<1>7. Len(t[i].actions) \in Nat \ {0}
    <2>1. t[i] \in Site
        BY <1>2, <1>3
    <2>2. t[i].actions \in Seq(Codes \cup {0})
        BY <2>1 DEF Site
    <2> QED
        BY <1>4, <2>2, EmptySeq, LenProperties
<1> DEFINE b == RecordsUpTo(t, i - 1)
           m == Len(t[i].actions)
<1>8. r \in b + 1..r /\ \A j \in 1..r - r : FALSE
    <2>1. r = b + m /\ b \in Nat /\ m \in Nat \ {0} /\ r \in Nat
        BY <1>6, <1>7
    <2> HIDE DEF r, b, m
    <2> QED
        BY <2>1
<1>9. FirstRecord(action(t, i)) = 2 * (r - 1)
    <2>1. r \in Nat
        BY <1>6
    <2> HIDE DEF r
    <2> QED
        BY <1>4, <2>1 DEF FirstRecord
<1>10. ReadRecord(i, 2 * (r - 1))
    BY <1>1, <1>9
<1>11. ReadsOn(i, r)
    BY <1>1, <1>2, <1>3, <1>8, <1>10, ReadsWithin DEF t
<1> QED
    BY <1>11

LEMMA ContinuesWithin ==
    ASSUME Sound, ReadSoFar, NextRecord
    PROVE  \E i, r : ReadsOn(i, r)
<1> DEFINE i == unw.site
           t == WalkTable
<1>1. /\ AtRecord
      /\ ~TypeMatches
      /\ Displacement # 0
      /\ ReadRecord(i, unw.record + 1 + Displacement)
    BY DEF NextRecord, LastRecord
<1>2. t \in Seq(Site) /\ i \in DOMAIN t
    BY <1>1, ReadMeans
<1>3. PICK q \in RecordsUpTo(t, i - 1) + 1..RecordsUpTo(t, i) :
        /\ unw.record = 2 * (q - 1)
        /\ \A j \in 1..RecordsUpTo(t, i) - q : ~Matches(t[i].actions[j])
        /\ type_index(t, unw.record) = t[i].actions[RecordsUpTo(t, i) - q + 1]
        /\ Displacement = IF q = RecordsUpTo(t, i - 1) + 1 THEN 0 ELSE -3
    BY <1>1, ReadMeans
<1>4. Walking /\ unw.step = "actions"
    BY <1>1 DEF AtRecord
<1>5. ~Matches(t[i].actions[RecordsUpTo(t, i) - q + 1])
    BY <1>1, <1>3 DEF TypeMatches
<1>6. RecordsUpTo(t, i) \in Nat /\ RecordsUpTo(t, i - 1) \in Nat
    <2>1. t \in Seq(Site) /\ i \in DOMAIN t /\ q \in RecordsUpTo(t, i - 1) + 1..RecordsUpTo(t, i)
        BY <1>2
    <2> HIDE DEF t, i
    <2> QED
        BY <2>1, RecordMeans
<1> DEFINE a == RecordsUpTo(t, i)
           b == RecordsUpTo(t, i - 1)
           r == q - 1
<1>7. /\ a \in Nat /\ b \in Nat
      /\ q \in b + 1..a
      /\ Displacement = -3
      /\ q # b + 1
    BY <1>1, <1>3, <1>6
<1>8. unw.record = 2 * (q - 1)
    BY <1>3
<1>9. \A j \in 1..a - q : ~Matches(t[i].actions[j])
    BY <1>3
<1>10. ~Matches(t[i].actions[a - q + 1])
    BY <1>5
<1> HIDE DEF a, b
<1>11. r \in b + 1..a
    BY <1>7
<1>12. \A j \in 1..a - r : j \in 1..a - q \/ j = a - q + 1
    BY <1>7
<1>13. \A j \in 1..a - r : ~Matches(t[i].actions[j])
    BY <1>9, <1>10, <1>12
<1>14. unw.record + 1 + Displacement = 2 * (r - 1)
    BY <1>7, <1>8
<1>15. ReadRecord(i, 2 * (r - 1))
    BY <1>1, <1>14
<1> HIDE DEF r
<1>16. ReadsOn(i, r)
    BY <1>2, <1>4, <1>11, <1>13, <1>15, ReadsWithin DEF a, b
<1> QED
    BY <1>16

LEMMA ReadsOnEffect ==
    ASSUME Sound, NEW i, NEW r, ReadsOn(i, r)
    PROVE  /\ unw.phase \in {"search", "cleanup"}
           /\ unw'.phase = unw.phase
           /\ unw'.level = unw.level
           /\ unw'.step = "actions"
           /\ ReadSoFar'
<1>1. Walking /\ UNCHANGED <<table, stack, exc, raises, nested, status>>
    BY DEF ReadsOn
<1> DEFINE o == 2 * (r - 1)
           x == [unw EXCEPT !.step = "actions"]
           y == [x EXCEPT !.site = i]
<1>2. unw' = [y EXCEPT !.record = o]
    BY DEF ReadsOn
<1>3. unw \in Unwinding
    BY <1>1, WalkedTyped DEF Sound
<1>4. /\ x = [phase |-> unw.phase, level |-> unw.level, step |-> "actions",
              site |-> unw.site, record |-> unw.record]
    BY <1>3 DEF Unwinding
<1> HIDE DEF x
<1>5. /\ y = [phase |-> unw.phase, level |-> unw.level, step |-> "actions",
              site |-> i, record |-> unw.record]
    BY <1>4
<1> HIDE DEF y, o
<1>6. /\ unw' = [phase |-> unw.phase, level |-> unw.level, step |-> "actions",
                 site |-> i, record |-> o]
    BY <1>2, <1>5
<1>7. /\ unw'.phase = unw.phase
      /\ unw'.level = unw.level
      /\ unw'.step = "actions"
      /\ unw'.site = i
      /\ unw'.record = o
    BY <1>6
<1>8. unw.phase \in {"search", "cleanup"}
    BY <1>3 DEF Unwinding
<1>9. WalkTable' = WalkTable /\ FoundSite' = WalkTable[i]
    BY <1>1, <1>7 DEF Walked, WalkTable, FoundSite
<1>10. /\ r \in RecordsUpTo(WalkTable, i - 1) + 1..RecordsUpTo(WalkTable, i)
       /\ \A j \in 1..RecordsUpTo(WalkTable, i) - r :
             ~Matches(WalkTable[i].actions[j])
    BY DEF ReadsOn
<1>11. exc' = exc
    BY <1>1
<1> HIDE DEF WalkTable, FoundSite
<1>12. ReadSoFar'
    BY <1>7, <1>9, <1>10, <1>11 DEF ReadSoFar, Matches, o
<1> QED
    BY <1>7, <1>8, <1>12
\* The kinds of steps, by what they do to the walk.
Passes == /\ NoPersonality \/ SearchPassesCleanup \/ AlreadyCleanedUp \/ NoMoreRecords
          /\ Walking /\ ContinueUnwind /\ exc' = exc
          /\ ~HandlesIn(table, Walked, exc.errorCode)

Kinds ==
    \/ \E f \in Function : CallFunction(f)
    \/ Return
    \/ \E c \in Codes : __zno_raise(c)
    \/ _Unwind_Resume
    \/ EndOfStack
    \/ Passes
    \/ InHandlerFrame
    \/ RunCleanup
    \/ OutsideCallSites
    \/ \E i, r : ReadsOn(i, r)
    \/ HandlerFound
    \/ UNCHANGED vars

LEMMA StepKinds ==
    ASSUME IInv, WayInv, [Next]_vars
    PROVE  Kinds
<1>1. Sound /\ ReadSoFar
    BY DEF IInv, Sound, WayInv
<1>2. CASE NoPersonality \/ SearchPassesCleanup \/ AlreadyCleanedUp \/ NoMoreRecords
    <2>1. Passes
        BY <1>1, <1>2, PassesOnSound, PassedUnhandled DEF Passes
    <2> QED
        BY <2>1 DEF Kinds
<1>3. CASE EnterActions
    BY <1>1, <1>3, EntersWithin DEF Kinds
<1>4. CASE NextRecord
    BY <1>1, <1>4, ContinuesWithin DEF Kinds
<1>5. CASE __zno_personality_fn
    BY <1>2, <1>3, <1>4, <1>5 DEF __zno_personality_fn, Kinds
<1>6. CASE _Unwind_Step
    BY <1>2, <1>6 DEF _Unwind_Step, Kinds
<1> QED
    BY <1>5, <1>6 DEF Next, Ended, Kinds

\* The handler that is found catches the exception.
LEMMA HandlerFoundEffect ==
    ASSUME Sound, ReadSoFar, HandlerFound
    PROVE  /\ Walking
           /\ unw.phase \in {"search", "cleanup"}
           /\ unw.step = "actions"
           /\ \E i \in DOMAIN table[Walked.fn] :
                 /\ Holds(table, Walked, exc.errorCode, i)
                 /\ table[Walked.fn][i].actions # <<>>
                 /\ exc'.ipToSet = [fn |-> {Walked.fn},
                                    offset |-> landing_pad(table[Walked.fn][i])]
           /\ exc'.errorCode = exc.errorCode
           /\ unw.phase = "search" =>
                 /\ exc'.handler = unw.level
                 /\ unw'.phase = "cleanup" /\ unw'.level = Len(stack) /\ unw'.step = "sites"
                 /\ UNCHANGED <<table, stack, raises, nested, status>>
           /\ unw.phase = "cleanup" => Ends("fatal")
<1> DEFINE i == unw.site
           t == WalkTable
           a == [fn |-> {Walked.fn}, offset |-> landing_pad(FoundSite)]
           h == IF unw.phase = "search" THEN unw.level ELSE exc.handler
<1>1. /\ AtRecord
      /\ TypeMatches
      /\ exc' = [exc EXCEPT !.ipToSet = a, !.handler = h]
      /\ IF unw.phase = "search"
         THEN /\ unw' = Walk("cleanup", Len(stack))
              /\ UNCHANGED <<table, stack, raises, nested, status>>
         ELSE Ends("fatal")
    BY DEF HandlerFound
<1>2. Walking /\ unw.phase \in {"search", "cleanup"} /\ unw.step = "actions"
    BY <1>1, WalkedTyped DEF AtRecord, Sound, Unwinding
<1>3. t \in Seq(Site) /\ i \in DOMAIN t /\ FoundSite = t[i]
    BY <1>1, ReadMeans
<1>4. PICK r \in RecordsUpTo(t, i - 1) + 1..RecordsUpTo(t, i) :
        type_index(t, unw.record) = t[i].actions[RecordsUpTo(t, i) - r + 1]
    BY <1>1, ReadMeans
<1>5. /\ Walked.slot \in t[i].from..t[i].to
      /\ FoundSite.actions # <<>>
    BY <1>1, <1>3, AtRecordMeans
<1>6. exc.errorCode = type_index(t, unw.record) /\ exc.errorCode # 0
    BY <1>1 DEF TypeMatches, Matches
<1>7. RecordsUpTo(t, i) - r + 1 \in DOMAIN t[i].actions
    <2>1. /\ RecordsUpTo(t, i) = RecordsUpTo(t, i - 1) + Len(t[i].actions)
          /\ RecordsUpTo(t, i) \in Nat /\ RecordsUpTo(t, i - 1) \in Nat
        <3>1. t \in Seq(Site) /\ i \in DOMAIN t /\ r \in RecordsUpTo(t, i - 1) + 1..RecordsUpTo(t, i)
            BY <1>3
        <3> HIDE DEF t, i
        <3> QED
            BY <3>1, RecordMeans
    <2>2. t[i].actions \in Seq(Codes \cup {0})
        <3>1. t[i] \in Site
            BY <1>3
        <3> QED
            BY <3>1 DEF Site
    <2>3. DOMAIN t[i].actions = 1..Len(t[i].actions) /\ Len(t[i].actions) \in Nat
        BY <2>2, LenProperties
    <2> DEFINE x == RecordsUpTo(t, i)
               y == RecordsUpTo(t, i - 1)
               m == Len(t[i].actions)
    <2>4. x = y + m /\ x \in Nat /\ y \in Nat /\ m \in Nat /\ r \in y + 1..x
        BY <2>1, <2>3
    <2> HIDE DEF x, y, m
    <2>5. x - r + 1 \in 1..m
        BY <2>4
    <2> QED
        BY <2>3, <2>5 DEF x, m
<1>8. Catches(t[i], exc.errorCode)
    BY <1>4, <1>6, <1>7 DEF Catches, Has
<1>9. t = table[Walked.fn]
    BY DEF WalkTable
<1>10. Holds(table, Walked, exc.errorCode, i)
    BY <1>5, <1>8, <1>9 DEF Holds
<1>11. /\ exc'.ipToSet = a
       /\ exc'.handler = h
       /\ exc'.errorCode = exc.errorCode
    <2>1. exc \in Buffer
        BY DEF Sound, TypeOK
    <2> HIDE DEF a, h
    <2> QED
        BY <1>1, <2>1 DEF Buffer
<1>12. /\ i \in DOMAIN table[Walked.fn]
       /\ table[Walked.fn][i].actions # <<>>
       /\ exc'.ipToSet = [fn |-> {Walked.fn}, offset |-> landing_pad(table[Walked.fn][i])]
    BY <1>3, <1>5, <1>9, <1>11
<1>13. unw.phase = "search" =>
         /\ exc'.handler = unw.level
         /\ unw'.phase = "cleanup" /\ unw'.level = Len(stack) /\ unw'.step = "sites"
         /\ UNCHANGED <<table, stack, raises, nested, status>>
    <2>1. Len(stack) \in Nat
        BY LenProperties DEF Sound, TypeOK
    <2> QED
        BY <1>1, <1>11, <2>1, WalkTyped
<1>14. unw.phase = "cleanup" => Ends("fatal")
    BY <1>1
<1> HIDE DEF i, t
<1> QED
    BY <1>2, <1>10, <1>11, <1>12, <1>13, <1>14

LEMMA SearchedStep ==
    ASSUME IInv, WayInv, [Next]_vars
    PROVE  Searched'
<1>0. Sound /\ TypeOK /\ HandlerPad /\ ReadSoFar /\ Searched
    BY DEF IInv, Sound, WayInv
<1> DEFINE n == Len(stack)
<1>1. ASSUME NEW c \in Codes, __zno_raise(c) PROVE Searched'
    <2>1. n \in Nat \ {0} /\ Len(stack') = n /\ unw'.level = n
        BY <1>0, <1>1, RaiseEffect
    <2> HIDE DEF n
    <2>2. unw'.level + 1..Len(stack') = {}
        BY <2>1
    <2> QED
        BY <2>2 DEF Searched
<1>2. CASE Passes
    <2>1. CASE unw.phase = "cleanup"
        <3>1. unw'.phase = "cleanup"
            BY <1>0, <1>2, <2>1, PassEffect DEF Passes
        <3> QED
            BY <3>1 DEF Searched
    <2>2. CASE unw.phase # "cleanup"
        <3>1. /\ n \in Nat \ {0}
              /\ unw.level \in 1..n
              /\ Len(stack') = n
              /\ \A k \in 1..n : stack'[k] = stack[k]
              /\ unw.phase = "search"
              /\ unw'.level = unw.level - 1
              /\ table' = table
            BY <1>0, <1>2, <2>2, PassEffect DEF Passes
        <3>2. ~HandlesIn(table, stack[unw.level], exc.errorCode) /\ exc' = exc
            BY <1>2 DEF Passes, Walked
        <3>3. \A k \in unw.level + 1..n : ~HandlesIn(table, stack[k], exc.errorCode)
            BY <1>0, <3>1 DEF Searched
        <3> HIDE DEF n
        <3>4. \A k \in unw'.level + 1..n : k \in 1..n /\ (k = unw.level \/ k \in unw.level + 1..n)
            BY <3>1
        <3> QED
            BY <3>1, <3>2, <3>3, <3>4 DEF Searched
    <2> QED
        BY <2>1, <2>2
<1>3. ASSUME NEW i, NEW r, ReadsOn(i, r) PROVE Searched'
    <2>1. unw'.phase = unw.phase /\ unw'.level = unw.level
        BY <1>0, <1>3, ReadsOnEffect
    <2>2. UNCHANGED <<table, stack, exc>>
        BY <1>3 DEF ReadsOn
    <2> QED
        BY <1>0, <2>1, <2>2 DEF Searched
<1>4. ASSUME NEW how, Ends(how) PROVE Searched'
    BY <1>4, EndEffect DEF Searched
<1>5. CASE HandlerFound
    BY <1>0, <1>4, <1>5, HandlerFoundEffect DEF Searched
<1>6. CASE UNCHANGED vars
    BY <1>0, <1>6 DEF Searched, vars
<1>7. ASSUME NEW f \in Function, CallFunction(f) PROVE Searched'
    BY <1>0, <1>7, CallEffect DEF Searched
<1>8. CASE Return
    BY <1>0, <1>8, ReturnEffect DEF Searched
<1>9. CASE _Unwind_Resume
    BY <1>0, <1>9, ResumeEffect DEF Searched
<1>10. CASE InHandlerFrame
    BY <1>0, <1>10, InHandlerFrameEffect DEF Searched, GoesOnAt
<1>11. CASE RunCleanup
    BY <1>0, <1>11, RunCleanupEffect DEF Searched, GoesOnAt
<1> QED
    BY <1>1, <1>2, <1>3, <1>4, <1>5, <1>6, <1>7, <1>8, <1>9, <1>10, <1>11, StepKinds
    DEF Kinds, EndOfStack, OutsideCallSites

LEMMA ReadSoFarStep ==
    ASSUME IInv, WayInv, [Next]_vars
    PROVE  ReadSoFar'
<1>0. Sound /\ TypeOK /\ HandlerPad /\ ReadSoFar
    BY DEF IInv, Sound, WayInv
<1>1. ASSUME unw'.step = "sites" PROVE ReadSoFar'
    BY <1>1 DEF ReadSoFar
<1>2. ASSUME unw = Idle, unw' = unw PROVE ReadSoFar'
    BY <1>1, <1>2 DEF Idle
<1>3. ASSUME NEW f \in Function, CallFunction(f) PROVE ReadSoFar'
    <2>1. unw = Idle
        BY <1>0, <1>3, RunningIdle DEF CallFunction, Ahead
    <2> QED
        BY <1>0, <1>2, <1>3, <2>1, CallEffect
<1>4. CASE Return
    BY <1>0, <1>2, <1>4, ReturnEffect, RunningIdle DEF Return
<1>5. ASSUME NEW c \in Codes, __zno_raise(c) PROVE ReadSoFar'
    BY <1>0, <1>1, <1>5, RaiseEffect
<1>6. CASE _Unwind_Resume
    BY <1>0, <1>1, <1>6, ResumeEffect
<1>7. CASE Passes
    BY <1>0, <1>1, <1>7, PassEffect DEF Passes
<1>8. ASSUME NEW how, Ends(how) PROVE ReadSoFar'
    BY <1>1, <1>8, EndEffect
<1>9. CASE HandlerFound
    BY <1>0, <1>1, <1>8, <1>9, HandlerFoundEffect
<1>10. CASE InHandlerFrame
    BY <1>0, <1>1, <1>10, InHandlerFrameEffect DEF GoesOnAt
<1>11. CASE RunCleanup
    BY <1>0, <1>1, <1>11, RunCleanupEffect DEF GoesOnAt
<1>12. ASSUME NEW i, NEW r, ReadsOn(i, r) PROVE ReadSoFar'
    BY <1>0, <1>12, ReadsOnEffect
<1>13. CASE UNCHANGED vars
    <2>1. WalkTable' = WalkTable /\ FoundSite' = FoundSite /\ unw' = unw /\ exc' = exc
        BY <1>13 DEF vars, WalkTable, FoundSite, Walked
    <2> HIDE DEF WalkTable, FoundSite
    <2> QED
        BY <1>0, <2>1 DEF ReadSoFar, Matches
<1> QED
    BY <1>3, <1>4, <1>5, <1>6, <1>7, <1>8, <1>9, <1>10, <1>11, <1>12, <1>13, StepKinds
    DEF Kinds, EndOfStack, OutsideCallSites
-----------------------------------------------------------------------------
(* The handler in the buffer. *)

LEMMA LeadsKept ==
    ASSUME NEW tb, NEW st, NEW st2, NEW e, NEW e2, NEW m, e.handler \in 1..m,
           e2.handler = e.handler, e2.ipToSet = e.ipToSet,
           \A k \in 1..m : st2[k].fn = st[k].fn,
           LeadsToPad(tb, st, e)
    PROVE  LeadsToPad(tb, st2, e2)
<1>1. st2[e.handler].fn = st[e.handler].fn
    OBVIOUS
<1> QED
    BY <1>1 DEF LeadsToPad

LEMMA HandlerPadStep ==
    ASSUME IInv, WayInv, [Next]_vars
    PROVE  HandlerPad'
<1> DEFINE n == Len(stack)
           h == exc.handler
<1>0. /\ Sound /\ TypeOK /\ ReadSoFar /\ HandlerPad
      /\ unw.phase = "cleanup" /\ h \in 1..n => LeadsToPad(table, stack, exc)
      /\ unw.phase = "none" /\ status = "running" =>
            \A d \in DOMAIN stack :
                stack[d].cleaning /\ h \in 1..d => LeadsToPad(table, stack, exc)
      /\ h \in Nat
    BY DEF IInv, Sound, WayInv, HandlerPad, TypeOK, Buffer
<1>1. ASSUME NEW f \in Function, CallFunction(f) PROVE HandlerPad'
    <2>1. /\ n \in Nat \ {0}
          /\ DOMAIN stack = 1..n /\ DOMAIN stack' = 1..n + 1
          /\ stack'[n].fn = stack[n].fn
          /\ stack'[n].cleaning = stack[n].cleaning
          /\ stack'[n + 1] = Activation(f)
          /\ \A k \in 1..n - 1 : stack'[k] = stack[k]
          /\ status = "running" /\ unw.phase = "none"
          /\ UNCHANGED <<table, exc, unw>>
        BY <1>0, <1>1, CallEffect
    <2>2. ~stack'[n + 1].cleaning
        BY <2>1, ActivationTyped
    <2> HIDE DEF n, h
    <2>3. \A k \in 1..n + 1 : k = n + 1 \/ k = n \/ k \in 1..n - 1
        BY <2>1
    <2>4. \A k \in 1..n : k = n \/ k \in 1..n - 1
        BY <2>1
    <2>5. \A k \in 1..n : stack'[k].fn = stack[k].fn
        BY <2>1, <2>4
    <2>6. ASSUME NEW d \in 1..n + 1, stack'[d].cleaning, h \in 1..d
          PROVE  LeadsToPad(table, stack', exc)
        <3>1. d \in 1..n /\ stack[d].cleaning
            BY <2>1, <2>2, <2>3, <2>4, <2>6
        <3>2. h \in 1..n
            BY <1>0, <2>1, <2>6, <3>1
        <3>3. LeadsToPad(table, stack, exc)
            BY <1>0, <2>1, <2>6, <3>1
        <3> QED
            BY <2>5, <3>2, <3>3, LeadsKept DEF h
    <2> QED
        BY <2>1, <2>6 DEF HandlerPad, h
<1>2. CASE Return
    <2>1. /\ n \in Nat \ {0}
          /\ DOMAIN stack = 1..n /\ DOMAIN stack' = 1..n - 1
          /\ \A k \in 1..n - 1 : stack'[k] = stack[k]
          /\ status = "running" /\ unw.phase = "none"
          /\ UNCHANGED <<table, exc, unw>>
        BY <1>0, <1>2, ReturnEffect
    <2> HIDE DEF n, h
    <2>2. ASSUME NEW d \in 1..n - 1, stack'[d].cleaning, h \in 1..d
          PROVE  LeadsToPad(table, stack', exc)
        <3>1. d \in 1..n /\ stack[d].cleaning /\ h \in 1..n - 1
            BY <1>0, <2>1, <2>2
        <3>2. d \in DOMAIN stack /\ unw.phase = "none" /\ status = "running"
            BY <2>1, <3>1
        <3>3. LeadsToPad(table, stack, exc)
            BY <1>0, <2>2, <3>1, <3>2
        <3>4. \A k \in 1..n - 1 : stack'[k].fn = stack[k].fn
            BY <2>1
        <3> QED
            BY <2>1, <3>1, <3>3, <3>4, LeadsKept DEF h
    <2> QED
        BY <2>1, <2>2 DEF HandlerPad, h
<1>3. ASSUME NEW c \in Codes, __zno_raise(c) PROVE HandlerPad'
    BY <1>0, <1>3, RaiseEffect DEF HandlerPad
<1>4. CASE _Unwind_Resume
    <2>1. /\ n \in Nat \ {0}
          /\ DOMAIN stack = 1..n /\ Len(stack') = n
          /\ stack[n].cleaning
          /\ stack'[n].fn = stack[n].fn
          /\ \A k \in 1..n - 1 : stack'[k] = stack[k]
          /\ unw'.phase = "cleanup"
          /\ status = "running" /\ unw.phase = "none"
          /\ UNCHANGED <<table, exc>>
        BY <1>0, <1>4, ResumeEffect
    <2> HIDE DEF n, h
    <2>2. n \in 1..n /\ \A k \in 1..n : k = n \/ k \in 1..n - 1
        BY <2>1
    <2>3. \A k \in 1..n : stack'[k].fn = stack[k].fn
        BY <2>1, <2>2
    <2>4. ASSUME h \in 1..n PROVE LeadsToPad(table, stack', exc)
        <3>1. LeadsToPad(table, stack, exc)
            BY <1>0, <2>1, <2>2, <2>4
        <3> QED
            BY <2>3, <2>4, <3>1, LeadsKept DEF h
    <2> QED
        BY <2>1, <2>4 DEF HandlerPad, h
<1>5. CASE Passes
    <2> DEFINE m == IF unw.phase = "cleanup" THEN n - 1 ELSE n
    <2>1. /\ n \in Nat \ {0}
          /\ Len(stack') = m
          /\ \A k \in 1..m : stack'[k] = stack[k]
          /\ unw.phase \in {"search", "cleanup"}
          /\ unw'.phase = unw.phase
          /\ UNCHANGED <<table, exc>>
        BY <1>0, <1>5, PassEffect DEF Passes
    <2> HIDE DEF n, h
    <2>2. ASSUME unw.phase = "cleanup", h \in 1..n - 1 PROVE LeadsToPad(table, stack', exc)
        <3>1. h \in 1..n
            BY <2>1, <2>2
        <3>2. LeadsToPad(table, stack, exc)
            BY <1>0, <2>2, <3>1
        <3>3. \A k \in 1..n - 1 : stack'[k].fn = stack[k].fn
            BY <2>1, <2>2
        <3> QED
            BY <2>2, <3>2, <3>3, LeadsKept DEF h
    <2> QED
        BY <2>1, <2>2 DEF HandlerPad, h
<1>6. ASSUME NEW g, NEW i, NEW clean, GoesOnAt(g, i, clean), SameExc, unw.phase = "cleanup"
      PROVE  HandlerPad'
    <2>1. /\ n \in Nat \ {0}
          /\ DOMAIN stack' = 1..n
          /\ stack'[n].fn = stack[n].fn
          /\ \A k \in 1..n - 1 : stack'[k] = stack[k]
          /\ unw'.phase = "none"
          /\ table' = table
        BY <1>6 DEF GoesOnAt
    <2> HIDE DEF n
    <2>2. \A k \in 1..n : k = n \/ k \in 1..n - 1
        BY <2>1
    <2>3. \A k \in 1..n : stack'[k].fn = stack[k].fn
        BY <2>1, <2>2
    <2>4. exc'.handler = h /\ exc'.ipToSet = exc.ipToSet
        BY <1>6 DEF SameExc
    <2>5. ASSUME NEW d \in 1..n, h \in 1..d PROVE LeadsToPad(table, stack', exc')
        <3>1. h \in 1..n
            BY <1>0, <2>1, <2>5
        <3>2. LeadsToPad(table, stack, exc)
            BY <1>0, <1>6, <3>1
        <3> QED
            BY <2>3, <2>4, <3>1, <3>2, LeadsKept
    <2> QED
        BY <2>1, <2>4, <2>5 DEF HandlerPad
<1>7. CASE InHandlerFrame
    BY <1>0, <1>6, <1>7, InHandlerFrameEffect DEF SameExc
<1>8. CASE RunCleanup
    BY <1>0, <1>6, <1>8, RunCleanupEffect
<1>9. ASSUME NEW how, how # "running", Ends(how) PROVE HandlerPad'
    BY <1>9, EndEffect DEF HandlerPad
<1>10. CASE HandlerFound
    <2>1. CASE unw.phase = "search"
        <3>1. /\ exc'.handler = unw.level
              /\ unw'.phase = "cleanup"
              /\ UNCHANGED <<table, stack>>
            BY <1>0, <1>10, <2>1, HandlerFoundEffect
        <3>2. LeadsToPad(table, stack, exc')
            BY <1>0, <1>10, <3>1, HandlerFoundEffect DEF LeadsToPad, Walked
        <3> QED
            BY <3>1, <3>2 DEF HandlerPad
    <2> QED
        BY <1>0, <1>9, <1>10, <2>1, HandlerFoundEffect
<1>11. ASSUME NEW i, NEW r, ReadsOn(i, r) PROVE HandlerPad'
    <2>1. unw.phase \in {"search", "cleanup"} /\ unw'.phase = unw.phase
        BY <1>0, <1>11, ReadsOnEffect
    <2>2. UNCHANGED <<table, stack, exc>>
        BY <1>11 DEF ReadsOn
    <2> QED
        BY <1>0, <2>1, <2>2 DEF HandlerPad
<1>12. CASE UNCHANGED vars
    BY <1>0, <1>12 DEF HandlerPad, vars
<1> QED
    BY <1>1, <1>2, <1>3, <1>4, <1>5, <1>7, <1>8, <1>9, <1>10, <1>11, <1>12, StepKinds
    DEF Kinds, EndOfStack, OutsideCallSites
LEMMA InnermostKept ==
    ASSUME NEW tb, NEW st, NEW st2, NEW e, NEW e2, NEW m,
           e2.handler = e.handler, e2.ipToSet = e.ipToSet, e2.errorCode = e.errorCode,
           \A k \in 1..m : st2[k] = st[k],
           e.handler \in Nat, m \in Nat,
           InnermostOf(tb, st, e, m)
    PROVE  InnermostOf(tb, st2, e2, m)
<1>1. e.handler \in 1..m
    BY DEF InnermostOf
<1>2. \A k \in e.handler + 1..m : k \in 1..m
    BY <1>1
<1>3. st2[e.handler] = st[e.handler] /\ \A k \in e.handler + 1..m : st2[k] = st[k]
    BY <1>1, <1>2
<1> QED
    BY <1>3 DEF InnermostOf

\* Of fewer frames, unless the handler is among those that are left out.
LEMMA InnermostOfFewer ==
    ASSUME NEW tb, NEW st, NEW e, NEW n \in Nat, InnermostOf(tb, st, e, n), e.handler # n
    PROVE  InnermostOf(tb, st, e, n - 1)
<1>1. e.handler \in 1..n - 1
    BY DEF InnermostOf
<1>2. \A k \in e.handler + 1..n - 1 : k \in e.handler + 1..n
    BY <1>1
<1> QED
    BY <1>1, <1>2 DEF InnermostOf

\* The handler frame is one that handles the exception.
LEMMA InnermostHandles ==
    ASSUME NEW tb, NEW st, NEW e, NEW n, InnermostOf(tb, st, e, n)
    PROVE  HandlesIn(tb, st[e.handler], e.errorCode)
BY DEF InnermostOf, HandlesIn

\* The last call of a clean-up is in no call site that catches.
LEMMA ResumeUnhandled ==
    ASSUME NEW tb \in [Function -> Tables], NEW f, f.fn \in Function, f.cleaning,
           f.slot = f.last, InFunction(tb, f), NEW c
    PROVE  ~HandlesIn(tb, f, c)
<1>1. PICK i \in DOMAIN tb[f.fn] : /\ tb[f.fn][i].actions = <<>>
                                   /\ tb[f.fn][i].pad > Body
                                   /\ f.last = tb[f.fn][i].pad + 1
    BY DEF InFunction
<1>2. tb[f.fn] \in Tables
    OBVIOUS
<1>3. ASSUME NEW j \in DOMAIN tb[f.fn], f.slot \in tb[f.fn][j].from..tb[f.fn][j].to
      PROVE  tb[f.fn][j].actions = <<>>
    BY <1>1, <1>2, <1>3, ResumeUncaught
<1> QED
    BY <1>3 DEF HandlesIn, Holds, Catches, Has

LEMMA OnTheWayStep ==
    ASSUME IInv, WayInv, [Next]_vars
    PROVE  OnTheWay'
<1> DEFINE n == Len(stack)
           h == exc.handler
<1>0. /\ Sound /\ TypeOK /\ ReadSoFar /\ HandlerPad /\ Searched
      /\ h \in Nat
      /\ ~nested => OnceEach
    BY DEF IInv, Sound, WayInv, TypeOK, Buffer
<1> SUFFICES ASSUME ~nested' PROVE OnTheWay'
    BY DEF OnTheWay
<1>a. ASSUME ~nested
      PROVE  /\ unw.phase = "cleanup" =>
                   /\ InnermostOf(table, stack, exc, n)
                   /\ h = n => unw.step = "sites"
             /\ unw.phase = "none" /\ status = "running" =>
                   \A d \in DOMAIN stack :
                       stack[d].cleaning => InnermostOf(table, stack, exc, d - 1)
    BY <1>a DEF WayInv, OnTheWay
<1>1. ASSUME NEW f \in Function, CallFunction(f) PROVE OnTheWay'
    <2>1. /\ n \in Nat \ {0}
          /\ DOMAIN stack = 1..n /\ DOMAIN stack' = 1..n + 1
          /\ stack'[n].cleaning = stack[n].cleaning
          /\ stack'[n + 1] = Activation(f)
          /\ \A k \in 1..n - 1 : stack'[k] = stack[k]
          /\ status = "running" /\ unw.phase = "none"
          /\ UNCHANGED <<table, exc, unw, nested>>
        BY <1>0, <1>1, CallEffect
    <2>2. ~stack'[n + 1].cleaning
        BY <2>1, ActivationTyped
    <2> HIDE DEF n
    <2>3. \A k \in 1..n + 1 : k = n + 1 \/ k = n \/ k \in 1..n - 1
        BY <2>1
    <2>4. \A k \in 1..n - 1 : k \in 1..n
        BY <2>1
    <2>5. n \in 1..n
        BY <2>1
    <2>6. ASSUME NEW d \in 1..n + 1, stack'[d].cleaning
          PROVE  InnermostOf(table, stack', exc, d - 1)
        <3>1. d \in 1..n /\ stack[d].cleaning
            BY <2>1, <2>2, <2>3, <2>4, <2>5, <2>6
        <3>2. d \in DOMAIN stack /\ unw.phase = "none" /\ status = "running" /\ ~nested
            BY <2>1, <3>1
        <3>3. InnermostOf(table, stack, exc, d - 1)
            BY <1>a, <3>1, <3>2
        <3>4. d - 1 \in Nat /\ \A k \in 1..d - 1 : k \in 1..n - 1
            BY <2>1, <3>1
        <3>5. \A k \in 1..d - 1 : stack'[k] = stack[k]
            BY <2>1, <3>4
        <3> QED
            BY <1>0, <3>3, <3>4, <3>5, InnermostKept
    <2> QED
        BY <2>1, <2>6 DEF OnTheWay
<1>2. CASE Return
    <2>1. /\ n \in Nat \ {0}
          /\ DOMAIN stack = 1..n /\ DOMAIN stack' = 1..n - 1
          /\ \A k \in 1..n - 1 : stack'[k] = stack[k]
          /\ status = "running" /\ unw.phase = "none"
          /\ UNCHANGED <<table, exc, unw, nested>>
        BY <1>0, <1>2, ReturnEffect
    <2> HIDE DEF n
    <2>2. ASSUME NEW d \in 1..n - 1, stack'[d].cleaning
          PROVE  InnermostOf(table, stack', exc, d - 1)
        <3>1. d \in 1..n /\ stack[d].cleaning
            BY <2>1, <2>2
        <3>2. d \in DOMAIN stack /\ unw.phase = "none" /\ status = "running" /\ ~nested
            BY <2>1, <3>1
        <3>3. InnermostOf(table, stack, exc, d - 1)
            BY <1>a, <3>1, <3>2
        <3>4. d - 1 \in Nat /\ \A k \in 1..d - 1 : k \in 1..n - 1
            BY <2>1, <2>2
        <3>5. \A k \in 1..d - 1 : stack'[k] = stack[k]
            BY <2>1, <3>4
        <3> QED
            BY <1>0, <3>3, <3>4, <3>5, InnermostKept
    <2> QED
        BY <2>1, <2>2 DEF OnTheWay
<1>3. ASSUME NEW c \in Codes, __zno_raise(c) PROVE OnTheWay'
    BY <1>0, <1>3, RaiseEffect DEF OnTheWay
<1>4. CASE _Unwind_Resume
    <2>1. /\ n \in Nat \ {0}
          /\ DOMAIN stack = 1..n /\ DOMAIN stack' = 1..n /\ Len(stack') = n
          /\ stack[n].cleaning
          /\ stack[n] \in Frame
          /\ stack'[n].slot = stack[n].last
          /\ stack'[n].fn = stack[n].fn
          /\ stack'[n].last = stack[n].last
          /\ stack'[n].cleaning
          /\ \A k \in 1..n - 1 : stack'[k] = stack[k]
          /\ unw'.phase = "cleanup" /\ unw'.step = "sites"
          /\ status = "running" /\ unw.phase = "none"
          /\ UNCHANGED <<table, exc, nested>>
        BY <1>0, <1>4, ResumeEffect
    <2> HIDE DEF n
    <2>2. n \in DOMAIN stack /\ n \in DOMAIN stack' /\ ~nested
        BY <2>1
    <2>3. InnermostOf(table, stack, exc, n - 1)
        BY <1>a, <2>1, <2>2
    <2>4. InnermostOf(table, stack', exc, n - 1)
        BY <1>0, <2>1, <2>3, InnermostKept
    <2>5. InFunction(table, stack'[n])
        BY <2>1, <2>2, AtCallsStep DEF AtCalls
    <2>6. stack'[n].fn \in Function /\ stack'[n].slot = stack'[n].last
        BY <2>1 DEF Frame
    <2>7. ~HandlesIn(table, stack'[n], exc.errorCode)
        BY <1>0, <2>1, <2>5, <2>6, ResumeUnhandled DEF TypeOK
    <2>8. h \in 1..n - 1
        BY <2>3 DEF InnermostOf
    <2>9. \A k \in h + 1..n : k = n \/ k \in h + 1..n - 1
        BY <2>1, <2>8
    <2>10. h \in 1..n
        BY <2>1, <2>8
    <2>11. InnermostOf(table, stack', exc, n)
        BY <2>4, <2>7, <2>9, <2>10 DEF InnermostOf
    <2> QED
        BY <2>1, <2>11 DEF OnTheWay
<1>5. CASE Passes
    <2> DEFINE m == IF unw.phase = "cleanup" THEN n - 1 ELSE n
    <2>1. /\ n \in Nat \ {0}
          /\ Len(stack') = m
          /\ \A k \in 1..m : stack'[k] = stack[k]
          /\ unw.phase \in {"search", "cleanup"}
          /\ unw.phase = "cleanup" => unw.level = n
          /\ unw'.phase = unw.phase
          /\ unw'.step = "sites"
          /\ UNCHANGED <<table, exc, nested>>
        BY <1>0, <1>5, PassEffect DEF Passes
    <2>2. ASSUME unw.phase = "cleanup" PROVE InnermostOf(table, stack', exc, n - 1)
        <3>1. InnermostOf(table, stack, exc, n)
            BY <1>a, <2>1, <2>2
        <3>2. HandlesIn(table, stack[h], exc.errorCode)
            BY <3>1, InnermostHandles
        <3>3. ~HandlesIn(table, stack[n], exc.errorCode)
            BY <1>5, <2>1, <2>2 DEF Passes, Walked
        <3>4. h # n
            BY <3>2, <3>3
        <3> HIDE DEF n
        <3>5. InnermostOf(table, stack, exc, n - 1)
            BY <2>1, <3>1, <3>4, InnermostOfFewer
        <3>6. \A k \in 1..n - 1 : stack'[k] = stack[k]
            BY <2>1, <2>2
        <3>7. n - 1 \in Nat
            BY <2>1
        <3> QED
            BY <1>0, <3>5, <3>6, <3>7, InnermostKept
    <2> HIDE DEF n
    <2> QED
        BY <2>1, <2>2 DEF OnTheWay
<1>6. ASSUME unw.phase \in {"search", "cleanup"}, ~nested
      PROVE  \A k \in DOMAIN stack : k # n => ~stack[k].cleaning
    BY <1>0, <1>6, OnlyInnermost DEF IInv
<1>7. CASE InHandlerFrame
    <2>1. /\ DOMAIN stack = 1..n /\ DOMAIN stack' = 1..n
          /\ ~stack'[n].cleaning
          /\ \A k \in 1..n - 1 : stack'[k] = stack[k]
          /\ unw'.phase = "none"
          /\ unw.phase = "cleanup"
          /\ nested' = nested
          /\ n \in Nat \ {0}
        BY <1>0, <1>7, InHandlerFrameEffect DEF GoesOnAt
    <2>2. \A k \in 1..n : k # n => ~stack[k].cleaning
        BY <1>6, <2>1
    <2> HIDE DEF n
    <2>3. \A k \in 1..n : k = n \/ (k \in 1..n - 1 /\ k # n)
        BY <2>1
    <2>4. \A k \in 1..n : ~stack'[k].cleaning
        BY <2>1, <2>2, <2>3
    <2> QED
        BY <2>1, <2>4 DEF OnTheWay
<1>8. CASE RunCleanup
    <2>1. /\ DOMAIN stack = 1..n /\ DOMAIN stack' = 1..n
          /\ \A k \in 1..n - 1 : stack'[k] = stack[k]
          /\ unw'.phase = "none"
          /\ unw.phase = "cleanup"
          /\ UNCHANGED <<table, nested>>
          /\ n \in Nat \ {0}
          /\ h # n
          /\ SameExc
        BY <1>0, <1>8, RunCleanupEffect DEF GoesOnAt
    <2>2. \A k \in 1..n : k # n => ~stack[k].cleaning
        BY <1>6, <2>1
    <2>3. InnermostOf(table, stack, exc, n)
        BY <1>a, <2>1
    <2> HIDE DEF n
    <2>4. InnermostOf(table, stack, exc, n - 1) /\ n - 1 \in Nat
        BY <2>1, <2>3, InnermostOfFewer
    <2>5. InnermostOf(table, stack', exc', n - 1)
        BY <1>0, <2>1, <2>4, InnermostKept DEF SameExc
    <2>6. \A k \in 1..n : k = n \/ (k \in 1..n - 1 /\ k # n)
        BY <2>1
    <2>7. \A k \in 1..n : k # n => ~stack'[k].cleaning
        BY <2>1, <2>2, <2>6
    <2> QED
        BY <2>1, <2>5, <2>7 DEF OnTheWay
<1>9. ASSUME NEW how, how # "running", Ends(how) PROVE OnTheWay'
    BY <1>9, EndEffect DEF OnTheWay
<1>10. CASE HandlerFound
    <2>1. CASE unw.phase = "search"
        <3>1. /\ exc'.handler = unw.level
              /\ exc'.errorCode = exc.errorCode
              /\ unw'.phase = "cleanup"
              /\ unw'.step = "sites"
              /\ UNCHANGED <<table, stack, nested>>
              /\ Walking
            BY <1>0, <1>10, <2>1, HandlerFoundEffect
        <3>2. unw.level \in 1..n
            BY <1>0, <3>1, WalkedTyped
        <3>3. \A k \in unw.level + 1..n : ~HandlesIn(table, stack[k], exc.errorCode)
            BY <1>0, <2>1 DEF Searched
        <3>4. \E i \in DOMAIN table[Walked.fn] :
                 /\ Holds(table, Walked, exc.errorCode, i)
                 /\ exc'.ipToSet = [fn |-> {Walked.fn},
                                    offset |-> landing_pad(table[Walked.fn][i])]
            BY <1>0, <1>10, HandlerFoundEffect
        <3>5. InnermostOf(table, stack, exc', n)
            BY <3>1, <3>2, <3>3, <3>4 DEF InnermostOf, Walked
        <3> QED
            BY <3>1, <3>5 DEF OnTheWay
    <2> QED
        BY <1>0, <1>9, <1>10, <2>1, HandlerFoundEffect
<1>11. ASSUME NEW i, NEW r, ReadsOn(i, r) PROVE OnTheWay'
    <2>1. unw.phase \in {"search", "cleanup"} /\ unw'.phase = unw.phase
        BY <1>0, <1>11, ReadsOnEffect
    <2>2. UNCHANGED <<table, stack, exc, nested>> /\ (HandlerFrame => unw.step = "actions")
        BY <1>11 DEF ReadsOn
    <2>3. ASSUME unw.phase = "cleanup" PROVE h # n /\ InnermostOf(table, stack, exc, n)
        <3>1. InnermostOf(table, stack, exc, n) /\ (h = n => unw.step = "sites")
            BY <1>a, <2>2, <2>3
        <3>2. unw.level = n
            BY <1>0, <2>3 DEF Sound, Places, AtInnermost
        <3> QED
            BY <2>2, <2>3, <3>1, <3>2 DEF HandlerFrame
    <2> QED
        BY <2>1, <2>2, <2>3 DEF OnTheWay
<1>12. CASE UNCHANGED vars
    BY <1>a, <1>12 DEF OnTheWay, vars
<1> QED
    BY <1>1, <1>2, <1>3, <1>4, <1>5, <1>7, <1>8, <1>9, <1>10, <1>11, <1>12, StepKinds
    DEF Kinds, EndOfStack, OutsideCallSites
-----------------------------------------------------------------------------
(* How the program ends. *)

\* With a handler on the way the program does not abort.
LEMMA NoAbort ==
    ASSUME IInv, WayInv, ~nested, unw.phase = "cleanup"
    PROVE  /\ unw.level # 0
           /\ HandlerFound => FALSE
<1>1. InnermostOf(table, stack, exc, Len(stack)) /\ (exc.handler = Len(stack) => unw.step = "sites")
    BY DEF WayInv, OnTheWay
<1>2. unw.level = Len(stack) /\ Sound /\ ReadSoFar
    BY DEF IInv, Places, AtInnermost, Sound, WayInv
<1>3. exc.handler \in 1..Len(stack) /\ Len(stack) \in Nat
    BY <1>1, LenProperties DEF InnermostOf, IInv, TypeOK
<1>4. ASSUME HandlerFound PROVE FALSE
    <2>1. unw.step = "actions"
        BY <1>2, <1>4, HandlerFoundEffect
    <2>2. \E i \in DOMAIN table[Walked.fn] : Holds(table, Walked, exc.errorCode, i)
        BY <1>2, <1>4, HandlerFoundEffect
    <2>3. HandlesIn(table, stack[Len(stack)], exc.errorCode)
        BY <1>2, <2>2 DEF HandlesIn, Walked
    <2>4. exc.handler # Len(stack)
        BY <1>1, <2>1
    <2>5. Len(stack) \in exc.handler + 1..Len(stack)
        BY <1>3, <2>4
    <2> QED
        BY <1>1, <2>3, <2>5 DEF InnermostOf
<1> QED
    BY <1>2, <1>3, <1>4

\* In a table that covers the function there is a call site of every call.
LEMMA CoveredFound ==
    ASSUME IInv, WayInv, OutsideCallSites
    PROVE  ~Covered
<1>1. Walking /\ WalkTable # <<>> /\ Matching = {}
    BY DEF OutsideCallSites, SearchesSites
<1>2. /\ unw.level \in DOMAIN stack
      /\ Walked \in Frame
      /\ Walked.slot \in Nat
      /\ Walked.fn \in Function
      /\ WalkTable \in Tables
    BY <1>1, WalkedTyped DEF IInv
<1>3. Walked.slot \in Slots(WalkTable)
    <2>1. unw.phase # "none"
        BY <1>1 DEF Walking
    <2> QED
        BY <1>2, <2>1 DEF WayInv, AtCalls, Walked, WalkTable
<1>4. SUFFICES ASSUME Covered PROVE FALSE
    OBVIOUS
<1>5. PICK i \in DOMAIN WalkTable : Walked.slot \in WalkTable[i].from..WalkTable[i].to
    BY <1>1, <1>2, <1>3, <1>4 DEF Covered, WalkTable
<1>6. WalkTable[i] \in Site
    BY <1>2, <1>5, SiteTyped
<1>7. InSite(WalkTable[i])
    BY <1>2, <1>5, <1>6, InSiteIfCalled
<1> QED
    BY <1>1, <1>5, <1>7 DEF Matching

LEMMA OutcomeStep ==
    ASSUME IInv, WayInv, [Next]_vars
    PROVE  Outcome'
<1>0. /\ Sound /\ TypeOK /\ ReadSoFar /\ HandlerPad /\ Searched /\ AtInnermost
      /\ status = "fatal" => nested
      /\ Covered => status # "undefined"
    BY DEF IInv, Sound, Places, WayInv, Outcome, NoFatalAnswer, StaysInTables
<1>1. ASSUME status' \in {"running", "returned"} PROVE Outcome'
    BY <1>1 DEF Outcome, NoFatalAnswer, StaysInTables
<1>2. ASSUME NEW f \in Function, CallFunction(f) PROVE Outcome'
    BY <1>0, <1>1, <1>2, CallEffect
<1>3. CASE Return
    BY <1>0, <1>1, <1>3, ReturnEffect
<1>4. ASSUME NEW c \in Codes, __zno_raise(c) PROVE Outcome'
    BY <1>0, <1>1, <1>4, RaiseEffect
<1>5. CASE _Unwind_Resume
    BY <1>0, <1>1, <1>5, ResumeEffect
<1>6. CASE Passes
    BY <1>0, <1>1, <1>6, PassEffect DEF Passes
<1>7. CASE InHandlerFrame
    BY <1>0, <1>1, <1>7, InHandlerFrameEffect DEF GoesOnAt
<1>8. CASE RunCleanup
    BY <1>0, <1>1, <1>8, RunCleanupEffect DEF GoesOnAt
<1>9. ASSUME NEW i, NEW r, ReadsOn(i, r) PROVE Outcome'
    BY <1>0, <1>1, <1>9 DEF ReadsOn, Walking
<1>10. CASE EndOfStack
    <2>1. unw.phase # "none" /\ unw.level = 0 /\ exc' = exc
        BY <1>10 DEF EndOfStack
    <2>2. unw.phase \in {"search", "cleanup"}
        BY <1>0, <2>1 DEF TypeOK, Unwinding, Idle
    <2>3. CASE unw.phase = "search"
        <3>1. Ends("uncaught")
            BY <1>10, <2>3 DEF EndOfStack
        <3>2. status' = "uncaught" /\ UNCHANGED <<table, stack, nested>>
            BY <3>1, EndEffect
        <3>3. DOMAIN stack = 1..Len(stack)
            BY <1>0, Domains DEF TypeOK
        <3>4. \A k \in DOMAIN stack : ~HandlesIn(table, stack[k], exc.errorCode)
            BY <1>0, <2>1, <2>3, <3>3 DEF Searched
        <3> QED
            BY <2>1, <3>2, <3>4 DEF Outcome, NoFatalAnswer, StaysInTables
    <2>4. CASE unw.phase = "cleanup"
        <3>1. Ends("fatal")
            BY <1>10, <2>4 DEF EndOfStack
        <3>2. status' = "fatal" /\ nested' = nested
            BY <3>1, EndEffect
        <3>3. nested
            BY <2>1, <2>4, NoAbort
        <3> QED
            BY <3>2, <3>3 DEF Outcome, NoFatalAnswer, StaysInTables
    <2> QED
        BY <2>2, <2>3, <2>4
<1>11. CASE HandlerFound
    <2>1. unw.phase \in {"search", "cleanup"} /\ Walking
        BY <1>0, <1>11, HandlerFoundEffect
    <2>2. CASE unw.phase = "search"
        BY <1>0, <1>1, <1>11, <2>1, <2>2, HandlerFoundEffect DEF Walking
    <2>3. CASE unw.phase = "cleanup"
        <3>1. Ends("fatal")
            BY <1>0, <1>11, <2>3, HandlerFoundEffect
        <3>2. status' = "fatal" /\ nested' = nested
            BY <3>1, EndEffect
        <3>3. nested
            BY <1>11, <2>3, NoAbort
        <3> QED
            BY <3>2, <3>3 DEF Outcome, NoFatalAnswer, StaysInTables
    <2> QED
        BY <2>1, <2>2, <2>3
<1>12. CASE OutsideCallSites
    <2>1. Ends("undefined") /\ ~Covered
        BY <1>12, CoveredFound DEF OutsideCallSites
    <2>2. status' = "undefined" /\ table' = table
        BY <2>1, EndEffect
    <2>3. ~Covered'
        BY <2>1, <2>2 DEF Covered
    <2> QED
        BY <2>2, <2>3 DEF Outcome, NoFatalAnswer, StaysInTables
<1>13. CASE UNCHANGED vars
    <2>1. UNCHANGED <<table, stack, exc, nested, status>>
        BY <1>13 DEF vars
    <2>2. Covered' <=> Covered
        BY <2>1 DEF Covered
    <2>3. Outcome
        BY DEF WayInv
    <2> QED
        BY <2>1, <2>2, <2>3 DEF Outcome, NoFatalAnswer, StaysInTables
<1> QED
    BY <1>2, <1>3, <1>4, <1>5, <1>6, <1>7, <1>8, <1>9, <1>10, <1>11, <1>12, <1>13, StepKinds
    DEF Kinds

LEMMA WayInitially ==
    ASSUME Init
    PROVE  WayInv
<1>1. /\ stack = <<Activation(Main)>>
      /\ unw = Idle
      /\ status = "running"
    BY DEF Init
<1>2. unw.phase = "none" /\ unw.step = "sites"
    BY <1>1 DEF Idle
<1>3. /\ Activation(Main).fn = Main /\ Activation(Main).slot = 0 /\ Activation(Main).last = Body
      /\ ~Activation(Main).cleaning
    BY UnwinderAssumption, ActivationTyped
<1>4. Len(stack) = 1 /\ DOMAIN stack = 1..1 /\ stack[1] = Activation(Main)
    BY <1>1
<1>5. InFunction(table, Activation(Main))
    <2>1. 0 + 1..Body \subseteq Slots(table[Main])
        BY BodyInFunction
    <2> QED
        BY <1>3, <2>1 DEF InFunction
<1>6. \A k \in DOMAIN stack : k = 1
    BY <1>4
<1>7. AtCalls
    BY <1>2, <1>4, <1>5, <1>6 DEF AtCalls
<1>8. \A k \in DOMAIN stack : ~stack[k].cleaning
    BY <1>3, <1>4, <1>6
<1>9. HandlerPad /\ OnTheWay
    BY <1>2, <1>8 DEF HandlerPad, OnTheWay
<1>10. Searched /\ ReadSoFar /\ Outcome
    BY <1>1, <1>2 DEF Searched, ReadSoFar, Outcome, NoFatalAnswer, StaysInTables
<1> QED
    BY <1>7, <1>9, <1>10 DEF WayInv

LEMMA WayInvariance == Spec => []WayInv
<1>1. Init => WayInv
    BY WayInitially
<1>2. IInv /\ WayInv /\ [Next]_vars => WayInv'
    BY AtCallsStep, SearchedStep, ReadSoFarStep, HandlerPadStep, OnTheWayStep, OutcomeStep
    DEF WayInv
<1> QED
    BY <1>1, <1>2, Invariance, PTL DEF Spec

\* What the tables mean, with their bytes or without.
LEMMA HandlesMeans ==
    ASSUME NEW f, NEW c
    PROVE  Handles(f, c) <=> HandlesIn(table, f, c)
<1>1. ASSUME Handles(f, c) PROVE HandlesIn(table, f, c)
    BY <1>1 DEF Handles, SitesOf, HandlesIn, Holds
<1>2. ASSUME HandlesIn(table, f, c) PROVE Handles(f, c)
    <2>1. PICK i \in DOMAIN table[f.fn] : Holds(table, f, c, i)
        BY <1>2 DEF HandlesIn
    <2>2. table[f.fn][i] \in SitesOf(f)
        BY <2>1 DEF Holds, SitesOf
    <2> QED
        BY <2>1, <2>2 DEF Handles, Holds
<1> QED
    BY <1>1, <1>2

\* An exception is caught by the innermost frame that catches it, at its landing pad
\* there, is reported as uncaught only if no frame does, and never aborts the program
\* on its way: whatever the tables are, whichever clean-ups run and however deep they
\* call, as long as they raise none themselves.
THEOREM CaughtInnermost == Spec => []InnermostHandler
<1>1. WayInv /\ TypeOK => InnermostHandler
    <2> SUFFICES ASSUME WayInv, TypeOK PROVE InnermostHandler
        OBVIOUS
    <2>1. UncaughtIfUnhandled
        BY HandlesMeans DEF WayInv, Outcome, UncaughtIfUnhandled
    <2>2. NoFatalAnswer
        BY DEF WayInv, Outcome
    <2>3. HandlerIsInnermost
        <3> SUFFICES ASSUME unw.phase = "cleanup", ~nested
                     PROVE  /\ exc.handler \in DOMAIN stack
                            /\ \E s \in SitesOf(stack[exc.handler]) :
                                  /\ Catches(s, exc.errorCode)
                                  /\ exc.ipToSet = [fn |-> {stack[exc.handler].fn},
                                                    offset |-> landing_pad(s)]
                            /\ \A k \in exc.handler + 1..Len(stack) :
                                  ~stack[k].cleaning => ~Handles(stack[k], exc.errorCode)
            BY DEF HandlerIsInnermost
        <3>1. InnermostOf(table, stack, exc, Len(stack))
            BY DEF WayInv, OnTheWay
        <3>2. exc.handler \in DOMAIN stack
            BY <3>1, Domains DEF InnermostOf, TypeOK
        <3> DEFINE f == stack[exc.handler]
        <3>3. PICK i \in DOMAIN table[f.fn] :
                /\ Holds(table, f, exc.errorCode, i)
                /\ exc.ipToSet = [fn |-> {f.fn}, offset |-> landing_pad(table[f.fn][i])]
            BY <3>1 DEF InnermostOf
        <3>4. table[f.fn][i] \in SitesOf(f) /\ Catches(table[f.fn][i], exc.errorCode)
            BY <3>3 DEF Holds, SitesOf
        <3>5. \A k \in exc.handler + 1..Len(stack) : ~Handles(stack[k], exc.errorCode)
            BY <3>1, HandlesMeans DEF InnermostOf
        <3> QED
            BY <3>2, <3>3, <3>4, <3>5
    <2> QED
        BY <2>1, <2>2, <2>3 DEF InnermostHandler
<1> QED
    BY <1>1, WayInvariance, TypeCorrect, PTL

\* Where every call belongs to a call site the personality function reads nothing
\* outside of the tables: neither a call site behind the last one nor an action record
\* that is none, also if clean-ups raise exceptions.
THEOREM WithinTables == Spec => []StaysInTables
<1>1. WayInv => StaysInTables
    BY DEF WayInv, Outcome
<1> QED
    BY <1>1, WayInvariance, PTL
=============================================================================
