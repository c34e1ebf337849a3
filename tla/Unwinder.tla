------------------------------ MODULE Unwinder ------------------------------
(***************************************************************************)
(* The exception runtime of ZnO: __zno_raise() and the personality         *)
(* function that the system's unwinder calls for each frame, first in      *)
(* search of a handler and then to clean up on the way to it.              *)
(*                                                                         *)
(* A function is a row of slots, each with one call of CallSize bytes.     *)
(* The first Body of them are its statements, the others its landing pads. *)
(* Its exception table says of its slots which landing pad they have, and  *)
(* which action records: the exceptions that are caught there, or a        *)
(* clean-up.  The slots of a call site without records have a clean-up     *)
(* only.  A frame is an activation of a function.                          *)
(***************************************************************************)
EXTENDS Integers, Sequences

CONSTANTS
    Function,      \* the functions of the program
    Main,          \* the first one
    Codes,         \* the exceptions, which are type indices of the tables
    Tables,        \* the exception tables a function may have
    Body,          \* number of slots with statements
    CallSize,      \* bytes of a call
    MaxFrames,     \* bound on the depth of the stack
    MaxRaises      \* bound on the number of exceptions raised

\* Part of a table: the call site has the slots from..to, its landing pad begins
\* with slot pad (slot 1 if it has none), and it has these action records, first to
\* last: each is for the exception it catches, or 0 for a clean-up.
Site == [from : Nat \ {0}, to : Nat, pad : Nat \ {0}, actions : Seq(Codes \cup {0})]

ASSUME UnwinderAssumption ==
    /\ Main \in Function
    /\ Codes \subseteq Nat \ {0}
    /\ Tables \subseteq Seq(Site)
    /\ Body \in Nat
    /\ CallSize \in Nat /\ CallSize >= 2
    /\ MaxFrames \in Nat
    /\ MaxRaises \in Nat

\* The call sites of a table share no slot: LLVM writes them as consecutive ranges.
ASSUME SitesDisjoint ==
    \A t \in Tables : \A i, j \in DOMAIN t :
        t[i].from..t[i].to \cap t[j].from..t[j].to # {} => i = j

\* The last call of a clean-up is in no call site that catches: LLVM makes of its
\* resume instruction a call that is given no landing pad.
ASSUME ResumeUncaught ==
    \A t \in Tables : \A i, j \in DOMAIN t :
        /\ t[i].actions = <<>>
        /\ t[i].pad > Body
        /\ t[i].pad + 1 \in t[j].from..t[j].to
        => t[j].actions = <<>>

VARIABLES
    table,  \* the table of each function, empty if it has none
    stack,  \* the frames, innermost last
    exc,    \* exceptionBuffer
    unw,    \* the call of the unwinder in progress
    raises, \* how many exceptions have been raised
    nested, \* history: whether one was raised while a clean-up was going on
    status  \* "running" or how the program ended

vars == <<table, stack, exc, unw, raises, nested, status>>

\* A frame has done the call in slot `slot` or is in it, and `last` is the last
\* slot it gets to.  `cleaning`: it is in a clean-up.  `cleaned` is history: it
\* has been in none, one or more for the exception that is on its way.
Frame == [fn : Function, slot : Nat, last : Nat, cleaning : BOOLEAN, cleaned : 0..2]
Activation(f) ==
    [fn |-> f, slot |-> 0, last |-> Body, cleaning |-> FALSE, cleaned |-> 0]

\* An address in a function, and a pointer that is null or leads to a function.
Address == [fn : SUBSET Function, offset : Nat]
Null    == [fn |-> {}, offset |-> 0]

\* handler is the unwinder's own: the frame found in the search, by its depth.
Buffer ==
    [errorCode : Codes \cup {0}, ipToSet : Address, lastCleanedFn : SUBSET Function,
     handler : Nat]

\* The unwinder is at the frame of this depth: before its call sites are searched,
\* or at the action record with this offset, of call site `site`.
Unwinding == [phase : {"search", "cleanup"}, level : Nat,
              step : {"sites", "actions"}, site : Nat, record : Int]
Idle      == [phase |-> "none", level |-> 0, step |-> "sites", site |-> 0, record |-> 0]
Walk(phase, level) == [Idle EXCEPT !.phase = phase, !.level = level]
-----------------------------------------------------------------------------
(* The bytes of a table, as except_table_header_t to action_typeinfo and the
   comments there lay them out.  The records of a call site are laid out backwards,
   so that each leads to the one before it, and the last one leads nowhere. *)

RecordsUpTo(t, i) ==
    LET n[k \in 0..Len(t)] == IF k = 0 THEN 0 ELSE n[k - 1] + Len(t[k].actions)
    IN  n[i]

try_start(s)  == CallSize * (s.from - 1)
try_length(s) == CallSize * (s.to - s.from + 1)
action(t, i)  == IF t[i].actions = <<>> THEN 0 ELSE 2 * RecordsUpTo(t, i) - 1

RecordOffsets(t) == {2 * (r - 1) : r \in 1..RecordsUpTo(t, Len(t))}

\* Mutant: a landing pad is taken from the start of its call site.
Mut_FromSite(s) == CallSize * (s.pad - s.from)
landing_pad(s)  == CallSize * (s.pad - 1)

\* The call site whose record is number r.
Owner(t, r) ==
    CHOOSE i \in DOMAIN t : RecordsUpTo(t, i - 1) < r /\ r <= RecordsUpTo(t, i)

type_index(t, o) ==
    LET r == o \div 2 + 1
        i == Owner(t, r)
    IN  t[i].actions[RecordsUpTo(t, i) - r + 1]

\* -3 in seven bits, from a record's second byte to the record before it.
next_action_record(t, o) ==
    LET r == o \div 2 + 1
    IN  IF r = RecordsUpTo(t, Owner(t, r) - 1) + 1 THEN 0 ELSE 125
-----------------------------------------------------------------------------
Running   == status = "running" /\ unw.phase = "none" /\ stack # <<>>
Walking   == status = "running" /\ unw.phase # "none" /\ unw.level > 0
Top       == stack[Len(stack)]
Under     == SubSeq(stack, 1, Len(stack) - 1)
Walked    == stack[unw.level]
WalkTable == table[Walked.fn]
FoundSite == WalkTable[unw.site]

Cleaning  == \E k \in DOMAIN stack : stack[k].cleaning

\* The innermost frame goes on as f.
Goes(f) == stack' = Append(Under, f)

Ends(how) ==
    /\ status' = how
    /\ unw' = Idle
    /\ UNCHANGED <<table, stack, raises, nested>>
-----------------------------------------------------------------------------
(* The program *)

Init ==
    /\ table \in [Function -> Tables]
    /\ stack = <<Activation(Main)>>
    /\ exc = [errorCode |-> 0, ipToSet |-> Null, lastCleanedFn |-> {}, handler |-> 0]
    /\ unw = Idle
    /\ raises = 0
    /\ nested = FALSE
    /\ status = "running"

\* The slots the innermost frame may get to next.
Ahead == IF Running THEN Top.slot + 1..Top.last ELSE {}

\* The last call of a clean-up is that of _Unwind_Resume().
CallFunction(f) ==
    \E s \in Ahead :
        /\ Top.cleaning => s < Top.last
        /\ Len(stack) < MaxFrames
        /\ stack' = Append(Append(Under, [Top EXCEPT !.slot = s]), Activation(f))
        /\ UNCHANGED <<table, exc, unw, raises, nested, status>>

Return ==
    /\ Running
    /\ ~Top.cleaning
    /\ stack' = Under
    /\ status' = IF Under = <<>> THEN "returned" ELSE status
    /\ UNCHANGED <<table, exc, unw, raises, nested>>

\* __zno_raise() takes the one buffer there is, and sets nothing else of it.
__zno_raise(c) ==
    \E s \in Ahead :
        /\ raises < MaxRaises
        /\ raises' = raises + 1
        /\ nested' = (nested \/ Cleaning)
        /\ exc' = [exc EXCEPT !.errorCode = c]
        /\ stack' = [k \in DOMAIN stack |->
                        [stack[k] EXCEPT !.cleaned = 0,
                                         !.slot = IF k = Len(stack) THEN s ELSE @]]
        /\ unw' = Walk("search", Len(stack))
        /\ UNCHANGED <<table, status>>

_Unwind_Resume ==
    /\ Running
    /\ Top.cleaning
    /\ Goes([Top EXCEPT !.slot = Top.last])
    /\ unw' = Walk("cleanup", Len(stack))
    /\ UNCHANGED <<table, exc, raises, nested, status>>
-----------------------------------------------------------------------------
(* The unwinder *)

FrameOutside == unw.level - 1

\* _URC_CONTINUE_UNWIND: on to the frame outside; frames that have been cleaned up
\* are gone.
ContinueUnwind ==
    /\ unw' = Walk(unw.phase, FrameOutside)
    /\ stack' = IF unw.phase = "cleanup" THEN Under ELSE stack
    /\ UNCHANGED <<table, raises, nested, status>>

\* _URC_INSTALL_CONTEXT: the frame goes on at address a, the first of slot p.  That
\* of a call site without a landing pad is the function's first statement.
InstallContext(a, clean) ==
    LET p   == a.offset \div CallSize + 1
        pad == p > Body
    IN  /\ unw' = Idle
        /\ Goes([fn |-> CHOOSE f \in Function : f \in a.fn,
                 slot |-> p - 1,
                 last |-> IF ~pad THEN Body ELSE IF clean THEN p + 1 ELSE p,
                 cleaning |-> clean /\ pad,
                 cleaned |-> IF clean /\ Top.cleaned < 2 THEN Top.cleaned + 1
                                                         ELSE Top.cleaned])
        /\ UNCHANGED <<table, raises, nested, status>>

\* No frame is left: __zno_raise() says that nobody catches the exception, and
\* _Unwind_Resume() never returns.
EndOfStack ==
    /\ status = "running" /\ unw.phase # "none" /\ unw.level = 0
    /\ Ends(IF unw.phase = "search" THEN "uncaught" ELSE "fatal")
    /\ UNCHANGED exc

\* A function without a table has no personality function.
NoPersonality ==
    /\ Walking
    /\ WalkTable = <<>>
    /\ ContinueUnwind
    /\ UNCHANGED exc
-----------------------------------------------------------------------------
(* The personality function *)

HandlerFrame       == unw.phase = "cleanup" /\ unw.level = exc.handler

InHandlerFrame ==
    /\ Walking
    /\ WalkTable # <<>>
    /\ unw.step = "sites"
    /\ HandlerFrame
    /\ InstallContext(exc.ipToSet, FALSE)
    /\ UNCHANGED exc

\* One byte before the return address, that is in the call.
throw_ip == CallSize * Walked.slot - 1

\* Mutant: it is the return address that is looked for.
Mut_ReturnAddress(s) ==
    LET call_site_start == try_start(s)
        call_site_end   == call_site_start + try_length(s)
    IN  throw_ip + 1 >= call_site_start /\ throw_ip + 1 < call_site_end
InSite(s) ==
    LET call_site_start == try_start(s)
        call_site_end   == call_site_start + try_length(s)
    IN  throw_ip > call_site_start /\ throw_ip <= call_site_end

Matching     == {i \in DOMAIN WalkTable : InSite(WalkTable[i])}
FirstMatch   == CHOOSE i \in Matching : \A j \in Matching : i <= j
SearchesSites ==
    /\ Walking
    /\ WalkTable # <<>>
    /\ unw.step = "sites"
    /\ ~HandlerFrame

\* call_sites is left behind the last one: what follows is read as one more.
OutsideCallSites ==
    /\ SearchesSites
    /\ Matching = {}
    /\ Ends("undefined")
    /\ UNCHANGED exc

AtCleanupSite ==
    SearchesSites /\ Matching # {} /\ action(WalkTable, FirstMatch) = 0

SearchPassesCleanup ==
    /\ AtCleanupSite
    /\ unw.phase = "search"
    /\ ContinueUnwind
    /\ UNCHANGED exc

\* Mutant: a function that cleans up is not remembered.
Mut_Forgotten(f) == {}
CleanedFn(f)     == {f}

\* Mutant: the comparison is the wrong way round.
Mut_Reversed   == Walked.fn \notin exc.lastCleanedFn
AlreadyCleaned == Walked.fn \in exc.lastCleanedFn

RunCleanup ==
    /\ AtCleanupSite
    /\ unw.phase = "cleanup"
    /\ ~AlreadyCleaned
    /\ exc' = [exc EXCEPT !.lastCleanedFn = CleanedFn(Walked.fn)]
    /\ InstallContext([fn |-> {Walked.fn},
                       offset |-> landing_pad(WalkTable[FirstMatch])], TRUE)

AlreadyCleanedUp ==
    /\ AtCleanupSite
    /\ unw.phase = "cleanup"
    /\ AlreadyCleaned
    /\ ContinueUnwind
    /\ UNCHANGED exc

\* A table counts actions from 1.
FirstRecord(n) == n - 1

\* The record with offset o is read next; what is behind the records, or between
\* two, would be read as one.
ReadRecord(site, o) ==
    /\ IF o \in RecordOffsets(WalkTable)
       THEN /\ unw' = [unw EXCEPT !.step = "actions", !.site = site, !.record = o]
            /\ UNCHANGED <<table, stack, raises, nested, status>>
       ELSE Ends("undefined")
    /\ UNCHANGED exc

EnterActions ==
    /\ SearchesSites
    /\ Matching # {}
    /\ action(WalkTable, FirstMatch) # 0
    /\ ReadRecord(FirstMatch, FirstRecord(action(WalkTable, FirstMatch)))
-----------------------------------------------------------------------------
(* The action records of a call site *)

\* Mutant: the seventh bit is no sign.
Mut_Unsigned(v) == v % 128
leb128_signed_decode_1char(v) ==
    LET u == v % 128 IN IF u >= 64 THEN u - 128 ELSE u

\* A record with type 0 is for a clean-up: it is reported and has no type to compare.
Matches(tyIdx) == tyIdx # 0 /\ tyIdx = exc.errorCode

AtRecord     == Walking /\ unw.step = "actions"
TypeMatches  == Matches(type_index(WalkTable, unw.record))
Displacement == leb128_signed_decode_1char(next_action_record(WalkTable, unw.record))

\* The search ends with the frame outermost and the way to it begins; a handler
\* that is found on the way is an answer the unwinder does not know.
HandlerFound ==
    /\ AtRecord
    /\ TypeMatches
    /\ exc' = [exc EXCEPT
                  !.ipToSet = [fn |-> {Walked.fn}, offset |-> landing_pad(FoundSite)],
                  !.handler = IF unw.phase = "search" THEN unw.level ELSE @]
    /\ IF unw.phase = "search"
       THEN /\ unw' = Walk("cleanup", Len(stack))
            /\ UNCHANGED <<table, stack, raises, nested, status>>
       ELSE Ends("fatal")

LastRecord(d)    == d = 0

NextRecord ==
    /\ AtRecord
    /\ ~TypeMatches
    /\ ~LastRecord(Displacement)
    /\ ReadRecord(unw.site, unw.record + 1 + Displacement)

NoMoreRecords ==
    /\ AtRecord
    /\ ~TypeMatches
    /\ LastRecord(Displacement)
    /\ ContinueUnwind
    /\ UNCHANGED exc
-----------------------------------------------------------------------------
Ended == status # "running" /\ UNCHANGED vars

_Unwind_Step == EndOfStack \/ NoPersonality

__zno_personality_fn ==
    \/ InHandlerFrame \/ OutsideCallSites \/ SearchPassesCleanup \/ RunCleanup
    \/ AlreadyCleanedUp \/ EnterActions \/ HandlerFound \/ NextRecord
    \/ NoMoreRecords

Next ==
    \/ \E f \in Function : CallFunction(f)
    \/ Return
    \/ \E c \in Codes : __zno_raise(c)
    \/ _Unwind_Resume
    \/ _Unwind_Step
    \/ __zno_personality_fn
    \/ Ended

\* The unwinder waits for nothing; a clean-up comes to its end, and so does the
\* function it calls.
Fairness ==
    WF_vars(_Unwind_Step \/ __zno_personality_fn \/ _Unwind_Resume \/ Return)

Spec == Init /\ [][Next]_vars /\ Fairness
-----------------------------------------------------------------------------
(* What the runtime promises *)

TypeOK ==
    /\ table \in [Function -> Tables]
    /\ stack \in Seq(Frame)
    /\ exc \in Buffer
    /\ unw \in Unwinding \cup {Idle}
    /\ unw.level <= Len(stack)
    /\ raises \in 0..MaxRaises
    /\ nested \in BOOLEAN
    /\ status \in {"running", "returned", "uncaught", "fatal", "undefined"}

\* What the tables mean, said without their bytes.
SitesOf(f) ==
    {table[f.fn][i] : i \in {j \in DOMAIN table[f.fn] :
                                f.slot \in table[f.fn][j].from..table[f.fn][j].to}}
Has(s, a)      == \E i \in DOMAIN s.actions : s.actions[i] = a
Catches(s, c)  == c # 0 /\ Has(s, c)
CleanupOnly(s) == s.actions = <<>>
CleansUp(s)    == CleanupOnly(s) \/ Has(s, 0)
Handles(f, c)  == \E s \in SitesOf(f) : Catches(s, c)
Owes(f)        == \E s \in SitesOf(f) : CleansUp(s)

\* The clean-up of the call is a record of a call site that catches, too.
CleansByRecord(f) == \E s \in SitesOf(f) : Has(s, 0)

\* The slots with calls: the statements and the landing pads, two for a clean-up.
PadSlots(s) == s.pad..s.pad + (IF s.actions = <<>> THEN 1 ELSE 0)
Slots(t) ==
    1..Body \cup UNION {PadSlots(t[i]) : i \in {j \in DOMAIN t : t[j].pad > Body}}
Covered ==
    \A f \in Function :
        table[f] # <<>> => \A k \in Slots(table[f]) :
            \E i \in DOMAIN table[f] : k \in table[f][i].from..table[f][i].to

\* On the way to the handler, what the search has put into the buffer is the
\* innermost frame that catches the exception and the landing pad there
\* (exception.c:137-157 and 66-71), whatever clean-ups have run since, unless one
\* of them has raised an exception itself: there is only one buffer (line 172).
HandlerIsInnermost ==
    unw.phase = "cleanup" /\ ~nested =>
        /\ exc.handler \in DOMAIN stack
        /\ \E s \in SitesOf(stack[exc.handler]) :
              /\ Catches(s, exc.errorCode)
              /\ exc.ipToSet = [fn |-> {stack[exc.handler].fn}, offset |-> landing_pad(s)]
        /\ \A k \in exc.handler + 1..Len(stack) :
              ~stack[k].cleaning => ~Handles(stack[k], exc.errorCode)

\* An exception is reported as uncaught only if no frame catches it
\* (exception.c:177).
UncaughtIfUnhandled ==
    status = "uncaught" =>
        \A k \in DOMAIN stack : ~Handles(stack[k], exc.errorCode)

\* Once a handler is found the unwinder is never given an answer it does not know
\* and does not miss the handler's frame, so that the program does not abort
\* (exception.c:65 and 155), unless a clean-up raises.
NoFatalAnswer == status = "fatal" => nested

\* The two phases agree on where an exception is caught.
InnermostHandler == HandlerIsInnermost /\ UncaughtIfUnhandled /\ NoFatalAnswer

\* Where every call belongs to a call site the runtime reads nothing outside of the
\* tables (exception.c:99, 135 and 163).
StaysInTables == Covered => status # "undefined"

\* A frame with a clean-up is left when this has run once for the exception that is on
\* its way, although each clean-up ends in a new search of the same frame, and whatever
\* clean-ups raise themselves.  It is left without when the last one that has been run
\* was of the same function, for another activation or an earlier exception (exception.c:
\* 117, where these are not told apart); and when the clean-up is a record of a call site
\* that catches, too, which is only printed (exception.c:143-145).
CleanedBeforeLeft ==
    [][ unw.phase = "cleanup" /\ Len(stack') < Len(stack)
        => \/ ~Owes(Top)
           \/ Top.cleaned = 1
           \/ Top.cleaned = 0 /\ Top.fn \in exc.lastCleanedFn
           \/ CleansByRecord(Top) ]_vars

\* The innermost frame is in the landing pad of a handler.
Handling == Running /\ ~Top.cleaning /\ Top.last > Body

\* The innermost frame is back at its first statement, where a clean-up without a
\* landing pad leads (exception.c:122): a statement has none, or the call of a clean-up
\* in which an exception has been raised.
Restarted ==
    /\ Running /\ Top.slot = 0 /\ Top.cleaned = 1
    /\ \E i \in DOMAIN table[Top.fn] :
          LET s == table[Top.fn][i]
          IN  CleanupOnly(s) /\ s.pad <= Body /\ (s.from <= Body \/ nested)

\* Each exception comes to a handler or ends the program: neither the walk over the
\* action records (exception.c:137) nor clean-ups keep it for ever or lose it.  It is
\* lost only where a clean-up without a landing pad restarts its function.
OnItsWay  == status = "running" /\ (unw.phase # "none" \/ Cleaning)
RaiseEnds ==
    OnItsWay ~> \/ status \in {"uncaught", "fatal", "undefined"}
                \/ Handling
                \/ Restarted
=============================================================================
