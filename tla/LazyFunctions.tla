--------------------------- MODULE LazyFunctions ---------------------------
(***************************************************************************)
(* What code generation promises of functions, whatever is in them: a      *)
(* function is generated at most once, when it is first needed; a step     *)
(* works on one function that is being generated and leaves every other    *)
(* one as it is; and what is generated never changes afterwards.           *)
(***************************************************************************)
CONSTANTS Function, Externs

VARIABLES
    phase,   \* how far each function is
    contents \* its basic blocks with their instructions

vars == <<phase, contents>>

Phase == {"untouched", "open", "generated"}

Init ==
    /\ phase = [f \in Function |-> "untouched"]
    /\ contents = [f \in Function |-> <<>>]

\* The contents of the other functions are left as they are.
OnlyChanges(f) == contents' = [contents EXCEPT ![f] = contents'[f]]

\* Only the prototype of an external function is generated.
Declare(f) ==
    /\ f \in Externs
    /\ phase[f] = "untouched"
    /\ phase' = [phase EXCEPT ![f] = "generated"]
    /\ UNCHANGED contents

Open(f) ==
    /\ f \notin Externs
    /\ phase[f] = "untouched"
    /\ phase' = [phase EXCEPT ![f] = "open"]
    /\ OnlyChanges(f)

Extend(f) ==
    /\ phase[f] = "open"
    /\ OnlyChanges(f)
    /\ UNCHANGED phase

Close(f) ==
    /\ phase[f] = "open"
    /\ phase' = [phase EXCEPT ![f] = "generated"]
    /\ OnlyChanges(f)

Next == \E f \in Function : Declare(f) \/ Open(f) \/ Extend(f) \/ Close(f)

Spec == Init /\ [][Next]_vars
=============================================================================
