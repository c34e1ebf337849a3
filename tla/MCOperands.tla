---------------------------- MODULE MCOperands -----------------------------
(* An instance of Operands for TLC: a function of one parameter, a variadic one of
   one parameter, which is `self`, and a variadic one that is only declared. *)
EXTENDS Operands

MCParameters == [f \in Functions |-> IF f = "printf" THEN 0 ELSE 1]

\* What may follow a number, of the lengths 1, 2 and 5 that a type has here or not.
MCSuffixes == {[letter |-> "none", len |-> 0], [letter |-> "u", len |-> 2],
               [letter |-> "i", len |-> 3], [letter |-> "f", len |-> 5],
               [letter |-> "f", len |-> 1], [letter |-> "other", len |-> 2]}
=============================================================================
