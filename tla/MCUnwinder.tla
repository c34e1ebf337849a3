----------------------------- MODULE MCUnwinder -----------------------------
(* An instance of Unwinder for TLC.  The tables are those of functions of two
   statements: one without any, one that cleans up after both, one with two handlers
   around the first statement, a clean-up after the second one and after the first
   handler, and one whose first statement has no landing pad and whose second one has
   a handler and a clean-up in one call site. *)
EXTENDS Unwinder

SiteOf(from, to, pad, actions) ==
    [from |-> from, to |-> to, pad |-> pad, actions |-> actions]

\* The pad of a clean-up has two slots, the second for _Unwind_Resume().  They have
\* no landing pad themselves.
MCTables ==
    {<<>>,
     <<SiteOf(1, 2, 3, <<>>), SiteOf(3, 4, 1, <<>>)>>,
     <<SiteOf(1, 1, 3, <<1, 2>>), SiteOf(2, 3, 4, <<>>), SiteOf(4, 5, 1, <<>>)>>,
     <<SiteOf(1, 1, 1, <<>>), SiteOf(2, 2, 3, <<2, 0>>)>>}
=============================================================================
