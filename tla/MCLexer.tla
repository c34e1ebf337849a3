------------------------------ MODULE MCLexer ------------------------------
(* An instance of Lexer for TLC: `a` alone is a keyword. *)
EXTENDS Lexer

MCKeywords == {<<"a">>}
=============================================================================
