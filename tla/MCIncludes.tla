----------------------------- MODULE MCIncludes -----------------------------
EXTENDS Includes
=============================================================================
