--------------------------- MODULE MCGenericTypes ---------------------------
EXTENDS GenericTypes
=============================================================================
