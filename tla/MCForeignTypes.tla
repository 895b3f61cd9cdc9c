---------------------------- MODULE MCForeignTypes ----------------------------
EXTENDS ForeignTypes

\* Two images have a record of class D, whose superclass is C, and one of
\* them a record of C; E has no initialization function.
MCRecord == {"D1", "D2", "C1", "E1"}
MCName == {"D", "C", "E"}
MCNameOf == [D1 |-> "D", D2 |-> "D", C1 |-> "C", E1 |-> "E"]
MCHasInit == {"D1", "D2", "C1"}
MCSuperclass == [D1 |-> "C1", D2 |-> "C1", C1 |-> None, E1 |-> None]
==============================================================================
