--------------------------- MODULE MCMockStorage ---------------------------
(***************************************************************************)
(* MockStorage for TLC: one stored type, one non-default value, one-bit    *)
(* bytes and a certified-data limit of 2 bytes standing for 32.            *)
(***************************************************************************)
EXTENDS MockStorage

CONSTANTS T1, v1, d0

MCTypes == {T1}

MCVals == {v1}

MCStableArgs == {<< >>, <<v1>>, <<v1, d0>>}
=============================================================================
