------------------------------- MODULE MCKHeap -------------------------------
(***************************************************************************)
(* Bounds for model-checking KHeap: a header of 2 bytes, pages of 6.       *)
(***************************************************************************)
EXTENDS KHeap

CONSTANTS t1, t2

MCOne   == {t1}
MCTwo   == {t1, t2}
MCSizes == {1, 3, 4, 6}
MCSmall == {1, 2}

==============================================================================
