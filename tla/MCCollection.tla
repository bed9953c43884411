---------------------------- MODULE MCCollection ----------------------------
(***************************************************************************)
(* Small instances of the collection for TLC.                              *)
(***************************************************************************)
EXTENDS CollectionHistory

CONSTANTS p1, p2, v1, v2

NoQuery     == {<<>>}
TwoQueries  == {<<>>, <<<<1, v1>>>>, <<<<1, v1>>, <<2, v1>>>>}
NoIndexDef  == {}
OneIndexDef == {<<1>>}
TwoIndexDefs == {<<1>>, <<2>>}

=============================================================================
