---------------------------- MODULE MCFileMapper ----------------------------
(* Two elements of one cell and one of two.                                *)
EXTENDS FileMapper
CONSTANTS a, b, c
MCSize == [v \in {a, b, c} |-> IF v = c THEN 2 ELSE 1]
=============================================================================
