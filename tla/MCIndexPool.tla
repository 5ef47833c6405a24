---------------------------- MODULE MCIndexPool ----------------------------
(* An IndexPool of up to three listed keys out of five.                     *)
EXTENDS IndexPool

CONSTANT x1
=============================================================================
