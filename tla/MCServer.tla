------------------------------ MODULE MCServer ------------------------------
(* A small instance of Server: one worker, two connections, one of them of  *)
(* a client that may stop reading.                                          *)
EXTENDS Server

CONSTANTS w1, k1, k2
=============================================================================
