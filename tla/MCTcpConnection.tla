--------------------------- MODULE MCTcpConnection ---------------------------
(***************************************************************************)
(* Instances of TcpConnection for TLC: two threads, two messages and room  *)
(* for two chains of writes, so that overlapping can happen.               *)
(***************************************************************************)
EXTENDS TcpConnection

CONSTANTS t1, t2, m1, m2, w1, w2
=============================================================================
