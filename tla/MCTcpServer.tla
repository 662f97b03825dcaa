---------------------------- MODULE MCTcpServer ----------------------------
(* A small instance of TcpServer for TLC. *)
EXTENDS TcpServer

CONSTANTS k1, k2

\* A script that wants two bytes.
TwoBytes(n) == IF n < 2 THEN "incomplete" ELSE "complete"
=============================================================================
