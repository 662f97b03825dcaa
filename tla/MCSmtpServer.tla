---------------------------- MODULE MCSmtpServer ----------------------------
(* A small instance of SmtpServer for TLC. *)
EXTENDS SmtpServer

CONSTANTS k1, k2
=============================================================================
