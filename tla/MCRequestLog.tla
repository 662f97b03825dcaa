---------------------------- MODULE MCRequestLog ----------------------------
(* Small instances of RequestLog for TLC. *)
EXTENDS RequestLog, TLC

CONSTANTS h1, h2, x1, x2

Symmetric == Permutations(Handlers) \cup Permutations(Resetters)
=============================================================================
