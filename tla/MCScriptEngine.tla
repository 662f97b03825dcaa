--------------------------- MODULE MCScriptEngine ---------------------------
(* A small instance of ScriptEngine for TLC. *)
EXTENDS ScriptEngine

CONSTANTS t1, t2, v1, v2
=============================================================================
