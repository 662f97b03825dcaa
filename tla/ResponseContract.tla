-------------------------- MODULE ResponseContract --------------------------
(***************************************************************************)
(* What the documentation promises of the responses of a stub: "a circular *)
(* buffer - every time the stub is used for the request, the first         *)
(* response is pulled from the front of the responses array"               *)
(* (web/templates/docs/api/stubs.html), and a response with a repeat       *)
(* behaviour is returned that number of times before moving on.  Every     *)
(* call of NextResponse is one atomic step.                                *)
(***************************************************************************)
EXTENDS Integers

CONSTANTS
  N,       \* number of responses of the stub
  Repeat   \* Response.Repeat of each, 0 when it is not given

VARIABLES
  turn,    \* how often the buffer has moved on
  used,    \* how often the response at the front has been returned
  last     \* the response returned last, -1 before the first call

contractVars == <<turn, used, last>>

\* The number of times a response is returned in a row.
Times(i) == IF Repeat[i] = 0 THEN 1 ELSE Repeat[i]

ContractInit == turn = 0 /\ used = 0 /\ last = -1

\* Return the front response; move on when it has been returned often enough.
Serve ==
  /\ last' = turn % N
  /\ \/ /\ used + 1 >= Times(turn % N)
        /\ turn' = turn + 1
        /\ used' = 0
     \/ /\ used + 1 < Times(turn % N)
        /\ used' = used + 1
        /\ UNCHANGED turn

ContractSpec == ContractInit /\ [][Serve]_contractVars
=============================================================================
