------------------------------ MODULE MCPollLoop ------------------------------
(***************************************************************************)
(* Model-checking instance of PollLoop: 6-bit durations (-32..31), small   *)
(* intervals so that doubling reaches the cap within the attempt budget.   *)
(***************************************************************************)
EXTENDS PollLoop
=============================================================================
