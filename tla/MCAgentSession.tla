--------------------------- MODULE MCAgentSession ---------------------------
(***************************************************************************)
(* Three kinds of behaviour: prompts of successive processes on one        *)
(* session (the CLI's resume), three short ones with an exception or two   *)
(* longer ones with a kill too; and one run whose turn spawns two          *)
(* subagents.                                                              *)
(***************************************************************************)
EXTENDS AgentSession

MCPlans == {
    [runs |-> 3, iterations |-> 1, spawns |-> 0, faults |-> 1, crashes |-> 0],
    [runs |-> 2, iterations |-> 2, spawns |-> 0, faults |-> 1, crashes |-> 1],
    [runs |-> 1, iterations |-> 1, spawns |-> 2, faults |-> 2, crashes |-> 0]}
=============================================================================
