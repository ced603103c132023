--------------------------- MODULE MCTraceRecorder ---------------------------
(* TraceRecorder with two iterations of the prompt's turn, beside them one *)
(* of an announcement with two exec commands, and one of a subagent; the   *)
(* paths of the root are interchangeable.                                  *)
EXTENDS TraceRecorder

MCBatches ==
    [prompt |-> {<<"other", "exec">>}, announced |-> {<<"exec", "exec">>},
     sub |-> {<<"exec">>}]
MCIterationLimits == [prompt |-> 2, announced |-> 1, sub |-> 1]
MCSymmetry == Permutations(Paths)
=============================================================================
