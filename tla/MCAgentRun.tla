----------------------------- MODULE MCAgentRun -----------------------------
(* The answers TLC lets a model give.                                      *)
EXTENDS AgentRun

MCCallLists ==
  {<<"read">>, <<"read", "fetch">>, <<"read", "exec", "fetch">>, <<"exec", "exec">>,
   <<"nosuch", "exec">>, <<"read", "fetch", "read">>,
   <<"fetch", "read", "read", "read">>}
=============================================================================
