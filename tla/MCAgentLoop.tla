----------------------------- MODULE MCAgentLoop -----------------------------
(* Instances of AgentLoop for TLC. *)
EXTENDS AgentLoop

\* A call that runs, two calls, a call after one that does not run, a response whose
\* last call does not parse, the local tools.
ThePlans == {<<"mcp">>, <<"mcp", "mcp">>, <<"unknown", "mcp">>, <<"mcp", "malformed">>,
             <<"mask_pii">>, <<"shell", "mcp">>}
==============================================================================
