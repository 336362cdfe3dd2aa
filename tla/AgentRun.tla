------------------------------- MODULE AgentRun -------------------------------
(***************************************************************************)
(* What a caller of ai-agent's POST /v1/agent/query can rely on.  A run is *)
(* one handling of the request.  It has at most one operation under way on *)
(* user-mcp, which takes effect or not whether or not the run still waits  *)
(* for it; it answers only when none is under way, it may end with an      *)
(* error at any moment.  Prompt checks, tool rounds, tokens and tool       *)
(* messages are not visible.                                               *)
(***************************************************************************)
CONSTANT Run

VARIABLES
    stage,      \* "off", "busy", "over"
    result,     \* what the caller was answered; "dead" if the process died
    running,    \* the runs with an operation under way on user-mcp
    touched     \* the runs of which an operation took effect

runVars == <<stage, result, running, touched>>

RunTypeOK ==
    /\ stage \in [Run -> {"off", "busy", "over"}]
    /\ result \in [Run -> {"none", "answer", "error", "dead"}]
    /\ running \subseteq Run
    /\ touched \subseteq Run

RunInit ==
    /\ stage = [r \in Run |-> "off"]
    /\ result = [r \in Run |-> "none"]
    /\ running = {}
    /\ touched = {}

Ends(r, how) ==
    /\ stage' = [stage EXCEPT ![r] = "over"]
    /\ result' = [result EXCEPT ![r] = how]
    /\ UNCHANGED <<running, touched>>

\* The request arrives, and is refused if its bearer token is no good.
Accept(r) ==
    /\ stage[r] = "off"
    /\ \/ stage' = [stage EXCEPT ![r] = "busy"] /\ UNCHANGED <<result, running, touched>>
       \/ Ends(r, "error")

Call(r) ==
    /\ stage[r] = "busy" /\ r \notin running
    /\ running' = running \cup {r}
    /\ UNCHANGED <<stage, result, touched>>

Operate(r) ==
    /\ r \in running
    /\ running' = running \ {r}
    /\ touched' = touched \/ touched' = touched \cup {r}
    /\ UNCHANGED <<stage, result>>

Answers(r) == stage[r] = "busy" /\ r \notin running /\ Ends(r, "answer")

Fails(r) == stage[r] = "busy" /\ Ends(r, "error")

\* The process dies, and its runs with it.
Dies ==
    /\ stage' = [r \in Run |-> IF stage[r] = "busy" THEN "over" ELSE stage[r]]
    /\ result' = [r \in Run |-> IF stage[r] = "busy" THEN "dead" ELSE result[r]]
    /\ UNCHANGED <<running, touched>>

RunNext ==
    \/ \E r \in Run : Accept(r) \/ Call(r) \/ Operate(r) \/ Answers(r) \/ Fails(r)
    \/ Dies

RunSafe == RunInit /\ [][RunNext]_runVars
===============================================================================
