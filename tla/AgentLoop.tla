------------------------------ MODULE AgentLoop ------------------------------
(***************************************************************************)
(* ai-agent's POST /v1/agent/query (agent_api.py, agent_runtime.py,        *)
(* scoped_tool.py, mcp_client.py, opa_client.py).  A run is one handling of *)
(* the request: the OPA check of the prompt, up to MaxRounds rounds of the *)
(* model and the tools it calls, the OPA filter of the answer.  A tool call *)
(* on user-mcp is an operation there that takes effect whether or not the  *)
(* run still waits for it.                                                 *)
(* Everything runs on one event loop; a model invocation is synchronous and *)
(* blocks it, so that it is one step here.                                 *)
(***************************************************************************)
EXTENDS Integers, Sequences

CONSTANTS
    Run,
    Plan,           \* the tool calls a model response may carry: sequences of CallKind
    MaxRounds       \* MAX_TOOL_ROUNDS

\* What a tool call names: a tool on user-mcp, the local tool shell or mask_pii, no
\* tool of the registry, or a known tool with arguments that are no object.
CallKind == {"mcp", "shell", "mask_pii", "unknown", "malformed"}

\* What the model's text holds: nothing OPA's patterns (pii_filter.rego) match, or
\* something they match, in a text that is no JSON or in one that is a JSON value
\* other than a string.
Text == {"clean", "plain", "json"}

ASSUME LoopAssumption ==
    /\ MaxRounds \in Nat \ {0}
    /\ Plan \subseteq Seq(CallKind) \ {<<>>}

VARIABLES
    setup,      \* is the user in `admins`, is there an OPA client, is the prompt bad
    discovered, \* the process found user-mcp's tools when it started
    pc,         \* where each run awaits
    round,      \* tool rounds the run has executed
    todo,       \* the tool calls of the round that are left
    op,         \* the run's operation on user-mcp
    effects,    \* operations of the run that took effect
    told,       \* effects reported by the tool messages of the run
    knew,       \* those the model had been told of when it was last invoked
    raw,        \* the model's last text, as it would be answered
    opaFailed,  \* the OPA calls of the run that failed
    outcome     \* how the run ended, as the caller sees it

vars == <<setup, discovered, pc, round, todo, op, effects, told, knew, raw, opaFailed, outcome>>

\* "shell": a shell command runs; "hung": it runs for ever.
Stage == {"off", "injection", "unsafe", "think", "call", "tool", "shell", "hung",
          "filter", "over"}
Outcome == {"none", "answer", "400", "401", "403", "500", "502", "dead"}

TypeOK ==
    /\ setup \in [admin : BOOLEAN, opa : BOOLEAN, injection : BOOLEAN, unsafe : BOOLEAN]
    /\ discovered \in BOOLEAN
    /\ pc \in [Run -> Stage]
    /\ round \in [Run -> 0..MaxRounds]
    /\ todo \in [Run -> Seq(CallKind)]
    /\ op \in [Run -> {"none", "running", "effective", "refused"}]
    /\ effects \in [Run -> Nat] /\ told \in [Run -> Nat] /\ knew \in [Run -> Nat]
    /\ raw \in [Run -> Text]
    /\ opaFailed \in [Run -> SUBSET {"prompt", "answer"}]
    /\ outcome \in [Run -> Outcome]

Init ==
    /\ setup \in [admin : BOOLEAN, opa : BOOLEAN, injection : BOOLEAN, unsafe : BOOLEAN]
    /\ discovered \in BOOLEAN
    /\ pc = [r \in Run |-> "off"]
    /\ round = [r \in Run |-> 0]
    /\ todo = [r \in Run |-> <<>>]
    /\ op = [r \in Run |-> "none"]
    /\ effects = [r \in Run |-> 0]
    /\ told = [r \in Run |-> 0]
    /\ knew = [r \in Run |-> 0]
    /\ raw = [r \in Run |-> "clean"]
    /\ opaFailed = [r \in Run |-> {}]
    /\ outcome = [r \in Run |-> "none"]

-----------------------------------------------------------------------------
(* How a run goes on. *)

Goto(r, stage) == pc' = [pc EXCEPT ![r] = stage] /\ UNCHANGED outcome
End(r, how) == pc' = [pc EXCEPT ![r] = "over"] /\ outcome' = [outcome EXCEPT ![r] = how]

\* (Mutant of Finish: the filter is applied for the wrong users.)
FinishSwapped(r) ==
    IF setup.opa /\ setup.admin THEN Goto(r, "filter") ELSE End(r, "answer")

\* The text of the last model response is answered, filtered for non-admins.
Finish(r) ==
    IF setup.opa /\ ~setup.admin THEN Goto(r, "filter") ELSE End(r, "answer")

\* Everything but pc and outcome stays, with the given exceptions.
KeepAll == UNCHANGED <<setup, discovered, round, todo, op, effects, told, knew, raw, opaFailed>>
KeepLoop == UNCHANGED <<setup, discovered>>

-----------------------------------------------------------------------------
(* The handler. *)

\* The request arrives: a bearer token that is missing or has expired is refused.
Accept(r) ==
    /\ pc[r] = "off"
    /\ \/ Goto(r, IF setup.opa THEN "injection" ELSE "think")
       \/ End(r, "401")
    /\ KeepAll

\* deny_if_unsafe_prompt asks OPA twice; it fails open, also when the first answer
\* was that the prompt is an injection.
CheckFails(r) ==
    /\ pc[r] \in {"injection", "unsafe"}
    /\ opaFailed' = [opaFailed EXCEPT ![r] = @ \cup {"prompt"}]
    /\ Goto(r, "think")
    /\ KeepLoop /\ UNCHANGED <<round, todo, op, effects, told, knew, raw>>

\* (Mutant of Check: the second verdict replaces the first.)
CheckLast(r) ==
    /\ \/ pc[r] = "injection" /\ Goto(r, "unsafe")
       \/ /\ pc[r] = "unsafe"
          /\ IF setup.unsafe THEN End(r, "403") ELSE Goto(r, "think")
    /\ KeepAll

Check(r) ==
    /\ \/ pc[r] = "injection" /\ Goto(r, "unsafe")
       \/ /\ pc[r] = "unsafe"
          /\ IF setup.injection \/ setup.unsafe THEN End(r, "403") ELSE Goto(r, "think")
    /\ KeepAll

\* llm.invoke fails: 502, in whatever round.
ThinkFails(r) == pc[r] = "think" /\ End(r, "502") /\ KeepAll

\* The model answers in text, or with tool calls and maybe a text.
Think(r) ==
    /\ pc[r] = "think"
    /\ knew' = [knew EXCEPT ![r] = told[r]]
    /\ \E text \in Text : raw' = [raw EXCEPT ![r] = text]
    /\ \/ Finish(r) /\ UNCHANGED todo
       \/ /\ \E plan \in Plan : todo' = [todo EXCEPT ![r] = plan]
          /\ Goto(r, "call")
    /\ KeepLoop /\ UNCHANGED <<round, op, effects, told, opaFailed>>

\* The next call of the round is taken.
Takes(r, kinds) ==
    /\ pc[r] = "call" /\ todo[r] # <<>> /\ Head(todo[r]) \in kinds
    /\ todo' = [todo EXCEPT ![r] = Tail(@)]

\* A tool that is not in the registry is skipped without a tool message; user-mcp's
\* tools are in it only if they were discovered when the process started.
Skip(r) ==
    /\ Takes(r, IF discovered THEN {"unknown"} ELSE {"unknown", "mcp"})
    /\ KeepLoop /\ UNCHANGED <<pc, outcome, round, op, effects, told, knew, raw, opaFailed>>

Malformed(r) ==
    /\ Takes(r, {"malformed"})
    /\ End(r, "400")
    /\ KeepLoop /\ UNCHANGED <<round, op, effects, told, knew, raw, opaFailed>>

\* mask_pii, whose calls of Vault have timeouts, returns or raises.
MaskPii(r) ==
    /\ Takes(r, {"mask_pii"})
    /\ UNCHANGED <<pc, outcome>> \/ End(r, "500")
    /\ KeepLoop /\ UNCHANGED <<round, op, effects, told, knew, raw, opaFailed>>

\* shell runs a command, in a thread of the executor: the event loop goes on.
Shell(r) ==
    /\ Takes(r, {"shell"})
    /\ Goto(r, "shell")
    /\ KeepLoop /\ UNCHANGED <<round, op, effects, told, knew, raw, opaFailed>>

\* subprocess.run returns or raises ...
ShellEnds(r) ==
    /\ pc[r] = "shell"
    /\ Goto(r, "call") \/ End(r, "500")
    /\ KeepAll

\* ... or, since it has no timeout, never returns.
ShellHangs(r) ==
    /\ pc[r] = "shell"
    /\ Goto(r, "hung")
    /\ KeepAll

\* The wrapper of a user-mcp tool resolves the OBO token: a refused exchange is a
\* tool message, an exception that is no AppError ends the run.
NoToken(r) ==
    /\ discovered /\ Takes(r, {"mcp"})
    /\ UNCHANGED <<pc, outcome>> \/ End(r, "500")
    /\ KeepLoop /\ UNCHANGED <<round, op, effects, told, knew, raw, opaFailed>>

\* It calls the tool and awaits it.
Invoke(r) ==
    /\ discovered /\ Takes(r, {"mcp"})
    /\ op' = [op EXCEPT ![r] = "running"]
    /\ Goto(r, "tool")
    /\ KeepLoop /\ UNCHANGED <<round, effects, told, knew, raw, opaFailed>>

\* The tool's output, or "insufficient_scope", becomes a tool message.
Output(r) ==
    /\ pc[r] = "tool" /\ op[r] \in {"effective", "refused"}
    /\ op' = [op EXCEPT ![r] = "none"]
    /\ told' = IF op[r] = "effective" THEN [told EXCEPT ![r] = @ + 1] ELSE told
    /\ Goto(r, "call")
    /\ KeepLoop /\ UNCHANGED <<round, todo, effects, knew, raw, opaFailed>>

\* (Mutant of ToolFails: what goes wrong with user-mcp becomes a tool message.)
ToolFailsAsMessage(r) ==
    /\ pc[r] = "tool"
    /\ Goto(r, "call")
    /\ KeepAll

\* (Mutant of ToolFails: no timeout.)
ToolFailsIfAnswered(r) ==
    /\ pc[r] = "tool" /\ op[r] # "running"
    /\ End(r, "500") \/ (op[r] = "refused" /\ End(r, "403"))
    /\ KeepAll

\* An error of user-mcp, ext_authz's 403, a lost connection or one of the 180 s
\* timeouts ends the run; the operation goes on.
ToolFails(r) ==
    /\ pc[r] = "tool"
    /\ End(r, "500") \/ (op[r] = "refused" /\ End(r, "403"))
    /\ KeepAll

\* (Mutant of EndRound: the rounds are not counted.)
EndRoundForever(r) ==
    /\ pc[r] = "call" /\ todo[r] = <<>>
    /\ round' = [round EXCEPT ![r] = @ + 1]
    /\ Goto(r, "think")
    /\ KeepLoop /\ UNCHANGED <<todo, op, effects, told, knew, raw, opaFailed>>

\* The round is over: the model is invoked again, MaxRounds times at most; then the
\* text of its last response is the answer, though it carried the calls.
EndRound(r) ==
    /\ pc[r] = "call" /\ todo[r] = <<>>
    /\ round' = [round EXCEPT ![r] = @ + 1]
    /\ IF round[r] + 1 < MaxRounds THEN Goto(r, "think") ELSE Finish(r)
    /\ KeepLoop /\ UNCHANGED <<todo, op, effects, told, knew, raw, opaFailed>>

\* What is answered of a text OPA has been asked about: masked_result of a plain text
\* is the masked text; of a JSON text it is the value the policy unmarshals, or
\* undefined where masking broke it, and the caller returns the text as it was.
Sanitized(text) == IF text = "json" THEN "json" ELSE "clean"

\* sanitize_response asks OPA, or fails open.
Filter(r) ==
    /\ pc[r] = "filter"
    /\ \/ raw' = [raw EXCEPT ![r] = Sanitized(@)] /\ UNCHANGED opaFailed
       \/ opaFailed' = [opaFailed EXCEPT ![r] = @ \cup {"answer"}] /\ UNCHANGED raw
    /\ End(r, "answer")
    /\ KeepLoop /\ UNCHANGED <<round, todo, op, effects, told, knew>>

RunStep(r) ==
    \/ CheckFails(r) \/ Check(r) \/ ThinkFails(r) \/ Think(r) \/ Skip(r) \/ Malformed(r)
    \/ MaskPii(r) \/ Shell(r) \/ ShellEnds(r) \/ ShellHangs(r) \/ NoToken(r)
    \/ Invoke(r) \/ Output(r) \/ ToolFails(r) \/ EndRound(r) \/ Filter(r)

-----------------------------------------------------------------------------
(* user-mcp, and the process. *)

\* An operation takes effect or does not, whoever still waits for it.
Operate(r) ==
    /\ op[r] = "running"
    /\ \/ /\ op' = [op EXCEPT ![r] = "effective"]
          /\ effects' = [effects EXCEPT ![r] = @ + 1]
       \/ op' = [op EXCEPT ![r] = "refused"] /\ UNCHANGED effects
    /\ KeepLoop /\ UNCHANGED <<pc, outcome, round, todo, told, knew, raw, opaFailed>>

\* The process restarts: its runs die, and discovery is tried once more.
Restart ==
    LET dies(r) == pc[r] \notin {"off", "over"}
    IN /\ pc' = [r \in Run |-> IF dies(r) THEN "over" ELSE pc[r]]
       /\ outcome' = [r \in Run |-> IF dies(r) THEN "dead" ELSE outcome[r]]
       /\ discovered' \in BOOLEAN
       /\ UNCHANGED <<setup, round, todo, op, effects, told, knew, raw, opaFailed>>

-----------------------------------------------------------------------------
Next ==
    \/ \E r \in Run : Accept(r) \/ RunStep(r) \/ Operate(r)
    \/ Restart

Spec == Init /\ [][Next]_vars

\* The event loop turns: HTTP calls answer or time out (OPA 5 s, the model 180 s,
\* user-mcp 180 s, Vault 10 s).  A shell command ends or hangs (tools.py gives it no
\* timeout).  Requests, user-mcp's operations and restarts are free.
FairSpec == Spec /\ \A r \in Run : WF_vars(RunStep(r))

-----------------------------------------------------------------------------
(* Properties. *)

\* A prompt OPA calls an injection or unsafe (opa_client.py deny_if_unsafe_prompt)
\* reaches the model, and through it the tools, only in a run whose check failed.
PromptChecked ==
    \A r \in Run :
        (setup.opa /\ (setup.injection \/ setup.unsafe)
            /\ (pc[r] \in {"think", "call", "tool", "shell", "hung", "filter"}
                    \/ op[r] # "none" \/ effects[r] > 0 \/ outcome[r] = "answer"))
        => "prompt" \in opaFailed[r]

\* The text the run answers with (agent_runtime.py handle_request) was written by a
\* model that had been told of every operation of the run that took effect, unless
\* the rounds ran out; even then every effect has its tool message.
AnswerKnowsEffects ==
    \A r \in Run :
        outcome[r] = "answer" =>
            /\ told[r] = effects[r]
            /\ round[r] < MaxRounds => knew[r] = effects[r]

\* The last text the model wrote reaches a user outside `admins` with OPA's masks on
\* everything its patterns match, in whatever round it was written and whether or not
\* the rounds ran out, except where sanitize_response cannot apply them: the call of
\* OPA failed, or the text is JSON, for which the policy returns no string.
AnswerFiltered ==
    \A r \in Run :
        (outcome[r] = "answer" /\ raw[r] # "clean" /\ setup.opa /\ ~setup.admin)
        => "answer" \in opaFailed[r] \/ raw[r] = "json"

\* Seen from the caller, the handler is a run (AgentRun): it answers only with no
\* operation under way on user-mcp.
StageOf(r) == CASE pc[r] = "off" -> "off" [] pc[r] = "over" -> "over" [] OTHER -> "busy"
ResultOf(r) == IF outcome[r] \in {"none", "answer", "dead"} THEN outcome[r] ELSE "error"

AR == INSTANCE AgentRun WITH
    stage <- [r \in Run |-> StageOf(r)],
    result <- [r \in Run |-> ResultOf(r)],
    running <- {r \in Run : op[r] = "running"},
    touched <- {r \in Run : effects[r] > 0}

RunImplemented == AR!RunSafe

\* Every run ends, also when user-mcp never answers its call, or hangs in a shell
\* command that never ends: the client's timeouts (mcp_client.py) and the bound on the
\* rounds see to the rest.
RunsEnd == \A r \in Run : pc[r] # "off" ~> pc[r] \in {"over", "hung"}

-----------------------------------------------------------------------------
(* The inductive invariant behind the safety properties. *)

\* What is settled at each stage of a run.
Phases ==
    \A r \in Run :
        /\ pc[r] # "over" => outcome[r] = "none"
        /\ outcome[r] = "answer" => op[r] = "none"
        /\ op[r] # "none" => pc[r] \in {"tool", "over"}
        /\ pc[r] \in {"off", "injection", "unsafe"} => effects[r] = 0
        /\ pc[r] \notin {"filter", "over"} => round[r] < MaxRounds

\* The effects of a run are those its messages report and the one under way; a run
\* that filters its answer before the rounds ran out gave it knowing of them.
Accounts ==
    \A r \in Run :
        /\ pc[r] # "over" =>
              effects[r] = told[r] + (IF op[r] = "effective" THEN 1 ELSE 0)
        /\ (pc[r] = "filter" /\ round[r] < MaxRounds) => knew[r] = told[r]

Inv == TypeOK /\ Phases /\ Accounts /\ PromptChecked /\ AnswerKnowsEffects /\ AnswerFiltered
==============================================================================
