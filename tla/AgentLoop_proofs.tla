--------------------------- MODULE AgentLoop_proofs ---------------------------
(***************************************************************************)
(* Proofs about AgentLoop, for every set of runs, every set of plans and   *)
(* every bound on the rounds: the inductive invariant Inv, the safety      *)
(* properties it contains, that every step of the handler is a step of     *)
(* AgentRun or none, and that each takes the run towards its end.          *)
(***************************************************************************)
EXTENDS AgentLoop, TLAPS

-----------------------------------------------------------------------------
(* Types. *)

LEMMA PlansTyped ==
    ASSUME NEW plan \in Plan
    PROVE  plan \in Seq(CallKind)
BY LoopAssumption

LEMMA TailTyped ==
    ASSUME TypeOK, NEW r \in Run, NEW kinds, Takes(r, kinds)
    PROVE  todo' \in [Run -> Seq(CallKind)]
<1>1. todo[r] \in Seq(CallKind) /\ todo[r] # <<>>
    BY DEF TypeOK, Takes
<1>2. Tail(todo[r]) \in Seq(CallKind)
    BY <1>1
<1> QED BY <1>2 DEF Takes, TypeOK

LEMMA GotoTyped ==
    ASSUME TypeOK, NEW r \in Run, NEW s \in Stage, Goto(r, s)
    PROVE  pc' \in [Run -> Stage] /\ outcome' \in [Run -> Outcome]
BY DEF TypeOK, Goto

LEMMA EndTyped ==
    ASSUME TypeOK, NEW r \in Run, NEW how \in Outcome, End(r, how)
    PROVE  pc' \in [Run -> Stage] /\ outcome' \in [Run -> Outcome]
BY DEF TypeOK, End, Stage

LEMMA FinishTyped ==
    ASSUME TypeOK, NEW r \in Run, Finish(r)
    PROVE  pc' \in [Run -> Stage] /\ outcome' \in [Run -> Outcome]
<1>1. "filter" \in Stage /\ "answer" \in Outcome
    BY DEF Stage, Outcome
<1> QED BY <1>1, GotoTyped, EndTyped DEF Finish

\* Every action of a run keeps the types.
LEMMA RunType ==
    ASSUME TypeOK, Phases, NEW r \in Run, Accept(r) \/ RunStep(r) \/ Operate(r)
    PROVE  TypeOK'
<1> USE DEF KeepAll, KeepLoop
<1>1. CASE Accept(r)
    <2>1. /\ "injection" \in Stage /\ "think" \in Stage /\ "401" \in Outcome
        BY DEF Stage, Outcome
    <2> QED BY <1>1, <2>1, GotoTyped, EndTyped DEF Accept, TypeOK
<1>2. CASE CheckFails(r)
    BY <1>2, GotoTyped DEF CheckFails, TypeOK, Stage
<1>3. CASE Check(r)
    <2>1. /\ "unsafe" \in Stage /\ "think" \in Stage /\ "403" \in Outcome
        BY DEF Stage, Outcome
    <2> QED BY <1>3, <2>1, GotoTyped, EndTyped DEF Check, TypeOK
<1>4. CASE ThinkFails(r)
    BY <1>4, EndTyped DEF ThinkFails, TypeOK, Outcome
<1>5. CASE Think(r)
    <2>1. knew' \in [Run -> Nat] /\ raw' \in [Run -> Text]
        BY <1>5 DEF Think, TypeOK
    <2>2. todo' \in [Run -> Seq(CallKind)]
        BY <1>5, PlansTyped DEF Think, TypeOK
    <2>3. pc' \in [Run -> Stage] /\ outcome' \in [Run -> Outcome]
        <3>1. CASE Finish(r)
            BY <3>1, FinishTyped
        <3>2. CASE Goto(r, "call")
            BY <3>2, GotoTyped DEF Stage
        <3> QED BY <1>5, <3>1, <3>2 DEF Think
    <2> QED BY <1>5, <2>1, <2>2, <2>3 DEF Think, TypeOK
<1>6. CASE Skip(r)
    <2>1. todo' \in [Run -> Seq(CallKind)]
        BY <1>6, TailTyped DEF Skip
    <2> QED BY <1>6, <2>1 DEF Skip, TypeOK
<1>7. CASE Malformed(r) \/ MaskPii(r) \/ NoToken(r)
    <2>1. todo' \in [Run -> Seq(CallKind)]
        BY <1>7, TailTyped DEF Malformed, MaskPii, NoToken
    <2>2. pc' \in [Run -> Stage] /\ outcome' \in [Run -> Outcome]
        <3>1. CASE UNCHANGED <<pc, outcome>>
            BY <3>1 DEF TypeOK
        <3>2. ASSUME NEW how \in {"400", "500"}, End(r, how)
              PROVE  pc' \in [Run -> Stage] /\ outcome' \in [Run -> Outcome]
            BY <3>2, EndTyped DEF Outcome
        <3> QED BY <1>7, <3>1, <3>2 DEF Malformed, MaskPii, NoToken
    <2> QED BY <1>7, <2>1, <2>2 DEF Malformed, MaskPii, NoToken, TypeOK
<1>8. CASE Invoke(r)
    <2>1. todo' \in [Run -> Seq(CallKind)]
        BY <1>8, TailTyped DEF Invoke
    <2>2. pc' \in [Run -> Stage] /\ outcome' \in [Run -> Outcome]
        BY <1>8, GotoTyped DEF Invoke, Stage
    <2> QED BY <1>8, <2>1, <2>2 DEF Invoke, TypeOK
<1>9. CASE Output(r)
    <2>1. pc' \in [Run -> Stage] /\ outcome' \in [Run -> Outcome]
        BY <1>9, GotoTyped DEF Output, Stage
    <2>2. /\ op' \in [Run -> {"none", "running", "effective", "refused"}]
          /\ told' \in [Run -> Nat]
        BY <1>9 DEF Output, TypeOK
    <2> QED BY <1>9, <2>1, <2>2 DEF Output, TypeOK
<1>10. CASE ToolFails(r)
    <2>1. pc' \in [Run -> Stage] /\ outcome' \in [Run -> Outcome]
        BY <1>10, EndTyped DEF ToolFails, Outcome
    <2> QED BY <1>10, <2>1 DEF ToolFails, TypeOK
<1>11. CASE Filter(r)
    <2>1. pc' \in [Run -> Stage] /\ outcome' \in [Run -> Outcome]
        BY <1>11, EndTyped DEF Filter, Outcome
    <2>2. raw' \in [Run -> Text] /\ opaFailed' \in [Run -> SUBSET {"prompt", "answer"}]
        <3>1. opaFailed[r] \cup {"answer"} \in SUBSET {"prompt", "answer"}
            BY DEF TypeOK
        <3>2. CASE raw' = [raw EXCEPT ![r] = Sanitized(@)] /\ UNCHANGED opaFailed
            BY <3>2 DEF TypeOK, Sanitized, Text
        <3>3. CASE opaFailed' = [opaFailed EXCEPT ![r] = @ \cup {"answer"}] /\ UNCHANGED raw
            BY <3>1, <3>3 DEF TypeOK
        <3> QED BY <1>11, <3>2, <3>3 DEF Filter
    <2> QED BY <1>11, <2>1, <2>2 DEF Filter, TypeOK
<1>12. CASE Operate(r)
    <2>1. /\ op' \in [Run -> {"none", "running", "effective", "refused"}]
          /\ effects' \in [Run -> Nat]
        <3>1. effects[r] + 1 \in Nat
            BY DEF TypeOK
        <3>2. CASE op' = [op EXCEPT ![r] = "refused"] /\ UNCHANGED effects
            BY <3>2 DEF TypeOK
        <3>3. CASE /\ op' = [op EXCEPT ![r] = "effective"]
                   /\ effects' = [effects EXCEPT ![r] = @ + 1]
            BY <3>1, <3>3 DEF TypeOK
        <3> QED BY <1>12, <3>2, <3>3 DEF Operate
    <2> QED BY <1>12, <2>1 DEF Operate, TypeOK
<1>13. CASE EndRound(r)
    <2>1. pc' \in [Run -> Stage] /\ outcome' \in [Run -> Outcome]
        BY <1>13, GotoTyped, FinishTyped DEF EndRound, Stage
    <2>2. round' \in [Run -> 0..MaxRounds]
        <3>1. round[r] < MaxRounds
            BY <1>13 DEF EndRound, Phases
        <3>2. round[r] + 1 \in 0..MaxRounds
            BY <3>1, LoopAssumption DEF TypeOK
        <3> QED BY <1>13, <3>2 DEF EndRound, TypeOK
    <2> QED BY <1>13, <2>1, <2>2 DEF EndRound, TypeOK
<1>14. CASE Shell(r)
    <2>1. todo' \in [Run -> Seq(CallKind)]
        BY <1>14, TailTyped DEF Shell
    <2>2. pc' \in [Run -> Stage] /\ outcome' \in [Run -> Outcome]
        BY <1>14, GotoTyped DEF Shell, Stage
    <2> QED BY <1>14, <2>1, <2>2 DEF Shell, TypeOK
<1>15. CASE ShellEnds(r) \/ ShellHangs(r)
    <2>1. "call" \in Stage /\ "hung" \in Stage /\ "500" \in Outcome
        BY DEF Stage, Outcome
    <2>2. pc' \in [Run -> Stage] /\ outcome' \in [Run -> Outcome]
        BY <1>15, <2>1, GotoTyped, EndTyped DEF ShellEnds, ShellHangs
    <2> QED BY <1>15, <2>2 DEF ShellEnds, ShellHangs, TypeOK
<1> QED BY <1>1, <1>2, <1>3, <1>4, <1>5, <1>6, <1>7, <1>8, <1>9, <1>10, <1>11, <1>12,
           <1>13, <1>14, <1>15 DEF RunStep

-----------------------------------------------------------------------------
(* The inductive invariant, run by run. *)

RunInv(r) ==
    /\ pc[r] # "over" => outcome[r] = "none"
    /\ outcome[r] = "answer" => op[r] = "none"
    /\ op[r] # "none" => pc[r] \in {"tool", "over"}
    /\ pc[r] \in {"off", "injection", "unsafe"} => effects[r] = 0
    /\ pc[r] \notin {"filter", "over"} => round[r] < MaxRounds
    /\ pc[r] # "over" =>
          effects[r] = told[r] + (IF op[r] = "effective" THEN 1 ELSE 0)
    /\ (pc[r] = "filter" /\ round[r] < MaxRounds) => knew[r] = told[r]
    /\ (setup.opa /\ (setup.injection \/ setup.unsafe)
            /\ (pc[r] \in {"think", "call", "tool", "shell", "hung", "filter"}
                    \/ op[r] # "none" \/ effects[r] > 0 \/ outcome[r] = "answer"))
       => "prompt" \in opaFailed[r]
    /\ outcome[r] = "answer" =>
          /\ told[r] = effects[r]
          /\ round[r] < MaxRounds => knew[r] = effects[r]
    /\ (outcome[r] = "answer" /\ raw[r] # "clean" /\ setup.opa /\ ~setup.admin)
       => "answer" \in opaFailed[r] \/ raw[r] = "json"

LEMMA InvByRun == Inv <=> TypeOK /\ \A r \in Run : RunInv(r)
BY DEF Inv, Phases, Accounts, PromptChecked, AnswerKnowsEffects, AnswerFiltered, RunInv

LEMMA InvByRunNext == Inv' <=> TypeOK' /\ \A r \in Run : RunInv(r)'
BY DEF Inv, Phases, Accounts, PromptChecked, AnswerKnowsEffects, AnswerFiltered, RunInv

Same(q) ==
    /\ pc'[q] = pc[q] /\ round'[q] = round[q] /\ op'[q] = op[q]
    /\ effects'[q] = effects[q] /\ told'[q] = told[q] /\ knew'[q] = knew[q]
    /\ raw'[q] = raw[q] /\ opaFailed'[q] = opaFailed[q] /\ outcome'[q] = outcome[q]
    /\ setup' = setup /\ todo'[q] = todo[q]

\* A step of one run leaves every other run alone.
LEMMA OthersSame ==
    ASSUME TypeOK, NEW r \in Run, NEW q \in Run, q # r,
           Accept(r) \/ RunStep(r) \/ Operate(r)
    PROVE  Same(q)
<1> USE DEF KeepAll, KeepLoop, Same, Goto, End, Finish, Takes
<1>1. CASE Accept(r)
    BY <1>1 DEF Accept, TypeOK
<1>2. CASE CheckFails(r)
    BY <1>2 DEF CheckFails, TypeOK
<1>3. CASE Check(r)
    BY <1>3 DEF Check, TypeOK
<1>4. CASE ThinkFails(r)
    BY <1>4 DEF ThinkFails, TypeOK
<1>5. CASE Think(r)
    BY <1>5 DEF Think, TypeOK
<1>6. CASE Skip(r)
    BY <1>6 DEF Skip, TypeOK
<1>7. CASE Malformed(r) \/ MaskPii(r) \/ NoToken(r)
    BY <1>7 DEF Malformed, MaskPii, NoToken, TypeOK
<1>8. CASE Invoke(r)
    BY <1>8 DEF Invoke, TypeOK
<1>9. CASE Output(r)
    BY <1>9 DEF Output, TypeOK
<1>10. CASE ToolFails(r)
    BY <1>10 DEF ToolFails, TypeOK
<1>11. CASE Filter(r)
    BY <1>11 DEF Filter, TypeOK
<1>12. CASE Operate(r)
    BY <1>12 DEF Operate, TypeOK
<1>13. CASE EndRound(r)
    BY <1>13 DEF EndRound, TypeOK
<1>14. CASE Shell(r) \/ ShellEnds(r) \/ ShellHangs(r)
    BY <1>14 DEF Shell, ShellEnds, ShellHangs, TypeOK
<1> QED BY <1>1, <1>2, <1>3, <1>4, <1>5, <1>6, <1>7, <1>8, <1>9, <1>10, <1>11, <1>12,
           <1>13, <1>14 DEF RunStep

LEMMA SameKeeps ==
    ASSUME NEW q \in Run, RunInv(q), Same(q)
    PROVE  RunInv(q)'
BY DEF RunInv, Same

\* A step of a run keeps its own part of the invariant.
LEMMA OwnStep ==
    ASSUME TypeOK, NEW r \in Run, RunInv(r), Accept(r) \/ RunStep(r) \/ Operate(r)
    PROVE  RunInv(r)'
<1> USE DEF KeepAll, KeepLoop, Goto, End, Finish, RunInv
<1>1. CASE Accept(r)
    BY <1>1 DEF Accept, TypeOK
<1>2. CASE CheckFails(r)
    BY <1>2 DEF CheckFails, TypeOK
<1>3. CASE Check(r)
    BY <1>3 DEF Check, TypeOK
<1>4. CASE ThinkFails(r)
    BY <1>4 DEF ThinkFails, TypeOK
<1>5. CASE Think(r)
    BY <1>5 DEF Think, TypeOK
<1>6. CASE Skip(r)
    BY <1>6 DEF Skip, Takes, TypeOK
<1>7. CASE Malformed(r) \/ MaskPii(r) \/ NoToken(r)
    BY <1>7 DEF Malformed, MaskPii, NoToken, Takes, TypeOK
<1>8. CASE Invoke(r)
    BY <1>8 DEF Invoke, Takes, TypeOK
<1>9. CASE Output(r)
    BY <1>9 DEF Output, TypeOK
<1>10. CASE ToolFails(r)
    BY <1>10 DEF ToolFails, TypeOK
<1>11. CASE Filter(r)
    BY <1>11 DEF Filter, Sanitized, TypeOK
<1>12. CASE Operate(r)
    BY <1>12 DEF Operate, TypeOK
<1>13. CASE EndRound(r)
    BY <1>13, LoopAssumption DEF EndRound, TypeOK
<1>14. CASE Shell(r) \/ ShellEnds(r) \/ ShellHangs(r)
    BY <1>14 DEF Shell, ShellEnds, ShellHangs, Takes, TypeOK
<1> QED BY <1>1, <1>2, <1>3, <1>4, <1>5, <1>6, <1>7, <1>8, <1>9, <1>10, <1>11, <1>12,
           <1>13, <1>14 DEF RunStep

LEMMA RestartStep ==
    ASSUME Inv, Restart
    PROVE  Inv'
<1>1. TypeOK /\ \A r \in Run : RunInv(r)
    BY InvByRun
<1>2. TypeOK'
    <2>1. "over" \in Stage /\ "dead" \in Outcome
        BY DEF Stage, Outcome
    <2>2. pc' \in [Run -> Stage] /\ outcome' \in [Run -> Outcome]
        BY <1>1, <2>1 DEF Restart, TypeOK
    <2> QED BY <1>1, <2>2 DEF Restart, TypeOK
<1>3. ASSUME NEW r \in Run PROVE RunInv(r)'
    <2>1. RunInv(r)
        BY <1>1
    <2> QED BY <1>1, <2>1 DEF Restart, RunInv, TypeOK
<1> QED BY <1>2, <1>3, InvByRunNext

LEMMA InitInv == Init => Inv
<1> SUFFICES ASSUME Init PROVE Inv
    OBVIOUS
<1>1. TypeOK
    BY LoopAssumption DEF Init, TypeOK, Stage, Outcome, Text
<1>2. ASSUME NEW r \in Run PROVE RunInv(r)
    <2>1. /\ pc[r] = "off" /\ round[r] = 0 /\ op[r] = "none" /\ outcome[r] = "none"
          /\ effects[r] = 0 /\ told[r] = 0
        BY <1>2 DEF Init
    <2>2. 0 < MaxRounds
        BY LoopAssumption
    <2> QED BY <2>1, <2>2 DEF RunInv
<1> QED BY <1>1, <1>2, InvByRun

LEMMA InvStep == Inv /\ [Next]_vars => Inv'
<1> SUFFICES ASSUME Inv, [Next]_vars PROVE Inv'
    OBVIOUS
<1>1. TypeOK /\ Phases /\ \A r \in Run : RunInv(r)
    BY InvByRun DEF Inv
<1>2. ASSUME NEW r \in Run, Accept(r) \/ RunStep(r) \/ Operate(r) PROVE Inv'
    <2>1. TypeOK'
        BY <1>1, <1>2, RunType
    <2>2. ASSUME NEW q \in Run PROVE RunInv(q)'
        <3>1. CASE q = r
            BY <1>1, <1>2, <3>1, OwnStep
        <3>2. CASE q # r
            BY <1>1, <1>2, <3>2, OthersSame, SameKeeps
        <3> QED BY <3>1, <3>2
    <2> QED BY <2>1, <2>2, InvByRunNext
<1>3. CASE UNCHANGED vars
    BY <1>3 DEF vars, Inv, TypeOK, Phases, Accounts, PromptChecked, AnswerKnowsEffects,
                AnswerFiltered
<1> QED BY <1>2, <1>3, RestartStep DEF Next

\* The inductive invariant holds throughout (agent_runtime.py, scoped_tool.py).
THEOREM LoopInvariant == Spec => []Inv
BY InitInv, InvStep, PTL DEF Spec

\* Every variable keeps its type: the rounds of a run never exceed MAX_TOOL_ROUNDS.
THEOREM LoopTypeCorrect == Spec => []TypeOK
BY LoopInvariant, PTL DEF Inv

\* A prompt OPA would refuse reaches the model only when an OPA call failed.
THEOREM PromptIsChecked == Spec => []PromptChecked
BY LoopInvariant, PTL DEF Inv

\* The answer is written knowing of every operation that took effect.
THEOREM AnswerIsInformed == Spec => []AnswerKnowsEffects
BY LoopInvariant, PTL DEF Inv

\* The answer to a user outside `admins` carries OPA's masks, unless its call failed or
\* the answer is JSON (opa_client.py sanitize_response, pii_filter.rego).
THEOREM AnswerIsFiltered == Spec => []AnswerFiltered
BY LoopInvariant, PTL DEF Inv

-----------------------------------------------------------------------------
(* The handler implements AgentRun. *)

LEMMA InitMaps == Init => AR!RunInit
BY DEF Init, AR!RunInit, StageOf, ResultOf

Busy(r) == pc[r] \notin {"off", "over"}

\* What AgentRun sees of the operations is left alone.
OpsStay ==
    /\ {q \in Run : op'[q] = "running"} = {q \in Run : op[q] = "running"}
    /\ {q \in Run : effects'[q] > 0} = {q \in Run : effects[q] > 0}

\* A run that stays at work is not seen to do anything,
LEMMA GotoShows ==
    ASSUME TypeOK, NEW r \in Run, Busy(r), OpsStay,
           NEW s \in Stage \ {"off", "over"}, Goto(r, s) \/ UNCHANGED <<pc, outcome>>
    PROVE  UNCHANGED AR!runVars
<1>1. ASSUME NEW q \in Run PROVE StageOf(q)' = StageOf(q) /\ ResultOf(q)' = ResultOf(q)
    BY DEF Goto, Busy, TypeOK, StageOf, ResultOf
<1> QED BY <1>1 DEF OpsStay, AR!runVars

\* and one that ends answers or fails.
LEMMA EndShows ==
    ASSUME TypeOK, NEW r \in Run, Busy(r), OpsStay,
           NEW how \in Outcome \ {"none", "dead"}, End(r, how),
           how = "answer" => op[r] # "running"
    PROVE  AR!Answers(r) \/ AR!Fails(r)
<1> DEFINE res == IF how = "answer" THEN "answer" ELSE "error"
<1>1. StageOf(r) = "busy"
    BY DEF Busy, StageOf
<1>2. [q \in Run |-> StageOf(q)]' = [[q \in Run |-> StageOf(q)] EXCEPT ![r] = "over"]
    BY DEF End, TypeOK, StageOf
<1>3. [q \in Run |-> ResultOf(q)]' = [[q \in Run |-> ResultOf(q)] EXCEPT ![r] = res]
    BY DEF End, TypeOK, ResultOf
<1>4. AR!Ends(r, res)
    BY <1>2, <1>3 DEF AR!Ends, OpsStay
<1>5. CASE how = "answer"
    BY <1>1, <1>4, <1>5 DEF AR!Answers
<1>6. CASE how # "answer"
    BY <1>1, <1>4, <1>6 DEF AR!Fails
<1> QED BY <1>5, <1>6

LEMMA FinishShows ==
    ASSUME TypeOK, NEW r \in Run, Busy(r), OpsStay, Finish(r), op[r] # "running"
    PROVE  AR!RunNext \/ UNCHANGED AR!runVars
<1>1. CASE Goto(r, "filter")
    BY <1>1, GotoShows DEF Stage
<1>2. CASE End(r, "answer")
    BY <1>2, EndShows DEF Outcome, AR!RunNext
<1> QED BY <1>1, <1>2 DEF Finish

\* Every step of a run is a step of AgentRun or none.
LEMMA RunShows ==
    ASSUME Inv, NEW r \in Run, Accept(r) \/ RunStep(r) \/ Operate(r)
    PROVE  AR!RunNext \/ UNCHANGED AR!runVars
<1> USE DEF KeepAll, KeepLoop
<1>1. TypeOK /\ RunInv(r)
    BY InvByRun
<1>2. ASSUME NEW s \in Stage \ {"off", "over"}, Busy(r), OpsStay,
             Goto(r, s) \/ UNCHANGED <<pc, outcome>>
      PROVE  UNCHANGED AR!runVars
    BY <1>1, <1>2, GotoShows
<1>3. ASSUME NEW how \in Outcome \ {"none", "dead"}, Busy(r), OpsStay, End(r, how),
             how = "answer" => op[r] # "running"
      PROVE  AR!RunNext
    BY <1>1, <1>3, EndShows DEF AR!RunNext
<1>4. {"injection", "unsafe", "think", "call", "tool", "shell", "hung", "filter"}
          = Stage \ {"off", "over"}
    BY DEF Stage
<1>5. {"answer", "400", "401", "403", "500", "502"} = Outcome \ {"none", "dead"}
    BY DEF Outcome
<1>6. CASE Accept(r)
    <2>1. AR!Accept(r)
        <3>1. StageOf(r) = "off" /\ OpsStay
            BY <1>6 DEF Accept, StageOf, OpsStay
        <3>2. CASE \E s \in {"injection", "think"} : Goto(r, s)
            <4>1. [q \in Run |-> StageOf(q)]' = [[q \in Run |-> StageOf(q)] EXCEPT ![r] = "busy"]
                BY <1>1, <3>2 DEF Goto, TypeOK, StageOf
            <4>2. [q \in Run |-> ResultOf(q)]' = [q \in Run |-> ResultOf(q)]
                BY <3>2 DEF Goto, ResultOf
            <4> QED BY <3>1, <4>1, <4>2 DEF AR!Accept, OpsStay
        <3>3. CASE End(r, "401")
            <4>1. [q \in Run |-> StageOf(q)]' = [[q \in Run |-> StageOf(q)] EXCEPT ![r] = "over"]
                BY <1>1, <3>3 DEF End, TypeOK, StageOf
            <4>2. [q \in Run |-> ResultOf(q)]'
                     = [[q \in Run |-> ResultOf(q)] EXCEPT ![r] = "error"]
                BY <1>1, <3>3 DEF End, TypeOK, ResultOf
            <4> QED BY <3>1, <4>1, <4>2 DEF AR!Accept, AR!Ends, OpsStay
        <3> QED BY <1>6, <3>2, <3>3 DEF Accept
    <2> QED BY <2>1 DEF AR!RunNext
<1>7. CASE CheckFails(r)
    BY <1>2, <1>4, <1>7 DEF CheckFails, Busy, OpsStay
<1>8. CASE Check(r)
    BY <1>2, <1>3, <1>4, <1>5, <1>8 DEF Check, Busy, OpsStay
<1>9. CASE ThinkFails(r)
    BY <1>3, <1>5, <1>9 DEF ThinkFails, Busy, OpsStay
<1>10. CASE Think(r)
    <2>1. Busy(r) /\ OpsStay /\ op[r] # "running"
        BY <1>1, <1>10 DEF Think, Busy, OpsStay, RunInv
    <2>2. CASE Finish(r)
        BY <1>1, <2>1, <2>2, FinishShows
    <2>3. CASE Goto(r, "call")
        BY <1>2, <1>4, <2>1, <2>3
    <2> QED BY <1>10, <2>2, <2>3 DEF Think
<1>11. CASE Skip(r)
    BY <1>2, <1>4, <1>11 DEF Skip, Takes, Busy, OpsStay
<1>12. CASE Malformed(r) \/ MaskPii(r) \/ NoToken(r)
    <2>1. Busy(r) /\ OpsStay
        BY <1>12 DEF Malformed, MaskPii, NoToken, Takes, Busy, OpsStay
    <2>2. UNCHANGED <<pc, outcome>> \/ \E how \in {"400", "500"} : End(r, how)
        BY <1>12 DEF Malformed, MaskPii, NoToken
    <2> QED BY <1>2, <1>3, <1>4, <1>5, <2>1, <2>2
<1>13. CASE Output(r)
    <2>1. Busy(r)
        BY <1>13 DEF Output, Busy
    <2>2. OpsStay
        BY <1>1, <1>13 DEF Output, OpsStay, TypeOK
    <2> QED BY <1>2, <1>4, <1>13, <2>1, <2>2 DEF Output
<1>14. CASE ToolFails(r)
    BY <1>3, <1>5, <1>14 DEF ToolFails, Busy, OpsStay
<1>15. CASE Filter(r)
    <2>1. Busy(r) /\ OpsStay /\ op[r] # "running"
        BY <1>1, <1>15 DEF Filter, Busy, OpsStay, RunInv
    <2> QED BY <1>3, <1>5, <1>15, <2>1 DEF Filter
<1>16. CASE EndRound(r)
    <2>1. Busy(r) /\ OpsStay /\ op[r] # "running"
        BY <1>1, <1>16 DEF EndRound, Busy, OpsStay, RunInv
    <2>2. CASE Finish(r)
        BY <1>1, <2>1, <2>2, FinishShows
    <2>3. CASE Goto(r, "think")
        BY <1>2, <1>4, <2>1, <2>3
    <2> QED BY <1>16, <2>2, <2>3 DEF EndRound
<1>17. CASE Invoke(r)
    <2>1. Busy(r) /\ op[r] = "none"
        BY <1>1, <1>17 DEF Invoke, Takes, Busy, RunInv, TypeOK
    <2>2. \A q \in Run : StageOf(q)' = StageOf(q) /\ ResultOf(q)' = ResultOf(q)
        BY <1>1, <1>17, <2>1 DEF Invoke, Goto, Busy, TypeOK, StageOf, ResultOf
    <2>3. {q \in Run : op'[q] = "running"} = {q \in Run : op[q] = "running"} \cup {r}
        BY <1>1, <1>17 DEF Invoke, TypeOK
    <2>4. StageOf(r) = "busy"
        BY <2>1 DEF Busy, StageOf
    <2>5. AR!Call(r)
        BY <1>17, <2>1, <2>2, <2>3, <2>4 DEF AR!Call, Invoke
    <2> QED BY <2>5 DEF AR!RunNext
<1>18. CASE Operate(r)
    <2>1. \A q \in Run : StageOf(q)' = StageOf(q) /\ ResultOf(q)' = ResultOf(q)
        BY <1>18 DEF Operate, StageOf, ResultOf
    <2>2. {q \in Run : op'[q] = "running"} = {q \in Run : op[q] = "running"} \ {r}
        BY <1>1, <1>18 DEF Operate, TypeOK
    <2>3. \/ {q \in Run : effects'[q] > 0} = {q \in Run : effects[q] > 0} \cup {r}
          \/ {q \in Run : effects'[q] > 0} = {q \in Run : effects[q] > 0}
        BY <1>1, <1>18 DEF Operate, TypeOK
    <2>4. AR!Operate(r)
        BY <1>18, <2>1, <2>2, <2>3 DEF AR!Operate, Operate
    <2> QED BY <2>4 DEF AR!RunNext
<1>19. CASE Shell(r)
    BY <1>2, <1>4, <1>19 DEF Shell, Takes, Busy, OpsStay
<1>20. CASE ShellEnds(r) \/ ShellHangs(r)
    <2>1. Busy(r) /\ OpsStay
        BY <1>20 DEF ShellEnds, ShellHangs, Busy, OpsStay
    <2>2. \/ \E s \in {"call", "hung"} : Goto(r, s)
          \/ End(r, "500")
        BY <1>20 DEF ShellEnds, ShellHangs
    <2> QED BY <1>2, <1>3, <1>4, <1>5, <2>1, <2>2
<1> QED BY <1>6, <1>7, <1>8, <1>9, <1>10, <1>11, <1>12, <1>13, <1>14, <1>15, <1>16, <1>17,
           <1>18, <1>19, <1>20 DEF RunStep

LEMMA StepShows == Inv /\ [Next]_vars => [AR!RunNext]_(AR!runVars)
<1> SUFFICES ASSUME Inv, [Next]_vars PROVE AR!RunNext \/ UNCHANGED AR!runVars
    OBVIOUS
<1>1. ASSUME NEW r \in Run, Accept(r) \/ RunStep(r) \/ Operate(r)
      PROVE  AR!RunNext \/ UNCHANGED AR!runVars
    BY <1>1, RunShows
<1>2. CASE Restart
    <2>1. TypeOK
        BY DEF Inv
    <2>2. \A r \in Run : StageOf(r)' = IF StageOf(r) = "busy" THEN "over" ELSE StageOf(r)
        BY <1>2, <2>1 DEF Restart, StageOf, TypeOK
    <2>3. \A r \in Run : ResultOf(r)' = IF StageOf(r) = "busy" THEN "dead" ELSE ResultOf(r)
        BY <1>2, <2>1 DEF Restart, StageOf, ResultOf, TypeOK
    <2>4. AR!Dies
        BY <1>2, <2>2, <2>3 DEF AR!Dies, Restart
    <2> QED BY <2>4 DEF AR!RunNext
<1>3. CASE UNCHANGED vars
    BY <1>3 DEF vars, AR!runVars, StageOf, ResultOf
<1> QED BY <1>1, <1>2, <1>3 DEF Next

\* The handler of POST /v1/agent/query implements AgentRun.
THEOREM LoopImplementsRun == Spec => RunImplemented
BY InitMaps, LoopInvariant, StepShows, PTL DEF Spec, RunImplemented, AR!RunSafe

-----------------------------------------------------------------------------
(* The loop runs towards its end. *)

\* How far a run is, in this order: the rounds it may still execute, the stages of
\* the round and what is left of its tool calls, each a call and its output.
RoundsLeft(r) == MaxRounds - round[r]
StagesLeft(r) ==
    CASE pc[r] = "off"       -> 6
      [] pc[r] = "injection" -> 5
      [] pc[r] = "unsafe"    -> 4
      [] pc[r] = "think"     -> 3
      [] pc[r] = "filter"    -> 1
      [] pc[r] = "hung"      -> 1
      [] pc[r] = "over"      -> 0
      [] OTHER               -> 2
CallsLeft(r) == 2 * Len(todo[r]) + (IF pc[r] \in {"tool", "shell"} THEN 1 ELSE 0)

\* The lexicographic order on the three.
Nearer(r) ==
    \/ RoundsLeft(r)' < RoundsLeft(r)
    \/ RoundsLeft(r)' = RoundsLeft(r) /\ StagesLeft(r)' < StagesLeft(r)
    \/ /\ RoundsLeft(r)' = RoundsLeft(r) /\ StagesLeft(r)' = StagesLeft(r)
       /\ CallsLeft(r)' < CallsLeft(r)

\* No step of anybody sets a run back, and each of its own takes it on.
TowardsTheEnd ==
    \A r \in Run :
        /\ RunStep(r) => Nearer(r)
        /\ Nearer(r) \/ (round'[r] = round[r] /\ pc'[r] = pc[r] /\ todo'[r] = todo[r])

\* The three are natural numbers, so that the order has no infinite descent.
LEMMA LeftTyped ==
    ASSUME TypeOK, NEW r \in Run
    PROVE  RoundsLeft(r) \in Nat /\ StagesLeft(r) \in Nat /\ CallsLeft(r) \in Nat
<1>1. round[r] \in 0..MaxRounds /\ todo[r] \in Seq(CallKind)
    BY DEF TypeOK
<1>2. RoundsLeft(r) \in Nat
    BY <1>1, LoopAssumption DEF RoundsLeft
<1>3. Len(todo[r]) \in Nat
    BY <1>1
<1>4. CallsLeft(r) = 2 * Len(todo[r]) + 1 \/ CallsLeft(r) = 2 * Len(todo[r]) + 0
    BY DEF CallsLeft
<1>5. CallsLeft(r) \in Nat
    BY <1>3, <1>4
<1> QED BY <1>2, <1>5 DEF StagesLeft

\* A later stage of the same round is nearer.
LEMMA GotoNearer ==
    ASSUME TypeOK, NEW r \in Run, NEW s \in Stage, round' = round, Goto(r, s),
           \/ pc[r] = "off" /\ s # "off"
           \/ pc[r] = "injection" /\ s \in {"unsafe", "think"}
           \/ pc[r] = "unsafe" /\ s = "think"
           \/ pc[r] = "think" /\ s \in {"call", "filter"}
           \/ pc[r] = "shell" /\ s = "hung"
    PROVE  Nearer(r)
<1>1. pc'[r] = s
    BY DEF Goto, TypeOK
<1>2. StagesLeft(r)' < StagesLeft(r)
    BY <1>1 DEF StagesLeft, Stage
<1>3. RoundsLeft(r)' = RoundsLeft(r)
    BY DEF RoundsLeft
<1> QED BY <1>2, <1>3 DEF Nearer

LEMMA EndNearer ==
    ASSUME TypeOK, NEW r \in Run, NEW how, round' = round, End(r, how), pc[r] # "over"
    PROVE  Nearer(r)
<1>1. pc'[r] = "over" /\ pc[r] \in Stage
    BY DEF End, TypeOK
<1>2. StagesLeft(r)' < StagesLeft(r)
    BY <1>1 DEF StagesLeft, Stage
<1>3. RoundsLeft(r)' = RoundsLeft(r)
    BY DEF RoundsLeft
<1> QED BY <1>2, <1>3 DEF Nearer

\* The next call is taken: two steps less, one of them the wait for its output.
LEMMA TakesNearer ==
    ASSUME TypeOK, NEW r \in Run, NEW kinds, Takes(r, kinds), round' = round,
           pc'[r] \in {"call", "tool", "shell"}
    PROVE  Nearer(r)
<1>1. /\ pc[r] = "call" /\ todo[r] \in Seq(CallKind) /\ todo[r] # <<>>
      /\ todo'[r] = Tail(todo[r])
    BY DEF Takes, TypeOK
<1>2. Len(todo[r]) \in Nat \ {0} /\ Len(todo'[r]) = Len(todo[r]) - 1
    BY <1>1
<1>3. /\ CallsLeft(r) = 2 * Len(todo[r]) + 0
      /\ \/ CallsLeft(r)' = 2 * Len(todo'[r]) + 0
         \/ CallsLeft(r)' = 2 * Len(todo'[r]) + 1
    BY <1>1 DEF CallsLeft
<1>4. StagesLeft(r)' = StagesLeft(r)
    BY <1>1 DEF StagesLeft
<1>5. RoundsLeft(r)' = RoundsLeft(r)
    BY DEF RoundsLeft
<1>6. CallsLeft(r)' < CallsLeft(r)
    BY <1>2, <1>3
<1> QED BY <1>4, <1>5, <1>6 DEF Nearer

\* The call that was waited for is over.
LEMMA ReturnNearer ==
    ASSUME TypeOK, NEW r \in Run, pc[r] \in {"tool", "shell"}, Goto(r, "call"),
           todo' = todo, round' = round
    PROVE  Nearer(r)
<1>1. pc'[r] = "call" /\ todo' = todo /\ round' = round
    BY DEF Goto, TypeOK
<1>2. Len(todo[r]) \in Nat
    BY DEF TypeOK
<1>3. CallsLeft(r) = 2 * Len(todo[r]) + 1 /\ CallsLeft(r)' = 2 * Len(todo[r]) + 0
    BY <1>1 DEF CallsLeft
<1>4. StagesLeft(r)' = StagesLeft(r) /\ RoundsLeft(r)' = RoundsLeft(r)
    BY <1>1 DEF StagesLeft, RoundsLeft
<1>5. CallsLeft(r)' < CallsLeft(r)
    BY <1>2, <1>3
<1> QED BY <1>4, <1>5 DEF Nearer

LEMMA EndRoundNearer == ASSUME TypeOK, NEW r \in Run, EndRound(r) PROVE Nearer(r)
<1>1. round[r] \in 0..MaxRounds /\ round'[r] = round[r] + 1
    BY DEF EndRound, TypeOK
<1>2. RoundsLeft(r)' < RoundsLeft(r)
    BY <1>1, LoopAssumption DEF RoundsLeft
<1> QED BY <1>2 DEF Nearer

LEMMA RunStepNearer ==
    ASSUME TypeOK, NEW r \in Run, RunStep(r)
    PROVE  Nearer(r)
<1> USE DEF KeepAll, KeepLoop
<1>1. {"injection", "unsafe", "think", "call", "filter", "hung"} \subseteq Stage
    BY DEF Stage
<1>2. CASE CheckFails(r)
    BY <1>1, <1>2, GotoNearer DEF CheckFails
<1>3. CASE Check(r)
    BY <1>1, <1>3, GotoNearer, EndNearer DEF Check
<1>4. CASE ThinkFails(r)
    BY <1>4, EndNearer DEF ThinkFails
<1>5. CASE Think(r)
    BY <1>1, <1>5, GotoNearer, EndNearer DEF Think, Finish
<1>6. CASE Skip(r)
    <2>1. pc'[r] = "call" /\ round' = round /\ \E kinds : Takes(r, kinds)
        BY <1>6 DEF Skip, Takes
    <2> QED BY <2>1, TakesNearer
<1>7. CASE Malformed(r)
    BY <1>7, EndNearer DEF Malformed, Takes
<1>8. CASE MaskPii(r) \/ NoToken(r)
    <2>1. round' = round /\ pc[r] = "call" /\ \E kinds : Takes(r, kinds)
        BY <1>8 DEF MaskPii, NoToken, Takes
    <2>2. pc' = pc \/ End(r, "500")
        BY <1>8 DEF MaskPii, NoToken
    <2> QED BY <2>1, <2>2, TakesNearer, EndNearer
<1>9. CASE Invoke(r)
    <2>1. pc'[r] = "tool" /\ round' = round /\ \E kinds : Takes(r, kinds)
        BY <1>9 DEF Invoke, Goto, TypeOK
    <2> QED BY <2>1, TakesNearer
<1>10. CASE Output(r)
    BY <1>10, ReturnNearer DEF Output
<1>11. CASE ToolFails(r)
    BY <1>11, EndNearer DEF ToolFails
<1>12. CASE EndRound(r)
    BY <1>12, EndRoundNearer
<1>13. CASE Filter(r)
    BY <1>13, EndNearer DEF Filter
<1>14. CASE Shell(r)
    <2>1. pc'[r] = "shell" /\ round' = round /\ \E kinds : Takes(r, kinds)
        BY <1>14 DEF Shell, Goto, TypeOK
    <2> QED BY <2>1, TakesNearer
<1>15. CASE ShellEnds(r)
    BY <1>15, ReturnNearer, EndNearer DEF ShellEnds
<1>16. CASE ShellHangs(r)
    BY <1>1, <1>16, GotoNearer DEF ShellHangs
<1> QED BY <1>2, <1>3, <1>4, <1>5, <1>6, <1>7, <1>8, <1>9, <1>10, <1>11, <1>12, <1>13,
           <1>14, <1>15, <1>16
        DEF RunStep

LEMMA AcceptNearer == ASSUME TypeOK, NEW r \in Run, Accept(r) PROVE Nearer(r)
<1>1. {"injection", "think"} \subseteq Stage
    BY DEF Stage
<1> QED BY <1>1, GotoNearer, EndNearer DEF Accept, KeepAll

\* What somebody else does: a restart of the process ends the run, or it stays.
LEMMA OthersNearer ==
    ASSUME TypeOK, [Next]_vars, NEW r \in Run, ~RunStep(r), ~Accept(r)
    PROVE  \/ Nearer(r)
           \/ round'[r] = round[r] /\ pc'[r] = pc[r] /\ todo'[r] = todo[r]
<1>1. ASSUME NEW q \in Run, q # r, Accept(q) \/ RunStep(q)
      PROVE  round'[r] = round[r] /\ pc'[r] = pc[r] /\ todo'[r] = todo[r]
    BY <1>1, OthersSame DEF Same
<1>2. ASSUME NEW q \in Run, Operate(q)
      PROVE  round'[r] = round[r] /\ pc'[r] = pc[r] /\ todo'[r] = todo[r]
    BY <1>2 DEF Operate
<1>3. CASE Restart
    <2>1. round' = round /\ todo' = todo /\ pc'[r] \in {pc[r], "over"}
        BY <1>3 DEF Restart
    <2>2. CASE pc'[r] # pc[r]
        <3>1. pc[r] \in Stage
            BY DEF TypeOK
        <3>2. StagesLeft(r)' < StagesLeft(r)
            BY <2>1, <2>2, <3>1 DEF StagesLeft, Stage
        <3>3. RoundsLeft(r)' = RoundsLeft(r)
            BY <2>1 DEF RoundsLeft
        <3> QED BY <3>2, <3>3 DEF Nearer
    <2> QED BY <2>1, <2>2
<1>4. CASE UNCHANGED vars
    BY <1>4 DEF vars
<1> QED BY <1>1, <1>2, <1>3, <1>4 DEF Next

\* The loop of handle_request ends by itself: with every step a run executes another
\* of its MAX_TOOL_ROUNDS, gets to a later stage of the round (a shell command that
\* hangs being the last but one) or works off one of the round's tool calls; neither
\* the model, nor user-mcp, nor a restart of the process gives any of it back.
THEOREM LoopProgresses == Spec => [][TowardsTheEnd]_vars
<1>1. TypeOK /\ [Next]_vars => TowardsTheEnd
    <2> SUFFICES ASSUME TypeOK, [Next]_vars, NEW r \in Run
                 PROVE  /\ RunStep(r) => Nearer(r)
                        /\ \/ Nearer(r)
                           \/ round'[r] = round[r] /\ pc'[r] = pc[r] /\ todo'[r] = todo[r]
        BY DEF TowardsTheEnd
    <2> QED BY RunStepNearer, AcceptNearer, OthersNearer
<1> QED BY <1>1, LoopTypeCorrect, PTL DEF Spec
==============================================================================
