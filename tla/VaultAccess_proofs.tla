-------------------------- MODULE VaultAccess_proofs --------------------------
(***************************************************************************)
(* Proofs about VaultAccess for every set of calls, contexts, users and    *)
(* tool calls.  One lemma per group of steps shows that AccessInv is        *)
(* preserved; the safety properties follow from it.  A rank of the awaits   *)
(* then shows that calls are answered.                                     *)
(***************************************************************************)
EXTENDS VaultAccess, Integers, TLAPS

LEMMA InitInv == Init => AccessInv
<1> SUFFICES ASSUME Init PROVE AccessInv
    OBVIOUS
<1> USE DEF Init, GrantInit
<1>1. TypeOK
    BY DEF TypeOK, GrantTypeOK, Phase, Decision, Answer
<1>2. TokenIsOfRunningCall
    BY DEF TokenIsOfRunningCall, Active, Awaiting, Connected
<1>3. Established
    BY DEF Established, EstablishedBy, Active, Awaiting, Connected, Holding
<1>4. StepUpUnderWay
    BY DEF StepUpUnderWay, Active, Awaiting, Connected
<1>5. NothingOutlives /\ AnswerIsEarned
    BY DEF NothingOutlives, AnswerIsEarned
<1> QED BY <1>1, <1>2, <1>3, <1>4, <1>5 DEF AccessInv

-----------------------------------------------------------------------------
(* A call arrives. *)

LEMMA ArriveInv ==
    ASSUME AccessInv, NEW k \in Call, NEW x \in Context, NEW r \in Request,
           Admit(k, x, r) \/ Reject(k, x, r)
    PROVE  AccessInv'
<1> USE DEF AccessInv, Admit, Reject, Arrive, fixedVars, grantVars
<1>1. TypeOK'
    BY DEF TypeOK, GrantTypeOK, Awaiting, Answer
<1>2. TokenIsOfRunningCall'
    BY DEF TokenIsOfRunningCall, TypeOK, Active, Awaiting, Connected, Holding, Free
<1>3. Established'
    BY VaultAssumption DEF Established, EstablishedBy, TypeOK, Active, Awaiting,
       Connected, Holding, Free, Admitted, Writes, RoleOf
<1>4. StepUpUnderWay'
    <2>1. at' = [at EXCEPT ![k] = "svid"] \/ at' = [at EXCEPT ![k] = "done"]
        OBVIOUS
    <2>2. ~required[k] /\ UNCHANGED <<required, parent, decision>>
        BY DEF Established, EstablishedBy
    <2> QED BY <2>1, <2>2 DEF StepUpUnderWay, TypeOK, Active, Awaiting, Connected
<1>5. NothingOutlives'
    BY DEF NothingOutlives, TypeOK, Connected
<1>6. AnswerIsEarned'
    BY DEF AnswerIsEarned, NothingOutlives, TypeOK, Writes, MustMask
<1> QED BY <1>1, <1>2, <1>3, <1>4, <1>5, <1>6

-----------------------------------------------------------------------------
(* A call ends. *)

\* The `finally` of _run_tool.
LEMMA FinishInv ==
    ASSUME AccessInv, NEW k \in Call, NEW value, Finish(k, value), Active(k),
           value = "error" \/ (value = "plain" /\ ~MustMask(k) /\ (Writes(req[k]) => committed[k]))
               \/ (value = "masked" /\ (Writes(req[k]) => committed[k])),
           UNCHANGED <<req, ctx, parent, authorized, committed, result>>,
           required' = required \/ required' = [required EXCEPT ![k] = TRUE],
           (conn' = conn /\ at[k] \notin Connected) \/ conn' = [conn EXCEPT ![k] = FALSE],
           decision' = decision,
           phase' \in [Call -> Phase]
    PROVE  AccessInv'
<1> USE DEF AccessInv, Finish, fixedVars
<1>1. TypeOK'
    BY DEF TypeOK, GrantTypeOK, Answer
<1>2. TokenIsOfRunningCall'
    BY DEF TokenIsOfRunningCall, TypeOK, Active, Awaiting, Connected, Holding
<1>3. Established'
    BY DEF Established, EstablishedBy, TokenIsOfRunningCall, TypeOK, Active, Awaiting,
       Connected, Holding, Writes, RoleOf
<1>4. StepUpUnderWay'
    BY DEF StepUpUnderWay, TypeOK, Active, Awaiting, Connected
<1>5. NothingOutlives'
    BY DEF NothingOutlives, TypeOK, Connected
<1>6. AnswerIsEarned'
    BY DEF AnswerIsEarned, NothingOutlives, TypeOK, Writes, MustMask
<1> QED BY <1>1, <1>2, <1>3, <1>4, <1>5, <1>6

-----------------------------------------------------------------------------
(* A call goes on. *)

\* A call without an action token in hand finds none in its context, so it mints
\* one of its own.
LEMMA MintsItsOwn ==
    ASSUME AccessInv, NEW k \in Call, Active(k), at[k] \notin Holding
    PROVE  Mint(k) = "mint"
<1>1. ctx[k] \in Context
    BY DEF AccessInv, TypeOK, Established, EstablishedBy
<1>2. action[ctx[k]] = None
    BY <1>1 DEF AccessInv, TokenIsOfRunningCall, Active, Holding, Awaiting
<1> QED BY <1>2 DEF Mint

\* A step before the token is unwrapped: the call changes where it is, and what
\* it knows of its grounds.
LEMMA IdentifyInv ==
    ASSUME AccessInv, NEW k \in Call, NEW from, NEW to, Goto(k, from, to),
           from \in Awaiting \ Holding, to \in Awaiting \ Holding,
           UNCHANGED <<req, ctx, conn, committed, result>>,
           required' \in [Call -> BOOLEAN], authorized' \in [Call -> BOOLEAN],
           parent' \in [Call -> {"none", "obo", "ciba"}],
           GrantTypeOK',
           \A j \in Call \ {k} : /\ required'[j] = required[j]
                                 /\ authorized'[j] = authorized[j]
                                 /\ parent'[j] = parent[j],
           \A j \in Call : decision'[j] = decision[j],
           to = "unwrap" => authorized'[k],
           to \in {"mint", "authorize", "reauthorize", "unwrap"} => parent'[k] # "none",
           to \in {"svid", "spiffe", "obo", "probe"} => ~required'[k],
           required'[k] /\ to \notin {"ciba", "elevated"} => parent'[k] = "ciba",
           to = "elevated" \/ parent'[k] = "ciba" => decision[k] = "approved"
    PROVE  AccessInv'
<1> USE DEF AccessInv, Goto, fixedVars
<1>1. TypeOK'
    BY DEF TypeOK
<1>2. TokenIsOfRunningCall'
    BY DEF TokenIsOfRunningCall, TypeOK, Active
<1>3. Established'
    <2>1. \A j \in Call : at'[j] = IF j = k THEN to ELSE at[j]
        BY DEF TypeOK
    <2>2. to \notin Holding /\ to \notin {"idle", "mask", "close"}
        BY DEF Awaiting, Connected, Holding
    <2>3. Active(k) /\ EstablishedBy(k)
        BY DEF Established, EstablishedBy, Active
    <2>4. EstablishedBy(k)'
        BY <2>1, <2>2, <2>3 DEF EstablishedBy, Active
    <2>5. ASSUME NEW j \in Call \ {k} PROVE EstablishedBy(j)'
        BY <2>1 DEF Established, EstablishedBy, Active, Writes, RoleOf
    <2> QED BY <2>4, <2>5 DEF Established, EstablishedBy
<1>4. StepUpUnderWay'
    BY DEF StepUpUnderWay, TypeOK, Active
<1>5. NothingOutlives'
    BY DEF NothingOutlives, TypeOK, Awaiting, Connected, Holding
<1>6. AnswerIsEarned'
    BY DEF AnswerIsEarned, NothingOutlives, TypeOK, Writes, MustMask
<1> QED BY <1>1, <1>2, <1>3, <1>4, <1>5, <1>6

\* The steps of Identify that end the call are in EndInv; all but Unwrap go on
\* without a token.
LEMMA IdentifyStepInv ==
    ASSUME AccessInv, NEW k \in Call,
           \/ GetSvid(k) \/ LoginWorkload(k) \/ LoginElevated(k) \/ CreateToken(k)
           \/ Authorize(k) \/ Reauthorize(k) \/ HumanGrants(k)
    PROVE  AccessInv'
<1> USE DEF AccessInv, TypeOK, callVars, grantVars
<1> DEFINE A == Awaiting \ Holding
<1>1. CASE GetSvid(k)
    <2>1. Goto(k, "svid", "spiffe") /\ UNCHANGED <<callVars, grantVars>> /\ ~required[k]
        BY <1>1 DEF GetSvid, StepUpUnderWay, Goto
    <2>2. "svid" \in A /\ "spiffe" \in A
        BY DEF Awaiting, Holding, Connected
    <2>3. parent[k] = "ciba" => decision[k] = "approved"
        BY DEF StepUpUnderWay
    <2> QED BY <2>1, <2>2, <2>3, IdentifyInv DEF GrantTypeOK
<1>2. CASE LoginWorkload(k)
    <2>1. Goto(k, "spiffe", "obo") /\ UNCHANGED <<callVars, grantVars>> /\ ~required[k]
        BY <1>2 DEF LoginWorkload, StepUpUnderWay, Goto
    <2>2. "spiffe" \in A /\ "obo" \in A
        BY DEF Awaiting, Holding, Connected
    <2>3. parent[k] = "ciba" => decision[k] = "approved"
        BY DEF StepUpUnderWay
    <2> QED BY <2>1, <2>2, <2>3, IdentifyInv DEF GrantTypeOK
<1>3. CASE LoginElevated(k)
    <2>1. at[k] = "elevated"
        BY <1>3 DEF LoginElevated, UseParent, Goto
    <2>2. Mint(k) = "mint" /\ decision[k] = "approved"
        BY <2>1, MintsItsOwn DEF Active, Awaiting, Connected, Holding, StepUpUnderWay
    <2>3. "elevated" \in A /\ "mint" \in A
        BY DEF Awaiting, Holding, Connected
    <2>4. Goto(k, "elevated", "mint") /\ parent' = [parent EXCEPT ![k] = "ciba"]
          /\ UNCHANGED <<req, ctx, required, authorized, conn, committed, result, grantVars>>
        BY <1>3, <2>2 DEF LoginElevated, UseParent
    <2> QED BY <2>2, <2>3, <2>4, IdentifyInv DEF GrantTypeOK
<1>4. CASE HumanGrants(k)
    <2>1. Goto(k, "ciba", "elevated") /\ UNCHANGED callVars /\ Grant(k)
        BY <1>4 DEF HumanGrants
    <2>2. "ciba" \in A /\ "elevated" \in A
        BY DEF Awaiting, Holding, Connected
    <2>3. GrantTypeOK' /\ decision' = decision /\ decision[k] = "approved"
        BY <2>1 DEF Grant, GrantTypeOK, Phase
    <2> QED BY <2>1, <2>2, <2>3, IdentifyInv
<1>5. ASSUME at[k] \in {"mint", "authorize", "reauthorize"}
      PROVE  /\ parent[k] # "none" /\ (required[k] => parent[k] = "ciba")
             /\ parent[k] = "ciba" => decision[k] = "approved"
    BY <1>5 DEF Established, EstablishedBy, StepUpUnderWay, Active, Awaiting
<1>6. CASE CreateToken(k)
    <2>1. Goto(k, "mint", "authorize") /\ UNCHANGED <<callVars, grantVars>>
        BY <1>6 DEF CreateToken
    <2>2. "mint" \in A /\ "authorize" \in A
        BY DEF Awaiting, Holding, Connected
    <2> QED BY <1>5, <2>1, <2>2, IdentifyInv DEF GrantTypeOK, Goto
<1>7. ASSUME NEW from \in {"authorize", "reauthorize"}, Authorized(k, from)
      PROVE  AccessInv'
    <2>1. Goto(k, from, "unwrap") /\ authorized' = [authorized EXCEPT ![k] = TRUE]
          /\ UNCHANGED <<req, ctx, parent, required, conn, committed, result, grantVars>>
        BY <1>7 DEF Authorized
    <2>2. from \in A /\ "unwrap" \in A
        BY DEF Awaiting, Holding, Connected
    <2> QED BY <1>5, <2>1, <2>2, IdentifyInv DEF GrantTypeOK, Goto
<1>8. ASSUME Goto(k, "authorize", "reauthorize"), UNCHANGED <<callVars, grantVars>>
      PROVE  AccessInv'
    <2>1. "authorize" \in A /\ "reauthorize" \in A
        BY DEF Awaiting, Holding, Connected
    <2> QED BY <1>5, <1>8, <2>1, IdentifyInv DEF GrantTypeOK, Goto
<1> QED BY <1>1, <1>2, <1>3, <1>4, <1>6, <1>7, <1>8 DEF Authorize, Reauthorize

\* The human's login: the session OBO is enough, or a step-up begins.
LEMMA LoginInv ==
    ASSUME AccessInv, NEW k \in Call, LoginHuman(k) \/ Probe(k)
    PROVE  AccessInv'
<1> USE DEF AccessInv, TypeOK
<1> DEFINE A == Awaiting \ Holding
<1>1. at[k] \in {"obo", "probe"}
    BY DEF LoginHuman, Probe, UseParent, Goto
<1>2. Mint(k) = "mint"
    BY <1>1, MintsItsOwn DEF Active, Awaiting, Connected, Holding
<1>3. ~required[k] /\ (parent[k] = "ciba" => decision[k] = "approved")
    BY <1>1 DEF StepUpUnderWay
<1>4. ASSUME NEW to \in {"probe", "mint"}, UseParent(k, at[k], to, "obo")
      PROVE  AccessInv'
    <2>1. Goto(k, at[k], to) /\ parent' = [parent EXCEPT ![k] = "obo"]
          /\ UNCHANGED <<req, ctx, required, authorized, conn, committed, result, grantVars>>
        BY <1>4 DEF UseParent
    <2>2. at[k] \in A /\ to \in A
        BY <1>1 DEF Awaiting, Holding, Connected
    <2> QED BY <1>3, <2>1, <2>2, IdentifyInv DEF GrantTypeOK, grantVars
<1>5. ASSUME StepUp(k, at[k]), settings.ciba PROVE AccessInv'
    <2>1. Goto(k, at[k], "ciba") /\ required' = [required EXCEPT ![k] = TRUE]
          /\ UNCHANGED <<req, ctx, parent, authorized, conn, committed, result, grantVars>>
        BY <1>5 DEF StepUp
    <2>2. at[k] \in A /\ "ciba" \in A
        BY <1>1 DEF Awaiting, Holding, Connected
    <2> QED BY <1>3, <2>1, <2>2, IdentifyInv DEF GrantTypeOK, grantVars
<1>6. ASSUME StepUp(k, at[k]), ~settings.ciba PROVE AccessInv'
    <2>1. Finish(k, "error") /\ required' = [required EXCEPT ![k] = TRUE]
          /\ UNCHANGED <<req, ctx, parent, authorized, conn, committed, result, grantVars>>
        BY <1>6 DEF StepUp
    <2>2. Active(k) /\ at[k] \notin Connected
        BY <1>1 DEF Active, Awaiting, Connected
    <2> QED BY <2>1, <2>2, FinishInv DEF GrantTypeOK, grantVars
<1>7. CASE LoginHuman(k)
    BY <1>2, <1>4, <1>5, <1>6, <1>7 DEF LoginHuman, UseParent, Goto, StepUp
<1>8. CASE Probe(k)
    BY <1>2, <1>4, <1>5, <1>6, <1>8 DEF Probe
<1> QED BY <1>7, <1>8

-----------------------------------------------------------------------------
(* The token, the database and the answer. *)

LEMMA UnwrapInv ==
    ASSUME AccessInv, NEW k \in Call, Unwrap(k)
    PROVE  AccessInv'
<1> USE DEF AccessInv, Unwrap, fixedVars, callVars, grantVars
<1>1. /\ ctx[k] \in Context /\ req[k] \in Request /\ req[k].user \in User
      /\ authorized[k] /\ parent[k] \in {"obo", "ciba"} /\ Active(k)
    <2>1. Active(k)
        BY DEF Active, Awaiting
    <2>2. ctx[k] # None /\ req[k] # None /\ req[k].user # None /\ authorized[k]
          /\ parent[k] # "none"
        BY <2>1 DEF Established, EstablishedBy
    <2>3. req[k] \in Request /\ req[k].user \in User \cup {None}
        BY <2>2, VaultAssumption DEF TypeOK
    <2> QED BY <2>1, <2>2, <2>3 DEF TypeOK
<1>2. action' = [action EXCEPT ![ctx[k]] =
            [user |-> req[k].user, role |-> RoleOf(req[k]), grant |-> parent[k],
             authorized |-> TRUE]]
    BY <1>1 DEF TypeOK
<1>3. TypeOK'
    BY <1>1, <1>2 DEF TypeOK, GrantTypeOK, Awaiting, ActionToken, RoleOf
<1>4. TokenIsOfRunningCall'
    BY <1>1, <1>2 DEF TokenIsOfRunningCall, TypeOK, Active, Awaiting, Connected, Holding
<1>5. Established'
    <2>1. ASSUME NEW j \in Call, j # k, at[j] \in Holding PROVE ctx[j] # ctx[k]
        BY <1>1, <2>1 DEF TokenIsOfRunningCall, Active, Awaiting, Connected, Holding
    <2>2. ASSUME NEW j \in Call, j # k, at[j] \in Holding
          PROVE  action'[ctx[j]] = action[ctx[j]]
        BY <1>1, <1>2, <2>1, <2>2 DEF TypeOK
    <2>3. /\ action'[ctx[k]] # None
          /\ action'[ctx[k]].user = req[k].user
          /\ action'[ctx[k]].role = RoleOf(req[k])
          /\ action'[ctx[k]].grant = parent[k]
          /\ action'[ctx[k]].authorized
        <3>1. action'[ctx[k]] = [user |-> req[k].user, role |-> RoleOf(req[k]),
                                 grant |-> parent[k], authorized |-> TRUE]
            BY <1>1, <1>2 DEF TypeOK
        <3>2. [user |-> req[k].user, role |-> RoleOf(req[k]), grant |-> parent[k],
               authorized |-> TRUE] \in ActionToken
            <4>1. RoleOf(req[k]) \in {"read", "write"}
                BY DEF RoleOf
            <4> HIDE DEF AccessInv, Unwrap
            <4> QED BY <1>1, <4>1 DEF ActionToken
        <3> QED BY <3>1, <3>2, VaultAssumption
    <2>4. \A j \in Call : at'[j] = IF j = k THEN "creds" ELSE at[j]
        BY DEF TypeOK
    <2>6. EstablishedBy(k)'
        <3>1. at'[k] = "creds" /\ UNCHANGED <<ctx, req, parent>>
            BY <2>4
        <3>2. ctx[k] # None /\ req[k] # None /\ req[k].user # None
            BY <1>1, VaultAssumption
        <3> HIDE DEF AccessInv, Unwrap
        <3> QED BY <2>3, <3>1, <3>2 DEF EstablishedBy, RoleOf, Writes
    <2>7. ASSUME NEW j \in Call \ {k} PROVE EstablishedBy(j)'
        BY <2>2, <2>4 DEF Established, EstablishedBy, Active, Writes, RoleOf
    <2> QED BY <2>6, <2>7 DEF Established, EstablishedBy
<1>6. StepUpUnderWay'
    BY <1>1 DEF StepUpUnderWay, TypeOK, Active
<1>7. NothingOutlives'
    BY DEF NothingOutlives, TypeOK, Connected
<1>8. AnswerIsEarned'
    BY DEF AnswerIsEarned, NothingOutlives, TypeOK, Writes, MustMask
<1> QED BY <1>3, <1>4, <1>5, <1>6, <1>7, <1>8

\* A step with the token in hand that does not end the call.
LEMMA QueryInv ==
    ASSUME AccessInv, NEW k \in Call, NEW from \in Holding, NEW to \in Holding,
           Goto(k, from, to),
           UNCHANGED <<req, ctx, parent, required, authorized, grantVars>>,
           committed' \in [Call -> BOOLEAN],
           result' \in [Call -> {"none", "value", "error"}],
           conn' \in [Call -> BOOLEAN],
           \A j \in Call \ {k} : /\ committed'[j] = committed[j]
                                 /\ result'[j] = result[j]
                                 /\ conn'[j] = conn[j],
           conn'[k] => to \in Connected,
           to = "mask" \/ (to = "close" /\ result'[k] = "value") =>
               (Writes(req[k]) => committed'[k])
    PROVE  AccessInv'
<1> USE DEF AccessInv, Goto, fixedVars, grantVars
<1>1. TypeOK'
    BY DEF TypeOK, GrantTypeOK, Awaiting, Connected, Holding
<1>2. \A j \in Call : at'[j] = IF j = k THEN to ELSE at[j]
    BY DEF TypeOK
<1>3. /\ from \notin {"idle", "done", "svid", "spiffe", "obo", "probe", "ciba", "elevated"}
      /\ to \notin {"idle", "done", "svid", "spiffe", "obo", "probe", "elevated",
                    "unwrap", "mint", "authorize", "reauthorize"}
      /\ from \in Awaiting \cup Connected /\ to \in Awaiting \cup Connected
    BY DEF Awaiting, Connected, Holding
<1>4. TokenIsOfRunningCall'
    BY <1>2, <1>3 DEF TokenIsOfRunningCall, Active
<1>5. Established'
    BY <1>2, <1>3 DEF Established, EstablishedBy, Active, Writes, RoleOf
<1>6. StepUpUnderWay'
    BY <1>2, <1>3 DEF StepUpUnderWay, Active
<1>7. NothingOutlives'
    BY <1>2, <1>3 DEF NothingOutlives
<1>8. AnswerIsEarned'
    BY <1>2, <1>3 DEF AnswerIsEarned, NothingOutlives, Writes, MustMask
<1> QED BY <1>1, <1>4, <1>5, <1>6, <1>7, <1>8

LEMMA QueryStepInv ==
    ASSUME AccessInv, NEW k \in Call, Query(k)
    PROVE  AccessInv'
<1> USE DEF AccessInv, TypeOK, callVars
<1>1. {"creds", "connect", "mask", "sql", "close"} = Holding
    BY DEF Holding, Connected
<1>2. CASE ReadCreds(k)
    <2>1. Goto(k, "creds", "connect") /\ ~conn[k]
        BY <1>2 DEF ReadCreds, Goto, NothingOutlives, Connected
    <2> QED BY <1>1, <1>2, <2>1, QueryInv DEF ReadCreds
<1>3. CASE Connect(k)
    <2>1. Goto(k, "connect", "sql") /\ conn' = [conn EXCEPT ![k] = TRUE]
          /\ UNCHANGED <<req, ctx, parent, required, authorized, committed, result, grantVars>>
        BY <1>3 DEF Connect
    <2>2. /\ conn' \in [Call -> BOOLEAN]
          /\ \A j \in Call \ {k} : conn'[j] = conn[j]
        BY <2>1
    <2>3. "sql" \in Connected
        BY DEF Connected
    <2> QED BY <1>1, <2>1, <2>2, <2>3, QueryInv
<1>4. CASE Sql(k)
    <2>1. PICK outcome \in {"value", "refused", "lost"}, took \in BOOLEAN :
              /\ outcome = "value" /\ Writes(req[k]) => took
              /\ committed' = [committed EXCEPT ![k] = took]
              /\ result' = [result EXCEPT
                              ![k] = IF outcome = "value" THEN "value" ELSE "error"]
        BY <1>4 DEF Sql
    <2>2. Goto(k, "sql", "close")
        BY <1>4 DEF Sql
    <2>3. result'[k] = "value" => (Writes(req[k]) => committed'[k])
        BY <2>1
    <2>4. /\ committed' \in [Call -> BOOLEAN]
          /\ result' \in [Call -> {"none", "value", "error"}]
          /\ \A j \in Call \ {k} : committed'[j] = committed[j] /\ result'[j] = result[j]
        BY <2>1
    <2>5. UNCHANGED <<req, ctx, parent, required, authorized, conn, grantVars>>
        BY <1>4 DEF Sql
    <2>6. "close" \in Connected
        BY DEF Connected
    <2> QED BY <1>1, <2>2, <2>3, <2>4, <2>5, <2>6, QueryInv
<1>5. CASE Close(k)
    <2>1. /\ at[k] = "close" /\ conn' = [conn EXCEPT ![k] = FALSE]
          /\ UNCHANGED <<req, ctx, parent, required, authorized, committed, result, grantVars>>
        BY <1>5 DEF Close
    <2>2. Active(k) /\ (result[k] = "value" => (Writes(req[k]) => committed[k]))
        BY <2>1 DEF Active, Connected, Established, EstablishedBy
    <2>3. CASE result[k] = "value" /\ Goto(k, "close", "mask")
        BY <1>1, <2>1, <2>2, <2>3, QueryInv
    <2>4. CASE result[k] = "value" /\ ~MustMask(k) /\ Finish(k, "plain")
        BY <2>1, <2>2, <2>4, FinishInv DEF grantVars, GrantTypeOK
    <2>5. CASE Finish(k, "error")
        BY <2>1, <2>2, <2>5, FinishInv DEF grantVars, GrantTypeOK
    <2> QED BY <1>5, <2>3, <2>4, <2>5 DEF Close
<1>6. CASE Mask(k)
    <2>1. /\ at[k] = "mask" /\ Finish(k, "masked") /\ UNCHANGED <<callVars, grantVars>>
        BY <1>6 DEF Mask
    <2>2. Active(k) /\ at[k] \notin Connected /\ (Writes(req[k]) => committed[k])
        BY <2>1 DEF Active, Awaiting, Connected, Established, EstablishedBy
    <2> QED BY <2>1, <2>2, FinishInv DEF grantVars, GrantTypeOK
<1> QED BY <1>2, <1>3, <1>4, <1>5, <1>6 DEF Query

-----------------------------------------------------------------------------
(* Every step. *)

LEMMA EndInv ==
    ASSUME AccessInv, NEW k \in Call, Fails(k) \/ HumanRefuses(k)
    PROVE  AccessInv'
<1> USE DEF AccessInv, TypeOK, callVars
<1>1. Active(k) /\ at[k] \notin Connected
    BY DEF Fails, HumanRefuses, Active, Awaiting, Connected
<1>2. CASE Fails(k)
    BY <1>1, <1>2, FinishInv DEF Fails, grantVars, GrantTypeOK
<1>3. CASE HumanRefuses(k)
    <2>1. phase' \in [Call -> Phase] /\ decision' = decision
        BY <1>3 DEF HumanRefuses, Refuse, GrantTypeOK, Phase
    <2> QED BY <1>1, <1>3, <2>1, FinishInv DEF HumanRefuses
<1> QED BY <1>2, <1>3

\* The human, the operator and a call that asks: nothing the call knows changes,
\* and a decision, once taken, stays.
LEMMA OutsideInv ==
    ASSUME AccessInv,
           \/ \E k \in Call : AskHuman(k) \/ HumanDecides(k)
           \/ \E u \in User : EditPolicy(u)
           \/ UNCHANGED vars
    PROVE  AccessInv'
<1> USE DEF AccessInv
<1>1. /\ UNCHANGED <<settings, at, action, answer, callVars>>
      /\ policy' \subseteq User
      /\ GrantTypeOK'
      /\ \A k \in Call : decision[k] = "approved" => decision'[k] = "approved"
    <2>1. ASSUME NEW k \in Call, AskHuman(k) \/ HumanDecides(k)
          PROVE  /\ UNCHANGED <<settings, policy, at, action, answer, callVars>>
                 /\ GrantTypeOK'
                 /\ \A j \in Call : decision[j] = "approved" => decision'[j] = "approved"
        BY <2>1 DEF AskHuman, HumanDecides, fixedVars, Ask, Decide, TypeOK, GrantTypeOK,
                    Phase, Decision
    <2>2. ASSUME NEW u \in User, EditPolicy(u)
          PROVE  UNCHANGED <<settings, at, action, answer, callVars, grantVars>>
                 /\ policy' \subseteq User
        BY <2>2 DEF EditPolicy, TypeOK
    <2> QED BY <2>1, <2>2 DEF vars, TypeOK, GrantTypeOK, grantVars
<1> USE DEF callVars
<1>2. TypeOK' /\ TokenIsOfRunningCall' /\ Established'
    BY <1>1 DEF TypeOK, TokenIsOfRunningCall, Established, EstablishedBy, Active, Writes, RoleOf
<1>3. StepUpUnderWay'
    BY <1>1 DEF StepUpUnderWay, Active
<1>4. NothingOutlives' /\ AnswerIsEarned'
    BY <1>1 DEF NothingOutlives, AnswerIsEarned, Writes, MustMask
<1> QED BY <1>2, <1>3, <1>4

LEMMA NextInv == AccessInv /\ [Next]_vars => AccessInv'
<1> SUFFICES ASSUME AccessInv, [Next]_vars PROVE AccessInv'
    OBVIOUS
<1>1. ASSUME NEW k \in Call, NEW x \in Context, NEW r \in Request,
             Admit(k, x, r) \/ Reject(k, x, r)
      PROVE  AccessInv'
    BY <1>1, ArriveInv
<1>2. ASSUME NEW k \in Call, CallStep(k) PROVE AccessInv'
    BY <1>2, IdentifyStepInv, LoginInv, UnwrapInv, QueryStepInv, EndInv, OutsideInv
       DEF CallStep, Identify
<1>3. ASSUME NEW k \in Call, HumanDecides(k) PROVE AccessInv'
    BY <1>3, OutsideInv
<1>4. ASSUME NEW u \in User, EditPolicy(u) PROVE AccessInv'
    BY <1>4, OutsideInv
<1>5. CASE UNCHANGED vars
    BY <1>5, OutsideInv
<1> QED BY <1>1, <1>2, <1>3, <1>4, <1>5 DEF Next

\* In every reachable state of user-mcp, for any number of calls and task contexts,
\* a context's action token belongs to the call that runs there, and each call has
\* established what its next await relies on.
THEOREM AccessInvariant == Spec => []AccessInv
<1> QED BY InitInv, NextInv, PTL DEF Spec

\* Every reachable state of user-mcp is well typed.
THEOREM AccessTypeCorrect == Spec => []TypeOK
<1> QED BY AccessInvariant, PTL DEF AccessInv

\* Secrets are only read with an action token minted for this call's user and
\* role: current_vault_action_token never leaks into the next call of a context.
THEOREM TokenNeverLeaks == Spec => []OwnActionToken
<1>1. AccessInv => OwnActionToken
    BY DEF AccessInv, Established, EstablishedBy, OwnActionToken
<1> QED BY <1>1, AccessInvariant, PTL

\* No action token exists whose control group SPIFFE did not authorize, whichever
\* accessor create_action_token tried.
THEOREM WorkloadAuthorized == Spec => []MintedWithWorkload
<1>1. AccessInv => MintedWithWorkload
    <2> SUFFICES ASSUME AccessInv, NEW x \in Context, action[x] # None
                 PROVE  action[x].authorized
        BY DEF MintedWithWorkload
    <2>1. PICK k \in Call : at[k] \in Holding /\ ctx[k] = x
        BY DEF AccessInv, TokenIsOfRunningCall
    <2> QED BY <2>1 DEF AccessInv, Established, EstablishedBy
<1> QED BY <1>1, AccessInvariant, PTL

\* A step-up Vault asked for is never skipped, whatever the operator edits
\* between the probe and the connection.
THEOREM StepUpNeverSkipped == Spec => []StepUpHonoured
<1>1. AccessInv => StepUpHonoured
    <2> SUFFICES ASSUME AccessInv, NEW k \in Call, conn[k], required[k]
                 PROVE  action[ctx[k]].grant = "ciba" /\ decision[k] = "approved"
        BY DEF StepUpHonoured
    <2>1. at[k] \in Connected /\ at[k] \in Holding /\ Active(k)
        BY DEF AccessInv, NothingOutlives, Holding, Active
    <2>2. parent[k] = "ciba" /\ decision[k] = "approved"
        BY <2>1 DEF AccessInv, StepUpUnderWay, Connected
    <2> QED BY <2>1, <2>2 DEF AccessInv, Established, EstablishedBy
<1> QED BY <1>1, AccessInvariant, PTL

\* No per-call Postgres connection outlives its call.
THEOREM ConnectionNeverOutlives == Spec => []ConnectionClosed
<1>1. AccessInv => ConnectionClosed
    BY DEF AccessInv, NothingOutlives, ConnectionClosed
<1> QED BY <1>1, AccessInvariant, PTL

\* A tool call answers with a record only if its write took effect, and masked if
\* the caller must not see it in the clear.
THEOREM AnswersAreEarned == Spec => []AnswerIsEarned
<1> QED BY AccessInvariant, PTL DEF AccessInv

-----------------------------------------------------------------------------
(* Progress: every await of a call is passed at most once. *)

\* The awaits a call can still have before it, the one it is in included: from "svid"
\* to "mask" on the longest way, with the step-up and both accessors.
Left(k) ==
    CASE at[k] = "idle"        -> 17
      [] at[k] = "svid"        -> 16
      [] at[k] = "spiffe"      -> 15
      [] at[k] = "obo"         -> 14
      [] at[k] = "probe"       -> 13
      [] at[k] = "ciba"        -> IF phase[k] = "idle" THEN 12 ELSE 11
      [] at[k] = "elevated"    -> 10
      [] at[k] = "mint"        -> 9
      [] at[k] = "authorize"   -> 8
      [] at[k] = "reauthorize" -> 7
      [] at[k] = "unwrap"      -> 6
      [] at[k] = "creds"       -> 5
      [] at[k] = "connect"     -> 4
      [] at[k] = "sql"         -> 3
      [] at[k] = "close"       -> 2
      [] at[k] = "mask"        -> 1
      [] OTHER                 -> 0

\* A call never goes back to an await it passed, and nobody else moves it.
NeverBack ==
    \A k \in Call :
        /\ Left(k)' <= Left(k)
        /\ CallStep(k) => Left(k)' < Left(k)

\* Every call that is done has its answer.
DoneIsAnswered == \A k \in Call : at[k] = "done" => answer[k] # "none"

LEMMA LeftType ==
    ASSUME NEW k
    PROVE  Left(k) \in 0 .. 17 /\ Left(k)' \in 0 .. 17
BY DEF Left

LEMMA LeftStage ==
    ASSUME TypeOK, NEW k \in Call
    PROVE  /\ Active(k) <=> Left(k) \in 1 .. 16
           /\ at[k] = "idle" <=> Left(k) = 17
           /\ at[k] = "done" <=> Left(k) = 0
<1>1. at[k] \in {"idle", "done"} \cup Awaiting \cup Connected
    BY DEF TypeOK
<1> QED BY <1>1 DEF Left, Active, Awaiting, Connected

\* The call goes on to an await further on the way.
LEMMA GotoNearer ==
    ASSUME TypeOK, NEW k \in Call, NEW from, NEW to, Goto(k, from, to)
    PROVE  at[k] = from /\ at'[k] = to
BY DEF TypeOK, Goto

LEMMA FinishNearer ==
    ASSUME TypeOK, NEW k \in Call, Active(k), NEW value, Finish(k, value)
    PROVE  Left(k)' < Left(k)
<1>1. at'[k] = "done"
    BY DEF TypeOK, Finish
<1>2. Left(k)' = 0
    BY <1>1 DEF Left
<1> QED BY <1>2, LeftStage

LEMMA MintStage == ASSUME NEW k PROVE Mint(k) \in {"mint", "creds"}
BY DEF Mint

LEMMA IdentifyNearer ==
    ASSUME TypeOK, NEW k \in Call, Identify(k)
    PROVE  Left(k)' < Left(k)
<1>1. CASE GetSvid(k) \/ LoginWorkload(k) \/ CreateToken(k)
    BY <1>1, GotoNearer DEF GetSvid, LoginWorkload, CreateToken, Left
<1>2. ASSUME NEW from \in {"obo", "probe"}, StepUp(k, from)
      PROVE  Left(k)' < Left(k)
    <2>1. CASE Goto(k, from, "ciba")
        BY <2>1, GotoNearer DEF Left
    <2>2. CASE at[k] = from /\ Finish(k, "error")
        BY <2>2, FinishNearer DEF Active, Awaiting
    <2> QED BY <1>2, <2>1, <2>2 DEF StepUp
<1>3. CASE LoginHuman(k)
    <2>1. ASSUME NEW to \in {"probe", "mint", "creds"}, UseParent(k, "obo", to, "obo")
          PROVE  Left(k)' < Left(k)
        BY <2>1, GotoNearer DEF UseParent, Left
    <2> QED BY <1>2, <1>3, <2>1, MintStage DEF LoginHuman
<1>4. CASE Probe(k)
    <2>1. ASSUME NEW to \in {"mint", "creds"}, UseParent(k, "probe", to, "obo")
          PROVE  Left(k)' < Left(k)
        BY <2>1, GotoNearer DEF UseParent, Left
    <2> QED BY <1>2, <1>4, <2>1, MintStage DEF Probe
<1>5. CASE AskHuman(k)
    <2>1. at[k] = "ciba" /\ at'[k] = "ciba" /\ phase[k] = "idle" /\ phase'[k] # "idle"
        BY <1>5 DEF AskHuman, Ask, TypeOK, GrantTypeOK
    <2> QED BY <2>1 DEF Left
<1>6. CASE HumanGrants(k)
    <2>1. at[k] = "ciba" /\ at'[k] = "elevated"
        BY <1>6, GotoNearer DEF HumanGrants
    <2> QED BY <2>1 DEF Left
<1>7. CASE HumanRefuses(k)
    BY <1>7, FinishNearer DEF HumanRefuses, Active, Awaiting
<1>8. CASE LoginElevated(k)
    <2>1. at[k] = "elevated" /\ at'[k] \in {"mint", "creds"}
        BY <1>8, GotoNearer, MintStage DEF LoginElevated, UseParent
    <2> QED BY <2>1 DEF Left
<1>9. CASE Authorize(k) \/ Reauthorize(k)
    <2>1. \/ at[k] = "authorize" /\ at'[k] \in {"reauthorize", "unwrap"}
          \/ at[k] = "reauthorize" /\ at'[k] = "unwrap"
        BY <1>9, GotoNearer DEF Authorize, Reauthorize, Authorized
    <2> QED BY <2>1 DEF Left
<1>10. CASE Unwrap(k)
    BY <1>10 DEF Unwrap, TypeOK, Left
<1> QED BY <1>1, <1>3, <1>4, <1>5, <1>6, <1>7, <1>8, <1>9, <1>10 DEF Identify

LEMMA QueryNearer ==
    ASSUME TypeOK, NEW k \in Call, Query(k)
    PROVE  Left(k)' < Left(k)
<1>1. CASE ReadCreds(k) \/ Connect(k) \/ Sql(k)
    <2>1. \/ at[k] = "creds" /\ at'[k] = "connect"
          \/ at[k] = "connect" /\ at'[k] = "sql"
          \/ at[k] = "sql" /\ at'[k] = "close"
        BY <1>1, GotoNearer DEF ReadCreds, Connect, Sql
    <2> QED BY <2>1 DEF Left
<1>2. CASE Close(k)
    <2>1. CASE Goto(k, "close", "mask")
        BY <2>1, GotoNearer DEF Left
    <2>2. ASSUME NEW value, Finish(k, value) PROVE Left(k)' < Left(k)
        BY <1>2, <2>2, FinishNearer DEF Close, Active, Connected
    <2> QED BY <1>2, <2>1, <2>2 DEF Close
<1>3. CASE Mask(k)
    BY <1>3, FinishNearer DEF Mask, Active, Awaiting
<1> QED BY <1>1, <1>2, <1>3 DEF Query

LEMMA CallNearer ==
    ASSUME TypeOK, NEW k \in Call, CallStep(k)
    PROVE  Left(k)' < Left(k)
<1>1. CASE Fails(k)
    BY <1>1, FinishNearer DEF Fails, Active
<1> QED BY <1>1, IdentifyNearer, QueryNearer DEF CallStep

\* Where a call is, a step of another call leaves alone.
LEMMA OtherCall ==
    ASSUME TypeOK, NEW k \in Call, NEW j \in Call, j # k, CallStep(j)
    PROVE  at'[k] = at[k] /\ phase'[k] = phase[k]
<1>1. ASSUME NEW from, NEW to, Goto(j, from, to) PROVE at'[k] = at[k]
    BY <1>1 DEF Goto, TypeOK
<1>2. ASSUME NEW value, Finish(j, value) PROVE at'[k] = at[k]
    BY <1>2 DEF Finish, TypeOK
<1>3. CASE GetSvid(j) \/ LoginWorkload(j) \/ LoginHuman(j) \/ Probe(j) \/ LoginElevated(j)
    BY <1>1, <1>2, <1>3 DEF GetSvid, LoginWorkload, LoginHuman, Probe, LoginElevated,
       UseParent, StepUp, grantVars
<1>4. CASE AskHuman(j) \/ HumanGrants(j) \/ HumanRefuses(j)
    BY <1>1, <1>2, <1>4 DEF AskHuman, HumanGrants, HumanRefuses, Ask, Grant, Refuse, TypeOK,
       GrantTypeOK
<1>5. CASE CreateToken(j) \/ Authorize(j) \/ Reauthorize(j)
    BY <1>1, <1>5 DEF CreateToken, Authorize, Reauthorize, Authorized, grantVars
<1>6. CASE Unwrap(j)
    BY <1>6 DEF Unwrap, TypeOK, grantVars
<1>7. CASE ReadCreds(j) \/ Connect(j) \/ Sql(j)
    BY <1>1, <1>7 DEF ReadCreds, Connect, Sql, grantVars
<1>8. CASE Close(j) \/ Mask(j) \/ Fails(j)
    BY <1>1, <1>2, <1>8 DEF Close, Mask, Fails, grantVars
<1> QED BY <1>3, <1>4, <1>5, <1>6, <1>7, <1>8 DEF CallStep, Identify, Query

LEMMA ArriveNearer ==
    ASSUME TypeOK, NEW k \in Call, NEW j \in Call, NEW x \in Context, NEW r \in Request,
           Admit(j, x, r) \/ Reject(j, x, r)
    PROVE  Left(k)' <= Left(k)
<1>1. at[j] = "idle" /\ at'[j] \in {"svid", "done"}
    BY DEF Admit, Reject, Arrive, TypeOK
<1>2. CASE k = j
    BY <1>1, <1>2 DEF Left
<1>3. CASE k # j
    <2>1. at'[k] = at[k] /\ phase'[k] = phase[k]
        BY <1>3 DEF Admit, Reject, Arrive, TypeOK, grantVars
    <2> QED BY <2>1, LeftType DEF Left
<1> QED BY <1>2, <1>3

LEMMA NextNearer == TypeOK /\ [Next]_vars => NeverBack
<1> SUFFICES ASSUME TypeOK, [Next]_vars, NEW k \in Call
             PROVE  Left(k)' <= Left(k) /\ (CallStep(k) => Left(k)' < Left(k))
    BY DEF NeverBack
<1>1. ASSUME at'[k] = at[k], phase'[k] = phase[k] PROVE Left(k)' <= Left(k)
    <2>1. Left(k)' = Left(k)
        BY <1>1 DEF Left
    <2> QED BY <2>1, LeftType
<1>2. CASE CallStep(k)
    BY <1>2, CallNearer, LeftType
<1>3. CASE ~CallStep(k)
    <2>1. ASSUME NEW j \in Call, CallStep(j) PROVE Left(k)' <= Left(k)
        BY <1>1, <1>3, <2>1, OtherCall
    <2>2. ASSUME NEW j \in Call, HumanDecides(j) PROVE Left(k)' <= Left(k)
        BY <1>1, <2>2 DEF HumanDecides, Decide
    <2>3. ASSUME NEW u \in User, EditPolicy(u) PROVE Left(k)' <= Left(k)
        BY <1>1, <2>3 DEF EditPolicy, grantVars
    <2>4. ASSUME UNCHANGED vars PROVE Left(k)' <= Left(k)
        BY <1>1, <2>4 DEF vars, grantVars
    <2> QED BY <1>3, <2>1, <2>2, <2>3, <2>4, ArriveNearer DEF Next
<1> QED BY <1>2, <1>3

\* A tool call ends by itself: it passes each await at most once, sixteen in all,
\* whatever Vault answers, the human decides and other calls do.
THEOREM CallsNeverGoBack == Spec => [][NeverBack]_vars
<1> QED BY AccessTypeCorrect, NextNearer, PTL DEF Spec

-----------------------------------------------------------------------------
(* Liveness: every call is answered. *)

LEMMA CallAnswered ==
    ASSUME TypeOK, NEW j \in Call, CallStep(j)
    PROVE  /\ at'[j] = "done" => answer'[j] # "none"
           /\ \A k \in Call \ {j} : answer'[k] = answer[k]
<1>1. ASSUME NEW from, NEW to, Goto(j, from, to), to # "done"
      PROVE  at'[j] # "done" /\ answer' = answer
    BY <1>1 DEF Goto, TypeOK
<1>2. ASSUME NEW value \in {"error", "plain", "masked"}, Finish(j, value)
      PROVE  answer'[j] # "none" /\ \A k \in Call \ {j} : answer'[k] = answer[k]
    BY <1>2 DEF Finish, TypeOK
<1>3. CASE GetSvid(j) \/ LoginWorkload(j) \/ LoginHuman(j) \/ Probe(j) \/ LoginElevated(j)
    BY <1>1, <1>2, <1>3, MintStage DEF GetSvid, LoginWorkload, LoginHuman, Probe,
       LoginElevated, UseParent, StepUp
<1>4. CASE AskHuman(j) \/ HumanGrants(j) \/ HumanRefuses(j)
    BY <1>1, <1>2, <1>4 DEF AskHuman, HumanGrants, HumanRefuses
<1>5. CASE CreateToken(j) \/ Authorize(j) \/ Reauthorize(j)
    BY <1>1, <1>5 DEF CreateToken, Authorize, Reauthorize, Authorized
<1>6. CASE Unwrap(j)
    BY <1>6 DEF Unwrap, TypeOK
<1>7. CASE ReadCreds(j) \/ Connect(j) \/ Sql(j)
    BY <1>1, <1>7 DEF ReadCreds, Connect, Sql
<1>8. CASE Close(j) \/ Mask(j) \/ Fails(j)
    BY <1>1, <1>2, <1>8 DEF Close, Mask, Fails
<1> QED BY <1>3, <1>4, <1>5, <1>6, <1>7, <1>8 DEF CallStep, Identify, Query

LEMMA NextAnswered == TypeOK /\ DoneIsAnswered /\ [Next]_vars => DoneIsAnswered'
<1> SUFFICES ASSUME TypeOK, DoneIsAnswered, [Next]_vars PROVE DoneIsAnswered'
    OBVIOUS
<1>1. ASSUME NEW j \in Call, NEW x \in Context, NEW r \in Request,
             Admit(j, x, r) \/ Reject(j, x, r)
      PROVE  DoneIsAnswered'
    BY <1>1 DEF Admit, Reject, Arrive, TypeOK, DoneIsAnswered
<1>2. ASSUME NEW j \in Call, CallStep(j) PROVE DoneIsAnswered'
    BY <1>2, CallAnswered, OtherCall DEF DoneIsAnswered
<1>3. ASSUME NEW j \in Call, HumanDecides(j) PROVE DoneIsAnswered'
    BY <1>3 DEF HumanDecides, DoneIsAnswered
<1>4. ASSUME NEW u \in User, EditPolicy(u) PROVE DoneIsAnswered'
    BY <1>4 DEF EditPolicy, DoneIsAnswered
<1>5. CASE UNCHANGED vars
    BY <1>5 DEF vars, DoneIsAnswered
<1> QED BY <1>1, <1>2, <1>3, <1>4, <1>5 DEF Next

LEMMA AnsweredHolds == Spec => []DoneIsAnswered
<1>1. Init => DoneIsAnswered
    BY DEF Init, DoneIsAnswered
<1> QED BY <1>1, AccessTypeCorrect, NextAnswered, PTL DEF Spec

\* A call under way can always take a step: at the latest its await fails, and the
\* step-up ends with a token or a refusal.
Resumable(k) == Active(k) => ENABLED <<CallStep(k)>>_vars
AlwaysResumable(k) == []Resumable(k)

\* The event loop resumes the call again and again while it is under way.
Resumed(k) == []<>~Active(k) \/ []<><<CallStep(k)>>_vars

LEMMA FairnessResumes ==
    ASSUME NEW k \in Call
    PROVE  CallFairness(k) /\ AlwaysResumable(k) => Resumed(k)
<1> QED BY PTL DEF CallFairness, AlwaysResumable, Resumable, Resumed

LeftIs(k, n) == Left(k) = n
LeftBelow(k, n) == Left(k) < n
Falls(k, m, n) == LeftBelow(k, m) ~> LeftBelow(k, n)
HasAnswer(k) == answer[k] # "none"
Arrived(k) == at[k] # "idle"

\* From each await the call comes to a later one, or ends.
LEMMA OneNearer ==
    ASSUME NEW k \in Call, NEW n \in 1 .. 16
    PROVE  Spec /\ Resumed(k) => (LeftIs(k, n) ~> LeftBelow(k, n))
<1>1. TypeOK /\ LeftIs(k, n) /\ [Next]_vars => LeftIs(k, n)' \/ LeftBelow(k, n)'
    BY NextNearer, LeftType DEF NeverBack, LeftIs, LeftBelow
<1>2. TypeOK /\ LeftIs(k, n) /\ <<CallStep(k)>>_vars => LeftBelow(k, n)'
    BY CallNearer DEF LeftIs, LeftBelow
<1>3. TypeOK /\ LeftIs(k, n) => Active(k)
    BY LeftStage DEF LeftIs
<1> QED BY <1>1, <1>2, <1>3, AccessTypeCorrect, PTL DEF Spec, Resumed

LEMMA Descends ==
    ASSUME NEW k \in Call, NEW n \in 1 .. 16, NEW m \in 2 .. 17, m = n + 1
    PROVE  Spec /\ Resumed(k) => Falls(k, m, n)
<1>1. LeftBelow(k, m) => LeftIs(k, n) \/ LeftBelow(k, n)
    BY LeftType DEF LeftBelow, LeftIs
<1>2. Spec /\ Resumed(k) => (LeftIs(k, n) ~> LeftBelow(k, n))
    BY OneNearer
<1> QED BY <1>1, <1>2, PTL DEF Falls

LEMMA OneAnswered ==
    ASSUME NEW k \in Call
    PROVE  Spec /\ Resumed(k) => (Arrived(k) ~> HasAnswer(k))
<1>1. TypeOK /\ Arrived(k) => LeftBelow(k, 17)
    BY LeftStage, LeftType DEF LeftBelow, Arrived
<1>2. TypeOK /\ DoneIsAnswered /\ LeftBelow(k, 1) => HasAnswer(k)
    BY LeftStage, LeftType DEF LeftBelow, DoneIsAnswered, HasAnswer
<1>3. Spec /\ Resumed(k) =>
          /\ Falls(k, 17, 16) /\ Falls(k, 16, 15) /\ Falls(k, 15, 14) /\ Falls(k, 14, 13)
          /\ Falls(k, 13, 12) /\ Falls(k, 12, 11) /\ Falls(k, 11, 10) /\ Falls(k, 10, 9)
    BY Descends
<1>4. Spec /\ Resumed(k) =>
          /\ Falls(k, 9, 8) /\ Falls(k, 8, 7) /\ Falls(k, 7, 6) /\ Falls(k, 6, 5)
          /\ Falls(k, 5, 4) /\ Falls(k, 4, 3) /\ Falls(k, 3, 2) /\ Falls(k, 2, 1)
    BY Descends
<1> QED BY <1>1, <1>2, <1>3, <1>4, AccessTypeCorrect, AnsweredHolds, PTL DEF Falls

\* Every tool call that arrives is answered, for any number of calls, contexts and
\* users.  That a call under way can take a step is a hypothesis: what is ENABLED only
\* TLC can tell.
THEOREM CallsAreAnswered ==
    FairSpec /\ (\A k \in Call : AlwaysResumable(k)) => EveryCallAnswered
<1>1. ASSUME NEW k \in Call
      PROVE  Spec /\ CallFairness(k) /\ AlwaysResumable(k) => (Arrived(k) ~> HasAnswer(k))
    BY FairnessResumes, OneAnswered, PTL
<1> QED BY <1>1 DEF FairSpec, EveryCallAnswered, Arrived, HasAnswer
===============================================================================
