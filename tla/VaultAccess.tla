----------------------------- MODULE VaultAccess -----------------------------
(***************************************************************************)
(* A tool call through user-mcp in vault mode: scope check and identity     *)
(* (tools/users.py, auth/), the three Vault identities and the database     *)
(* connection (storage/postgres_repo.py, vault_client.py), masking of the   *)
(* result (vault_transform.py).  Calls are coroutines of one event loop:    *)
(* one action is the code between two awaits.  The CIBA step-up is the      *)
(* promise CibaGrant, which CibaStepUp implements.                          *)
(*                                                                          *)
(* Vault is external and permissive: it accepts or refuses every request    *)
(* of the right form, so what holds here is due to user-mcp.                *)
(***************************************************************************)
EXTENDS CibaGrant

CONSTANTS
    Context,      \* task contexts: one call at a time, contextvars of its own
    User,         \* users with a validated OBO token
    Request,      \* the tool calls that are made
    None          \* no user (an anonymous request), no token, no context

Tool == {"list", "create", "delete", "update"}
Scope == {"users.read", "users.write"}

\* Who an action token stands for, and on which grounds Vault minted it.
ActionToken == [user : User, role : {"read", "write"}, grant : {"obo", "ciba"},
                authorized : BOOLEAN]

ASSUME VaultAssumption ==
    /\ None \notin User \cup Context \cup Request \cup ActionToken
    /\ Request \subseteq [tool : Tool, user : User \cup {None},
                          scope : SUBSET Scope, admin : BOOLEAN]

VARIABLES
    settings,     \* USER_MCP_* settings: fixed when the process starts
    policy,       \* users for whom ACL policy ciba-create-user grants `read`
    at,           \* the await each call is suspended in
    req,          \* what the call asks, and as whom
    ctx,          \* the task context it runs in
    action,       \* current_vault_action_token of each context
    parent,       \* which grant the human's Vault login used: "obo", "ciba"
    required,     \* history: Vault asked for a step-up in this call
    authorized,   \* the control group of the call's mint was authorized
    conn,         \* the call's Postgres connection is open
    committed,    \* history: its INSERT, DELETE or UPDATE took effect
    result,       \* what the SQL gave: "value", "error"
    answer        \* what the tool call returned: "plain", "masked", "error"

callVars == <<req, ctx, parent, required, authorized, conn, committed, result>>
vars == <<settings, policy, at, action, answer, callVars, grantVars>>

\* There is no bypass of auth: load_settings refuses it in vault mode.
Settings == [ciba : BOOLEAN, masking : BOOLEAN]

\* The awaits a call can be suspended in when its connection is not open.
Awaiting == {"svid", "spiffe", "obo", "probe", "ciba", "elevated", "mint",
             "authorize", "reauthorize", "unwrap", "creds", "connect", "mask"}
Connected == {"sql", "close"}

\* Where a call needs its action token.
Holding == {"creds", "connect", "mask"} \cup Connected
Answer == {"none", "plain", "masked", "error"}

\* `list` also stands for search_users_by_first_name.  An update always has a column to
\* set: a UserRecord has an email.
Writes(r) == r.tool # "list"
\* Mutant: the action role is named after the tool.
RoleOfTool(r) == r.tool

RoleOf(r) == IF Writes(r) THEN "write" ELSE "read"
RequiredScopes(tool) == IF tool = "list" THEN {"users.read"} ELSE {"users.write"}

\* require_scopes of scope_check.py.
InScope(r) == RequiredScopes(r.tool) \subseteq r.scope

\* _select_vault_targets.
HasTarget(r) == IF Writes(r) THEN "users.write" \in r.scope ELSE r.scope # {}

\* Everything that is decided before the first await.
Admitted(r) == InScope(r) /\ r.user # None /\ HasTarget(r)

TypeOK ==
    /\ settings \in Settings
    /\ policy \subseteq User
    /\ at \in [Call -> {"idle", "done"} \cup Awaiting \cup Connected]
    /\ req \in [Call -> Request \cup {None}]
    /\ ctx \in [Call -> Context \cup {None}]
    /\ action \in [Context -> ActionToken \cup {None}]
    /\ parent \in [Call -> {"none", "obo", "ciba"}]
    /\ required \in [Call -> BOOLEAN] /\ authorized \in [Call -> BOOLEAN]
    /\ conn \in [Call -> BOOLEAN] /\ committed \in [Call -> BOOLEAN]
    /\ result \in [Call -> {"none", "value", "error"}]
    /\ answer \in [Call -> Answer]
    /\ GrantTypeOK

Init ==
    /\ settings \in Settings
    /\ policy \in SUBSET User
    /\ at = [k \in Call |-> "idle"]
    /\ req = [k \in Call |-> None]
    /\ ctx = [k \in Call |-> None]
    /\ action = [x \in Context |-> None]
    /\ parent = [k \in Call |-> "none"]
    /\ required = [k \in Call |-> FALSE] /\ authorized = [k \in Call |-> FALSE]
    /\ conn = [k \in Call |-> FALSE] /\ committed = [k \in Call |-> FALSE]
    /\ result = [k \in Call |-> "none"]
    /\ answer = [k \in Call |-> "none"]
    /\ GrantInit

-----------------------------------------------------------------------------
(* How a call moves and how it ends. *)

fixedVars == <<settings, policy>>

\* An await returns and the call goes on to the next one.
Goto(k, from, to) ==
    /\ at[k] = from
    /\ at' = [at EXCEPT ![k] = to]
    /\ UNCHANGED <<fixedVars, action, answer>>

\* Mutant: the action token stays in the context.
FinishKeepsToken(k, value) ==
    /\ at' = [at EXCEPT ![k] = "done"]
    /\ answer' = [answer EXCEPT ![k] = value]
    /\ UNCHANGED <<fixedVars, action>>

\* _run_tool returns or raises: its `finally` clears the context's action token.
Finish(k, value) ==
    /\ at' = [at EXCEPT ![k] = "done"]
    /\ answer' = [answer EXCEPT ![k] = value]
    /\ action' = [action EXCEPT ![ctx[k]] = None]
    /\ UNCHANGED fixedVars

\* An await raises: a refusal, a transport error, or the call is cancelled.
Fails(k) ==
    /\ at[k] \in Awaiting
    /\ at[k] = "ciba" => phase[k] = "refused"
    /\ Finish(k, "error")
    /\ UNCHANGED <<callVars, grantVars>>

\* A call arrives in a context that runs no other.
Free(x) == \A k \in Call : ctx[k] = x => at[k] = "done"

Arrive(k, x, r) ==
    /\ at[k] = "idle" /\ Free(x)
    /\ ctx' = [ctx EXCEPT ![k] = x]
    /\ req' = [req EXCEPT ![k] = r]
    /\ UNCHANGED <<parent, required, authorized, conn, committed, result>>
    /\ UNCHANGED <<fixedVars, grantVars>>

Admit(k, x, r) ==
    /\ Arrive(k, x, r) /\ Admitted(r)
    /\ at' = [at EXCEPT ![k] = "svid"]
    /\ UNCHANGED <<action, answer>>

Reject(k, x, r) ==
    /\ Arrive(k, x, r) /\ ~Admitted(r)
    /\ at' = [at EXCEPT ![k] = "done"]
    /\ answer' = [answer EXCEPT ![k] = "error"]
    /\ action' = [action EXCEPT ![x] = None]

-----------------------------------------------------------------------------
(* The three identities. *)

GetSvid(k) == Goto(k, "svid", "spiffe") /\ UNCHANGED <<callVars, grantVars>>

LoginWorkload(k) == Goto(k, "spiffe", "obo") /\ UNCHANGED <<callVars, grantVars>>

\* After the human's login: a token left in the context is used again.
Mint(k) == IF action[ctx[k]] = None THEN "mint" ELSE "creds"

\* Mutant: without a CIBA client the login by session OBO is kept.
StepUpIfConfigured(k, from) ==
    /\ Goto(k, from, IF settings.ciba THEN "ciba" ELSE Mint(k))
    /\ required' = [required EXCEPT ![k] = TRUE]
    /\ parent' = [parent EXCEPT ![k] = "obo"]
    /\ UNCHANGED <<req, ctx, authorized, conn, committed, result, grantVars>>

\* _step_up_ciba begins, or raises at once when CIBA is not configured.
StepUp(k, from) ==
    /\ IF settings.ciba THEN Goto(k, from, "ciba")
       ELSE at[k] = from /\ Finish(k, "error")
    /\ required' = [required EXCEPT ![k] = TRUE]
    /\ UNCHANGED <<req, ctx, parent, authorized, conn, committed, result, grantVars>>

UseParent(k, from, to, grant) ==
    /\ Goto(k, from, to)
    /\ parent' = [parent EXCEPT ![k] = grant]
    /\ UNCHANGED <<req, ctx, required, authorized, conn, committed, result, grantVars>>

\* The tool that the binding message names: _login_human passes "create-user"
\* whatever the call does.
BindingTool == "create"

\* _login_human: the session OBO is accepted, or refused with a message about
\* bound claims, which for the write role means that Vault wants CIBA.
LoginHuman(k) ==
    \/ UseParent(k, "obo", IF Writes(req[k]) THEN "probe" ELSE Mint(k), "obo")
    \/ at[k] = "obo" /\ Writes(req[k]) /\ StepUp(k, "obo")

\* ciba_required_by_policy: the answer holds at the moment Vault gives it.
Probe(k) ==
    /\ at[k] = "probe"
    /\ \/ req[k].user \in policy /\ StepUp(k, "probe")
       \/ req[k].user \notin policy /\ UseParent(k, "probe", Mint(k), "obo")

\* CibaClient.fetch_access_token, as CibaGrant promises it.
AskHuman(k) == 
    at[k] = "ciba" /\ Ask(k) /\ UNCHANGED <<fixedVars, at, action, answer, callVars>>

HumanGrants(k) == Goto(k, "ciba", "elevated") /\ Grant(k) /\ UNCHANGED callVars

HumanRefuses(k) ==
    at[k] = "ciba" /\ Refuse(k) /\ Finish(k, "error") /\ UNCHANGED callVars

\* Mutant: after the approval the call goes on with the session OBO's login.
KeepSessionLogin(k) == UseParent(k, "elevated", Mint(k), "obo")

LoginElevated(k) == UseParent(k, "elevated", Mint(k), "ciba")

\* create_action_token: the create must answer with a control group to authorize.
CreateToken(k) == Goto(k, "mint", "authorize") /\ UNCHANGED <<callVars, grantVars>>

Authorized(k, from) ==
    /\ Goto(k, from, "unwrap")
    /\ authorized' = [authorized EXCEPT ![k] = TRUE]
    /\ UNCHANGED <<req, ctx, parent, required, conn, committed, result, grantVars>>

\* Mutant: a refused authorization is ignored.
AuthorizeAnyway(k) ==
    \/ Authorized(k, "authorize")
    \/ Goto(k, "authorize", "unwrap") /\ UNCHANGED <<callVars, grantVars>>

\* The first accessor is refused and the wrapped one differs: it is tried too.
Authorize(k) ==
    \/ Authorized(k, "authorize")
    \/ Goto(k, "authorize", "reauthorize") /\ UNCHANGED <<callVars, grantVars>>

\* Mutant: the two accessors are tried in turn until one is authorized.
ReauthorizeInTurn(k) ==
    \/ Authorized(k, "reauthorize")
    \/ Goto(k, "reauthorize", "authorize") /\ UNCHANGED <<callVars, grantVars>>

Reauthorize(k) == Authorized(k, "reauthorize")

Unwrap(k) ==
    /\ at[k] = "unwrap"
    /\ at' = [at EXCEPT ![k] = "creds"]
    /\ action' = [action EXCEPT ![ctx[k]] =
                    [user |-> req[k].user, role |-> RoleOf(req[k]),
                     grant |-> parent[k], authorized |-> authorized[k]]]
    /\ UNCHANGED <<fixedVars, answer, callVars, grantVars>>

-----------------------------------------------------------------------------
(* The database and the answer. *)

ReadCreds(k) == Goto(k, "creds", "connect") /\ UNCHANGED <<callVars, grantVars>>

Connect(k) ==
    /\ Goto(k, "connect", "sql")
    /\ conn' = [conn EXCEPT ![k] = TRUE]
    /\ UNCHANGED <<req, ctx, parent, required, authorized, committed, result, grantVars>>

\* Mutant: the connection is closed only after a statement that gave a value.
SqlWithoutFinally(k) ==
    /\ at[k] = "sql"
    /\ \/ Goto(k, "sql", "close") /\ result' = [result EXCEPT ![k] = "value"]
          /\ committed' = [committed EXCEPT ![k] = Writes(req[k])]
       \/ Finish(k, "error") /\ UNCHANGED <<result, committed>>
    /\ UNCHANGED <<req, ctx, parent, required, authorized, conn, grantVars>>

\* One statement, committed by itself: it gives a value; or nothing was changed
\* (no row, a duplicate email); or the answer is lost, or the call cancelled, and
\* nobody here knows whether it took effect.
Sql(k) ==
    /\ Goto(k, "sql", "close")
    /\ \E outcome \in {"value", "refused", "lost"}, took \in BOOLEAN :
          /\ took => Writes(req[k]) /\ outcome # "refused"
          /\ outcome = "value" /\ Writes(req[k]) => took
          /\ committed' = [committed EXCEPT ![k] = took]
          /\ result' = [result EXCEPT
                          ![k] = IF outcome = "value" THEN "value" ELSE "error"]
    /\ UNCHANGED <<req, ctx, parent, required, authorized, conn, grantVars>>

\* What a result still needs before it is answered (caller_is_admin).
MustMask(k) == settings.masking /\ ~req[k].admin

\* Mutant: only admins get masked records.
CloseMaskingAdmins(k) ==
    /\ at[k] = "close"
    /\ conn' = [conn EXCEPT ![k] = FALSE]
    /\ \/ result[k] = "value" /\ req[k].admin /\ Goto(k, "close", "mask")
       \/ result[k] = "value" /\ ~req[k].admin /\ Finish(k, "plain")
       \/ Finish(k, "error")
    /\ UNCHANGED <<req, ctx, parent, required, authorized, committed, result, grantVars>>

\* conn.close() in the `finally` of _acquire; when it raises, or is cancelled,
\* the connection is aborted all the same.
Close(k) ==
    /\ at[k] = "close"
    /\ conn' = [conn EXCEPT ![k] = FALSE]
    /\ \/ result[k] = "value" /\ MustMask(k) /\ Goto(k, "close", "mask")
       \/ result[k] = "value" /\ ~MustMask(k) /\ Finish(k, "plain")
       \/ Finish(k, "error")
    /\ UNCHANGED <<req, ctx, parent, required, authorized, committed, result, grantVars>>

\* mask_result: every field is encoded with the context's action token.
Mask(k) ==
    /\ at[k] = "mask" /\ action[ctx[k]] # None
    /\ Finish(k, "masked")
    /\ UNCHANGED <<callVars, grantVars>>

-----------------------------------------------------------------------------
(* The world outside. *)

HumanDecides(k) ==
    /\ \E d \in Decision \ {"none"} : Decide(k, d)
    /\ UNCHANGED <<fixedVars, at, action, answer, callVars>>

\* An operator edits ciba-create-user in the Vault UI.
EditPolicy(u) ==
    /\ policy' = IF u \in policy THEN policy \ {u} ELSE policy \cup {u}
    /\ UNCHANGED <<settings, at, action, answer, callVars, grantVars>>

-----------------------------------------------------------------------------
Identify(k) ==
    \/ GetSvid(k) \/ LoginWorkload(k) \/ LoginHuman(k) \/ Probe(k)
    \/ AskHuman(k) \/ HumanGrants(k) \/ HumanRefuses(k) \/ LoginElevated(k)
    \/ CreateToken(k) \/ Authorize(k) \/ Reauthorize(k) \/ Unwrap(k)

Query(k) == ReadCreds(k) \/ Connect(k) \/ Sql(k) \/ Close(k) \/ Mask(k)

CallStep(k) == Identify(k) \/ Query(k) \/ Fails(k)

Next ==
    \/ \E k \in Call :
          \/ \E x \in Context, r \in Request : Admit(k, x, r) \/ Reject(k, x, r)
          \/ CallStep(k)
          \/ HumanDecides(k)
    \/ \E u \in User : EditPolicy(u)

Spec == Init /\ [][Next]_vars

\* Vault requests time out (USER_MCP_VAULT_TIMEOUT_SECONDS) and the step-up ends
\* (CibaGrant).  That SPIRE and Postgres answer is an assumption: neither the
\* SVID fetch nor the SQL statement has a timeout in the code.
CallFairness(k) == WF_vars(CallStep(k))

FairSpec == Spec /\ \A k \in Call : CallFairness(k)

-----------------------------------------------------------------------------
(* Properties. *)

\* Secrets are read, and results encoded, only with an action token that was
\* minted for THIS call's user and role: one that a failed or cancelled call left
\* in the context is never picked up by the next call there.
OwnActionToken ==
    \A k \in Call :
        at[k] \in Holding =>
            /\ action[ctx[k]] # None
            /\ action[ctx[k]].user = req[k].user
            /\ action[ctx[k]].role = RoleOf(req[k])

\* No action token exists whose control group SPIFFE did not authorize, whichever
\* accessor it took.
MintedWithWorkload ==
    \A x \in Context : action[x] # None => action[x].authorized

\* When Vault asked for a step-up, the write connection rests on the elevated
\* token of a request a human approved, never on the session OBO.
StepUpHonoured ==
    \A k \in Call :
        conn[k] /\ required[k] =>
            action[ctx[k]].grant = "ciba" /\ decision[k] = "approved"

\* Each per-call connection is closed before the call goes on or ends, also when
\* the statement raises or the call is cancelled.
ConnectionClosed == \A k \in Call : conn[k] => at[k] \in Connected

\* An answer other than an error is true and fit for the caller: the write took
\* effect, and a caller who is not an admin gets it masked if masking is on.
AnswerIsEarned ==
    \A k \in Call :
        answer[k] \in {"plain", "masked"} =>
            /\ Writes(req[k]) => committed[k]
            /\ MustMask(k) => answer[k] = "masked"

-----------------------------------------------------------------------------
(* The inductive invariant behind them. *)

Active(k) == at[k] \in Awaiting \cup Connected

\* A context runs one call, and an action token in it belongs to the call that
\* runs there: nothing survives the `finally` of _run_tool.
TokenIsOfRunningCall ==
    /\ \A j, k \in Call : Active(j) /\ Active(k) /\ ctx[j] = ctx[k] => j = k
    /\ \A x \in Context : action[x] # None =>
          \E k \in Call : at[k] \in Holding /\ ctx[k] = x

\* What a call has established at each await.
EstablishedBy(k) ==
    /\ at[k] = "idle" => ctx[k] = None /\ ~required[k]
    /\ Active(k) => ctx[k] # None /\ req[k] # None /\ req[k].user # None
    /\ at[k] = "unwrap" => authorized[k]
    /\ at[k] \in {"mint", "authorize", "reauthorize", "unwrap"} => parent[k] # "none"
    /\ at[k] \in Holding =>
          /\ action[ctx[k]] # None
          /\ action[ctx[k]].user = req[k].user
          /\ action[ctx[k]].role = RoleOf(req[k])
          /\ action[ctx[k]].grant = parent[k]
          /\ action[ctx[k]].authorized
    /\ at[k] = "mask" \/ (at[k] = "close" /\ result[k] = "value") =>
          (Writes(req[k]) => committed[k])

Established == \A k \in Call : EstablishedBy(k)

\* A step-up Vault asked for is on the way or behind the call, never skipped.
StepUpUnderWay ==
    \A k \in Call :
        /\ at[k] \in {"svid", "spiffe", "obo", "probe"} => ~required[k]
        /\ required[k] /\ Active(k) /\ at[k] \notin {"ciba", "elevated"} =>
              parent[k] = "ciba"
        /\ at[k] = "elevated" \/ parent[k] = "ciba" => decision[k] = "approved"

\* Answers belong to calls that are done, connections to calls that use them.
NothingOutlives ==
    \A k \in Call :
        /\ answer[k] # "none" => at[k] = "done"
        /\ conn[k] => at[k] \in Connected

AccessInv ==
    /\ TypeOK
    /\ TokenIsOfRunningCall
    /\ Established
    /\ StepUpUnderWay
    /\ NothingOutlives
    /\ AnswerIsEarned

-----------------------------------------------------------------------------
\* Every call that arrives is answered.
EveryCallAnswered == \A k \in Call : at[k] # "idle" ~> answer[k] # "none"

\* What the phone tells the human ("<user> asked the agent to <binding>") is what
\* the agent was asked to do.
BindingIsTheTool == \A k \in Call : phase[k] # "idle" => req[k].tool = BindingTool
==============================================================================
