# A verification model of the Vault / Keycloak / SPIFFE agent demo

The repository is a demo of *how an AI agent may act for a human*: a browser
talks to a web app, the web app to an agent, and the agent calls MCP tools whose
database access needs three identities at once (the workload, the human, and,
for some writes, a fresh approval on the human's phone). This directory holds
TLA+ models of the code that makes this safe, the TLC runs that check them on
small instances, and machine-checked proofs (TLAPS) of what holds for every
instance. Paths below are relative to `src/`.

## 1. Inventory

```
browser -> web-app -> ai-agent -> user-mcp -> Vault -> Postgres
                         |            |
                  token-exchange      +-> Keycloak -> ciba-channel <- human / ciba-android
                         |
                      Keycloak
```

| Component | State | Operations | What is hard | What makes it correct |
|---|---|---|---|---|
| user-mcp CIBA client (`user-mcp/ciba_client.py`) | interval, elapsed seconds of a call | `fetch_access_token`: backchannel POST, then sleep and poll | any await fails; `slow_down`; approval near the timeout | a token only for an approved request; the loop ends in bounded time; an approval in time is served |
| approval channel (`docker-compose/templates/ciba-channel/server.py`) | `_PENDING` under `_LOCK` | `authn`, `pending`, `approve-latest`, `approve/<id>`, `deny/<id>`, `_finish` | `_finish` calls Keycloak without the lock and writes the status afterwards; items can be finished twice | "approved" is recorded only if Keycloak approved |
| user-mcp vault pipeline (`user-mcp/storage/postgres_repo.py`, `vault_client.py`, `vault_transform.py`) | Vault tokens of the call, the context's action token, one connection per call | SPIFFE login, OBO login, probe, step-up, control-group mint, unwrap, read credentials, SQL, mask | a dozen awaits, each may raise; policy edited meanwhile; a token left in the task context | credentials only with this call's own, SPIFFE-authorized token; a required step-up is never skipped; the connection is closed |
| user-mcp tools and auth (`tools/users.py`, `auth/`) | contextvars of a request | scope check, `_run_tool`, masking decision, cleanup | the `finally` must run on every path | only admitted calls run; non-admins get masked records |
| user-mcp SVID provider (`spiffe_client.py`) | cached SVID, its expiry, a lock | `get_jwt_svid`, refresh | lock held across a fetch without timeout; expiry between check and use | no expired SVID is returned; one fetch at a time |
| user-mcp repositories (`storage/file_repo.py`, `postgres_repo.py`, `factory.py`, `mcp_app.py`) | user list with lock, pool or per-call connection | startup, shutdown, CRUD | non-reentrant lock and `_ensure_loaded`; lost answers; shutdown with calls under way | each behaves like one abstract book of users |
| ai-agent token cache (`identity.py`, `scoped_tool.py`) | OBO tokens per subject and scopes, last token | resolve, look up, clear | thread lock held across the exchange; expiry between lookup and use | a token is returned only to its subject, with the scopes asked for |
| token-exchange (`broker/`, `verify/`, `api/`) | TTL cache of OBO tokens | exchange, verify, retry | two caches with different notions of expiry | a cached token is the one Keycloak issued, still valid |
| ai-agent runtime and MCP client (`agent_runtime.py`, `mcp_client.py`, `agent_api.py`) | message list, tool round counter, discovered tools | discover, invoke, execute tool calls | unknown tools, timeouts, denials, 8 rounds, operations that outlive their caller | the model that writes the answer knows what was done |
| ai-agent guardrails (`opa_client.py`, `pii_masking.py`, `security.py`) | none of their own | check the prompt, filter the answer, mask a record | two questions in one `try`; fail-open; a fallback per field | a refused prompt reaches no tool unless the check failed; what is returned is masked |
| web-app login (`lib/auth/`, `app/api/auth/`, `middleware.ts`) | state/PKCE cookies, session cookie | login, callback, logout | two tabs, stale cookies | a session belongs to the login it came from |
| web-app chat (`lib/agent/client.ts`, `components/chat/`) | messages, abort controller | send, clear, retry, stream | retry of a delivered POST; late callbacks | an answer lands in the conversation it was asked in |
| ciba-android (`CibaListenService.java`, `CibaActionReceiver.java`) | `shown` set | poll, show, post verdict | overlapping polls; a lost approval | each pending request is shown until decided |
| infrastructure scripts | none | provisioning | - | - |

Components interact by HTTP calls (every arrow above) and, inside user-mcp, by
the contextvars of a task. Keycloak, Vault, SPIRE and Postgres are not in the
repository; they are modelled by what the code can receive from them.

`PROJECT.json` lists every hazard at its line, with the properties that would
catch it going wrong, and a note where they catch only a part of it.

## 2. Modules

| Module | Models | Composes |
|---|---|---|
| `CibaGrant` | the promise of a step-up: ask, at most one decision, granted only if approved, always an end | - |
| `KeycloakCiba` | Keycloak's CIBA endpoints as their callers use them (external) | - |
| `CibaClient` | `fetch_access_token` | extends `KeycloakCiba` for the set of calls |
| `CibaChannel` | the `ciba-channel` server and its handler threads | extends `KeycloakCiba` likewise |
| `CibaStepUp` | client + Keycloak + channel + humans | extends both; implements `CibaGrant` |
| `VaultAccess` | one MCP tool call in vault mode, from admission to answer | extends `CibaGrant` as its step-up |
| `UserRecords` | users, requests and outcomes of a repository | - |
| `UserRepository` | the promise of a repository: each call takes effect at one moment or not at all | extends `UserRecords` |
| `FileRepository` | `storage/file_repo.py`: the list and its lock | extends `UserRecords` |
| `SvidProvider` | `spiffe_client.py`: the cached SVID and its lock | - |
| `UserBackends` | user-mcp's life around its repository, for each of the three backends | extends the last two; implements `UserRepository` |
| `OboGrants` | the promise of the token service: a fitting live token, or none | - |
| `TokenExchange` | the token-exchange service with its cache, attempts and clock | - |
| `OboTokens` | ai-agent's token cache, wrappers and inspector in front of it | extends `TokenExchange`; implements `OboGrants` |
| `AgentRun` | what a caller of ai-agent can rely on | - |
| `AgentLoop` | the handler of a query: OPA, model rounds, tool calls | implements `AgentRun` |
| `RecordMasking` | personal data on its way from the table to the chat and back | - |
| `WebApp` | chat page, its route and the POST to ai-agent | extends `AgentRun` as its agent |
| `..._proofs` | theorems about `CibaStepUp`, `VaultAccess`, `OboTokens`, `AgentLoop`, `RecordMasking`, `UserBackends`, `WebApp` | each extends its module and TLAPS |
| `UserRefinement_proofs` | theorem that `UserBackends` implements `UserRepository` | extends `UserBackends_proofs` |
| `MC...` | instances for TLC: symmetry, enumerated requests and plans, the retry scenario | |

Components meet at abstract specifications. `VaultAccess` uses the *abstract*
step-up and `CibaStepUp` shows that the real one refines it; `WebApp` uses the
abstract `AgentRun`, which `AgentLoop` refines. So the interleavings of a poll loop
need not be multiplied with those of the Vault pipeline, nor those of the
browser with the agent's.

### CibaClient

A *call* is one invocation of `fetch_access_token` and the CIBA request it opens.
`stage[c]` is where the coroutine is: awaiting the backchannel POST (`starting`),
in `asyncio.sleep` (`sleeping`), awaiting a poll (`polling`), or ended (`token`,
`denied`, `timedout`, `failed`). `interval` and `elapsed` are the local variables
of those names; `elapsed` counts sleeps only, as the code does. `answer[c]` is
Keycloak's answer on its way back; the await may instead end with `error` at any
moment (httpx's 20 s timeout, a transport error, a status or a body the code
does not know), and then the answer is dropped. `LoopHead` is the `while`
condition, evaluated before the sleep and not between sleep and poll: the last
poll happens after the sleep that reached the timeout.

### CibaChannel

`listed` is the insertion order of `_PENDING`, `status` the items' status.
`handler[t]` is a thread of the `ThreadingHTTPServer` inside `_finish`: before
Keycloak's answer to the callback (`callback`) or between that answer and the
write of the status (`record`). Only the dictionary accesses are under the lock,
so each is atomic and everything in between interleaves. `IsLatest` is
`pending[-1]`; the by-id endpoints do not look at the status, so a decided item
can be finished again. `GET /pending` changes nothing and appears as `Pending`.

### KeycloakCiba

A request is `sent`, then `open` or `closed`. A callback decides an open,
undecided request and is otherwise an error; a token is issued once; a refusal
is told once; a request may expire at any time. This is the external contract
the proofs rest on.

### CibaStepUp

The composition. `KeycloakOpens` is Keycloak handling the backchannel POST: it
calls the channel's `authn` before it answers, so the item can be listed while
the client has given up, and it can stay listed although Keycloak dropped the
request. A callback can be accepted with its answer lost (`CallbackDelivered`),
or refused, or never seen (`CallbackFails`). `consent` is a history variable: the
requests for which somebody pressed Approve.

### VaultAccess

One action per stretch of code between two awaits, in the order of
`_acquire` / `_login_human` / `_mint_action_token` / `_connect` / the statement /
`close` / `mask_result`. `at[k]` names the await. Task contexts are modelled
because `current_vault_action_token` lives in one: calls that follow one another
in a context see what the earlier one left, calls in other contexts do not.
`Fails` is any refusal, transport error or cancellation at any await; `Finish`
is the `finally` of `_run_tool` with its cleanup. Settings are chosen once, at
start; the ACL policy `ciba-create-user` is edited by an operator at any time,
between the probe and the use of its answer as well. Vault accepts or refuses
any well-formed request: nothing is concluded from Vault being strict. `Admit`
requires the scope check, an identity and a Vault target; `Reject` is every other
call. The auth bypass is no case here: `load_settings` refuses to start with it in
vault mode (`config.py:152-176`). `list` also stands for
`search_users_by_first_name`; an update always has a column to set, because a
`UserRecord` has an email.

At this commit some user-mcp files carry leftovers of a merge and do not import:
a second `finally` in `tools/users.py`, and names that are never defined in the
request-identity reset (`context.py:65-66`), in `spiffe_provider` (`factory.py:47`,
`postgres_repo.py:123`) and in the settings (`config.py:196`). The models follow
the evident intent (one `finally` that clears the action token and the identity).

### UserBackends, FileRepository, SvidProvider

`backend` is the file list, Postgres in direct mode (a pool) or Postgres in vault
mode (an SVID and a connection per call). `life` is the process: the lifespan awaits
the repository's `startup` before the server takes requests, and ends with calls
under way; `Exit` waits for the pool's connections, `Crash` for nothing. `at[c]` is
what a call awaits. In the file backend a loaded list is read and written in one
step, because nothing awaits under the lock; an operation that finds no list jams
(`stuck`), since `_ensure_loaded` waits for the lock the operation holds. In vault
mode `TakeSvid` is `get_jwt_svid` up to its await: the lock is held across the
fetch, and `SvidHangs` is the fetch without an answer. SVIDs have an age
(fresh, aging within the 30 s headroom, dead); `Login` is everything
between the SVID and the connection, which `VaultAccess` models in detail. A
statement may fail before or after it took effect. `name` stands for all
nullable fields; the differences between the backends (an update of the list
replaces the whole record, Postgres sets the columns given) are kept.

`UserRepository` is their common promise: a book with at most one user per mailbox,
where each call takes effect at one moment between request and answer.

### TokenExchange and OboTokens

token-exchange has an `async def` route that blocks its event loop, so requests
form an `inbox` and are served one at a time, also those whose client hung up
(`Forget`). `serving` is the job with its attempt; `entries` the `TTLCache`. The clock
counts ticks and an attempt ends within one (requests' timeout). In ai-agent
`resolve_token` is synchronous: while it waits the whole agent waits (`loop`),
which is why its thread lock is never contended. A *task* is a tool call. Its token
is found in `cache`, exchanged, denied, or the wait ends in a `TimeoutError`, which
nobody catches. `Inspect` is `GET /v1/agent/tokens`. Either process may restart,
and vault-agent renders new actor tokens. `latest` and `newest` are history
variables. ai-agent uses the JWT's `exp`, the broker keeps an entry until 30 s
before it and at most `cache_ttl`; both are kept. So is the eviction at
`cache_maxsize` entries (`Stored`; which entry makes room is left open, where cachetools
takes the least recently used). An attempt that fails may have had its token issued all
the same, with the answer lost, late or unreadable (`Fails`), and so may one a
restart cuts off. `newest` outlives a restart of the service, since Keycloak
has issued what it has issued; `lost` are the requests whose newest token the
service cannot have any more.

### AgentLoop and AgentRun

A run is one handling of `POST /v1/agent/query`. `pc` is what it awaits: OPA's two
prompt checks, the model, a round's next call, a tool, OPA's answer filter. `todo` are
the calls of the round that are left. An operation on user-mcp (`op`) takes effect or
not whoever still waits for it, so timeouts and restarts leave operations
behind. `told` counts the effects the tool messages report and `knew` those the model
had been told of when it last wrote. Tool calls of the model are of five
kinds: on user-mcp, `shell`, `mask_pii`, not in the registry (skipped without a message),
and with arguments that are no object. `shell` runs its command in a thread and without
a timeout, so the event loop goes on but the run may wait for ever (`ShellHangs`).
Discovery happens once per process. OPA only
ever sees the last user message of the request: its check is about that one. The
model's text (`raw`) holds nothing OPA's patterns match, something they match in a
text that is no JSON, or something they match in a JSON object, array or the like: for
the last, `pii_filter.rego:43-47` returns the value and no string, and
`sanitize_response` answers the text as it was (`opa_client.py:80-88`). That OPA has
loaded the policies is assumed; the compose file mounts them.

### RecordMasking

One record, with the fields that are masked in user-mcp through Vault (`ssn`,
`credit_card_number`), and those masked locally (`email`, `phone`; `ip_address` is
like `phone`). A value is absent, fits Vault's template, does not (`odd`), or holds
stars. `Hand` is `_run_tool` with `mask_user_record`: all fields are encoded at once
and the first failure fails the call. `Mask`, `MaskSsn`, `MaskCard` and `MaskLocal` are
the agent's tool `mask_pii` on a record, alone or in a list, field by field with its
fallback. What is no record (`MaskWrapped`: a string, a tool's content block, a record
one level down) it returns as it is, and what is no JSON gets an error
(`MaskRejects`). `Update` is the agent's read-merge-write; the
language model is external and may send what it has seen or nulls.

### WebApp

`log` are the messages shown, `open` the queries a stream runs for. `route[q]` is
where the route is with a query: the checks, `fetchWithRetry` before and after the
POST was delivered, the response head, the body. Each delivery is a run of
`AgentRun`. The route is not told when the page aborts, so it goes on
with its retries. After Clear the aborted stream's `onError` puts an error message into
the emptied log, and a stream that is cut after its first chunk is shown
as complete; both are modelled as they are.

## 3. Runs

| Run | Instance | Checks | Result |
|---|---|---|---|
| `stepup_shared_page` | 2 calls, 1 thread, timeout 1 s, symmetric | `TypeOK`, `TokenNeedsApproval`, `StepUpInv`, `GrantSteps` | pass, 782,636 states, about 1 min |
| `stepup_threads` | 1 call, 3 threads, timeout 3 s, fair | `RecordedApprovalIsReal`, `WaitBounded`, `ApprovalInTimeIsServed`, `ImplementsGrant` | pass, 145,473 states, about 30 s |
| `stepup_retry` | 2 calls, the second begins when the first timed out and was approved | `RetryUsesTheApproval` | violated |
| `access` | 2 calls, 2 contexts, 2 users, 5 kinds of tool calls, every setting and policy | `TypeOK`, `OwnActionToken`, `MintedWithWorkload`, `StepUpHonoured`, `ConnectionClosed`, `AnswerIsEarned`, `AccessInv` | pass, 161,816 states |
| `access_live` | 2 calls, 1 context, fair | `EveryCallAnswered` | pass, 120,648 states |
| `access_binding` | 1 call | `BindingIsTheTool` | violated |
| `obo_tokens` | 2 users, 3 tool calls, 2 actor tokens, 2 scopes, token lifetime 3, headroom 1, TTL 2, 1 cache entry, 2 attempts, timeout 2, clock up to 3, 1 unbegun job, fair | `TypeOK`, `TokenFitsTask`, `InspectorShowsLatest`, `NoDoubleIssue`, `GrantsImplemented`, `LoopComesFree` | pass, 190,972 states, about 2 min |
| `agent_loop` | 1 run, 3 rounds, 5 plans of tool calls, every setup, fair | `TypeOK`, `PromptChecked`, `AnswerKnowsEffects`, `AnswerFiltered`, `RunImplemented`, `RunsEnd` | pass, 65,154 states |
| `pii_records` | an administrator and a writer, every record | `TypeOK`, `LeavesMasked`, `ShownMasked` | pass, 366,670 states |
| `pii_merge` | 1 writer | `UpdateKeepsTheRest` | violated |
| `user_store` | 3 backends, 2 clients, 2 mailboxes, 3 spellings, 5 requests, a pool of 1, fair | `TypeOK`, `LoginsWithLiveSvid`, `OneUserPerMailbox`, `RepositoryImplemented`, `CallsEnd` | pass, 122,351 states, about 70 s |
| `web_app` | 2 queries, 2 deliveries, 2 attempts, history bound 1, fair | `TypeOK`, `AnswersFollowQuestions`, `QuietAfterAnswer`, `ComposerComesBack` | pass, 270,044 states, about 80 s |

What the properties say:

- `TokenNeedsApproval`: a call returns a token only if a human pressed Approve on
  *its* request and Keycloak took that verdict. Two calls share one page, so
  `approve-latest` can hit either.
- `RecordedApprovalIsReal`: "approved" on the page means approved in Keycloak,
  however the unlocked callbacks of several threads interleave.
- `WaitBounded`, `ApprovalInTimeIsServed`: the loop sleeps less than timeout plus
  one interval, and an approval Keycloak has when the call goes to sleep is
  never answered by "timed out".
- `GrantSteps`, `ImplementsGrant`: the step-up is, step by step, the promise of
  `CibaGrant`; the second includes that every call ends.
- `StepUpInv`, `AccessInv`: the inductive invariants of section 5, checked before they
  are proved.
- `OwnActionToken`: credentials are read and results encoded with a token minted
  for this call's user and role, never with one an earlier call left behind.
- `MintedWithWorkload`: whichever accessor was tried, no token exists whose control
  group SPIFFE did not authorize.
- `StepUpHonoured`: when Vault asked for a step-up, the connection rests on the
  elevated token of an approved request, also if CIBA is not configured or the
  policy is edited meanwhile.
- `ConnectionClosed`, `AnswerIsEarned`, `EveryCallAnswered`: no connection outlives its
  statement; a non-error answer is true (the write took effect) and masked where
  it must be; every call ends. The converse of `AnswerIsEarned` does not hold and is
  not claimed: a caller can get an error for a write that took effect.
- `TokenFitsTask`: a tool call holds only a token for its own user with its tool's
  scopes and the delegation scope, and the service authorized it, though two
  caches with different keys stand in between. `GrantsImplemented` adds that it was
  live when it was handed out.
- `InspectorShowsLatest`: the inspector shows the token last handed out for a
  user, or none, whatever was exchanged, looked up or dropped between.
- `NoDoubleIssue`: Keycloak is asked again for a token only near the end of the
  last one (by its `exp` or the cache's TTL), or when the service cannot have it: its
  answer never came, its entry made room for another, or it went with a restart. So a
  caller that timed out and asks again finds what its first
  request fetched, and so does an agent that restarted. `LoopComesFree`: an exchange never blocks the agent for good.
- `PromptChecked`: a prompt OPA objects to reaches the model, and its tools, only in a
  run whose check failed. That a failing second question drops a first objection is
  part of the model, so the property cannot say more.
- `AnswerKnowsEffects`: the answer was written by a model that had been told of every
  operation of the run that took effect, unless the rounds ran out; even then
  each effect has its message. A run that cannot account for an operation
  fails instead.
- `AnswerFiltered`: what a non-admin is answered has OPA's masks on it, whichever round
  wrote it, unless the filter's call failed or the text is JSON, which the filter leaves
  as it is.
- `RunImplemented`, `RunsEnd`: the handler is an `AgentRun`; every run ends, but one
  that is left with a shell command that never does.
- `LeavesMasked`: while user-mcp masks, no field reaches a non-admin readable, also
  when one of several concurrent encodings fails. `ShownMasked`: where
  user-mcp masks, all that `mask_pii` returns is masked. Where it does not, what
  `mask_pii` makes of a record is, also when Vault fails halfway, except for numbers with
  the wrong number of digits; what is handed over in another form is not masked at all.
- `LoginsWithLiveSvid`: no call logs in with an SVID that expired while it waited.
- `OneUserPerMailbox`: two stored users never share a mailbox, however creations
  and renamings collide and addresses are spelled.
- `RepositoryImplemented`, `CallsEnd`: each backend is the abstract repository through
  startup, shutdown, crash and lost answers; every call ends unless the Workload
  API lets a fetch hang. The startup jam of the file list is not reachable:
  the lifespan awaits `startup` first.
- `AnswersFollowQuestions`: an answer is shown right below its question and once, also
  after Clear and a new query while the old stream goes on in the route.
- `QuietAfterAnswer`: once an answer is shown nothing goes on for its question, but in
  runs whose connection was reset. `ComposerComesBack`: the composer is enabled
  again after every query.

Bounds, and why they are enough. Two calls are what it takes for a verdict or a
token to reach the wrong one; three threads let Approve, Deny and a second
Approve of one item all be past their callback; a timeout of 3 s gives several
polls and lets `slow_down` stretch the interval across the timeout, a timeout of
1 s keeps the two-call run small. Two contexts give both "after each other in one
context" and "side by side". In `obo_tokens` tokens outlive the TTL and end within the
clock, one user has two scope sets, the other may not have what it asks for, and its
own token expires; a job can wait for another and then take two attempts, so that it
outlives its caller; with one entry every second token evicts the first. Runs of the agent share nothing but the setup and the
discovered tools, so one run suffices; three rounds let a call follow another and
the bound bite. In `user_store` a pool of one (10 in the code) makes calls wait, and
the requests collide on a mailbox. In `web_app` a query can be delivered twice, or two
queries once each, and a history of two messages is refused (200 in the code). Where a bound cuts
behaviour (`Thread`, `MaxInbox`, `MaxTime`, `MaxQueries`, `Run`) the proofs remove it
for the safety properties.
Symmetry is used only in safety runs.

Deadlock checking is off wherever the system may really stop: all calls, runs or
queries may be over and nobody has to make another, press a button or advance
the bounded clock. It is on in `access` and `access_live`, where the operator can always
edit the policy.

The three violations are disagreements between text and code. The timeout message
tells the user to approve *the pending request* and retry, but a retry opens a
new request and never polls the approved one (`ciba_client.py:52`, `:135`). The
phone tells the human which action "the agent was asked" to do, but the
binding message is `create-user` for every write (`postgres_repo.py:338`). And the
system prompt has updates carry "the original values for fields the user is NOT
changing" (`agent_runtime.py:34-35`), while a writer who is no administrator, as the
realm's `mfa-user` is, never gets original values: user-mcp masks what it returns
(`users.py:153-154`), and the update writes the stars.

Smaller disagreements, without a run of their own: `postgres_repo.py:447-449` calls
every column NOT NULL, while `users-init.sql:3-11` has that for `first_name` and
`email` only; `identity.py:339` says a token carries exactly the scopes asked for, while
the exchange always adds `delegation:ai-agent`; `verify_client.py:79-80` describes
an actor token that the default client-secret mode never sends; the 502 text says that
the agent never reached Vault or user-mcp, also after a round that changed a record. The
docstring of `mask_pii` promises "every PII field ... replaced by a masked value"
(`pii_masking.py:193-196`) and the prompt has the model pass it a tool's raw output
(`agent_runtime.py:68-69`), but numbers with the wrong number of digits (`:90-93`) and
everything that is no record with those keys (`:126-169`, `:212-214`) come back
readable: `ShownMasked` states what is left of the promise.

## 4. Fairness

Weak fairness on what the code does by itself, and nothing assumed of users,
networks, restarts or the clock. Where it is asked of each call or query it has a name
(`CallFairness`, `RouteFairness`), which the proofs of liveness instantiate.

- `CibaStepUp`: the steps of a call. Each await of the client is a sleep or a POST
  with httpx's timeout of 20 s, so the event loop does resume it; Keycloak may never
  answer, handler threads may hang, and humans may do nothing.
- `VaultAccess`: the steps of a call. Vault requests have a timeout and the step-up ends
  (that is `ImplementsGrant`); that SPIRE and Postgres answer is an *assumption*,
  since neither await has a timeout in the code. It is visible as fairness of
  `GetSvid` and `Sql`.
- `OboTokens`: `ExchangeStep`. Every attempt has a timeout and the service goes on to the
  next request. The clock need not advance, so `LoopComesFree` does not rest on the
  agent's own timeout.
- `AgentLoop`: `RunStep`. OPA (5 s), the model and user-mcp (180 s each) answer or time
  out, and so do `mask_pii`'s calls of Vault (10 s); operations on user-mcp may never end.
  The command of `shell` has no timeout (`tools.py:20-26`): `RunStep` includes
  `ShellHangs`, after which the run has no step, so nothing is assumed of commands.
- `UserBackends`: weak fairness of a call's steps, which include "the Workload API
  never answers", and strong fairness of `Turn`, because asyncio's lock and
  asyncpg's pool serve their waiters first come, first served.
- `WebApp`: `Advance`, with the request's timeout of 310 s. ai-agent may never answer.

## 5. Proofs

`CibaStepUp_proofs` proves, for every set of calls and threads and for all natural
values of the timeout, interval (at least 1) and slow-down step
(`ClientAssumption`):

| Theorem | Statement |
|---|---|
| `TypeCorrect` | `Spec => []TypeOK` |
| `InvariantHolds` | `Spec => []StepUpInv` |
| `TokenApproved` | `Spec => []TokenNeedsApproval` |
| `ApprovalRecorded` | `Spec => []RecordedApprovalIsReal` |
| `SleepBounded` | `Spec => []WaitBounded` |
| `StepUpImplementsGrant` | `Spec => GrantSteps` |
| `PollLoopProgresses` | `Spec => [][NearerTheEnd]_vars` |
| `ApprovalServed` | `FairSpec /\ (\A c \in Call : AlwaysResumable(c)) => ApprovalInTimeIsServed` |

None of the safety properties is inductive. `StepUpInv` adds what each party knows
of the others:

- `CallFollowsKeycloak`: a call sleeps or polls only after its request was
  handled; an answer in flight answers the POST that is awaited; an answer
  `token` exists only for an approved request. It carries `TokenNeedsApproval` over
  the flight of the answer, and the refinement over the opening of a request
  (Keycloak decides only requests of calls that have begun).
- `VerdictsArePressed`: every SUCCEED under way was pressed for, and a thread that
  holds a confirmed SUCCEED is about an approved request. As Keycloak never takes
  a decision back, this survives all other threads, and gives
  `RecordedApprovalIsReal` when the thread finally writes.
- `LoopTime`: no time has passed before the loop, and a sleeping call is below the
  timeout; the sleep then adds one interval, and the interval only grows.

The proof has one lemma for the steps of calls and Keycloak and one for humans
and threads, each split by action and, below, by conjunct. The refinement maps
`stage` to `phase`: `StageStep` and `DecisionStep` show that a step changes one call's
phase, or one decision, in a way `CibaGrant` allows, and `NextGrant` combines them
by action.

`StepsLeft` counts what a call has before it: two steps for each second of the timeout it
has not slept yet. `NearerTheEnd` says that each step of the call takes some away and
nobody else's gives any back; the sleep needs `LoopTime` for it (below the timeout the
next interval always counts). `ApprovalServed` follows a call from the sleep in which
Keycloak has its approval over the poll to its end: the answer to that poll is never
"pending", because Keycloak never takes a decision back and a call that sleeps has no
older answer under way (`NoAnswerAsleep`), so that the loop does not reach its timeout.
Its second hypothesis, `AlwaysResumable`, is explained at the end of this section.

`VaultAccess_proofs` proves the safety properties of the vault pipeline for every
set of calls, contexts, users and tool calls, assuming only `VaultAssumption` (the
value `None` is none of the others, and tool calls have the fields of the code):

| Theorem | Statement |
|---|---|
| `AccessInvariant` | `Spec => []AccessInv` |
| `AccessTypeCorrect` | `Spec => []TypeOK` |
| `TokenNeverLeaks` | `Spec => []OwnActionToken` |
| `WorkloadAuthorized` | `Spec => []MintedWithWorkload` |
| `StepUpNeverSkipped` | `Spec => []StepUpHonoured` |
| `ConnectionNeverOutlives` | `Spec => []ConnectionClosed` |
| `AnswersAreEarned` | `Spec => []AnswerIsEarned` |
| `CallsNeverGoBack` | `Spec => [][NeverBack]_vars` |
| `CallsAreAnswered` | `FairSpec /\ (\A k \in Call : AlwaysResumable(k)) => EveryCallAnswered` |

That a call uses its own token depends on what happened *before* it in its context,
so `AccessInv` says whose a token can be: `TokenIsOfRunningCall` (one running call
per context; a context with a token has a running call that holds it) survives
because every way out of a call passes `Finish`. It makes `Mint` always mint, which
is the lemma `MintsItsOwn`. `Established` lists what each await relies on,
`StepUpUnderWay` where a call with a required step-up can be, and that an elevated
login rests on an approval; `NothingOutlives` that answers belong to ended calls and
connections to calls that use them. Steps are grouped by what they may change: an
arrival, an end (`FinishInv`), a step without a token (`IdentifyInv`), the unwrap, a
step with the token (`QueryInv`), and what happens outside.

The awaits of a call have an order no retry breaks: `NeverBack` says that its own
steps lead to a later one and that nobody else moves it, so that it passes at most 16 of
them. `CallsAreAnswered` descends that order, each rank leading to a lower one.

`OboTokens_proofs`, for all users, actors, scopes, calls, lifetimes and times
(`ExchangeAssumption`; `OboAssumption`: no tool asks for an empty scope set):

| Theorem | Statement |
|---|---|
| `TokensTypeCorrect` | `Spec => []TypeOK` |
| `TokensFitInvariant` | `Spec => [](TypeOK /\ TokensFit)` |
| `TaskTokenFits` | `Spec => []TokenFitsTask` |
| `TokensImplementGrants` | `Spec => GrantsImplemented` |
| `InspectorIsCurrent` | `Spec => []InspectorShowsLatest` |
| `IssuedOnce` | `Spec => []NoDoubleIssue` |
| `BlockedIsAlwaysServed` | `Spec => []BlockedIsServed` |
| `ServiceProgresses` | `Spec => [][NearerTheAnswer]_vars` |

`TokensFit` says what each place may hold: both caches under a key, a job for its
client, a task; an answer then fits because it left from a place that fits. `OneWaits`
(one job is awaited, by the task the loop is blocked for, which holds nothing) gives
the abstract `Give` its guard. `NewestKept` (the newest token is cached, near its
end or lost, and under way again only in the last two cases) is what makes
`NoDoubleIssue` inductive, also across a caller's timeout.

`BlockedIsServed` is the converse of `OneWaits`: the job the event loop is blocked for is
in the queue or being served, so it never waits for nothing, whichever side restarted.
It needs `OneWaits` where the head of the queue leaves (what leaves is the awaited job, which
is answered, or nobody's). `Work` counts the attempts and jobs ahead; with
`NearerTheAnswer` it is the part of `LoopComesFree` that does not rest on fairness.

`AgentLoop_proofs`, for every number of runs and rounds and all plans (`LoopAssumption`):

| Theorem | Statement |
|---|---|
| `LoopInvariant` | `Spec => []Inv` |
| `LoopTypeCorrect` | `Spec => []TypeOK` |
| `PromptIsChecked` | `Spec => []PromptChecked` |
| `AnswerIsInformed` | `Spec => []AnswerKnowsEffects` |
| `AnswerIsFiltered` | `Spec => []AnswerFiltered` |
| `LoopImplementsRun` | `Spec => RunImplemented` |
| `LoopProgresses` | `Spec => [][TowardsTheEnd]_vars` |

`Inv` adds `Phases` (what is settled at each stage; no operation is under way outside a
tool await or after the end) and `Accounts` (the effects of a run are those its
messages report plus the one under way). The second carries the knowledge
of the model from round to round and over the filter. `TowardsTheEnd` orders a run by the
rounds it has left, the stage of the round (`hung` the last but one) and what is left of
its tool calls: every step
of the run goes down in this lexicographic order and no other step goes up. It is the
part of `RunsEnd` that does not rest on fairness, and `LeftTyped` says that the three are
natural numbers.

`RecordMasking_proofs`, for all conversations, administrators and writers
(`MaskingAssumption`, `NoneAssumption`):

| Theorem | Statement |
|---|---|
| `MaskingInvariant` | `Spec => []Inv` |
| `MaskingTypeCorrect` | `Spec => []TypeOK` |
| `RecordsLeaveMasked` | `Spec => []LeavesMasked` |
| `MaskPiiMasks` | `Spec => []ShownMasked` |

`EncodeInv` says that every field Vault has answered for is masked while the others
are outstanding, `MaskInv` how far `mask_pii` has come, and that it started from
masked values where user-mcp masks. `PartsHide` carries the latter to what `mask_pii`
returns without looking into it.

`UserBackends_proofs`, for all clients, requests, seeds and pool sizes
(`BackendAssumption`; `SeedAssumption`: the seed file names no mailbox twice, which the
code does not check):

| Theorem | Statement |
|---|---|
| `BackendInvariant` | `Spec => []Inv` |
| `SvidIsAlive` | `Spec => []LoginsWithLiveSvid` |
| `MailboxesApart` | `Spec => []OneUserPerMailbox` |

`Inv` adds that a call under way knows its request and that SVIDs are handed out fresh;
the lemmas about `Create`, `Delete` and `Update` of the list and `Insert`,
`DeleteRow` and `UpdateRow` of the table say that each keeps mailboxes apart.

`UserRefinement_proofs` goes on from there; it also needs `RecordsAssumption` (an address
has a mailbox; `Null` is no user, request or outcome) and `NobodyAssumption`:

| Theorem | Statement |
|---|---|
| `CallsInvariant` | `Spec => [](Inv /\ Extra)` |
| `BackendsTypeCorrect` | `Spec => []TypeOK` |
| `BackendsImplementRepository` | `Spec => RepositoryImplemented` |
| `ListNeverJams` | `Spec => []NoCallJams` |
| `NobodyWaitsInVain` | `Spec => []WaitsForAHolder` |

`Extra` adds `CallInv` (a call has a request until it is answered, an outcome only when
it is done, and awaits only what its backend has), whose await the SVID provider's lock
is held for, and that the pool's connections are a finite set of at most `PoolSize`.
The refinement mapping chooses the user of a mailbox out of the stored set, so the
argument goes over `BookOf`, the book as a function of that set: `BookHas` says what
is in it while mailboxes are apart, `SameBook` that this determines it,
`CreateEffect`, `DeleteEffect`, `UpdateEffect` and `ListEffect` what a change of the set
is to the book. `SqlEffect` and `FileEffect` then show that the statements on
the table and the operations on the list are such changes. An operation or a statement
maps to `Effect`, arrival and reply to `Asks` and `Returns`, exit and crash to
`Restarts`, all else to no step.

`StartedFirst` (no call before `startup`, nothing that it made is gone before the last
call) is what keeps `_ensure_loaded` from waiting for the lock its caller holds.
`WaitsForAHolder` adds the SVID provider's lock and the pool: a call that waits can go on,
or a call that can be named holds what it waits for. A fetch that hangs is such a
holder; the code has no timeout there, and `CallsEnd` excepts it.

`WebApp_proofs`, for every number of questions and attempts and every bound on the
history (`WebAssumption`):

| Theorem | Statement |
|---|---|
| `WebInvariant` | `Spec => []Inv` |
| `WebTypeCorrect` | `Spec => []TypeOK` |
| `AnswersInPlace` | `Spec => []AnswersFollowQuestions` |
| `AnswersAreFinal` | `Spec => []QuietAfterAnswer` |
| `RouteProgresses` | `Spec => [][RouteNearer]_vars` |
| `ComposerWaitsForRoute` | `Spec => []OpenIsUnderWay` |
| `ComposerReturns` | `FairSpec /\ (\A q \in Query : RouteAlwaysCan(q)) => ComposerComesBack` |

`PageInv` says that only the newest question can be open and that the log then ends
with it, unanswered; that is why an answer can only be appended below its question.
`RouteInv` says that of a question's runs all but the last were reset, and that the
last is over once there is a response. `Settled` adds that a run whose answer was
sent is over, which is what `QuietAfterAnswer` needs. `OpenIsUnderWay` says that the page
waits only for a query the route works on, and `RouteNearer` that the route's attempts
are used up (at most `4 * MaxAttempts + 1` steps). With fairness the route is over in the end,
and by `OpenIsUnderWay` the composer is enabled by then.

What is proved of liveness, and on what. PTL works with `WF_vars(A)` when `ENABLED
<<A>>_vars` is left as it is, but no installed prover can say what it is. The three
liveness theorems therefore have it as a hypothesis: `AlwaysResumable(c)` and
`RouteAlwaysCan(q)` say that a call (a query) under way can always take a step that changes
something. TLC finds them true in the state spaces of `stepup_threads`, `access` and
`web_app` (checked as invariants). Everything else, the order of the steps, what an answer can
be and that nothing is given back, is proved for every value of the constants.

Only model-checked: `LoopComesFree` and `RunsEnd`, whose measures are proved to go down but
are not bounded by a number known beforehand, so that "it cannot go down for ever" is an
induction over the naturals at the level of temporal formulas; `CallsEnd` and the
fairness in `ImplementsGrant`, which for the same reason or because one call waits for
the fairness of any of the others are out of reach of the installed provers. The
steps of `ImplementsGrant` are `StepUpImplementsGrant`. Every other property of a passing
run is a theorem.

## 6. Plan

Done, in this order: the step-up and the vault pipeline, which are what the demo is
about; the token caches, the agent's loop, masking, the repositories and the
chat. What could follow:

1. `WebLogin`: cookies of concurrent logins, callback, logout. Its hazard fails closed:
   a state that does not match is refused.
2. `CibaPhone`: the Android listener's overlapping polls and lost approvals, composed
   with `CibaChannel`. For the step-up it is one more human, which `CibaStepUp`
   already lets press anything at any time.
3. The prompts and answers of several users in one composition of `WebApp`,
   `AgentLoop` and `VaultAccess`, which today meet at `AgentRun` and at a tool call.

## 7. Not modelled

- JWT signature checks, TLS and JSON, which are library work; the contents of OPA's
  policies and what the language model writes, which are external and free.
- The login flow of the web app, beyond a session that is there or not.
- `ciba-android`, see above.
- The token-exchange route that turns a Vault token into an identity token: nothing in
  the repository calls it. `get_cached_token` and `clear_cache` of the agent's cache have
  no caller either.
- The DDL of auto-migration, the file search for a first name of `None`.
- Logging and redaction, page layout, provisioning and the scripted
  demonstrations (`prove-*.py`), which have no state the other parts read.
- Keycloak, Vault, SPIRE, OPA and Postgres appear only through what their callers can
  observe.
