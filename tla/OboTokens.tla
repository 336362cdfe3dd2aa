------------------------------ MODULE OboTokens ------------------------------
(***************************************************************************)
(* How ai-agent gets its on-behalf-of tokens: the scoped tool wrappers     *)
(* (scoped_tool.py), OboTokenService (identity.py) and the inspector       *)
(* endpoint, in front of the token-exchange service.  A task is a tool     *)
(* call of a request: it acts for a user's subject token and its tool      *)
(* requires some scopes.  resolve_token is synchronous and runs on the     *)
(* agent's event loop: while it waits for an exchange the whole agent      *)
(* waits, so its lock is never contended.                                  *)
(***************************************************************************)
EXTENDS TokenExchange

CONSTANTS
    Asks,               \* [Client -> who a task acts for, what its tool requires]
    ExchangeTimeout     \* token_exchange_timeout_seconds

\* resolve_token refuses an empty list of scopes.
ASSUME OboAssumption ==
    /\ Asks \in [Client -> [who : Subject, what : SUBSET Scope \ {{}}]]
    /\ ExchangeTimeout \in Nat

VARIABLES
    actor,      \* the actor token vault-agent rendered last
    cache,      \* OboTokenService.cache, by subject token and scope set
    last,       \* last_cache_key_by_subject: the scope set of each key, if any
    loop,       \* the task the event loop is blocked for, and since when
    held,       \* the token a task calls its MCP tool with
    latest      \* history: the token last handed out for each subject

agentVars == <<actor, cache, last, loop, held, latest>>
vars == <<exchangeVars, agentVars>>

Task == Client
Key == Subject \X SUBSET Scope
\* (Mutant of KeyOf: the scopes are not part of the cache key.)
KeyOfSubject(t) == <<Asks[t].who, {}>>
KeyOf(t) == <<Asks[t].who, Asks[t].what>>
Free == [task |-> None]

TypeOK ==
    /\ ExchangeTypeOK
    /\ actor \in Actor
    /\ cache \in [Key -> Token \cup {None}]
    /\ last \in [Subject -> SUBSET SUBSET Scope]
    /\ loop \in [task : Task, since : Nat] \cup {Free}
    /\ held \in [Task -> Token \cup {None}]
    /\ latest \in [Subject -> Token \cup {None}]

AgentStart ==
    /\ cache' = [k \in Key |-> None]
    /\ last' = [s \in Subject |-> {}]
    /\ loop' = Free
    /\ held' = [t \in Task |-> None]
    /\ latest' = [s \in Subject |-> None]

Init ==
    /\ ExchangeInit
    /\ actor \in Actor
    /\ cache = [k \in Key |-> None]
    /\ last = [s \in Subject |-> {}]
    /\ loop = Free
    /\ held = [t \in Task |-> None]
    /\ latest = [s \in Subject |-> None]

-----------------------------------------------------------------------------
(* resolve_token and what the wrapper makes of it. *)

\* (Mutant of Usable: the expiry is not looked at.)
Present(k) == cache[k] # None
\* _get_cached_token: a token is used up to its expiry, without headroom.
Usable(k) == cache[k] # None /\ now < cache[k].exp

\* An expired entry is deleted by the lookup.
LookedUp(k) == IF Usable(k) THEN cache ELSE [cache EXCEPT ![k] = None]

\* (Mutant of Hand: the key noted for a subject is that of its first exchange.)
HandKeepsFirst(t, token) ==
    /\ held' = [held EXCEPT ![t] = token]
    /\ latest' = [latest EXCEPT ![Asks[t].who] = token]
    /\ last' = IF last[Asks[t].who] # {} THEN last
               ELSE [last EXCEPT ![Asks[t].who] = {Asks[t].what}]

Hand(t, token) ==
    /\ held' = [held EXCEPT ![t] = token]
    /\ latest' = [latest EXCEPT ![Asks[t].who] = token]
    /\ last' = [last EXCEPT ![Asks[t].who] = {Asks[t].what}]

\* An AppError becomes the tool's answer to the model; nothing was handed out.
Denied == UNCHANGED <<last, held, latest>>

Hit(t) ==
    /\ Usable(KeyOf(t))
    /\ Hand(t, cache[KeyOf(t)])
    /\ UNCHANGED <<exchangeVars, actor, cache, loop>>

\* A miss without a readable actor token, or without a connection, is denied.
MissFails(t) ==
    /\ ~Usable(KeyOf(t))
    /\ cache' = LookedUp(KeyOf(t))
    /\ Denied
    /\ UNCHANGED <<exchangeVars, actor, loop>>

MissPosts(t) ==
    /\ ~Usable(KeyOf(t))
    /\ cache' = LookedUp(KeyOf(t))
    /\ Post([who |-> Asks[t].who, by |-> actor, what |-> Asks[t].what], t)
    /\ loop' = [task |-> t, since |-> now]
    /\ Denied
    /\ UNCHANGED <<now, serving, entries, newest, lost, actor>>

\* A task without a token, of this request or of the next one, needs its tool.
Resolve(t) ==
    /\ loop = Free /\ held[t] = None
    /\ Hit(t) \/ MissFails(t) \/ MissPosts(t)

\* The answer arrives.  extract_obo_token_details reads the token's exp and
\* refuses a token that is expired.
Extracted(token) == token # None /\ now < token.exp

\* (Mutant of Receive: an error answer does not end the wait.)
ReceiveOnlyTokens(t, token) ==
    /\ IF Extracted(token)
       THEN /\ loop' = Free
            /\ cache' = [cache EXCEPT ![KeyOf(t)] = token]
            /\ Hand(t, token)
       ELSE Denied /\ UNCHANGED <<cache, loop>>
    /\ UNCHANGED actor

Receive(t, token) ==
    /\ loop' = Free
    /\ \/ /\ Extracted(token)
          /\ cache' = [cache EXCEPT ![KeyOf(t)] = token]
          /\ Hand(t, token)
       \/ ~Extracted(token) /\ Denied /\ UNCHANGED cache
    /\ UNCHANGED actor

\* The reply to a job; one nobody waits for any more is lost.
Reply(job, token) ==
    IF job.client = None THEN UNCHANGED agentVars ELSE Receive(job.client, token)

ExchangeStep ==
    \/ Denies /\ Reply(Head(inbox), None)
    \/ Serves /\ Reply(Head(inbox), entries[Head(inbox).req])
    \/ Fetches /\ UNCHANGED agentVars
    \/ \E life \in Lifetime :
          Issues(life) /\ Reply(serving.job, Issue(serving.job.req, life))
    \/ Retries /\ UNCHANGED agentVars
    \/ GivesUp /\ Reply(serving.job, None)

\* urlopen's timeout while it reads the answer is a TimeoutError, no URLError:
\* neither perform_token_exchange nor the wrapper catches it.
TimeOut(t) ==
    /\ loop # Free /\ loop.task = t /\ now >= loop.since + ExchangeTimeout
    /\ Forget(t)
    /\ loop' = Free
    /\ UNCHANGED <<actor, cache, last, held, latest>>

\* The tool call is over.
EndCall(t) ==
    /\ loop = Free /\ held[t] # None
    /\ held' = [held EXCEPT ![t] = None]
    /\ UNCHANGED <<exchangeVars, actor, cache, last, loop, latest>>

\* GET /v1/agent/tokens: get_last_obo_token for a subject token that is live.
Inspect(s) ==
    /\ loop = Free /\ now < Exp[s]
    /\ \E scopes \in last[s] :
          /\ cache' = LookedUp(<<s, scopes>>)
          /\ last' = IF Usable(<<s, scopes>>) THEN last ELSE [last EXCEPT ![s] = {}]
    /\ UNCHANGED <<exchangeVars, actor, loop, held, latest>>

-----------------------------------------------------------------------------
(* The surroundings. *)

\* vault-agent renders a new actor token, which lives longer.
Render ==
    /\ \E a \in Actor : Exp[actor] < Exp[a] /\ actor' = a
    /\ UNCHANGED <<exchangeVars, cache, last, loop, held, latest>>

\* The agent restarts: its caches are memory only, its requests are gone.
AgentRestart ==
    /\ AgentStart
    /\ IF loop = Free THEN UNCHANGED exchangeVars ELSE Forget(loop.task)
    /\ UNCHANGED actor

\* The service restarts: the waiting request's connection is reset, which
\* urlopen does not turn into a URLError either.
ServiceRestart ==
    /\ ExchangeRestart
    /\ loop' = Free
    /\ UNCHANGED <<actor, cache, last, held, latest>>

\* A blocked urlopen does not wait longer than its timeout.
Clock ==
    /\ loop # Free => now < loop.since + ExchangeTimeout
    /\ Tick /\ UNCHANGED agentVars

Next ==
    \/ \E t \in Task : Resolve(t) \/ TimeOut(t) \/ EndCall(t)
    \/ \E s \in Subject : Inspect(s)
    \/ ExchangeStep \/ Render \/ AgentRestart \/ ServiceRestart \/ Clock

Spec == Init /\ [][Next]_vars

\* Every upstream attempt has a timeout and the service's loop goes on to the
\* next request; nothing is assumed of the clock, upstream or the agent.
FairSpec == Spec /\ WF_vars(ExchangeStep)

-----------------------------------------------------------------------------
(* Properties. *)

\* A token for the key: its subject, its scopes and the delegation scope, and the
\* subject is entitled to the scopes.
ForKey(token, k) ==
    /\ token.for.who = k[1]
    /\ token.grants = k[2] \cup {Delegation}
    /\ \A s \in k[2] : <<k[1], s>> \in Entitled

JobFits(job) ==
    job.client # None => <<job.req.who, job.req.what>> = KeyOf(job.client)

\* What keeps tokens apart: both caches hold under a key only what was issued for
\* it, every job asks for what its client waits for, and only authorized requests
\* reach upstream.
TokensFit ==
    /\ \A r \in Request : entries[r] # None => ForKey(entries[r], <<r.who, r.what>>)
    /\ \A i \in DOMAIN inbox : JobFits(inbox[i])
    /\ serving # Idle => JobFits(serving.job) /\ Authorized(serving.job.req)
    /\ \A k \in Key : cache[k] # None => ForKey(cache[k], k)
    /\ \A t \in Task : held[t] # None => ForKey(held[t], KeyOf(t))

\* The event loop waits for at most one job, on behalf of a task without a token.
Awaited(job) == job.client # None

OneWaits ==
    /\ \A i \in DOMAIN inbox :
          Awaited(inbox[i]) => loop # Free /\ loop.task = inbox[i].client
    /\ (serving # Idle /\ Awaited(serving.job)) =>
          /\ loop # Free /\ loop.task = serving.job.client
          /\ \A i \in DOMAIN inbox : ~Awaited(inbox[i])
    /\ \A i, j \in DOMAIN inbox : Awaited(inbox[i]) /\ Awaited(inbox[j]) => i = j
    /\ loop # Free => held[loop.task] = None

\* Upstream is asked again for the same token only when the earlier one is within
\* Headroom of its exp or was cached CacheTtl ago, or the service cannot have it:
\* its answer never came, its entry made room at cache_maxsize or went with a restart
\* of the service.  Neither a client that timed out before the answer, nor an agent
\* that lost its own cache, nor the order of jobs for the same token has it issued
\* again.
Replaceable(token) == now >= token.exp - Headroom \/ now >= token.iat + CacheTtl

NoDoubleIssue ==
    (serving # Idle /\ newest[serving.job.req] # None) =>
        Replaceable(newest[serving.job.req]) \/ serving.job.req \in lost

\* What stops a second issue: the newest token is in the cache, may be replaced or
\* has been lost, and an attempt is under way only in the last two cases.
NewestKept ==
    /\ \A r \in Request : newest[r] # None =>
           entries[r] = newest[r] \/ Replaceable(newest[r]) \/ r \in lost
    /\ NoDoubleIssue

\* What a task holds was issued for its user's subject token with the scopes of
\* its tool and the delegation scope only, and the service authorized it, though
\* two caches with different keys stand between Keycloak and the task.
TokenFitsTask ==
    \A t \in Task : held[t] # None => ForKey(held[t], <<Asks[t].who, Asks[t].what>>)

\* The inspector shows the token last handed out for its subject, whatever scopes
\* were exchanged or looked up in between: an older one is never under its key.
InspectorShowsLatest ==
    \A s \in Subject : \A scopes \in last[s] :
        cache[<<s, scopes>>] \in {None, latest[s]}

\* Tool calls see an atomic token service: a token that fits and is live, or none.
Abs == INSTANCE OboGrants
GrantsImplemented == Abs!GrantsSpec

\* The agent's event loop never stays blocked in an exchange.
LoopComesFree == (loop # Free) ~> (loop = Free)
=============================================================================
