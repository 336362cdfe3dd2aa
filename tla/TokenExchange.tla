---------------------------- MODULE TokenExchange ----------------------------
(***************************************************************************)
(* The token-exchange service.  Its route is an `async def` handler that   *)
(* blocks the event loop, so the service works off its requests one after  *)
(* the other, also those whose client has given up.  A request asks for an *)
(* OBO token (RFC 8693 at Keycloak) for a subject token, an actor token    *)
(* and a scope set; OBOBroker keeps the answers in a TokenCache.           *)
(* Times are ticks; an upstream attempt ends within one tick.              *)
(***************************************************************************)
EXTENDS Integers, Sequences, FiniteSets

CONSTANTS
    Subject,        \* subject tokens: the users' Keycloak access tokens
    Actor,          \* renderings of the agent's Vault identity token
    Scope,          \* scopes a client may ask for
    Delegation,     \* the scope "delegation:ai-agent"
    Client,         \* who waits for an answer
    None,
    Exp,            \* the exp claim of each subject and actor token
    Entitled,       \* the <<subject, scope>> pairs SCOPE_REQUIREMENTS grants
    Lifetime,       \* lifetimes upstream gives a token
    Headroom,       \* SAFETY_BUFFER_SECONDS
    Leeway,         \* _EXP_LEEWAY_SECONDS
    CacheTtl,       \* settings.cache_ttl
    MaxEntries,     \* settings.cache_maxsize
    MaxAttempts,    \* stop_after_attempt
    MaxInbox, MaxTime   \* bounds of the model: unbegun jobs, the clock

ASSUME ExchangeAssumption ==
    /\ Headroom \in Nat /\ Leeway \in Nat /\ CacheTtl \in Nat
    /\ MaxEntries \in Nat \ {0}
    /\ MaxAttempts \in Nat \ {0} /\ MaxInbox \in Nat /\ MaxTime \in Nat
    /\ Lifetime \subseteq Nat
    /\ Exp \in [Subject \cup Actor -> Nat]
    /\ Entitled \subseteq Subject \X Scope
    /\ None \notin Client

VARIABLES
    now,
    inbox,      \* jobs received and not begun, oldest first
    serving,    \* the job that holds the event loop, with its attempt
    entries,    \* the TokenCache: the token kept for each request, or None
    newest,     \* history: the token upstream last issued for each request
    lost        \* history: the requests whose newest token never got to the
                \* cache, made room there for another or went with a restart

exchangeVars == <<now, inbox, serving, entries, newest, lost>>

Request == [who : Subject, by : Actor, what : SUBSET Scope]
Token == [for : Request, grants : SUBSET (Scope \cup {Delegation}),
          iat : Nat, exp : Nat]
Job == [req : Request, client : Client \cup {None}]
Attempt == [job : Job, attempt : 1..MaxAttempts, since : Nat]
Idle == [job |-> None]

ExchangeTypeOK ==
    /\ now \in Nat
    /\ inbox \in Seq(Job)
    /\ serving \in Attempt \cup {Idle}
    /\ entries \in [Request -> Token \cup {None}]
    /\ newest \in [Request -> Token \cup {None}]
    /\ lost \subseteq Request

ExchangeInit ==
    /\ now = 0
    /\ inbox = <<>>
    /\ serving = Idle
    /\ entries = [r \in Request |-> None]
    /\ newest = [r \in Request |-> None]
    /\ lost = {}

-----------------------------------------------------------------------------
\* authorize_scope: every scope is known and one of the user's groups has it.
Authorized(r) == \A s \in r.what : <<r.who, s>> \in Entitled

\* The verify client checks both tokens when an attempt starts: it refuses one
\* that expired more than Leeway before.
Refused(attempt) ==
    \E x \in {attempt.job.req.who, attempt.job.req.by} :
        Exp[x] + Leeway < attempt.since

\* TokenCache.get: TTLCache drops what was stored (when it was issued) CacheTtl
\* ago, and a token close to its own exp is not used either.
Kept(token) == now < token.iat + CacheTtl
Fresh(token) == now < token.exp - Headroom
Cached(r) == entries[r] # None /\ Kept(entries[r]) /\ Fresh(entries[r])

\* The payload adds the delegation scope to what was asked for.
Grants(r) == r.what \cup {Delegation}

Issue(r, life) ==
    [for |-> r, grants |-> Grants(r), iat |-> now, exp |-> now + life]

\* TokenCache.set for a request that has no entry: TTLCache purges what was stored
\* CacheTtl ago and, when it is full, one live entry makes room (the library takes
\* the least recently used one; here it may be any).
Live(r) == {q \in Request \ {r} : entries[q] # None /\ Kept(entries[q])}
Victims(r) ==
    IF Cardinality(Live(r)) < MaxEntries THEN {{}} ELSE {{q} : q \in Live(r)}

Stored(r, token, victims) ==
    LET stays == Live(r) \ victims
    IN [q \in Request |-> IF q = r THEN token ELSE IF q \in stays THEN entries[q] ELSE None]

\* Keycloak issues the token an attempt asks for, only for a subject token that is
\* live; the attempt gets there only with tokens the verify client accepts.
Upstream(life) ==
    /\ serving # Idle /\ ~Refused(serving) /\ now < Exp[serving.job.req.who]
    /\ newest' = [newest EXCEPT ![serving.job.req] = Issue(serving.job.req, life)]

-----------------------------------------------------------------------------
(* A handler runs. *)

Post(r, client) ==
    /\ Len(inbox) < MaxInbox
    /\ inbox' = Append(inbox, [req |-> r, client |-> client])

\* The next job, for which authorization comes before the cache and the cache
\* before upstream.
Begins == serving = Idle /\ inbox # <<>> /\ inbox' = Tail(inbox)

Denies ==
    /\ Begins /\ ~Authorized(Head(inbox).req)
    /\ UNCHANGED <<now, serving, entries, newest, lost>>

Serves ==
    /\ Begins /\ Authorized(Head(inbox).req) /\ Cached(Head(inbox).req)
    /\ UNCHANGED <<now, serving, entries, newest, lost>>

\* An entry that is no longer usable is deleted and the first attempt begins.
Fetches ==
    /\ Begins /\ Authorized(Head(inbox).req) /\ ~Cached(Head(inbox).req)
    /\ entries' = [entries EXCEPT ![Head(inbox).req] = None]
    /\ serving' = [job |-> Head(inbox), attempt |-> 1, since |-> now]
    /\ UNCHANGED <<now, newest, lost>>

\* (Mutant of Issues: what is issued after the client hung up is not cached.)
IssuesIfAwaited(life) ==
    /\ Upstream(life)
    /\ LET r == serving.job.req
       IN \E victims \in Victims(r) :
             /\ entries' = IF serving.job.client = None THEN entries
                           ELSE Stored(r, Issue(r, life), victims)
             /\ lost' = (lost \ {r}) \cup victims
    /\ serving' = Idle
    /\ UNCHANGED <<now, inbox>>

\* The answer arrives: the broker caches the token and answers.
Issues(life) ==
    /\ Upstream(life)
    /\ LET r == serving.job.req
       IN \E victims \in Victims(r) :
             /\ entries' = Stored(r, Issue(r, life), victims)
             /\ lost' = (lost \ {r}) \cup victims
    /\ serving' = Idle
    /\ UNCHANGED <<now, inbox>>

\* An attempt fails.  Keycloak may have issued the token all the same: the answer was
\* lost or late, was an error status or was no JSON.
Fails ==
    \/ UNCHANGED <<newest, lost>>
    \/ \E life \in Lifetime : Upstream(life) /\ lost' = lost \cup {serving.job.req}

\* (Mutant of Retries: no stop_after_attempt.)
RetriesForever ==
    /\ serving # Idle
    /\ serving' = [serving EXCEPT !.attempt = @ + 1, !.since = now]
    /\ Fails
    /\ UNCHANGED <<now, inbox, entries>>

\* A retryable failure, OBORequestError: network, a status other than 401, no JSON,
\* a token found expired.  The next attempt asks Keycloak again.
Retries ==
    /\ serving # Idle /\ serving.attempt < MaxAttempts
    /\ serving' = [serving EXCEPT !.attempt = @ + 1, !.since = now]
    /\ Fails
    /\ UNCHANGED <<now, inbox, entries>>

\* The last attempt failed, or upstream refused the credentials, which is not
\* retried: the route answers an error.
GivesUp ==
    /\ serving # Idle
    /\ \/ serving.attempt = MaxAttempts /\ Fails
       \/ ~Refused(serving) /\ UNCHANGED <<newest, lost>>
    /\ serving' = Idle
    /\ UNCHANGED <<now, inbox, entries>>

\* The clients that hung up: their jobs are worked off all the same.
Forget(client) ==
    LET left(job) == IF job.client = client THEN [job EXCEPT !.client = None] ELSE job
    IN /\ inbox' = [i \in DOMAIN inbox |-> left(inbox[i])]
       /\ serving' = IF serving = Idle THEN Idle
                     ELSE [serving EXCEPT !.job = left(@)]
       /\ UNCHANGED <<now, entries, newest, lost>>

\* A restart of the service: caches and requests are gone, whatever Keycloak has
\* issued, also for the attempt that was under way.
ExchangeRestart ==
    /\ inbox' = <<>> /\ serving' = Idle
    /\ entries' = [r \in Request |-> None]
    /\ UNCHANGED newest \/ \E life \in Lifetime : Upstream(life)
    /\ lost' = {r \in Request : newest'[r] # None}
    /\ UNCHANGED now

\* requests' timeout ends an attempt: time does not pass it.
Tick ==
    /\ now < MaxTime
    /\ serving # Idle => now <= serving.since
    /\ now' = now + 1
    /\ UNCHANGED <<inbox, serving, entries, newest, lost>>
=============================================================================
