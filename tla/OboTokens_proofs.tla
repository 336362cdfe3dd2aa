--------------------------- MODULE OboTokens_proofs ---------------------------
(***************************************************************************)
(* Proofs about OboTokens for every set of users, scopes, tool calls,      *)
(* lifetimes and timeouts: type correctness, that a task only ever holds a *)
(* token that fits it, that tool calls see the atomic token service of     *)
(* OboGrants, what the inspector shows, that a token the service still has *)
(* is not issued again and that the agent never waits for nothing.         *)
(***************************************************************************)
EXTENDS OboTokens, TLAPS

LEMMA InitTypeOK == Init => TypeOK
BY ExchangeAssumption DEF Init, ExchangeInit, TypeOK, ExchangeTypeOK

-----------------------------------------------------------------------------
(* Type correctness. *)

LEMMA JobsTyped ==
    ASSUME ExchangeTypeOK, Begins
    PROVE  /\ Head(inbox) \in Job
           /\ inbox' \in Seq(Job)
BY DEF ExchangeTypeOK, Begins

LEMMA IssueTyped ==
    ASSUME ExchangeTypeOK, NEW r \in Request, NEW life \in Lifetime
    PROVE  Issue(r, life) \in Token
BY ExchangeAssumption DEF ExchangeTypeOK, Issue, Token, Grants, Request

\* What upstream issues is the newest token of the request that is served.
LEMMA UpstreamTyped ==
    ASSUME ExchangeTypeOK, NEW life \in Lifetime, Upstream(life)
    PROVE  /\ serving # Idle /\ serving.job \in Job /\ serving.job.req \in Request
           /\ Issue(serving.job.req, life) \in Token
           /\ newest' \in [Request -> Token \cup {None}]
           /\ \A r \in Request :
                 newest'[r] = IF r = serving.job.req THEN Issue(serving.job.req, life)
                              ELSE newest[r]
<1> DEFINE token == Issue(serving.job.req, life)
<1>1. serving # Idle /\ serving.job \in Job /\ serving.job.req \in Request
    BY DEF Upstream, ExchangeTypeOK, Attempt, Job
<1>2. token \in Token
    BY <1>1, IssueTyped
<1>3. newest' = [newest EXCEPT ![serving.job.req] = token]
    BY DEF Upstream
<1> HIDE DEF token
<1>4. /\ newest' \in [Request -> Token \cup {None}]
      /\ \A r \in Request :
            newest'[r] = IF r = serving.job.req THEN token ELSE newest[r]
    BY <1>1, <1>2, <1>3 DEF ExchangeTypeOK
<1> QED BY <1>1, <1>2, <1>4 DEF token

\* A store keeps the new token, and of the others nothing but what was there.
LEMMA StoredTyped ==
    ASSUME ExchangeTypeOK, NEW r \in Request, NEW token \in Token,
           NEW victims \in Victims(r)
    PROVE  /\ victims \subseteq Request
           /\ Stored(r, token, victims) \in [Request -> Token \cup {None}]
           /\ Stored(r, token, victims)[r] = token
           /\ \A q \in Request \ {r} :
                 \/ Stored(r, token, victims)[q] = entries[q]
                 \/ /\ Stored(r, token, victims)[q] = None
                    /\ q \in victims \/ ~Kept(entries[q])
BY DEF ExchangeTypeOK, Victims, Live, Stored

LEMMA IssuesTyped ==
    ASSUME ExchangeTypeOK, NEW life \in Lifetime, Issues(life)
    PROVE  ExchangeTypeOK'
<1> DEFINE req == serving.job.req
           token == Issue(req, life)
<1>1. /\ req \in Request /\ token \in Token
      /\ newest' \in [Request -> Token \cup {None}]
    BY UpstreamTyped DEF Issues
<1>2. PICK victims \in Victims(req) :
          entries' = Stored(req, token, victims) /\ lost' = (lost \ {req}) \cup victims
    BY DEF Issues
<1>3. UNCHANGED <<now, inbox>> /\ serving' = Idle
    BY DEF Issues
<1> HIDE DEF req, token
<1>4. /\ entries' \in [Request -> Token \cup {None}]
      /\ victims \subseteq Request
    BY <1>1, <1>2, StoredTyped
<1> QED BY <1>1, <1>2, <1>3, <1>4 DEF ExchangeTypeOK

LEMMA FailsTyped ==
    ASSUME ExchangeTypeOK, Fails
    PROVE  newest' \in [Request -> Token \cup {None}] /\ lost' \subseteq Request
BY UpstreamTyped DEF Fails, ExchangeTypeOK

LEMMA GivesUpTyped ==
    ASSUME ExchangeTypeOK, GivesUp
    PROVE  ExchangeTypeOK'
<1>1. newest' \in [Request -> Token \cup {None}] /\ lost' \subseteq Request
    BY FailsTyped DEF GivesUp, ExchangeTypeOK
<1> QED BY <1>1 DEF GivesUp, ExchangeTypeOK

LEMMA RestartTyped ==
    ASSUME ExchangeTypeOK, ExchangeRestart
    PROVE  ExchangeTypeOK'
<1>1. newest' \in [Request -> Token \cup {None}]
    BY UpstreamTyped DEF ExchangeRestart, ExchangeTypeOK
<1> QED BY <1>1 DEF ExchangeRestart, ExchangeTypeOK

LEMMA KeyTyped == ASSUME NEW t \in Task PROVE KeyOf(t) \in Key
BY OboAssumption DEF KeyOf, Key, Task

LEMMA HandType ==
    ASSUME TypeOK, NEW t \in Task, NEW token \in Token, Hand(t, token)
    PROVE  /\ held' \in [Task -> Token \cup {None}]
           /\ latest' \in [Subject -> Token \cup {None}]
           /\ last' \in [Subject -> SUBSET SUBSET Scope]
<1>1. Asks[t].who \in Subject /\ {Asks[t].what} \in SUBSET SUBSET Scope
    BY OboAssumption DEF Task
<1>2. /\ held' = [held EXCEPT ![t] = token]
      /\ latest' = [latest EXCEPT ![Asks[t].who] = token]
      /\ last' = [last EXCEPT ![Asks[t].who] = {Asks[t].what}]
    BY DEF Hand
<1> DEFINE who == Asks[t].who
           scopes == {Asks[t].what}
<1> HIDE DEF who, scopes
<1>3. /\ who \in Subject /\ scopes \in SUBSET SUBSET Scope
      /\ latest' = [latest EXCEPT ![who] = token]
      /\ last' = [last EXCEPT ![who] = scopes]
    BY <1>1, <1>2 DEF who, scopes
<1> QED BY <1>2, <1>3 DEF TypeOK

LEMMA ReceiveType ==
    ASSUME TypeOK, NEW t \in Task, NEW token \in Token \cup {None}, Receive(t, token)
    PROVE  /\ cache' \in [Key -> Token \cup {None}]
           /\ last' \in [Subject -> SUBSET SUBSET Scope]
           /\ held' \in [Task -> Token \cup {None}]
           /\ latest' \in [Subject -> Token \cup {None}]
           /\ loop' = Free /\ actor' = actor
<1>1. CASE Extracted(token)
    <2>1. token \in Token
        BY <1>1 DEF Extracted
    <2>2. Hand(t, token) /\ cache' = [cache EXCEPT ![KeyOf(t)] = token]
        BY <1>1 DEF Receive
    <2> QED BY <2>1, <2>2, HandType, KeyTyped DEF TypeOK, Receive
<1>2. CASE ~Extracted(token)
    BY <1>2 DEF Receive, Denied, TypeOK
<1> QED BY <1>1, <1>2

LEMMA ReplyType ==
    ASSUME TypeOK, NEW job \in Job, NEW token \in Token \cup {None}, Reply(job, token),
           ExchangeTypeOK'
    PROVE  TypeOK'
<1>1. CASE job.client = None
    BY <1>1 DEF Reply, agentVars, TypeOK
<1>2. CASE job.client # None
    <2>1. job.client \in Task /\ Receive(job.client, token)
        BY <1>2 DEF Job, Task, Reply
    <2> QED BY <2>1, ReceiveType DEF TypeOK
<1> QED BY <1>1, <1>2

LEMMA ExchangeStepType ==
    ASSUME TypeOK, ExchangeStep
    PROVE  TypeOK'
<1> USE DEF TypeOK
<1>1. CASE Denies /\ Reply(Head(inbox), None)
    <2>1. ExchangeTypeOK'
        BY <1>1, JobsTyped DEF Denies, ExchangeTypeOK
    <2> QED BY <1>1, <2>1, JobsTyped, ReplyType DEF Denies
<1>2. CASE Serves /\ Reply(Head(inbox), entries[Head(inbox).req])
    <2>1. ExchangeTypeOK'
        BY <1>2, JobsTyped DEF Serves, ExchangeTypeOK
    <2>2. Head(inbox) \in Job /\ entries[Head(inbox).req] \in Token \cup {None}
        BY <1>2, JobsTyped DEF Serves, ExchangeTypeOK, Job
    <2> QED BY <1>2, <2>1, <2>2, ReplyType
<1>3. CASE Fetches /\ UNCHANGED agentVars
    <2>1. Head(inbox) \in Job /\ inbox' \in Seq(Job)
        BY <1>3, JobsTyped DEF Fetches
    <2>2. serving' \in Attempt
        BY <1>3, <2>1, ExchangeAssumption DEF Fetches, Attempt, ExchangeTypeOK
    <2>3. entries' \in [Request -> Token \cup {None}]
        BY <1>3, <2>1 DEF Fetches, ExchangeTypeOK
    <2> QED BY <1>3, <2>1, <2>2, <2>3 DEF Fetches, ExchangeTypeOK, agentVars
<1>4. ASSUME NEW life \in Lifetime, Issues(life),
             Reply(serving.job, Issue(serving.job.req, life))
      PROVE  TypeOK'
    <2>1. serving.job \in Job /\ Issue(serving.job.req, life) \in Token
        BY <1>4, UpstreamTyped DEF Issues
    <2>2. ExchangeTypeOK'
        BY <1>4, IssuesTyped
    <2> QED BY <1>4, <2>1, <2>2, ReplyType
<1>5. CASE Retries /\ UNCHANGED agentVars
    <2>1. serving \in Attempt /\ serving.attempt < MaxAttempts
        BY <1>5 DEF Retries, ExchangeTypeOK
    <2>2. serving.attempt + 1 \in 1..MaxAttempts /\ now \in Nat
        BY <2>1, ExchangeAssumption DEF Attempt, ExchangeTypeOK
    <2>3. serving' = [serving EXCEPT !.attempt = @ + 1, !.since = now]
        BY <1>5 DEF Retries
    <2>4. serving' \in Attempt
        BY <2>1, <2>2, <2>3 DEF Attempt
    <2>5. newest' \in [Request -> Token \cup {None}] /\ lost' \subseteq Request
        BY <1>5, FailsTyped DEF Retries
    <2> QED BY <1>5, <2>4, <2>5 DEF Retries, ExchangeTypeOK, agentVars
<1>6. CASE GivesUp /\ Reply(serving.job, None)
    <2>1. serving.job \in Job
        BY <1>6 DEF GivesUp, ExchangeTypeOK, Attempt
    <2>2. ExchangeTypeOK'
        BY <1>6, GivesUpTyped
    <2> QED BY <1>6, <2>1, <2>2, ReplyType
<1> QED BY <1>1, <1>2, <1>3, <1>4, <1>5, <1>6 DEF ExchangeStep

LEMMA LookedUpType ==
    ASSUME TypeOK, NEW k \in Key
    PROVE  LookedUp(k) \in [Key -> Token \cup {None}]
BY DEF LookedUp, TypeOK

LEMMA ResolveType ==
    ASSUME TypeOK, NEW t \in Task, Resolve(t)
    PROVE  TypeOK'
<1>1. CASE Hit(t)
    <2>1. cache[KeyOf(t)] \in Token
        BY <1>1, KeyTyped DEF Hit, Usable, TypeOK
    <2>2. Hand(t, cache[KeyOf(t)])
        BY <1>1 DEF Hit
    <2> QED BY <1>1, <2>1, <2>2, HandType DEF Hit, TypeOK, ExchangeTypeOK, exchangeVars
<1>2. CASE MissFails(t)
    BY <1>2, KeyTyped, LookedUpType
       DEF MissFails, Denied, TypeOK, ExchangeTypeOK, exchangeVars
<1>3. CASE MissPosts(t)
    <2>1. [who |-> Asks[t].who, by |-> actor, what |-> Asks[t].what] \in Request
        BY OboAssumption DEF TypeOK, Request, Task
    <2>2. inbox' \in Seq(Job)
        BY <1>3, <2>1 DEF MissPosts, Post, TypeOK, ExchangeTypeOK, Job, Task
    <2>3. loop' \in [task : Task, since : Nat]
        BY <1>3 DEF MissPosts, TypeOK, ExchangeTypeOK
    <2> QED BY <1>3, <2>2, <2>3, KeyTyped, LookedUpType
            DEF MissPosts, Denied, TypeOK, ExchangeTypeOK
<1> QED BY <1>1, <1>2, <1>3 DEF Resolve

LEMMA ForgetType ==
    ASSUME ExchangeTypeOK, NEW t \in Task, Forget(t)
    PROVE  ExchangeTypeOK'
<1> DEFINE left(job) == IF job.client = t THEN [job EXCEPT !.client = None] ELSE job
<1>1. \A job \in Job : left(job) \in Job
    BY DEF Job
<1>2. /\ inbox' = [i \in DOMAIN inbox |-> left(inbox[i])]
      /\ serving' = IF serving = Idle THEN Idle ELSE [serving EXCEPT !.job = left(@)]
    BY DEF Forget
<1> HIDE DEF left
<1>3. inbox' \in Seq(Job)
    <2>1. PICK n \in Nat : inbox \in [1..n -> Job]
        BY DEF ExchangeTypeOK
    <2>2. inbox' \in [1..n -> Job]
        BY <2>1, <1>1, <1>2
    <2> QED BY <2>2
<1>4. serving' \in Attempt \cup {Idle}
    BY <1>1, <1>2 DEF ExchangeTypeOK, Attempt
<1> QED BY <1>3, <1>4 DEF Forget, ExchangeTypeOK

LEMMA RestType ==
    ASSUME TypeOK,
           \/ \E t \in Task : TimeOut(t) \/ EndCall(t)
           \/ \E s \in Subject : Inspect(s)
           \/ Render \/ AgentRestart \/ ServiceRestart \/ Clock
    PROVE  TypeOK'
<1>1. ASSUME NEW t \in Task, TimeOut(t) PROVE TypeOK'
    BY <1>1, ForgetType DEF TimeOut, TypeOK
<1>2. ASSUME NEW t \in Task, EndCall(t) PROVE TypeOK'
    BY <1>2 DEF EndCall, TypeOK, ExchangeTypeOK, exchangeVars
<1>3. ASSUME NEW s \in Subject, Inspect(s) PROVE TypeOK'
    <2>1. PICK scopes \in last[s] :
              /\ cache' = LookedUp(<<s, scopes>>)
              /\ last' = IF Usable(<<s, scopes>>) THEN last ELSE [last EXCEPT ![s] = {}]
        BY <1>3 DEF Inspect
    <2>2. <<s, scopes>> \in Key
        BY <2>1, <1>3 DEF TypeOK, Key
    <2>3. cache' \in [Key -> Token \cup {None}]
        BY <2>1, <2>2, LookedUpType
    <2>4. last' \in [Subject -> SUBSET SUBSET Scope]
        BY <2>1 DEF TypeOK
    <2> QED BY <1>3, <2>3, <2>4 DEF Inspect, TypeOK, ExchangeTypeOK, exchangeVars
<1>4. CASE Render
    BY <1>4 DEF Render, TypeOK, ExchangeTypeOK, exchangeVars
<1>5. CASE AgentRestart
    <2>1. ExchangeTypeOK'
        BY <1>5, ForgetType DEF AgentRestart, TypeOK, ExchangeTypeOK, exchangeVars, Free
    <2> QED BY <1>5, <2>1 DEF AgentRestart, AgentStart, TypeOK
<1>6. CASE ServiceRestart
    <2>1. ExchangeTypeOK'
        BY <1>6, RestartTyped DEF ServiceRestart, TypeOK
    <2> QED BY <1>6, <2>1 DEF ServiceRestart, TypeOK
<1>7. CASE Clock
    BY <1>7 DEF Clock, Tick, TypeOK, ExchangeTypeOK, agentVars
<1> QED BY <1>1, <1>2, <1>3, <1>4, <1>5, <1>6, <1>7

LEMMA NextTypeOK == TypeOK /\ [Next]_vars => TypeOK'
<1> SUFFICES ASSUME TypeOK, [Next]_vars PROVE TypeOK'
    OBVIOUS
<1>1. CASE UNCHANGED vars
    BY <1>1 DEF vars, exchangeVars, agentVars, TypeOK, ExchangeTypeOK
<1>2. CASE Next
    BY <1>2, ResolveType, ExchangeStepType, RestType DEF Next
<1> QED BY <1>1, <1>2

\* Type correctness of the composition.
THEOREM TokensTypeCorrect == Spec => []TypeOK
<1> QED BY InitTypeOK, NextTypeOK, PTL DEF Spec

-----------------------------------------------------------------------------
(* Every token is where it belongs. *)

LEMMA InitFit == Init => TokensFit
BY DEF Init, ExchangeInit, TokensFit, Key, Request, Task

\* What upstream issues for an authorized request fits the request.
LEMMA IssueFits ==
    ASSUME NEW r \in Request, NEW life, Authorized(r)
    PROVE  ForKey(Issue(r, life), <<r.who, r.what>>)
BY DEF Authorized, ForKey, Issue, Grants

LEMMA ReceiveFits ==
    ASSUME TypeOK, TokensFit, NEW t \in Task, NEW token, Receive(t, token),
           token # None => ForKey(token, KeyOf(t))
    PROVE  /\ \A k \in Key : cache'[k] # None => ForKey(cache'[k], k)
           /\ \A u \in Task : held'[u] # None => ForKey(held'[u], KeyOf(u))
<1>1. CASE Extracted(token)
    <2>1. /\ cache' = [cache EXCEPT ![KeyOf(t)] = token]
          /\ held' = [held EXCEPT ![t] = token]
        BY <1>1 DEF Receive, Hand
    <2>2. ForKey(token, KeyOf(t))
        BY <1>1 DEF Extracted
    <2>3. \A k \in Key : cache'[k] = IF k = KeyOf(t) THEN token ELSE cache[k]
        BY <2>1 DEF TypeOK
    <2>4. \A u \in Task : held'[u] = IF u = t THEN token ELSE held[u]
        BY <2>1 DEF TypeOK
    <2> QED BY <2>2, <2>3, <2>4 DEF TokensFit
<1>2. CASE ~Extracted(token)
    BY <1>2 DEF Receive, Denied, TokensFit
<1> QED BY <1>1, <1>2

LEMMA ReplyFits ==
    ASSUME TypeOK, TokensFit, NEW job \in Job, NEW token, Reply(job, token), JobFits(job),
           token # None => ForKey(token, <<job.req.who, job.req.what>>)
    PROVE  /\ \A k \in Key : cache'[k] # None => ForKey(cache'[k], k)
           /\ \A u \in Task : held'[u] # None => ForKey(held'[u], KeyOf(u))
<1>1. CASE job.client = None
    BY <1>1 DEF Reply, agentVars, TokensFit
<1>2. CASE job.client # None
    <2>1. job.client \in Task /\ Receive(job.client, token)
        BY <1>2 DEF Job, Task, Reply
    <2>2. token # None => ForKey(token, KeyOf(job.client))
        BY <1>2 DEF JobFits
    <2> QED BY <2>1, <2>2, ReceiveFits
<1> QED BY <1>1, <1>2

LEMMA BeginsFit ==
    ASSUME TypeOK, TokensFit, Begins
    PROVE  /\ Head(inbox) \in Job /\ JobFits(Head(inbox))
           /\ \A i \in DOMAIN inbox' : JobFits(inbox'[i])
<1>1. inbox \in Seq(Job) /\ inbox # <<>> /\ inbox' = Tail(inbox)
    BY DEF TypeOK, ExchangeTypeOK, Begins
<1>2. Head(inbox) = inbox[1] /\ 1 \in DOMAIN inbox
    BY <1>1
<1>3. \A i \in DOMAIN Tail(inbox) : i + 1 \in DOMAIN inbox /\ Tail(inbox)[i] = inbox[i + 1]
    BY <1>1
<1> QED BY <1>1, <1>2, <1>3 DEF TokensFit

LEMMA ExchangeStepFits ==
    ASSUME TypeOK, TokensFit, ExchangeStep
    PROVE  TokensFit'
<1> USE DEF TokensFit
<1>1. CASE Denies /\ Reply(Head(inbox), None)
    BY <1>1, BeginsFit, ReplyFits DEF Denies, JobFits, KeyOf
<1>2. CASE Serves /\ Reply(Head(inbox), entries[Head(inbox).req])
    <2>1. Head(inbox) \in Job /\ Head(inbox).req \in Request
        BY <1>2, BeginsFit DEF Serves, Job
    <2>2. entries[Head(inbox).req] # None =>
              ForKey(entries[Head(inbox).req], <<Head(inbox).req.who, Head(inbox).req.what>>)
        BY <2>1
    <2> QED BY <1>2, <2>1, <2>2, BeginsFit, ReplyFits DEF Serves, JobFits, KeyOf
<1>3. CASE Fetches /\ UNCHANGED agentVars
    <2>1. Head(inbox) \in Job /\ Head(inbox).req \in Request
        BY <1>3, BeginsFit DEF Fetches, Job
    <2>2. \A r \in Request : entries'[r] # None => entries'[r] = entries[r]
        BY <1>3, <2>1 DEF Fetches, TypeOK, ExchangeTypeOK
    <2>3. serving'.job = Head(inbox) /\ Authorized(Head(inbox).req)
        BY <1>3 DEF Fetches
    <2> QED BY <1>3, <2>2, <2>3, BeginsFit
            DEF Fetches, agentVars, JobFits, KeyOf, Authorized, ForKey
<1>4. ASSUME NEW life \in Lifetime, Issues(life),
             Reply(serving.job, Issue(serving.job.req, life))
      PROVE  TokensFit'
    <2> DEFINE req == serving.job.req
               token == Issue(req, life)
    <2>1. serving.job \in Job /\ req \in Request /\ token \in Token /\ serving # Idle
        BY <1>4, UpstreamTyped DEF Issues, TypeOK
    <2>2. ForKey(token, <<req.who, req.what>>)
        BY <2>1, <1>4, IssueFits DEF Issues
    <2>3. PICK victims \in Victims(req) : entries' = Stored(req, token, victims)
        BY <1>4 DEF Issues
    <2>4. serving' = Idle /\ inbox' = inbox
        BY <1>4 DEF Issues
    <2>5. JobFits(serving.job)
        BY <1>4, <2>1 DEF Issues
    <2> HIDE DEF token, req
    <2>6. \A r \in Request : entries'[r] # None => ForKey(entries'[r], <<r.who, r.what>>)
        BY <2>1, <2>2, <2>3, StoredTyped DEF TypeOK
    <2>7. /\ \A k \in Key : cache'[k] # None => ForKey(cache'[k], k)
          /\ \A u \in Task : held'[u] # None => ForKey(held'[u], KeyOf(u))
        BY <1>4, <2>1, <2>2, <2>5, ReplyFits DEF token, req
    <2> QED BY <2>4, <2>6, <2>7 DEF JobFits, KeyOf
<1>5. CASE Retries /\ UNCHANGED agentVars
    <2>1. serving'.job = serving.job
        BY <1>5 DEF Retries, TypeOK, ExchangeTypeOK, Attempt
    <2> QED BY <1>5, <2>1 DEF Retries, agentVars, JobFits, KeyOf, Authorized, ForKey
<1>6. CASE GivesUp /\ Reply(serving.job, None)
    <2>1. serving.job \in Job /\ JobFits(serving.job)
        BY <1>6 DEF GivesUp, TypeOK, ExchangeTypeOK, Attempt
    <2> QED BY <1>6, <2>1, ReplyFits DEF GivesUp, JobFits, KeyOf
<1> QED BY <1>1, <1>2, <1>3, <1>4, <1>5, <1>6 DEF ExchangeStep

\* Looking up a key takes nothing but that key's token away.
LEMMA LookedUpShrinks ==
    ASSUME TypeOK, NEW k \in Key, NEW j \in Key
    PROVE  LookedUp(k)[j] \in {None, cache[j]}
BY DEF LookedUp, TypeOK

LEMMA ResolveFits ==
    ASSUME TypeOK, TokensFit, NEW t \in Task, Resolve(t)
    PROVE  TokensFit'
<1> USE DEF TokensFit
<1>1. KeyOf(t) \in Key
    BY KeyTyped
<1>2. CASE Hit(t)
    <2>1. held' = [held EXCEPT ![t] = cache[KeyOf(t)]]
        BY <1>2 DEF Hit, Hand
    <2>2. \A u \in Task : held'[u] = IF u = t THEN cache[KeyOf(t)] ELSE held[u]
        BY <2>1 DEF TypeOK
    <2>3. \A u \in Task : held'[u] # None => ForKey(held'[u], KeyOf(u))
        BY <1>1, <2>2
    <2> QED BY <1>2, <2>3 DEF Hit, exchangeVars, JobFits, KeyOf, Authorized, ForKey
<1>3. CASE MissFails(t)
    <2>1. \A k \in Key : cache'[k] # None => cache'[k] = cache[k]
        BY <1>1, <1>3, LookedUpShrinks DEF MissFails
    <2> QED BY <1>3, <2>1
            DEF MissFails, Denied, exchangeVars, JobFits, KeyOf, Authorized, ForKey
<1>4. CASE MissPosts(t)
    <2>1. \A k \in Key : cache'[k] # None => cache'[k] = cache[k]
        BY <1>1, <1>4, LookedUpShrinks DEF MissPosts
    <2> DEFINE job == [req |-> [who |-> Asks[t].who, by |-> actor, what |-> Asks[t].what],
                       client |-> t]
    <2>2. JobFits(job)
        BY DEF JobFits, KeyOf
    <2> HIDE DEF job
    <2>3. inbox' = Append(inbox, job) /\ inbox \in Seq(Job)
        BY <1>4 DEF MissPosts, Post, TypeOK, ExchangeTypeOK, job
    <2>4. \A i \in DOMAIN inbox' : inbox'[i] = job \/ (i \in DOMAIN inbox /\ inbox'[i] = inbox[i])
        BY <2>3
    <2>5. \A i \in DOMAIN inbox' : JobFits(inbox'[i])
        BY <2>2, <2>4
    <2> QED BY <1>4, <2>1, <2>5 DEF MissPosts, Denied, JobFits, KeyOf, Authorized, ForKey
<1> QED BY <1>2, <1>3, <1>4 DEF Resolve

\* A client that hangs up leaves jobs nobody waits for.
LEMMA ForgetFits ==
    ASSUME TypeOK, TokensFit, NEW t \in Task, Forget(t)
    PROVE  /\ entries' = entries
           /\ \A i \in DOMAIN inbox' : JobFits(inbox'[i])
           /\ serving' # Idle => JobFits(serving'.job) /\ Authorized(serving'.job.req)
<1> DEFINE left(job) == IF job.client = t THEN [job EXCEPT !.client = None] ELSE job
<1>1. \A job \in Job : JobFits(job) => JobFits(left(job)) /\ left(job).req = job.req
    BY DEF JobFits, Job
<1>2. /\ inbox' = [i \in DOMAIN inbox |-> left(inbox[i])]
      /\ serving' = IF serving = Idle THEN Idle ELSE [serving EXCEPT !.job = left(@)]
      /\ entries' = entries
    BY DEF Forget
<1> HIDE DEF left
<1>3. \A i \in DOMAIN inbox' : JobFits(inbox'[i])
    BY <1>1, <1>2 DEF TypeOK, ExchangeTypeOK, TokensFit
<1>4. ASSUME serving' # Idle
      PROVE  JobFits(serving'.job) /\ Authorized(serving'.job.req)
    <2>1. serving # Idle /\ serving \in Attempt /\ serving'.job = left(serving.job)
        BY <1>2, <1>4 DEF TypeOK, ExchangeTypeOK, Attempt
    <2>2. serving.job \in Job
        BY <2>1 DEF Attempt
    <2> QED BY <1>1, <2>1, <2>2 DEF TokensFit
<1> QED BY <1>2, <1>3, <1>4

LEMMA RestFits ==
    ASSUME TypeOK, TokensFit,
           \/ \E t \in Task : TimeOut(t) \/ EndCall(t)
           \/ \E s \in Subject : Inspect(s)
           \/ Render \/ AgentRestart \/ ServiceRestart \/ Clock
    PROVE  TokensFit'
<1> USE DEF TokensFit
<1>1. ASSUME NEW t \in Task, TimeOut(t) PROVE TokensFit'
    BY <1>1, ForgetFits DEF TimeOut, JobFits, KeyOf, Authorized, ForKey
<1>2. ASSUME NEW t \in Task, EndCall(t) PROVE TokensFit'
    <2>1. \A u \in Task : held'[u] # None => held'[u] = held[u]
        BY <1>2 DEF EndCall, TypeOK
    <2> QED BY <1>2, <2>1 DEF EndCall, exchangeVars, JobFits, KeyOf, Authorized, ForKey
<1>3. ASSUME NEW s \in Subject, Inspect(s) PROVE TokensFit'
    <2>1. PICK scopes \in last[s] : cache' = LookedUp(<<s, scopes>>)
        BY <1>3 DEF Inspect
    <2>2. <<s, scopes>> \in Key
        BY <2>1, <1>3 DEF TypeOK, Key
    <2>3. \A k \in Key : cache'[k] # None => cache'[k] = cache[k]
        BY <2>1, <2>2, LookedUpShrinks
    <2> QED BY <1>3, <2>3 DEF Inspect, exchangeVars, JobFits, KeyOf, Authorized, ForKey
<1>4. CASE Render
    BY <1>4 DEF Render, exchangeVars, JobFits, KeyOf, Authorized, ForKey
<1>5. CASE AgentRestart
    <2>1. /\ \A k \in Key : cache'[k] = None
          /\ \A t \in Task : held'[t] = None
        BY <1>5 DEF AgentRestart, AgentStart
    <2>2. CASE loop = Free
        BY <1>5, <2>1, <2>2
           DEF AgentRestart, exchangeVars, JobFits, KeyOf, Authorized, ForKey
    <2>3. CASE loop # Free
        <3>1. loop.task \in Task /\ Forget(loop.task)
            BY <1>5, <2>3 DEF AgentRestart, TypeOK
        <3> QED BY <2>1, <3>1, ForgetFits DEF JobFits, KeyOf, Authorized, ForKey
    <2> QED BY <2>2, <2>3
<1>6. CASE ServiceRestart
    BY <1>6 DEF ServiceRestart, ExchangeRestart, JobFits, KeyOf, Authorized, ForKey
<1>7. CASE Clock
    BY <1>7 DEF Clock, Tick, agentVars, JobFits, KeyOf, Authorized, ForKey
<1> QED BY <1>1, <1>2, <1>3, <1>4, <1>5, <1>6, <1>7

LEMMA NextFits == TypeOK /\ TokensFit /\ [Next]_vars => TokensFit'
<1> SUFFICES ASSUME TypeOK, TokensFit, [Next]_vars PROVE TokensFit'
    OBVIOUS
<1>1. CASE UNCHANGED vars
    BY <1>1 DEF vars, exchangeVars, agentVars, TokensFit, JobFits, KeyOf, Authorized, ForKey
<1>2. CASE Next
    BY <1>2, ResolveFits, ExchangeStepFits, RestFits DEF Next
<1> QED BY <1>1, <1>2

\* Tokens never get mixed up between users, scopes, requests and tool calls.
THEOREM TokensFitInvariant == Spec => [](TypeOK /\ TokensFit)
<1> QED BY InitTypeOK, InitFit, NextTypeOK, NextFits, PTL DEF Spec

\* scoped_tool.py: the token a tool call uses is its user's, with its tool's scopes.
THEOREM TaskTokenFits == Spec => []TokenFitsTask
<1>1. TokensFit => TokenFitsTask
    BY DEF TokensFit, TokenFitsTask, KeyOf
<1> QED BY <1>1, TokensFitInvariant, PTL

-----------------------------------------------------------------------------
(* Tool calls see the token service of OboGrants. *)

LEMMA InitGrants == Init => Abs!GrantsInit
BY DEF Init, ExchangeInit, Abs!GrantsInit, Task

\* A token handed out for the key of a task fits the task.
LEMMA ForKeyFits ==
    ASSUME NEW t \in Task, NEW token, ForKey(token, KeyOf(t))
    PROVE  Abs!Fits(t, token)
BY DEF ForKey, KeyOf, Abs!Fits, Abs!MayHave

LEMMA Gives ==
    ASSUME TypeOK, NEW t \in Task, NEW token \in Token, held[t] = None, token # None,
           now < token.exp, ForKey(token, KeyOf(t)),
           held' = [held EXCEPT ![t] = token], now' = now
    PROVE  Abs!GrantsNext
<1>1. held'[t] = token
    BY DEF TypeOK
<1>2. Abs!Fits(t, held'[t])
    BY <1>1, ForKeyFits
<1>3. Abs!Give(t)
    BY <1>1, <1>2 DEF Abs!Give
<1> QED BY <1>3 DEF Abs!GrantsNext

LEMMA InitWaits == Init => OneWaits
BY DEF Init, ExchangeInit, OneWaits

\* A reply frees the loop and leaves nobody waiting.
LEMMA ReplyWaits ==
    ASSUME TypeOK, OneWaits, NEW job \in Job, NEW token, Reply(job, token),
           inbox' \in Seq(Job), serving' = Idle \/ (serving = Idle /\ serving' = serving),
           Awaited(job) => \A i \in DOMAIN inbox' : ~Awaited(inbox'[i]),
           ~Awaited(job) =>
               /\ \A i \in DOMAIN inbox' :
                     Awaited(inbox'[i]) => loop # Free /\ loop.task = inbox'[i].client
               /\ \A i, j \in DOMAIN inbox' :
                     Awaited(inbox'[i]) /\ Awaited(inbox'[j]) => i = j
    PROVE  OneWaits'
<1>1. CASE ~Awaited(job)
    <2>1. UNCHANGED agentVars
        BY <1>1 DEF Reply, Awaited
    <2> QED BY <1>1, <2>1 DEF agentVars, OneWaits, Awaited
<1>2. CASE Awaited(job)
    <2>1. loop' = Free
        BY <1>2 DEF Reply, Receive, Awaited
    <2> QED BY <1>2, <2>1 DEF OneWaits, Awaited
<1> QED BY <1>1, <1>2

LEMMA BeginsWait ==
    ASSUME TypeOK, OneWaits, Begins
    PROVE  /\ Head(inbox) \in Job /\ inbox' \in Seq(Job)
           /\ Awaited(Head(inbox)) =>
                 /\ loop # Free /\ loop.task = Head(inbox).client
                 /\ \A i \in DOMAIN inbox' : ~Awaited(inbox'[i])
           /\ \A i \in DOMAIN inbox' :
                 Awaited(inbox'[i]) => loop # Free /\ loop.task = inbox'[i].client
           /\ \A i, j \in DOMAIN inbox' : Awaited(inbox'[i]) /\ Awaited(inbox'[j]) => i = j
<1>1. inbox \in Seq(Job) /\ inbox # <<>> /\ inbox' = Tail(inbox)
    BY DEF TypeOK, ExchangeTypeOK, Begins
<1>2. Head(inbox) = inbox[1] /\ 1 \in DOMAIN inbox /\ Head(inbox) \in Job
    BY <1>1
<1>3. \A i \in DOMAIN Tail(inbox) :
          i \in Nat \ {0} /\ i + 1 \in DOMAIN inbox /\ Tail(inbox)[i] = inbox[i + 1]
    BY <1>1
<1>4. inbox' \in Seq(Job)
    BY <1>1
<1>5. ASSUME NEW i \in DOMAIN inbox', Awaited(inbox'[i])
      PROVE  loop # Free /\ loop.task = inbox'[i].client /\ ~Awaited(Head(inbox))
    <2>1. i + 1 \in DOMAIN inbox /\ inbox'[i] = inbox[i + 1] /\ i + 1 # 1
        BY <1>1, <1>3
    <2> QED BY <1>2, <1>5, <2>1 DEF OneWaits
<1>6. ASSUME NEW i \in DOMAIN inbox', NEW j \in DOMAIN inbox',
             Awaited(inbox'[i]), Awaited(inbox'[j])
      PROVE  i = j
    <2>1. /\ i + 1 \in DOMAIN inbox /\ inbox'[i] = inbox[i + 1] /\ i \in Nat
          /\ j + 1 \in DOMAIN inbox /\ inbox'[j] = inbox[j + 1] /\ j \in Nat
        BY <1>1, <1>3
    <2>2. i + 1 = j + 1
        BY <1>6, <2>1 DEF OneWaits
    <2> QED BY <2>1, <2>2
<1> QED BY <1>2, <1>4, <1>5, <1>6 DEF OneWaits

LEMMA ExchangeStepWaits ==
    ASSUME TypeOK, OneWaits, ExchangeStep
    PROVE  OneWaits'
<1>1. CASE Denies /\ Reply(Head(inbox), None)
    <2>1. Begins /\ serving = Idle /\ serving' = serving
        BY <1>1 DEF Denies, Begins
    <2> HIDE DEF Begins
    <2> QED BY <1>1, <2>1, BeginsWait, ReplyWaits
<1>2. CASE Serves /\ Reply(Head(inbox), entries[Head(inbox).req])
    <2>1. Begins /\ serving = Idle /\ serving' = serving
        BY <1>2 DEF Serves, Begins
    <2> QED BY <1>2, <2>1, BeginsWait, ReplyWaits
<1>3. CASE Fetches /\ UNCHANGED agentVars
    <2>1. Begins /\ serving'.job = Head(inbox)
        BY <1>3 DEF Fetches
    <2>2. UNCHANGED <<loop, held>>
        BY <1>3 DEF agentVars
    <2> QED BY <2>1, <2>2, BeginsWait DEF OneWaits, Awaited
<1>4. ASSUME NEW life \in Lifetime, Issues(life),
             Reply(serving.job, Issue(serving.job.req, life))
      PROVE  OneWaits'
    <2>1. serving # Idle /\ serving.job \in Job /\ serving' = Idle /\ inbox' = inbox
        BY <1>4, UpstreamTyped DEF Issues, TypeOK
    <2>2. inbox \in Seq(Job)
        BY DEF TypeOK, ExchangeTypeOK
    <2> QED BY <1>4, <2>1, <2>2, ReplyWaits DEF OneWaits
<1>5. CASE Retries /\ UNCHANGED agentVars
    <2>1. serving # Idle /\ serving'.job = serving.job
        BY <1>5 DEF Retries, TypeOK, ExchangeTypeOK, Attempt
    <2> QED BY <1>5, <2>1 DEF Retries, agentVars, OneWaits, Awaited
<1>6. CASE GivesUp /\ Reply(serving.job, None)
    <2>1. serving # Idle /\ serving.job \in Job /\ serving' = Idle /\ inbox' = inbox
        BY <1>6 DEF GivesUp, TypeOK, ExchangeTypeOK, Attempt
    <2>2. inbox \in Seq(Job)
        BY DEF TypeOK, ExchangeTypeOK
    <2> QED BY <1>6, <2>1, <2>2, ReplyWaits DEF OneWaits
<1> QED BY <1>1, <1>2, <1>3, <1>4, <1>5, <1>6 DEF ExchangeStep

LEMMA ResolveWaits ==
    ASSUME TypeOK, OneWaits, NEW t \in Task, Resolve(t)
    PROVE  OneWaits'
<1>1. loop = Free /\ held[t] = None
    BY DEF Resolve
<1>2. CASE Hit(t)
    BY <1>1, <1>2 DEF Hit, exchangeVars, OneWaits, Awaited
<1>3. CASE MissFails(t)
    BY <1>1, <1>3 DEF MissFails, Denied, exchangeVars, OneWaits, Awaited
<1>4. CASE MissPosts(t)
    <2> DEFINE job == [req |-> [who |-> Asks[t].who, by |-> actor, what |-> Asks[t].what],
                       client |-> t]
    <2>1. inbox' = Append(inbox, job) /\ inbox \in Seq(Job) /\ job.client = t
        BY <1>4 DEF MissPosts, Post, TypeOK, ExchangeTypeOK
    <2> HIDE DEF job
    <2>2. \A i \in DOMAIN inbox : ~Awaited(inbox[i])
        BY <1>1 DEF OneWaits
    <2>3. serving # Idle => ~Awaited(serving.job)
        BY <1>1 DEF OneWaits
    <2>4. \A i \in DOMAIN inbox' :
              \/ i = Len(inbox) + 1 /\ inbox'[i] = job
              \/ i \in DOMAIN inbox /\ inbox'[i] = inbox[i]
        BY <2>1
    <2>5. \A i \in DOMAIN inbox' : Awaited(inbox'[i]) =>
              i = Len(inbox) + 1 /\ inbox'[i] = job
        BY <2>2, <2>4
    <2>6. loop' = [task |-> t, since |-> now] /\ held' = held /\ serving' = serving
        BY <1>4 DEF MissPosts, Denied
    <2>7. loop'.task = t /\ loop' # Free
        BY <2>6 DEF Free
    <2> QED BY <1>1, <2>1, <2>3, <2>5, <2>6, <2>7 DEF OneWaits, Awaited
<1> QED BY <1>2, <1>3, <1>4 DEF Resolve

LEMMA ForgetWaits ==
    ASSUME TypeOK, OneWaits, loop # Free, Forget(loop.task)
    PROVE  /\ \A i \in DOMAIN inbox' : ~Awaited(inbox'[i])
           /\ serving' # Idle => ~Awaited(serving'.job)
<1> DEFINE left(job) == IF job.client = loop.task THEN [job EXCEPT !.client = None] ELSE job
<1>1. \A job \in Job : (Awaited(job) => job.client = loop.task) => ~Awaited(left(job))
    BY DEF Awaited, Job
<1>2. /\ inbox' = [i \in DOMAIN inbox |-> left(inbox[i])]
      /\ serving' = IF serving = Idle THEN Idle ELSE [serving EXCEPT !.job = left(@)]
    BY DEF Forget
<1> HIDE DEF left
<1>3. \A i \in DOMAIN inbox' : ~Awaited(inbox'[i])
    BY <1>1, <1>2 DEF TypeOK, ExchangeTypeOK, OneWaits
<1>4. ASSUME serving' # Idle
      PROVE  ~Awaited(serving'.job)
    <2>1. serving # Idle /\ serving \in Attempt /\ serving'.job = left(serving.job)
        BY <1>2, <1>4 DEF TypeOK, ExchangeTypeOK, Attempt
    <2>2. serving.job \in Job
        BY <2>1 DEF Attempt
    <2> QED BY <1>1, <2>1, <2>2 DEF OneWaits
<1> QED BY <1>3, <1>4

LEMMA RestWaits ==
    ASSUME TypeOK, OneWaits,
           \/ \E t \in Task : TimeOut(t) \/ EndCall(t)
           \/ \E s \in Subject : Inspect(s)
           \/ Render \/ AgentRestart \/ ServiceRestart \/ Clock
    PROVE  OneWaits'
<1>1. ASSUME NEW t \in Task, TimeOut(t) PROVE OneWaits'
    <2>1. loop # Free /\ Forget(loop.task) /\ loop' = Free
        BY <1>1 DEF TimeOut
    <2> QED BY <2>1, ForgetWaits DEF OneWaits, Awaited
<1>2. ASSUME NEW t \in Task, EndCall(t) PROVE OneWaits'
    BY <1>2 DEF EndCall, exchangeVars, OneWaits, Awaited
<1>3. ASSUME NEW s \in Subject, Inspect(s) PROVE OneWaits'
    BY <1>3 DEF Inspect, exchangeVars, OneWaits, Awaited
<1>4. CASE Render
    BY <1>4 DEF Render, exchangeVars, OneWaits, Awaited
<1>5. CASE AgentRestart
    <2>1. loop' = Free
        BY <1>5 DEF AgentRestart, AgentStart
    <2>2. CASE loop = Free
        BY <1>5, <2>1, <2>2 DEF AgentRestart, exchangeVars, OneWaits, Awaited
    <2>3. CASE loop # Free
        <3>1. Forget(loop.task)
            BY <1>5, <2>3 DEF AgentRestart
        <3> QED BY <2>1, <2>3, <3>1, ForgetWaits DEF OneWaits, Awaited
    <2> QED BY <2>2, <2>3
<1>6. CASE ServiceRestart
    BY <1>6 DEF ServiceRestart, ExchangeRestart, OneWaits
<1>7. CASE Clock
    BY <1>7 DEF Clock, Tick, agentVars, OneWaits, Awaited
<1> QED BY <1>1, <1>2, <1>3, <1>4, <1>5, <1>6, <1>7

LEMMA NextWaits == TypeOK /\ OneWaits /\ [Next]_vars => OneWaits'
<1> SUFFICES ASSUME TypeOK, OneWaits, [Next]_vars PROVE OneWaits'
    OBVIOUS
<1>1. CASE UNCHANGED vars
    BY <1>1 DEF vars, exchangeVars, agentVars, OneWaits, Awaited
<1>2. CASE Next
    BY <1>2, ResolveWaits, ExchangeStepWaits, RestWaits DEF Next
<1> QED BY <1>1, <1>2

\* A task that is answered waited, so it holds no token yet.
LEMMA ReplyGives ==
    ASSUME TypeOK, NEW job \in Job, NEW token \in Token \cup {None}, Reply(job, token),
           Awaited(job) => loop # Free /\ loop.task = job.client,
           loop # Free => held[loop.task] = None, JobFits(job),
           token # None => ForKey(token, <<job.req.who, job.req.what>>),
           now' = now
    PROVE  Abs!GrantsNext \/ UNCHANGED <<now, held>>
<1>1. CASE ~Awaited(job)
    BY <1>1 DEF Awaited, Reply, agentVars
<1>2. CASE Awaited(job)
    <2> DEFINE t == job.client
    <2>1. t \in Task /\ Receive(t, token) /\ held[t] = None
        BY <1>2 DEF Awaited, Job, Task, Reply
    <2>2. token # None => ForKey(token, KeyOf(t))
        BY <1>2 DEF JobFits, Awaited
    <2> HIDE DEF t
    <2>3. CASE Extracted(token)
        <3>1. token \in Token /\ now < token.exp /\ token # None
            BY <2>3 DEF Extracted
        <3>2. held' = [held EXCEPT ![t] = token]
            BY <2>1, <2>3 DEF Receive, Hand
        <3> QED BY <2>1, <2>2, <3>1, <3>2, Gives
    <2>4. CASE ~Extracted(token)
        BY <2>1, <2>4 DEF Receive, Denied
    <2> QED BY <2>3, <2>4
<1> QED BY <1>1, <1>2

LEMMA ExchangeStepGives ==
    ASSUME TypeOK, TokensFit, OneWaits, ExchangeStep
    PROVE  Abs!GrantsNext \/ UNCHANGED <<now, held>>
<1>1. loop # Free => held[loop.task] = None
    BY DEF OneWaits
<1>2. CASE Denies /\ Reply(Head(inbox), None)
    <2>1. Begins /\ now' = now
        BY <1>2 DEF Denies
    <2> QED BY <1>1, <1>2, <2>1, BeginsFit, BeginsWait, ReplyGives
<1>3. CASE Serves /\ Reply(Head(inbox), entries[Head(inbox).req])
    <2>1. Begins /\ now' = now
        BY <1>3 DEF Serves
    <2>2. Head(inbox) \in Job /\ Head(inbox).req \in Request
        BY <2>1, BeginsFit DEF Job
    <2>3. entries[Head(inbox).req] \in Token \cup {None}
        BY <2>2 DEF TypeOK, ExchangeTypeOK
    <2>4. entries[Head(inbox).req] # None =>
              ForKey(entries[Head(inbox).req], <<Head(inbox).req.who, Head(inbox).req.what>>)
        BY <2>2 DEF TokensFit
    <2> QED BY <1>1, <1>3, <2>1, <2>2, <2>3, <2>4, BeginsFit, BeginsWait, ReplyGives
<1>4. CASE Fetches /\ UNCHANGED agentVars
    BY <1>4 DEF Fetches, agentVars
<1>5. ASSUME NEW life \in Lifetime, Issues(life),
             Reply(serving.job, Issue(serving.job.req, life))
      PROVE  Abs!GrantsNext \/ UNCHANGED <<now, held>>
    <2>1. /\ serving.job \in Job /\ serving.job.req \in Request /\ now' = now
          /\ serving # Idle
        BY <1>5, UpstreamTyped DEF Issues, TypeOK
    <2>2. /\ Issue(serving.job.req, life) \in Token
          /\ ForKey(Issue(serving.job.req, life), <<serving.job.req.who, serving.job.req.what>>)
        BY <1>5, <2>1, IssueTyped, IssueFits DEF TokensFit, TypeOK
    <2>3. /\ JobFits(serving.job)
          /\ Awaited(serving.job) => loop # Free /\ loop.task = serving.job.client
        BY <2>1 DEF TokensFit, OneWaits
    <2> QED BY <1>1, <1>5, <2>1, <2>2, <2>3, ReplyGives
<1>6. CASE Retries /\ UNCHANGED agentVars
    BY <1>6 DEF Retries, agentVars
<1>7. CASE GivesUp /\ Reply(serving.job, None)
    <2>1. serving.job \in Job /\ now' = now /\ serving # Idle
        BY <1>7 DEF GivesUp, TypeOK, ExchangeTypeOK, Attempt
    <2>2. /\ JobFits(serving.job)
          /\ Awaited(serving.job) => loop # Free /\ loop.task = serving.job.client
        BY <2>1 DEF TokensFit, OneWaits
    <2> QED BY <1>1, <1>7, <2>1, <2>2, ReplyGives
<1> QED BY <1>2, <1>3, <1>4, <1>5, <1>6, <1>7 DEF ExchangeStep

LEMMA NextGrants ==
    ASSUME TypeOK, TokensFit, OneWaits, [Next]_vars
    PROVE  [Abs!GrantsNext]_<<now, held>>
<1>1. CASE UNCHANGED vars
    BY <1>1 DEF vars, exchangeVars, agentVars
<1>2. ASSUME NEW t \in Task, Resolve(t)
      PROVE  Abs!GrantsNext \/ UNCHANGED <<now, held>>
    <2>1. held[t] = None
        BY <1>2 DEF Resolve
    <2>2. CASE Hit(t)
        <3>1. /\ cache[KeyOf(t)] \in Token /\ cache[KeyOf(t)] # None
              /\ now < cache[KeyOf(t)].exp
              /\ ForKey(cache[KeyOf(t)], KeyOf(t))
            BY <2>2, KeyTyped DEF Hit, Usable, TypeOK, TokensFit
        <3>2. held' = [held EXCEPT ![t] = cache[KeyOf(t)]] /\ now' = now
            BY <2>2 DEF Hit, Hand, exchangeVars
        <3> QED BY <2>1, <3>1, <3>2, Gives
    <2>3. CASE MissFails(t) \/ MissPosts(t)
        BY <2>3 DEF MissFails, MissPosts, Denied, exchangeVars
    <2> QED BY <1>2, <2>2, <2>3 DEF Resolve
<1>3. ASSUME NEW t \in Task, TimeOut(t)
      PROVE  UNCHANGED <<now, held>>
    BY <1>3 DEF TimeOut, Forget
<1>4. ASSUME NEW t \in Task, EndCall(t)
      PROVE  Abs!GrantsNext
    <2>1. held' = [u \in Task |-> IF u \in {t} THEN None ELSE held[u]] /\ now' = now
        BY <1>4 DEF EndCall, TypeOK, exchangeVars
    <2> QED BY <2>1 DEF Abs!GrantsNext, Abs!Drop
<1>5. ASSUME NEW s \in Subject, Inspect(s)
      PROVE  UNCHANGED <<now, held>>
    BY <1>5 DEF Inspect, exchangeVars
<1>6. CASE Render \/ ServiceRestart
    BY <1>6 DEF Render, ServiceRestart, ExchangeRestart, exchangeVars
<1>7. CASE AgentRestart
    <2>1. held' = [u \in Task |-> IF u \in Task THEN None ELSE held[u]] /\ now' = now
        BY <1>7 DEF AgentRestart, AgentStart, Forget, exchangeVars
    <2> QED BY <2>1 DEF Abs!GrantsNext, Abs!Drop
<1>8. CASE Clock
    BY <1>8 DEF Clock, Tick, agentVars, Abs!GrantsNext, Abs!Pass
<1>9. CASE ExchangeStep
    BY <1>9, ExchangeStepGives
<1> QED BY <1>1, <1>2, <1>3, <1>4, <1>5, <1>6, <1>7, <1>8, <1>9 DEF Next

\* Tool calls see the atomic token service of OboGrants: a task without a token is
\* given one that is live and fits, and caches, retries and restarts do not show.
THEOREM TokensImplementGrants == Spec => GrantsImplemented
<1>1. TypeOK /\ TokensFit /\ OneWaits /\ [Next]_vars => [Abs!GrantsNext]_<<now, held>>
    BY NextGrants
<1> QED
    BY <1>1, InitTypeOK, InitFit, InitWaits, InitGrants, NextTypeOK, NextFits, NextWaits, PTL
    DEF Spec, GrantsImplemented, Abs!GrantsSpec, Abs!grantVars

-----------------------------------------------------------------------------
(* The inspector. *)

LEMMA HandShows ==
    ASSUME TypeOK, NEW t \in Task, NEW token, Hand(t, token), InspectorShowsLatest,
           cache' = [cache EXCEPT ![KeyOf(t)] = token]
    PROVE  InspectorShowsLatest'
<1> DEFINE who == Asks[t].who
           what == Asks[t].what
<1>1. who \in Subject /\ KeyOf(t) = <<who, what>> /\ KeyOf(t) \in Key
    BY OboAssumption, KeyTyped DEF Task, KeyOf
<1>2. /\ \A s \in Subject : latest'[s] = IF s = who THEN token ELSE latest[s]
      /\ \A s \in Subject : last'[s] = IF s = who THEN {what} ELSE last[s]
    BY <1>1 DEF Hand, TypeOK
<1> HIDE DEF who, what
<1>3. \A k \in Key : cache'[k] = IF k = <<who, what>> THEN token ELSE cache[k]
    BY <1>1 DEF TypeOK
<1>4. ASSUME NEW s \in Subject, NEW scopes \in last'[s]
      PROVE  cache'[<<s, scopes>>] \in {None, latest'[s]}
    <2>1. CASE s = who
        BY <1>1, <1>2, <1>3, <1>4, <2>1
    <2>2. CASE s # who
        <3>1. scopes \in last[s] /\ latest'[s] = latest[s]
            BY <1>2, <1>4, <2>2
        <3>2. <<s, scopes>> \in Key /\ <<s, scopes>> # <<who, what>>
            BY <2>2, <3>1 DEF TypeOK, Key
        <3> QED BY <1>3, <3>1, <3>2 DEF InspectorShowsLatest
    <2> QED BY <2>1, <2>2
<1> QED BY <1>4 DEF InspectorShowsLatest

LEMMA ReplyShows ==
    ASSUME TypeOK, NEW job \in Job, NEW token, Reply(job, token), InspectorShowsLatest
    PROVE  InspectorShowsLatest'
<1>1. CASE job.client = None
    BY <1>1 DEF Reply, agentVars, InspectorShowsLatest
<1>2. CASE job.client # None
    <2>1. job.client \in Task /\ Receive(job.client, token)
        BY <1>2 DEF Job, Task, Reply
    <2>2. CASE Extracted(token)
        BY <2>1, <2>2, HandShows DEF Receive
    <2>3. CASE ~Extracted(token)
        BY <2>1, <2>3 DEF Receive, Denied, InspectorShowsLatest
    <2> QED BY <2>2, <2>3
<1> QED BY <1>1, <1>2

LEMMA ShrinkShows ==
    ASSUME TypeOK, InspectorShowsLatest, NEW k \in Key, cache' = LookedUp(k),
           \A s \in Subject : last'[s] \subseteq last[s], latest' = latest
    PROVE  InspectorShowsLatest'
<1>1. ASSUME NEW s \in Subject, NEW scopes \in last'[s]
      PROVE  cache'[<<s, scopes>>] \in {None, latest'[s]}
    <2>1. scopes \in last[s] /\ <<s, scopes>> \in Key
        BY <1>1 DEF TypeOK, Key
    <2> QED BY <2>1, LookedUpShrinks DEF InspectorShowsLatest
<1> QED BY <1>1 DEF InspectorShowsLatest

LEMMA NextShows == TypeOK /\ InspectorShowsLatest /\ [Next]_vars => InspectorShowsLatest'
<1> SUFFICES ASSUME TypeOK, InspectorShowsLatest, [Next]_vars PROVE InspectorShowsLatest'
    OBVIOUS
<1>1. CASE UNCHANGED <<cache, last, latest>>
    BY <1>1 DEF InspectorShowsLatest
<1>2. ASSUME NEW t \in Task, Resolve(t) PROVE InspectorShowsLatest'
    <2>1. CASE Hit(t)
        <3>1. cache' = [cache EXCEPT ![KeyOf(t)] = cache[KeyOf(t)]]
            BY <2>1, KeyTyped DEF Hit, TypeOK
        <3> QED BY <2>1, <3>1, HandShows DEF Hit
    <2>2. CASE MissFails(t) \/ MissPosts(t)
        BY <2>2, KeyTyped, ShrinkShows DEF MissFails, MissPosts, Denied
    <2> QED BY <1>2, <2>1, <2>2 DEF Resolve
<1>3. CASE ExchangeStep
    <2>1. CASE Denies /\ Reply(Head(inbox), None)
        BY <2>1, JobsTyped, ReplyShows DEF Denies, TypeOK
    <2>2. CASE Serves /\ Reply(Head(inbox), entries[Head(inbox).req])
        BY <2>2, JobsTyped, ReplyShows DEF Serves, TypeOK
    <2>3. CASE UNCHANGED agentVars
        BY <1>1, <2>3 DEF agentVars
    <2>4. ASSUME NEW token, serving # Idle, Reply(serving.job, token)
          PROVE  InspectorShowsLatest'
        <3>1. serving.job \in Job
            BY <2>4 DEF TypeOK, ExchangeTypeOK, Attempt
        <3> QED BY <2>4, <3>1, ReplyShows
    <2> QED BY <1>3, <2>1, <2>2, <2>3, <2>4 DEF ExchangeStep, Issues, Upstream, GivesUp
<1>4. ASSUME NEW s \in Subject, Inspect(s) PROVE InspectorShowsLatest'
    <2>1. PICK scopes \in last[s] :
              /\ cache' = LookedUp(<<s, scopes>>)
              /\ last' = IF Usable(<<s, scopes>>) THEN last ELSE [last EXCEPT ![s] = {}]
        BY <1>4 DEF Inspect
    <2>2. <<s, scopes>> \in Key
        BY <1>4, <2>1 DEF TypeOK, Key
    <2>3. \A u \in Subject : last'[u] \subseteq last[u]
        BY <2>1 DEF TypeOK
    <2> QED BY <1>4, <2>1, <2>2, <2>3, ShrinkShows DEF Inspect
<1>5. CASE AgentRestart
    BY <1>5 DEF AgentRestart, AgentStart, InspectorShowsLatest
<1> QED BY <1>1, <1>2, <1>3, <1>4, <1>5
        DEF Next, TimeOut, EndCall, Render, ServiceRestart, Clock, vars, agentVars

\* get_last_obo_token: GET /v1/agent/tokens shows the token last handed out.
THEOREM InspectorIsCurrent == Spec => []InspectorShowsLatest
<1>1. Init => InspectorShowsLatest
    BY DEF Init, InspectorShowsLatest
<1> QED BY <1>1, InitTypeOK, NextTypeOK, NextShows, PTL DEF Spec

-----------------------------------------------------------------------------
(* No token the service still has is issued again. *)

LEMMA StaysReplaceable ==
    ASSUME ExchangeTypeOK, NEW token \in Token, Replaceable(token), now' \in Nat, now' >= now
    PROVE  now' >= token.exp - Headroom \/ now' >= token.iat + CacheTtl
BY ExchangeAssumption DEF ExchangeTypeOK, Replaceable, Token

\* An entry TokenCache.get does not return may be replaced.
LEMMA UncachedReplaceable ==
    ASSUME ExchangeTypeOK, NEW r \in Request, ~Cached(r), entries[r] # None
    PROVE  Replaceable(entries[r])
<1>1. entries[r] \in Token
    BY DEF ExchangeTypeOK
<1> QED BY <1>1, ExchangeAssumption
        DEF ExchangeTypeOK, Cached, Kept, Fresh, Replaceable, Token

LEMMA FetchesKeeps == ASSUME ExchangeTypeOK, NewestKept, Fetches PROVE NewestKept'
<1> DEFINE req == Head(inbox).req
<1>1. req \in Request /\ ~Cached(req)
    BY JobsTyped DEF Fetches, Job
<1>2. /\ serving'.job.req = req /\ newest' = newest /\ now' = now /\ lost' = lost
      /\ entries' = [entries EXCEPT ![req] = None]
    BY DEF Fetches, Begins
<1> HIDE DEF req
<1>3. \A r \in Request : entries'[r] = IF r = req THEN None ELSE entries[r]
    BY <1>2 DEF ExchangeTypeOK
<1>4. newest[req] # None => Replaceable(newest[req]) \/ req \in lost
    BY <1>1, UncachedReplaceable DEF NewestKept
<1> QED BY <1>2, <1>3, <1>4 DEF NewestKept, NoDoubleIssue, Replaceable

\* A store keeps the new token; the entries it drops may be replaced or count as lost.
LEMMA IssuesKeeps ==
    ASSUME ExchangeTypeOK, NewestKept, NEW life \in Lifetime, Issues(life)
    PROVE  NewestKept'
<1> DEFINE req == serving.job.req
           token == Issue(req, life)
<1>1. /\ req \in Request /\ token \in Token
      /\ \A r \in Request : newest'[r] = IF r = req THEN token ELSE newest[r]
    BY UpstreamTyped DEF Issues
<1>2. PICK victims \in Victims(req) :
          entries' = Stored(req, token, victims) /\ lost' = (lost \ {req}) \cup victims
    BY DEF Issues
<1>3. serving' = Idle /\ now' = now
    BY DEF Issues
<1> HIDE DEF req, token
<1>4. entries'[req] = token
    BY <1>1, <1>2, StoredTyped
<1>5. ASSUME NEW r \in Request, r # req, newest[r] # None
      PROVE  entries'[r] = newest[r] \/ Replaceable(newest[r]) \/ r \in lost'
    <2>1. \/ entries'[r] = entries[r]
          \/ r \in victims \/ ~Kept(entries[r])
        BY <1>1, <1>2, <1>5, StoredTyped
    <2>2. entries[r] = newest[r] /\ ~Kept(entries[r]) => Replaceable(newest[r])
        BY <1>5, ExchangeAssumption DEF ExchangeTypeOK, Kept, Replaceable, Token
    <2> QED BY <1>2, <1>5, <2>1, <2>2 DEF NewestKept
<1> QED BY <1>1, <1>3, <1>4, <1>5 DEF NewestKept, NoDoubleIssue, Replaceable

\* An attempt that fails leaves the cache alone; what Keycloak issued is lost.
LEMMA FailsKeeps ==
    ASSUME ExchangeTypeOK, NewestKept, Fails, UNCHANGED <<now, entries>>,
           serving' # Idle => serving # Idle /\ serving'.job.req = serving.job.req
    PROVE  NewestKept'
<1>1. CASE UNCHANGED <<newest, lost>>
    BY <1>1 DEF NewestKept, NoDoubleIssue, Replaceable
<1>2. ASSUME NEW life \in Lifetime, Upstream(life), lost' = lost \cup {serving.job.req}
      PROVE  NewestKept'
    <2>1. \A r \in Request : r # serving.job.req => newest'[r] = newest[r]
        BY <1>2, UpstreamTyped
    <2> QED BY <1>2, <2>1 DEF NewestKept, NoDoubleIssue, Replaceable
<1> QED BY <1>1, <1>2 DEF Fails

LEMMA ForgetKeeps ==
    ASSUME ExchangeTypeOK, NewestKept, NEW t \in Task, Forget(t)
    PROVE  NewestKept'
<1> DEFINE left(job) == IF job.client = t THEN [job EXCEPT !.client = None] ELSE job
<1>1. \A job \in Job : left(job).req = job.req
    BY DEF Job
<1>2. /\ serving' = IF serving = Idle THEN Idle ELSE [serving EXCEPT !.job = left(@)]
      /\ UNCHANGED <<now, entries, newest, lost>>
    BY DEF Forget
<1> HIDE DEF left
<1>3. serving' # Idle => serving # Idle /\ serving'.job.req = serving.job.req
    <2>1. SUFFICES ASSUME serving' # Idle
                   PROVE  serving # Idle /\ serving'.job.req = serving.job.req
        OBVIOUS
    <2>2. serving # Idle /\ serving \in Attempt /\ serving'.job = left(serving.job)
        BY <1>2, <2>1 DEF ExchangeTypeOK, Attempt
    <2>3. serving.job \in Job
        BY <2>2 DEF Attempt
    <2> QED BY <1>1, <2>2, <2>3
<1> QED BY <1>2, <1>3 DEF NewestKept, NoDoubleIssue, Replaceable

LEMMA NextKeeps == TypeOK /\ NewestKept /\ [Next]_vars => NewestKept'
<1> SUFFICES ASSUME ExchangeTypeOK, TypeOK, NewestKept, [Next]_vars PROVE NewestKept'
    BY DEF TypeOK
<1>1. CASE UNCHANGED <<now, serving, entries, newest, lost>>
    BY <1>1 DEF NewestKept, NoDoubleIssue, Replaceable
<1>2. ASSUME NEW t \in Task, TimeOut(t) PROVE NewestKept'
    BY <1>2, ForgetKeeps DEF TimeOut
<1>3. CASE AgentRestart
    <2>1. loop # Free => loop.task \in Task
        BY DEF TypeOK
    <2> QED BY <1>1, <1>3, <2>1, ForgetKeeps DEF AgentRestart, exchangeVars
<1>4. CASE ServiceRestart
    <2>1. serving' = Idle /\ lost' = {r \in Request : newest'[r] # None}
        BY <1>4 DEF ServiceRestart, ExchangeRestart
    <2> QED BY <2>1 DEF NewestKept, NoDoubleIssue
<1>5. CASE Clock
    <2>1. now' = now + 1 /\ UNCHANGED <<serving, entries, newest, lost>>
        BY <1>5 DEF Clock, Tick
    <2>2. ASSUME NEW r \in Request, newest[r] # None, Replaceable(newest[r])
          PROVE  now' >= newest[r].exp - Headroom \/ now' >= newest[r].iat + CacheTtl
        <3>1. newest[r] \in Token /\ now \in Nat
            BY <2>2 DEF ExchangeTypeOK
        <3> QED BY <2>1, <2>2, <3>1, StaysReplaceable
    <2>3. serving # Idle => serving.job.req \in Request
        BY DEF ExchangeTypeOK, Attempt, Job
    <2> QED BY <2>1, <2>2, <2>3 DEF NewestKept, NoDoubleIssue, Replaceable
<1>6. CASE ExchangeStep
    <2>1. CASE \E life \in Lifetime : Issues(life)
        BY <2>1, IssuesKeeps
    <2>2. CASE Fetches
        BY <2>2, FetchesKeeps
    <2>3. CASE Retries
        <3>1. serving # Idle /\ serving'.job = serving.job
            BY <2>3 DEF Retries, ExchangeTypeOK, Attempt
        <3> QED BY <2>3, <3>1, FailsKeeps DEF Retries
    <2>4. CASE GivesUp
        <3>1. CASE Fails
            BY <2>4, <3>1, FailsKeeps DEF GivesUp
        <3>2. CASE UNCHANGED <<newest, lost>>
            BY <2>4, <3>2 DEF GivesUp, NewestKept, NoDoubleIssue, Replaceable
        <3> QED BY <2>4, <3>1, <3>2 DEF GivesUp
    <2> QED BY <1>1, <1>6, <2>1, <2>2, <2>3, <2>4 DEF ExchangeStep, Denies, Serves
<1> QED BY <1>1, <1>2, <1>3, <1>4, <1>5, <1>6
        DEF Next, Resolve, Hit, MissFails, MissPosts, EndCall, Inspect, Render,
            vars, exchangeVars

\* TokenCache and the single loop of the service: a token that may still be used and
\* that the service has not lost is not asked for again, whatever the agent forgets or
\* stops waiting for.
THEOREM IssuedOnce == Spec => []NoDoubleIssue
<1>1. Init => NewestKept
    BY DEF Init, ExchangeInit, NewestKept, NoDoubleIssue
<1>2. NewestKept => NoDoubleIssue
    BY DEF NewestKept
<1> QED BY <1>1, <1>2, InitTypeOK, NextTypeOK, NextKeeps, PTL DEF Spec

-----------------------------------------------------------------------------
(* The agent's event loop is never left waiting for nothing. *)

\* The job the blocked event loop waits for is with the service.
BlockedIsServed ==
    loop # Free =>
        \/ serving # Idle /\ serving.job.client = loop.task
        \/ \E i \in DOMAIN inbox : inbox[i].client = loop.task

\* A job that is taken from the inbox leaves the others there.
LEMMA BeginsLeaves ==
    ASSUME TypeOK, OneWaits, BlockedIsServed, Begins, loop # Free
    PROVE  \/ Head(inbox).client = loop.task
           \/ /\ Head(inbox).client = None
              /\ \E i \in DOMAIN inbox' : inbox'[i].client = loop.task
<1>1. inbox \in Seq(Job) /\ inbox # <<>> /\ inbox' = Tail(inbox) /\ serving = Idle
    BY DEF TypeOK, ExchangeTypeOK, Begins
<1>2. Head(inbox) = inbox[1] /\ 1 \in DOMAIN inbox
    BY <1>1
<1>3. \A i \in DOMAIN inbox : i # 1 =>
          i - 1 \in DOMAIN Tail(inbox) /\ Tail(inbox)[i - 1] = inbox[i]
    BY <1>1
<1>4. PICK i \in DOMAIN inbox : inbox[i].client = loop.task
    BY <1>1 DEF BlockedIsServed
<1>5. Head(inbox).client # None => Head(inbox).client = loop.task
    BY <1>2 DEF OneWaits, Awaited
<1>6. CASE i = 1
    BY <1>2, <1>4, <1>6
<1>7. CASE i # 1
    <2>1. i - 1 \in DOMAIN inbox' /\ inbox'[i - 1].client = loop.task
        BY <1>1, <1>3, <1>4, <1>7
    <2> QED BY <1>5, <2>1
<1> QED BY <1>6, <1>7

LEMMA ExchangeStepServes ==
    ASSUME TypeOK, OneWaits, BlockedIsServed, ExchangeStep
    PROVE  BlockedIsServed'
<1> SUFFICES ASSUME loop' # Free
             PROVE  \/ serving' # Idle /\ serving'.job.client = loop'.task
                    \/ \E i \in DOMAIN inbox' : inbox'[i].client = loop'.task
    BY DEF BlockedIsServed
<1>1. ASSUME NEW job, NEW token, Reply(job, token)
      PROVE  job.client = None /\ UNCHANGED loop
    BY <1>1 DEF Reply, Receive, agentVars
<1>2. loop # Free => loop \in [task : Task, since : Nat]
    BY DEF TypeOK
<1>3. loop # Free => loop.task # None
    BY <1>2, ExchangeAssumption DEF Task
<1>4. ASSUME Begins, Reply(Head(inbox), None) \/ Reply(Head(inbox), entries[Head(inbox).req])
      PROVE  \E i \in DOMAIN inbox' : inbox'[i].client = loop'.task
    BY <1>1, <1>3, <1>4, BeginsLeaves
<1>5. ASSUME Denies \/ Serves PROVE Begins
    BY <1>5 DEF Denies, Serves
<1>6. CASE Fetches /\ UNCHANGED agentVars
    <2>1. Begins /\ serving' = [job |-> Head(inbox), attempt |-> 1, since |-> now]
        BY <1>6 DEF Fetches
    <2>2. UNCHANGED loop
        BY <1>6 DEF agentVars
    <2>3. serving' # Idle /\ serving'.job = Head(inbox)
        BY <2>1 DEF Idle
    <2> QED BY <2>1, <2>2, <2>3, BeginsLeaves
<1>7. ASSUME serving # Idle, inbox' = inbox, NEW token, Reply(serving.job, token)
      PROVE  \E i \in DOMAIN inbox' : inbox'[i].client = loop'.task
    BY <1>1, <1>3, <1>7 DEF BlockedIsServed
<1>8. ASSUME (\E life \in Lifetime : Issues(life)) \/ GivesUp
      PROVE  serving # Idle /\ inbox' = inbox
    BY <1>8 DEF Issues, Upstream, GivesUp
<1>9. CASE Retries /\ UNCHANGED agentVars
    <2>1. serving # Idle /\ serving'.job = serving.job /\ serving' # Idle
        BY <1>9 DEF Retries, TypeOK, ExchangeTypeOK, Attempt, Idle
    <2>2. inbox' = inbox /\ loop' = loop
        BY <1>9 DEF Retries, agentVars
    <2> QED BY <2>1, <2>2 DEF BlockedIsServed
<1> QED BY <1>4, <1>5, <1>6, <1>7, <1>8, <1>9 DEF ExchangeStep

LEMMA ResolveServes ==
    ASSUME TypeOK, NEW t \in Task, Resolve(t)
    PROVE  BlockedIsServed'
<1>1. CASE MissPosts(t)
    <2> DEFINE job == [req |-> [who |-> Asks[t].who, by |-> actor, what |-> Asks[t].what],
                       client |-> t]
    <2>1. inbox' = Append(inbox, job) /\ inbox \in Seq(Job) /\ job.client = t
        BY <1>1 DEF MissPosts, Post, TypeOK, ExchangeTypeOK
    <2>2. loop'.task = t
        BY <1>1 DEF MissPosts
    <2> HIDE DEF job
    <2>3. Len(inbox) + 1 \in DOMAIN inbox' /\ inbox'[Len(inbox) + 1] = job
        BY <2>1
    <2> QED BY <2>1, <2>2, <2>3 DEF BlockedIsServed
<1>2. CASE Hit(t) \/ MissFails(t)
    <2>1. loop' = Free
        BY <1>2 DEF Resolve, Hit, MissFails
    <2> QED BY <2>1 DEF BlockedIsServed
<1> QED BY <1>1, <1>2 DEF Resolve

LEMMA NextServes == TypeOK /\ OneWaits /\ BlockedIsServed /\ [Next]_vars => BlockedIsServed'
<1> SUFFICES ASSUME TypeOK, OneWaits, BlockedIsServed, [Next]_vars PROVE BlockedIsServed'
    OBVIOUS
<1>1. CASE UNCHANGED <<loop, inbox, serving>>
    BY <1>1 DEF BlockedIsServed
<1>2. CASE loop' = Free
    BY <1>2 DEF BlockedIsServed
<1>3. ASSUME \/ \E t \in Task : TimeOut(t) \/ EndCall(t)
             \/ \E s \in Subject : Inspect(s)
             \/ Render \/ AgentRestart \/ ServiceRestart \/ Clock
             \/ UNCHANGED vars
      PROVE  UNCHANGED <<loop, inbox, serving>> \/ loop' = Free
    BY <1>3 DEF TimeOut, EndCall, Inspect, Render, AgentRestart, AgentStart,
                ServiceRestart, Clock, Tick, vars, exchangeVars, agentVars
<1> QED BY <1>1, <1>2, <1>3, ResolveServes, ExchangeStepServes DEF Next

\* resolve_token blocks the agent's event loop in urlopen: whenever it does, the
\* request it waits for is in the service's queue or being served, whichever of the
\* two restarted, timed out or lost a connection in between.
THEOREM BlockedIsAlwaysServed == Spec => []BlockedIsServed
<1>1. Init => BlockedIsServed
    BY DEF Init, BlockedIsServed
<1> QED BY <1>1, InitTypeOK, NextTypeOK, InitWaits, NextWaits, NextServes, PTL DEF Spec

-----------------------------------------------------------------------------
(* And the service works off what is ahead of it. *)

\* The steps the service has before it: one per job, and its attempts.
Work == (MaxAttempts + 1) * Len(inbox)
            + (IF serving = Idle THEN 0 ELSE MaxAttempts - serving.attempt + 1)

\* While the agent waits nothing adds to the work, and each step of the service
\* takes some away.
NearerTheAnswer ==
    /\ ExchangeStep => Work' < Work
    /\ (loop # Free /\ ~ExchangeStep) => Work' <= Work

LEMMA Job1 ==
    ASSUME NEW m \in Nat, NEW n \in Nat, n # 0
    PROVE  (m + 1) * n = (m + 1) * (n - 1) + m + 1
OBVIOUS

LEMMA WorkType == ASSUME ExchangeTypeOK PROVE Work \in Nat
<1>1. Len(inbox) \in Nat /\ (MaxAttempts + 1) \in Nat
    BY ExchangeAssumption DEF ExchangeTypeOK
<1>2. ASSUME NEW m \in Nat, NEW n \in Nat PROVE m * n \in Nat
    OBVIOUS
<1>3. (MaxAttempts + 1) * Len(inbox) \in Nat
    BY <1>1, <1>2
<1>4. serving # Idle => serving.attempt \in 1..MaxAttempts
    BY DEF ExchangeTypeOK, Attempt
<1> QED BY <1>3, <1>4, ExchangeAssumption DEF Work

LEMMA BeginsNearer ==
    ASSUME ExchangeTypeOK, Begins,
           serving' = Idle \/ (serving' # Idle /\ serving'.attempt = 1)
    PROVE  Work' < Work
<1>1. /\ Len(inbox) \in Nat \ {0} /\ Len(inbox') = Len(inbox) - 1
      /\ serving = Idle
    BY DEF ExchangeTypeOK, Begins
<1>2. MaxAttempts \in Nat \ {0}
    BY ExchangeAssumption
<1> DEFINE before == (MaxAttempts + 1) * Len(inbox)
           after == (MaxAttempts + 1) * Len(inbox')
<1>3. before = (MaxAttempts + 1) * (Len(inbox) - 1) + MaxAttempts + 1
    BY <1>1, <1>2, Job1
<1>4. before = after + MaxAttempts + 1
    BY <1>1, <1>3
<1>5. ASSUME NEW m \in Nat, NEW n \in Nat PROVE (m + 1) * n \in Nat
    OBVIOUS
<1>6. after \in Nat
    BY <1>1, <1>2, <1>5
<1>7. /\ Work = before
      /\ Work' = after + (IF serving' = Idle THEN 0 ELSE MaxAttempts - serving'.attempt + 1)
    BY <1>1, <1>6, <1>4, <1>2 DEF Work
<1> HIDE DEF before, after
<1> QED BY <1>2, <1>4, <1>6, <1>7

LEMMA ServingNearer ==
    ASSUME ExchangeTypeOK, serving # Idle, inbox' = inbox,
           \/ serving' = Idle
           \/ serving' # Idle /\ serving'.attempt = serving.attempt + 1
                /\ serving'.attempt \in 1..MaxAttempts
    PROVE  Work' < Work
<1>1. Len(inbox) \in Nat /\ MaxAttempts \in Nat \ {0} /\ serving.attempt \in 1..MaxAttempts
    BY ExchangeAssumption DEF ExchangeTypeOK, Attempt
<1> DEFINE rest == (MaxAttempts + 1) * Len(inbox)
<1>2. ASSUME NEW m \in Nat, NEW n \in Nat PROVE (m + 1) * n \in Nat
    OBVIOUS
<1>3. rest \in Nat
    BY <1>1, <1>2
<1>4. /\ Work = rest + (MaxAttempts - serving.attempt + 1)
      /\ Work' = rest + (IF serving' = Idle THEN 0 ELSE MaxAttempts - serving'.attempt + 1)
    BY DEF Work
<1> HIDE DEF rest
<1> QED BY <1>1, <1>3, <1>4

LEMMA ExchangeStepNearer == ASSUME TypeOK, ExchangeStep PROVE Work' < Work
<1>1. ExchangeTypeOK
    BY DEF TypeOK
<1>2. CASE Denies \/ Serves
    BY <1>1, <1>2, BeginsNearer DEF Denies, Serves, Begins
<1>3. CASE Fetches
    <2>1. Begins /\ serving' # Idle /\ serving'.attempt = 1
        BY <1>3 DEF Fetches, Idle
    <2> QED BY <1>1, <2>1, BeginsNearer
<1>4. CASE (\E life \in Lifetime : Issues(life)) \/ GivesUp
    BY <1>1, <1>4, ServingNearer DEF Issues, Upstream, GivesUp
<1>5. CASE Retries
    <2>1. /\ serving # Idle /\ serving \in Attempt /\ serving.attempt < MaxAttempts
          /\ serving' = [serving EXCEPT !.attempt = @ + 1, !.since = now]
          /\ inbox' = inbox
        BY <1>1, <1>5 DEF Retries, ExchangeTypeOK
    <2>2. /\ serving'.attempt = serving.attempt + 1
          /\ serving'.attempt \in 1..MaxAttempts
          /\ serving' # Idle
        <3>1. serving.attempt \in 1..MaxAttempts /\ serving'.attempt = serving.attempt + 1
            BY <2>1 DEF Attempt
        <3>2. serving' # Idle
            BY <2>1 DEF Attempt, Idle
        <3> QED BY <2>1, <3>1, <3>2, ExchangeAssumption
    <2> QED BY <1>1, <2>1, <2>2, ServingNearer
<1> QED BY <1>2, <1>3, <1>4, <1>5 DEF ExchangeStep

\* Hanging up and time add nothing; a restart of the service takes everything away.
LEMMA RestNearer ==
    ASSUME TypeOK, loop # Free, [Next]_vars, ~ExchangeStep
    PROVE  Work' <= Work
<1>1. ExchangeTypeOK /\ Work \in Nat
    BY WorkType DEF TypeOK
<1>2. CASE UNCHANGED <<inbox, serving>>
    BY <1>1, <1>2 DEF Work
<1>3. ASSUME NEW client, Forget(client) PROVE Work' <= Work
    <2>1. Len(inbox') = Len(inbox)
        BY <1>1, <1>3 DEF Forget, ExchangeTypeOK
    <2>2. serving = Idle <=> serving' = Idle
        BY <1>1, <1>3 DEF Forget, ExchangeTypeOK, Attempt, Idle
    <2>3. serving # Idle => serving'.attempt = serving.attempt
        BY <1>1, <1>3 DEF Forget, ExchangeTypeOK, Attempt
    <2>4. Work' = Work
        BY <2>1, <2>2, <2>3 DEF Work
    <2> QED BY <1>1, <2>4
<1>4. CASE ServiceRestart
    <2>1. Len(inbox') = 0 /\ serving' = Idle
        BY <1>4 DEF ServiceRestart, ExchangeRestart
    <2>2. Work' = 0
        BY <2>1, ExchangeAssumption DEF Work
    <2> QED BY <1>1, <2>2
<1>5. \A t \in Task : ~Resolve(t)
    BY DEF Resolve
<1>6. \/ UNCHANGED <<inbox, serving>>
      \/ \E client : Forget(client)
      \/ ServiceRestart
    BY <1>5 DEF Next, TimeOut, EndCall, Inspect, Render, AgentRestart, Clock, Tick,
                vars, exchangeVars
<1> QED BY <1>2, <1>3, <1>4, <1>6

\* verify_routes' handlers end: stop_after_attempt bounds what one job takes, and a
\* blocked agent posts no other job, so that it is answered after at most
\* (MaxAttempts + 1) steps of the service for each job in the queue.
THEOREM ServiceProgresses == Spec => [][NearerTheAnswer]_vars
<1>1. TypeOK /\ [Next]_vars => NearerTheAnswer
    BY ExchangeStepNearer, RestNearer DEF NearerTheAnswer
<1> QED BY <1>1, InitTypeOK, NextTypeOK, PTL DEF Spec
==============================================================================
