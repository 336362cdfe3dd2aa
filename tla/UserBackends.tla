---------------------------- MODULE UserBackends -----------------------------
(***************************************************************************)
(* The life of user-mcp around its repository (mcp_app.py, factory.py):    *)
(* startup, calls of several clients, shutdown, a crash.  The repository   *)
(* is the list of FileRepository, or a Postgres table reached through the  *)
(* pool of direct mode or, in vault mode, with an SVID and a connection of *)
(* the call's own (storage/postgres_repo.py; what lies between the SVID    *)
(* and the connection is VaultAccess).  Postgres is external: a statement  *)
(* is atomic, and an error may hide that it took effect.                   *)
(***************************************************************************)
EXTENDS FileRepository, SvidProvider

CONSTANTS
    PoolSize,       \* max_size of the pool, 10 in the code
    Requests        \* the requests that are made

ASSUME BackendAssumption == PoolSize \in Nat \ {0} /\ Requests \subseteq Request

VARIABLES
    backend,    \* USER_BACKEND and USER_MCP_DB_AUTH_MODE
    life,       \* the process
    pool,       \* asyncpg's pool of direct mode
    table,      \* the rows of the Postgres table
    at,         \* what each call awaits
    asked,      \* its request
    outcome     \* what the repository's method is going to return or raise

callVars == <<at, asked, outcome>>
vars == <<backend, life, pool, table, callVars, fileVars, svidVars>>

Busy == {"waits", "stuck", "svid", "hung", "login", "connected", "done"}

Connections == {c \in Client : at[c] = "connected"}

TypeOK ==
    /\ backend \in {"file", "direct", "vault"}
    /\ life \in {"down", "up", "closing"}
    /\ pool \in {"none", "open", "closing"}
    /\ table \subseteq User
    /\ at \in [Client -> {"idle"} \cup Busy]
    /\ asked \in [Client -> Requests \cup {Null}]
    /\ outcome \in [Client -> Outcomes \cup {Null}]
    /\ FileTypeOK /\ SvidTypeOK
    /\ \A c \in Client : at[c] \in {"svid", "hung"} <=> fetching = c
    /\ backend = "direct" => Cardinality(Connections) <= PoolSize

Init ==
    /\ backend \in {"file", "direct", "vault"}
    /\ life = "down"
    /\ pool = "none"
    /\ table = IF backend = "file" THEN {} ELSE ToSet(Seed)
    /\ at = [c \in Client |-> "idle"]
    /\ asked = [c \in Client |-> Null]
    /\ outcome = [c \in Client |-> Null]
    /\ NoList /\ SvidInit

-----------------------------------------------------------------------------
(* The process. *)

\* (Mutant of Start: the repository's startup is not called.)
StartBare ==
    /\ life = "down" /\ life' = "up"
    /\ UNCHANGED <<backend, pool, table, callVars, fileVars, svidVars>>

\* The lifespan awaits the repository's startup before the server takes requests.
Start ==
    /\ life = "down" /\ life' = "up"
    /\ IF backend = "file" THEN LoadList ELSE UNCHANGED fileVars
    /\ pool' = IF backend = "direct" THEN "open" ELSE pool
    /\ UNCHANGED <<backend, table, callVars, svidVars>>

\* The lifespan ends while calls may be under way; closing the pool waits for its
\* connections.
Shutdown ==
    /\ life = "up" /\ life' = "closing"
    /\ pool' = IF pool = "open" THEN "closing" ELSE pool
    /\ UNCHANGED <<backend, table, callVars, fileVars, svidVars>>

\* What the process had in memory is gone, and so are its calls.
Gone ==
    /\ life' = "down"
    /\ pool' = "none"
    /\ at' = [c \in Client |-> "idle"]
    /\ asked' = [c \in Client |-> Null]
    /\ outcome' = [c \in Client |-> Null]
    /\ users' = Null /\ jammed' = FALSE
    /\ cached' = "none" /\ fetching' = Nobody /\ svid' = [c \in Client |-> "none"]
    /\ UNCHANGED <<backend, table>>

Exit == life = "closing" /\ (pool = "closing" => Connections = {}) /\ Gone

Crash == life = "up" /\ Gone

-----------------------------------------------------------------------------
(* Calls. *)

Move(c, from, to) ==
    /\ at[c] = from
    /\ at' = [at EXCEPT ![c] = to]
    /\ UNCHANGED <<backend, life, pool, asked>>

\* The method returns or raises: the tool will answer.
Ends(c, from, how) == Move(c, from, "done") /\ outcome' = [outcome EXCEPT ![c] = how]

Failed == Outcome("failed", {})

\* A tool call that may use the repository.
Receive(c) ==
    /\ life = "up" /\ at[c] = "idle"
    /\ \E r \in Requests : asked' = [asked EXCEPT ![c] = r]
    /\ at' = [at EXCEPT ![c] = "waits"]
    /\ UNCHANGED <<backend, life, pool, table, outcome, fileVars, svidVars>>

Reply(c) ==
    /\ at[c] = "done"
    /\ at' = [at EXCEPT ![c] = "idle"]
    /\ asked' = [asked EXCEPT ![c] = Null]
    /\ outcome' = [outcome EXCEPT ![c] = Null]
    /\ UNCHANGED <<backend, life, pool, table, fileVars, svidVars>>

\* The list's lock is free; _ensure_loaded finds the list or jams.
Operate(c) ==
    /\ backend = "file" /\ at[c] = "waits" /\ ~jammed
    /\ IF users = Null
       THEN /\ Move(c, "waits", "stuck")
            /\ jammed' = TRUE /\ UNCHANGED <<users, outcome>>
       ELSE LET r == FileResult(users, asked[c])
            IN users' = r[1] /\ UNCHANGED jammed /\ Ends(c, "waits", r[2])
    /\ UNCHANGED <<table, svidVars>>

\* A connection of the pool becomes free; a closing pool may also refuse.
Acquire(c) ==
    /\ backend = "direct"
    /\ \/ /\ pool # "none" /\ Cardinality(Connections) < PoolSize
          /\ Move(c, "waits", "connected") /\ UNCHANGED outcome
       \/ pool # "open" /\ Ends(c, "waits", Failed)
    /\ UNCHANGED <<table, fileVars, svidVars>>

\* get_jwt_svid, as far as its lock is free.
TakeSvid(c) ==
    /\ backend = "vault" /\ GetSvid(c)
    /\ Move(c, "waits", IF fetching' = c THEN "svid" ELSE "login")
    /\ UNCHANGED <<table, outcome, fileVars>>

SvidFetched(c) ==
    /\ Fetched(c) /\ Move(c, "svid", "login")
    /\ UNCHANGED <<table, outcome, fileVars>>

SvidRefused(c) ==
    /\ FetchRefused(c) /\ Ends(c, "svid", Failed)
    /\ UNCHANGED <<table, fileVars>>

\* The Workload API never answers; the fetch has no timeout.
SvidHangs(c) ==
    /\ Move(c, "svid", "hung")
    /\ UNCHANGED <<table, outcome, fileVars, svidVars>>

\* The workload's login at Vault and all that follows up to the connection.
Login(c) ==
    /\ DropSvid(c)
    /\ \/ Move(c, "login", "connected") /\ UNCHANGED outcome
       \/ Ends(c, "login", Failed)
    /\ UNCHANGED <<table, fileVars>>

-----------------------------------------------------------------------------
(* Statements. *)

\* (Mutant of Rows: addresses are compared as they are spelled.)
RowsSpelled(email) == {u \in table : u.email = email}

\* WHERE lower(email) = lower($1).
Rows(email) == {u \in table : BoxOf[u.email] = BoxOf[email]}

\* The unique index on lower(email) refuses a row.
Taken(user, others) == \E u \in others : BoxOf[u.email] = BoxOf[user.email]

Insert(user) ==
    IF Taken(user, table) THEN <<table, Outcome("exists", {})>>
    ELSE <<table \cup {user}, Outcome("ok", {user})>>

DeleteRow(email) ==
    IF Rows(email) = {} THEN <<table, Outcome("missing", {})>>
    ELSE <<table \ Rows(email), Outcome("ok", Rows(email))>>

\* Only the columns that are given are set.
UpdateRow(email, user) ==
    LET others == table \ Rows(email)
        new == {Filled(user, old) : old \in Rows(email)}
    IN IF Rows(email) = {} THEN <<table, Outcome("missing", {})>>
       ELSE IF Taken(user, others) THEN <<table, Outcome("exists", {})>>
       ELSE <<others \cup new, Outcome("ok", new)>>

SqlResult(request) ==
    CASE request.op = "list" -> <<table, Outcome("ok", table)>>
      [] request.op = "create" -> Insert(request.user)
      [] request.op = "delete" -> DeleteRow(request.email)
      [] request.op = "update" -> UpdateRow(request.email, request.user)

\* The statement is executed and the connection released or closed; or something
\* breaks before or after it took effect.
Statement(c) ==
    /\ at[c] = "connected"
    /\ LET r == SqlResult(asked[c])
       IN \/ table' = r[1] /\ Ends(c, "connected", r[2])
          \/ table' \in {table, r[1]} /\ Ends(c, "connected", Failed)
    /\ UNCHANGED <<fileVars, svidVars>>

-----------------------------------------------------------------------------
TimePasses ==
    /\ backend = "vault" /\ SvidAges
    /\ UNCHANGED <<backend, life, pool, table, callVars, fileVars>>

\* What goes on by itself.
CallStep(c) ==
    \/ Operate(c) \/ Login(c) \/ Statement(c) \/ Reply(c)
    \/ SvidFetched(c) \/ SvidRefused(c) \/ SvidHangs(c)

\* The pool and both locks are first come, first served.
Turn(c) == Acquire(c) \/ TakeSvid(c)

Next ==
    \/ Start \/ Shutdown \/ Exit \/ Crash \/ TimePasses
    \/ \E c \in Client : Receive(c) \/ CallStep(c) \/ Turn(c)

Spec == Init /\ [][Next]_vars

\* Postgres and Vault answer, or their clients time out; the Workload API may hang.
FairSpec == Spec /\ \A c \in Client : WF_vars(CallStep(c)) /\ SF_vars(Turn(c))

-----------------------------------------------------------------------------
(* Properties. *)

\* No call logs in to Vault with an SVID that has expired by then, however long it had
\* waited for the lock (spiffe_client.py get_jwt_svid).
LoginsWithLiveSvid == \A c \in Client : svid[c] # "dead"

\* Two stored users never share a mailbox, however creations and renamings of several
\* clients collide: in the list because the check and the write are one stretch under
\* the lock, in the table because of its index (file_repo.py create, update_by_email).
SameBox(u, v) == BoxOf[u.email] = BoxOf[v.email]

OneUserPerMailbox ==
    /\ \A u, v \in table : SameBox(u, v) => u = v
    /\ users # Null => \A i, j \in DOMAIN users : SameBox(users[i], users[j]) => i = j

\* Every repository, with its lock, pool or connections, is a UserRepository: what a
\* call returns is what the book was at one moment of the call.
Stored == IF backend # "file" THEN table ELSE ToSet(IF users = Null THEN Seed ELSE users)

Book == [m \in Box |->
            IF \E u \in Stored : BoxOf[u.email] = m
            THEN CHOOSE u \in Stored : BoxOf[u.email] = m ELSE Null]

Repository == INSTANCE UserRepository WITH book <- Book, durable <- backend # "file"

RepositoryImplemented == Repository!RepositorySpec

\* Every call is answered or gone with its process, unless the Workload API leaves a
\* fetch without an answer: no call waits for a lock or a connection for ever
\* (file_repo.py _ensure_loaded, spiffe_client.py get_jwt_svid, postgres_repo.py
\* _acquire).
CallsEnd ==
    \A c \in Client :
        asked[c] # Null ~> (asked[c] = Null \/ \E d \in Client : at[d] = "hung")

-----------------------------------------------------------------------------
\* The inductive invariant behind LoginsWithLiveSvid and OneUserPerMailbox: a call that
\* is under way knows its request, and an SVID is handed out fresh.
Inv ==
    /\ table \subseteq User
    /\ users \in Seq(User) \cup {Null}
    /\ at \in [Client -> {"idle"} \cup Busy]
    /\ asked \in [Client -> Requests \cup {Null}]
    /\ \A c \in Client : at[c] # "idle" => asked[c] \in Requests
    /\ svid \in [Client -> {"none", "fresh"}]
    /\ OneUserPerMailbox

\* What TypeOK and RepositoryImplemented rest on besides: a call has a request until it
\* is answered, an outcome when it is done, and awaits only what its backend has.
CallInv ==
    \A c \in Client :
        /\ at[c] = "idle" => asked[c] = Null /\ outcome[c] = Null
        /\ outcome[c] # Null => at[c] = "done"
        /\ at[c] \in {"svid", "hung", "login"} => backend = "vault"
        /\ at[c] = "connected" => backend # "file"
===============================================================================
