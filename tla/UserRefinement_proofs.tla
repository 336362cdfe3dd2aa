------------------------ MODULE UserRefinement_proofs ------------------------
(***************************************************************************)
(* Every backend of user-mcp implements UserRepository: proofs for every   *)
(* set of clients, addresses, seed users and requests and every size of    *)
(* the pool.  They rest on Inv (UserBackends_proofs), TypeOK and CallInv.  *)
(***************************************************************************)
EXTENDS UserBackends_proofs, FiniteSetTheorems

-----------------------------------------------------------------------------
(* What an operation returns is an outcome. *)

LEMMA OutcomeTyped ==
    ASSUME NEW is \in {"ok", "exists", "missing", "failed"}, NEW found \in SUBSET User
    PROVE  Outcome(is, found) \in Outcomes
BY DEF Outcome, Outcomes

LEMMA FilledTyped ==
    ASSUME NEW user \in User, NEW old \in User
    PROVE  Filled(user, old) \in User /\ Filled(user, old).email = user.email
BY DEF Filled, User

LEMMA FileOutcome ==
    ASSUME NEW list \in Seq(User), Apart(list), NEW request \in Request
    PROVE  FileResult(list, request)[2] \in Outcomes
<1>1. {} \in SUBSET User /\ ToSet(list) \in SUBSET User
    BY DEF ToSet
<1>2. CASE request.op = "list"
    BY <1>1, <1>2, OutcomeTyped DEF FileResult
<1>3. CASE request.op = "create"
    <2>1. request.user \in User
        BY <1>3 DEF Request
    <2>2. Create(list, request.user)[2] \in {Outcome("exists", {}), Outcome("ok", {request.user})}
        BY DEF Create
    <2> QED BY <1>1, <1>3, <2>1, <2>2, OutcomeTyped DEF FileResult
<1>4. CASE request.op = "delete"
    <2>1. CASE Places(list, request.email) = {}
        BY <1>1, <1>4, <2>1, OutcomeTyped DEF FileResult, Delete
    <2>2. CASE Places(list, request.email) # {}
        <3>1. list[FindIndex(list, request.email)] \in User
            BY <2>2, FindIndexFinds
        <3>2. Delete(list, request.email)[2] = Outcome("ok", {list[FindIndex(list, request.email)]})
            BY <2>2 DEF Delete
        <3> QED BY <1>4, <3>1, <3>2, OutcomeTyped DEF FileResult
    <2> QED BY <2>1, <2>2
<1>5. CASE request.op = "update"
    <2>1. request.user \in User
        BY <1>5 DEF Request
    <2>2. Update(list, request.email, request.user)[2] \in
            {Outcome("missing", {}), Outcome("exists", {}), Outcome("ok", {request.user})}
        BY DEF Update
    <2> QED BY <1>1, <1>5, <2>1, <2>2, OutcomeTyped DEF FileResult
<1> QED BY <1>2, <1>3, <1>4, <1>5 DEF Request

LEMMA SqlOutcome ==
    ASSUME table \subseteq User, NEW request \in Request
    PROVE  SqlResult(request)[2] \in Outcomes
<1>1. {} \in SUBSET User /\ table \in SUBSET User
    OBVIOUS
<1>2. CASE request.op = "list"
    BY <1>1, <1>2, OutcomeTyped DEF SqlResult
<1>3. CASE request.op = "create"
    <2>1. request.user \in User
        BY <1>3 DEF Request
    <2>2. Insert(request.user)[2] \in {Outcome("exists", {}), Outcome("ok", {request.user})}
        BY DEF Insert
    <2> QED BY <1>1, <1>3, <2>1, <2>2, OutcomeTyped DEF SqlResult
<1>4. CASE request.op = "delete"
    <2>1. Rows(request.email) \in SUBSET User
        BY DEF Rows
    <2>2. DeleteRow(request.email)[2] \in {Outcome("missing", {}), Outcome("ok", Rows(request.email))}
        BY DEF DeleteRow
    <2> QED BY <1>1, <1>4, <2>1, <2>2, OutcomeTyped DEF SqlResult
<1>5. CASE request.op = "update"
    <2> DEFINE new == {Filled(request.user, old) : old \in Rows(request.email)}
    <2>1. request.user \in User /\ Rows(request.email) \subseteq User
        BY <1>5 DEF Request, Rows
    <2>2. new \in SUBSET User
        BY <2>1, FilledTyped
    <2>3. UpdateRow(request.email, request.user)[2] \in
            {Outcome("missing", {}), Outcome("exists", {}), Outcome("ok", new)}
        BY DEF UpdateRow
    <2> HIDE DEF new
    <2> QED BY <1>1, <1>5, <2>2, <2>3, OutcomeTyped DEF SqlResult
<1> QED BY <1>2, <1>3, <1>4, <1>5 DEF Request

-----------------------------------------------------------------------------
(* Types of what Inv does not speak of. *)

ProcessOK ==
    /\ backend \in {"file", "direct", "vault"}
    /\ life \in {"down", "up", "closing"}
    /\ pool \in {"none", "open", "closing"}
    /\ outcome \in [Client -> Outcomes \cup {Null}]
    /\ jammed \in BOOLEAN
    /\ cached \in Age /\ fetching \in Client \cup {Nobody}
    /\ \A c \in Client : at[c] \in {"svid", "hung"} <=> fetching = c

\* The pool never has more than PoolSize connections.
PoolOK == backend = "direct" =>
    IsFiniteSet(Connections) /\ Cardinality(Connections) <= PoolSize

LEMMA TypeIsItsParts == Inv /\ ProcessOK /\ PoolOK => TypeOK
BY DEF Inv, ProcessOK, PoolOK, TypeOK, FileTypeOK, SvidTypeOK, Age

LEMMA InitProcess == Init => ProcessOK /\ CallInv /\ PoolOK
<1> SUFFICES ASSUME Init PROVE ProcessOK /\ CallInv /\ PoolOK
    OBVIOUS
<1>1. ProcessOK
    BY NobodyAssumption DEF Init, NoList, SvidInit, ProcessOK, Age
<1>2. CallInv
    BY DEF Init, CallInv
<1>3. Connections = {}
    BY DEF Init, Connections
<1>4. PoolOK
    BY <1>3, FS_EmptySet, BackendAssumption DEF PoolOK
<1> QED BY <1>1, <1>2, <1>4

\* A call moves on and nothing else of the process changes.
LEMMA MovePool ==
    ASSUME Inv, PoolOK, NEW c \in Client, NEW from, NEW to, Move(c, from, to),
           to # "connected" \/ backend # "direct"
                \/ (Cardinality(Connections) < PoolSize /\ from # "connected")
    PROVE  PoolOK'
<1> SUFFICES ASSUME backend = "direct" PROVE PoolOK'
    BY DEF PoolOK, Move
<1>1. IsFiniteSet(Connections) /\ Cardinality(Connections) <= PoolSize
    BY DEF PoolOK
<1>2. at' = [at EXCEPT ![c] = to] /\ at \in [Client -> {"idle"} \cup Busy] /\ at[c] = from
    BY DEF Move, Inv
<1>3. CASE to # "connected"
    <2>1. Connections' = Connections \ {c}
        BY <1>2, <1>3 DEF Connections
    <2>2. IsFiniteSet(Connections') /\ Cardinality(Connections') <= Cardinality(Connections)
        BY <1>1, <2>1, FS_Subset
    <2>3. Cardinality(Connections) \in Nat /\ Cardinality(Connections') \in Nat
        BY <1>1, <2>2, FS_CardinalityType
    <2> QED BY <1>1, <2>2, <2>3, BackendAssumption DEF PoolOK
<1>4. CASE to = "connected" /\ Cardinality(Connections) < PoolSize /\ from # "connected"
    <2>1. Connections' = Connections \cup {c} /\ c \notin Connections
        BY <1>2, <1>4 DEF Connections
    <2>2. IsFiniteSet(Connections') /\ Cardinality(Connections') = Cardinality(Connections) + 1
        BY <1>1, <2>1, FS_AddElement
    <2>3. Cardinality(Connections) \in Nat
        BY <1>1, FS_CardinalityType
    <2> QED BY <1>4, <2>2, <2>3, BackendAssumption DEF PoolOK
<1> QED BY <1>3, <1>4

LEMMA FailedTyped == Failed \in Outcomes
BY OutcomeTyped DEF Failed

Extra == ProcessOK /\ CallInv /\ PoolOK

\* What a call may wait for next.
MayAwait(to) ==
    /\ to \in {"svid", "hung", "login"} => backend = "vault"
    /\ to = "connected" => backend # "file"

LEMMA MoveExtra ==
    ASSUME Inv, Extra, NEW c \in Client, NEW from \in Busy \ {"done"}, NEW to \in Busy,
           Move(c, from, to), MayAwait(to),
           \/ to # "connected" \/ backend # "direct"
           \/ Cardinality(Connections) < PoolSize /\ from # "connected",
           \/ outcome' = outcome
           \/ to = "done" /\ \E o \in Outcomes : outcome' = [outcome EXCEPT ![c] = o],
           jammed' \in BOOLEAN, cached' \in Age, fetching' \in Client \cup {Nobody},
           \A d \in Client : at'[d] \in {"svid", "hung"} <=> fetching' = d
    PROVE  Extra'
<1>1. /\ at' = [at EXCEPT ![c] = to] /\ at[c] = from /\ asked' = asked
      /\ backend' = backend /\ life' = life /\ pool' = pool
      /\ at \in [Client -> {"idle"} \cup Busy]
    BY DEF Move, Inv
<1>2. /\ outcome \in [Client -> Outcomes \cup {Null}]
      /\ outcome' \in [Client -> Outcomes \cup {Null}]
      /\ \A d \in Client \ {c} : outcome'[d] = outcome[d]
      /\ to = "done" \/ outcome'[c] = outcome[c]
    BY DEF Extra, ProcessOK
<1>3. ProcessOK'
    BY <1>1, <1>2 DEF Extra, ProcessOK
<1>4. outcome[c] = Null
    BY <1>1 DEF Extra, CallInv
<1>5. ASSUME NEW d \in Client
      PROVE  /\ at'[d] = "idle" => asked'[d] = Null /\ outcome'[d] = Null
             /\ outcome'[d] # Null => at'[d] = "done"
             /\ at'[d] \in {"svid", "hung", "login"} => backend' = "vault"
             /\ at'[d] = "connected" => backend' # "file"
    <2>1. CASE d = c
        BY <1>1, <1>2, <1>4, <2>1 DEF MayAwait, Busy
    <2>2. CASE d # c
        BY <1>1, <1>2, <2>2 DEF Extra, CallInv
    <2> QED BY <2>1, <2>2
<1>6. CallInv'
    BY <1>5 DEF CallInv
<1>7. PoolOK'
    BY MovePool DEF Extra
<1> QED BY <1>3, <1>6, <1>7 DEF Extra

LEMMA FetchStays ==
    ASSUME Inv, Extra, NEW c \in Client, NEW from, NEW to, Move(c, from, to),
           fetching' = fetching,
           from \in {"svid", "hung"} <=> to \in {"svid", "hung"}
    PROVE  /\ \A d \in Client : at'[d] \in {"svid", "hung"} <=> fetching' = d
           /\ fetching' \in Client \cup {Nobody}
<1>1. /\ at' = [at EXCEPT ![c] = to] /\ at[c] = from
      /\ at \in [Client -> {"idle"} \cup Busy]
    BY DEF Move, Inv
<1> QED BY <1>1 DEF Extra, ProcessOK

LEMMA SvidsUnchanged ==
    ASSUME Extra, UNCHANGED svidVars
    PROVE  cached' \in Age /\ fetching' = fetching
BY DEF Extra, ProcessOK, svidVars

LEMMA OperateExtra == ASSUME Inv, Extra, NEW c \in Client, Operate(c) PROVE Extra'
<1>1. cached' \in Age /\ fetching' = fetching /\ jammed' \in BOOLEAN
    BY SvidsUnchanged DEF Operate, Extra, ProcessOK
<1>2. CASE users = Null
    <2>1. Move(c, "waits", "stuck") /\ outcome' = outcome
        BY <1>2 DEF Operate
    <2>2. /\ \A d \in Client : at'[d] \in {"svid", "hung"} <=> fetching' = d
          /\ fetching' \in Client \cup {Nobody}
        BY <1>1, <2>1, FetchStays
    <2> QED BY <1>1, <2>1, <2>2, MoveExtra DEF Busy, MayAwait
<1>3. CASE users # Null
    <2>1. Move(c, "waits", "done") /\ outcome' = [outcome EXCEPT ![c] = FileResult(users, asked[c])[2]]
        BY <1>3 DEF Operate, Ends
    <2>2. /\ \A d \in Client : at'[d] \in {"svid", "hung"} <=> fetching' = d
          /\ fetching' \in Client \cup {Nobody}
        BY <1>1, <2>1, FetchStays
    <2>3. users \in Seq(User) /\ Apart(users) /\ asked[c] \in Request
        <3>1. at[c] = "waits"
            BY <2>1 DEF Move
        <3> QED BY <1>3, <3>1, InvIsItsParts, BackendAssumption DEF StoreOK, CallsOK
    <2>4. FileResult(users, asked[c])[2] \in Outcomes
        BY <2>3, FileOutcome
    <2> QED BY <1>1, <2>1, <2>2, <2>4, MoveExtra DEF Busy, MayAwait
<1> QED BY <1>2, <1>3

LEMMA AcquireExtra == ASSUME Inv, Extra, NEW c \in Client, Acquire(c) PROVE Extra'
<1>1. cached' \in Age /\ fetching' = fetching /\ jammed' \in BOOLEAN
    BY SvidsUnchanged DEF Acquire, fileVars, Extra, ProcessOK
<1>2. backend = "direct"
    BY DEF Acquire
<1>3. CASE /\ Cardinality(Connections) < PoolSize
           /\ Move(c, "waits", "connected") /\ UNCHANGED outcome
    <2>1. /\ \A d \in Client : at'[d] \in {"svid", "hung"} <=> fetching' = d
          /\ fetching' \in Client \cup {Nobody}
        BY <1>1, <1>3, FetchStays
    <2> QED BY <1>1, <1>2, <1>3, <2>1, MoveExtra DEF Busy, MayAwait
<1>4. CASE Ends(c, "waits", Failed)
    <2>1. Move(c, "waits", "done") /\ outcome' = [outcome EXCEPT ![c] = Failed]
        BY <1>4 DEF Ends
    <2>2. /\ \A d \in Client : at'[d] \in {"svid", "hung"} <=> fetching' = d
          /\ fetching' \in Client \cup {Nobody}
        BY <1>1, <2>1, FetchStays
    <2> QED BY <1>1, <2>1, <2>2, FailedTyped, MoveExtra DEF Busy, MayAwait
<1> QED BY <1>3, <1>4 DEF Acquire

LEMMA TakeSvidExtra == ASSUME Inv, Extra, NEW c \in Client, TakeSvid(c) PROVE Extra'
<1> DEFINE to == IF fetching' = c THEN "svid" ELSE "login"
<1>1. /\ Move(c, "waits", to) /\ outcome' = outcome /\ backend = "vault"
      /\ jammed' \in BOOLEAN /\ fetching = Nobody
      /\ cached' \in Age /\ (fetching' = c \/ fetching' = fetching)
    BY DEF TakeSvid, GetSvid, fileVars, Extra, ProcessOK
<1>2. /\ at' = [at EXCEPT ![c] = to] /\ at \in [Client -> {"idle"} \cup Busy]
    BY <1>1 DEF Move, Inv
<1>3. \A d \in Client : at[d] \notin {"svid", "hung"} /\ d # Nobody
    BY <1>1, NobodyAssumption DEF Extra, ProcessOK
<1>4. \A d \in Client : at'[d] \in {"svid", "hung"} <=> fetching' = d
    BY <1>1, <1>2, <1>3
<1>5. to \in Busy /\ to # "connected" /\ MayAwait(to) /\ "waits" \in Busy \ {"done"}
    BY <1>1 DEF Busy, MayAwait
<1> HIDE DEF to
<1> QED BY <1>1, <1>4, <1>5, MoveExtra

LEMMA FetchEndsExtra ==
    ASSUME Inv, Extra, NEW c \in Client, SvidFetched(c) \/ SvidRefused(c) PROVE Extra'
<1>1. PICK to \in {"login", "done"} : Move(c, "svid", to) /\
          (outcome' = outcome \/ (to = "done" /\ outcome' = [outcome EXCEPT ![c] = Failed]))
    BY DEF SvidFetched, SvidRefused, Ends
<1>2. /\ fetching = c /\ fetching' = Nobody /\ jammed' \in BOOLEAN /\ cached' \in Age
    BY DEF SvidFetched, SvidRefused, Fetched, FetchRefused, fileVars, Extra, ProcessOK, Age
<1>3. /\ at' = [at EXCEPT ![c] = to] /\ at \in [Client -> {"idle"} \cup Busy] /\ at[c] = "svid"
    BY <1>1 DEF Move, Inv
<1>4. \A d \in Client : at'[d] \in {"svid", "hung"} <=> fetching' = d
    BY <1>1, <1>2, <1>3, NobodyAssumption DEF Extra, ProcessOK
<1>5. backend = "vault"
    BY <1>3 DEF Extra, CallInv
<1>6. to \in Busy /\ MayAwait(to) /\ "svid" \in Busy \ {"done"}
    BY <1>5 DEF MayAwait, Busy
<1> QED BY <1>1, <1>2, <1>4, <1>6, FailedTyped, MoveExtra

LEMMA HangsExtra == ASSUME Inv, Extra, NEW c \in Client, SvidHangs(c) PROVE Extra'
<1>1. /\ Move(c, "svid", "hung") /\ outcome' = outcome /\ jammed' \in BOOLEAN
      /\ cached' \in Age /\ fetching' = fetching
    BY SvidsUnchanged DEF SvidHangs, fileVars, Extra, ProcessOK
<1>2. backend = "vault"
    BY <1>1 DEF Move, Extra, CallInv
<1>3. /\ \A d \in Client : at'[d] \in {"svid", "hung"} <=> fetching' = d
      /\ fetching' \in Client \cup {Nobody}
    BY <1>1, FetchStays
<1> QED BY <1>1, <1>2, <1>3, MoveExtra DEF Busy, MayAwait

LEMMA LoginExtra == ASSUME Inv, Extra, NEW c \in Client, Login(c) PROVE Extra'
<1>1. PICK to \in {"connected", "done"} : Move(c, "login", to) /\
          (outcome' = outcome \/ (to = "done" /\ outcome' = [outcome EXCEPT ![c] = Failed]))
    BY DEF Login, Ends
<1>2. jammed' \in BOOLEAN /\ cached' \in Age /\ fetching' = fetching
    BY DEF Login, DropSvid, fileVars, Extra, ProcessOK
<1>3. backend = "vault"
    BY <1>1 DEF Move, Extra, CallInv
<1>4. /\ \A d \in Client : at'[d] \in {"svid", "hung"} <=> fetching' = d
      /\ fetching' \in Client \cup {Nobody}
    BY <1>1, <1>2, FetchStays
<1>5. to \in Busy /\ MayAwait(to) /\ "login" \in Busy \ {"done"}
    BY <1>3 DEF MayAwait, Busy
<1> QED BY <1>1, <1>2, <1>3, <1>4, <1>5, FailedTyped, MoveExtra

LEMMA StatementExtra == ASSUME Inv, Extra, NEW c \in Client, Statement(c) PROVE Extra'
<1>1. PICK o \in {SqlResult(asked[c])[2], Failed} :
          Move(c, "connected", "done") /\ outcome' = [outcome EXCEPT ![c] = o]
    BY DEF Statement, Ends
<1>2. jammed' \in BOOLEAN /\ cached' \in Age /\ fetching' = fetching
    BY SvidsUnchanged DEF Statement, fileVars, Extra, ProcessOK
<1>3. asked[c] \in Request /\ table \subseteq User
    <2>1. at[c] = "connected"
        BY DEF Statement
    <2> QED BY <2>1, InvIsItsParts, BackendAssumption DEF CallsOK, StoreOK
<1>4. o \in Outcomes
    BY <1>1, <1>3, SqlOutcome, FailedTyped
<1>5. /\ \A d \in Client : at'[d] \in {"svid", "hung"} <=> fetching' = d
      /\ fetching' \in Client \cup {Nobody}
    BY <1>1, <1>2, FetchStays
<1> QED BY <1>1, <1>2, <1>4, <1>5, MoveExtra DEF Busy, MayAwait

\* A request comes or is answered.
LEMMA ClientExtra == ASSUME Inv, Extra, NEW c \in Client, Receive(c) \/ Reply(c) PROVE Extra'
<1>1. /\ backend' = backend /\ life' = life /\ pool' = pool /\ jammed' = jammed
      /\ cached' = cached /\ fetching' = fetching
    BY DEF Receive, Reply, fileVars, svidVars
<1>2. /\ at \in [Client -> {"idle"} \cup Busy] /\ asked \in [Client -> Requests \cup {Null}]
      /\ outcome \in [Client -> Outcomes \cup {Null}]
    BY DEF Inv, Extra, ProcessOK
<1>3. PICK to \in {"idle", "waits"} :
          /\ at' = [at EXCEPT ![c] = to]
          /\ \A d \in Client \ {c} : asked'[d] = asked[d] /\ outcome'[d] = outcome[d]
          /\ outcome' \in [Client -> Outcomes \cup {Null}]
          /\ outcome'[c] = Null
          /\ to = "idle" => asked'[c] = Null
    <2>1. CASE Receive(c)
        <3>1. outcome[c] = Null
            BY <2>1 DEF Receive, Extra, CallInv
        <3> QED BY <1>2, <2>1, <3>1 DEF Receive
    <2>2. CASE Reply(c)
        BY <1>2, <2>2 DEF Reply
    <2> QED BY <2>1, <2>2
<1>4. at[c] \in {"idle", "done"}
    BY DEF Receive, Reply
<1>5. ProcessOK'
    BY <1>1, <1>2, <1>3, <1>4 DEF Extra, ProcessOK
<1>6. CallInv'
    BY <1>1, <1>2, <1>3 DEF Extra, CallInv
<1>7. Connections' = Connections
    BY <1>2, <1>3, <1>4 DEF Connections
<1>8. PoolOK'
    BY <1>1, <1>7 DEF Extra, PoolOK
<1> QED BY <1>5, <1>6, <1>8 DEF Extra

LEMMA GoneExtra == ASSUME Inv, Extra, Gone PROVE Extra'
<1>1. ProcessOK'
    BY NobodyAssumption DEF Gone, Extra, ProcessOK, Age
<1>2. CallInv'
    BY DEF Gone, CallInv
<1>3. Connections' = {}
    BY DEF Gone, Connections
<1>4. PoolOK'
    BY <1>3, FS_EmptySet, BackendAssumption DEF PoolOK
<1> QED BY <1>1, <1>2, <1>4 DEF Extra

LEMMA ProcessExtra ==
    ASSUME Inv, Extra, Start \/ Shutdown \/ TimePasses \/ UNCHANGED vars
    PROVE  Extra'
<1>1. /\ backend' = backend /\ at' = at /\ asked' = asked /\ outcome' = outcome
      /\ fetching' = fetching
    BY DEF Start, Shutdown, TimePasses, SvidAges, vars, callVars, svidVars
<1>2. cached' \in Age
    BY DEF Start, Shutdown, TimePasses, SvidAges, vars, svidVars, Older, Extra, ProcessOK, Age
<1>3. /\ life' \in {"down", "up", "closing"} /\ pool' \in {"none", "open", "closing"}
      /\ jammed' \in BOOLEAN
    BY DEF Start, LoadList, Shutdown, TimePasses, vars, fileVars, Extra, ProcessOK
<1>4. ProcessOK' /\ CallInv'
    BY <1>1, <1>2, <1>3 DEF Extra, ProcessOK, CallInv
<1>5. Connections' = Connections
    BY <1>1 DEF Connections
<1>6. PoolOK'
    BY <1>1, <1>5 DEF Extra, PoolOK
<1> QED BY <1>4, <1>6 DEF Extra

\* The state of the process, the calls and the pool in every reachable state.
THEOREM CallsInvariant == Spec => [](Inv /\ Extra)
<1>1. ASSUME Inv, Extra, [Next]_vars PROVE Extra'
    <2>1. CASE Exit \/ Crash
        BY <1>1, <2>1, GoneExtra DEF Exit, Crash
    <2>2. CASE \E c \in Client : Receive(c) \/ CallStep(c) \/ Turn(c)
        BY <1>1, <2>2, ClientExtra, OperateExtra, AcquireExtra, TakeSvidExtra, FetchEndsExtra,
           HangsExtra, LoginExtra, StatementExtra DEF CallStep, Turn
    <2> QED BY <1>1, <2>1, <2>2, ProcessExtra DEF Next
<1>2. Init => Extra
    BY InitProcess DEF Extra
<1> QED BY <1>1, <1>2, BackendInvariant, PTL DEF Spec

\* Every reachable state of the backends is well typed, the lock of the SVID provider is
\* held by the call that awaits the fetch, and the pool of direct mode is not overdrawn.
THEOREM BackendsTypeCorrect == Spec => []TypeOK
<1>1. Inv /\ Extra => TypeOK
    BY TypeIsItsParts DEF Extra
<1> QED BY <1>1, CallsInvariant, PTL

-----------------------------------------------------------------------------
(* The book a set of users makes. *)

BookOf(rows) == [m \in Box |->
    IF \E u \in rows : BoxOf[u.email] = m
    THEN CHOOSE u \in rows : BoxOf[u.email] = m ELSE Null]

LEMMA BookIsOfStored == Book = BookOf(Stored)
BY DEF Book, BookOf

LEMMA BoxTyped == \A u \in User : u.email \in Email /\ BoxOf[u.email] \in Box /\ u # Null
BY RecordsAssumption DEF User

\* What is in a book whose users have mailboxes of their own.
LEMMA BookHas ==
    ASSUME NEW rows \in SUBSET User, Separate(rows)
    PROVE  /\ \A u \in rows : BookOf(rows)[BoxOf[u.email]] = u
           /\ \A m \in Box : BookOf(rows)[m] # Null =>
                 BookOf(rows)[m] \in rows /\ BoxOf[BookOf(rows)[m].email] = m
           /\ \A m \in Box : BookOf(rows)[m] = Null <=> \A u \in rows : BoxOf[u.email] # m
<1>1. ASSUME NEW u \in rows PROVE BookOf(rows)[BoxOf[u.email]] = u
    <2> DEFINE m == BoxOf[u.email]
               v == CHOOSE v \in rows : BoxOf[v.email] = m
    <2>1. v \in rows /\ BoxOf[v.email] = m
        OBVIOUS
    <2>2. v = u
        BY <2>1 DEF Separate, SameBox
    <2>3. m \in Box
        BY BoxTyped
    <2>4. BookOf(rows)[m] = v
        BY <2>3 DEF BookOf
    <2> QED BY <2>2, <2>4
<1>2. ASSUME NEW m \in Box, NEW u \in rows, BoxOf[u.email] = m
      PROVE  BookOf(rows)[m] = u /\ u # Null
    BY <1>1, <1>2, BoxTyped
<1>3. ASSUME NEW m \in Box, \A u \in rows : BoxOf[u.email] # m
      PROVE  BookOf(rows)[m] = Null
    BY <1>3 DEF BookOf
<1> QED BY <1>1, <1>2, <1>3

\* A function that has the same in it is the same book.
LEMMA SameBook ==
    ASSUME NEW rows \in SUBSET User, Separate(rows), NEW b, b = [m \in Box |-> b[m]],
           \A m \in Box :
              \/ b[m] \in rows /\ BoxOf[b[m].email] = m
              \/ b[m] = Null /\ \A u \in rows : BoxOf[u.email] # m
    PROVE  BookOf(rows) = b
<1>1. ASSUME NEW m \in Box PROVE BookOf(rows)[m] = b[m]
    BY BookHas
<1>2. BookOf(rows) = [m \in Box |-> BookOf(rows)[m]]
    BY DEF BookOf
<1> QED BY <1>1, <1>2

LEMMA BookIsBook ==
    ASSUME NEW rows \in SUBSET User, Separate(rows)
    PROVE  Repository!IsBook(BookOf(rows))
<1>1. Repository!User = User
    BY DEF Repository!User, User
<1> QED BY <1>1, BookHas DEF Repository!IsBook

LEMMA Listed ==
    ASSUME NEW rows \in SUBSET User, Separate(rows)
    PROVE  {BookOf(rows)[m] : m \in Box} \ {Null} = rows
<1>1. ASSUME NEW x \in {BookOf(rows)[m] : m \in Box} \ {Null} PROVE x \in rows
    BY BookHas
<1>2. ASSUME NEW u \in rows PROVE u \in {BookOf(rows)[m] : m \in Box} \ {Null}
    <2>1. BoxOf[u.email] \in Box /\ u # Null
        BY BoxTyped
    <2> QED BY <2>1, BookHas
<1> QED BY <1>1, <1>2

-----------------------------------------------------------------------------
(* What a change of the stored set is to the book. *)

LEMMA SameRecords ==
    /\ Repository!User = User /\ Repository!Request = Request
    /\ \A is, found : Repository!Outcome(is, found) = Outcome(is, found)
    /\ \A user, old : Repository!Filled(user, old) = Filled(user, old)
BY DEF Repository!User, User, Repository!Request, Request, Repository!Outcome, Outcome,
       Repository!Filled, Filled

Free(rows, email) == \A u \in rows : BoxOf[u.email] # BoxOf[email]

LEMMA ListEffect ==
    ASSUME NEW rows \in SUBSET User, Separate(rows), NEW request \in Request,
           request.op = "list"
    PROVE  <<BookOf(rows), Outcome("ok", rows)>> \in Repository!Results(request, BookOf(rows))
<1>1. Repository!Results(request, BookOf(rows)) =
          {<<BookOf(rows), Outcome("ok", {BookOf(rows)[m] : m \in Box} \ {Null})>>}
    BY SameRecords DEF Repository!Results
<1> QED BY <1>1, Listed

LEMMA CreateEffect ==
    ASSUME NEW rows \in SUBSET User, Separate(rows), NEW request \in Request,
           request.op = "create"
    PROVE  LET user == request.user IN
           /\ ~Free(rows, user.email) =>
                 <<BookOf(rows), Outcome("exists", {})>>
                     \in Repository!Results(request, BookOf(rows))
           /\ Free(rows, user.email) /\ Separate(rows \cup {user}) =>
                 <<BookOf(rows \cup {user}), Outcome("ok", {user})>>
                     \in Repository!Results(request, BookOf(rows))
<1> DEFINE user == request.user
           m == BoxOf[user.email]
           b == BookOf(rows)
<1>1. user \in User /\ m \in Box /\ user # Null
    BY BoxTyped DEF Request
<1>2. Repository!Results(request, b) =
          IF b[m] # Null THEN {<<b, Outcome("exists", {})>>}
          ELSE {<<[b EXCEPT ![m] = user], Outcome("ok", {user})>>}
    BY SameRecords DEF Repository!Results
<1>3. b[m] = Null <=> Free(rows, user.email)
    BY <1>1, BookHas DEF Free
<1>4. ASSUME Free(rows, user.email), Separate(rows \cup {user})
      PROVE  BookOf(rows \cup {user}) = [b EXCEPT ![m] = user]
    <2> DEFINE c == [b EXCEPT ![m] = user]
    <2>1. b = [n \in Box |-> b[n]]
        BY DEF BookOf
    <2>2. /\ c = [n \in Box |-> c[n]] /\ c[m] = user
          /\ \A n \in Box : n # m => c[n] = b[n]
        BY <1>1, <2>1
    <2>3. ASSUME NEW n \in Box
          PROVE  \/ c[n] \in rows \cup {user} /\ BoxOf[c[n].email] = n
                 \/ c[n] = Null /\ \A u \in rows \cup {user} : BoxOf[u.email] # n
        BY <2>2, BookHas
    <2> HIDE DEF c
    <2> QED BY <1>1, <1>4, <2>2, <2>3, SameBook DEF c
<1> QED BY <1>2, <1>3, <1>4

LEMMA DeleteEffect ==
    ASSUME NEW rows \in SUBSET User, Separate(rows), NEW request \in Request,
           request.op = "delete"
    PROVE  /\ Free(rows, request.email) =>
                 <<BookOf(rows), Outcome("missing", {})>>
                     \in Repository!Results(request, BookOf(rows))
           /\ \A old \in rows : BoxOf[old.email] = BoxOf[request.email] =>
                 <<BookOf(rows \ {old}), Outcome("ok", {old})>>
                     \in Repository!Results(request, BookOf(rows))
<1> DEFINE m == BoxOf[request.email]
           b == BookOf(rows)
<1>1. m \in Box
    BY RecordsAssumption DEF Request
<1>2. Repository!Results(request, b) =
          IF b[m] = Null THEN {<<b, Outcome("missing", {})>>}
          ELSE {<<[b EXCEPT ![m] = Null], Outcome("ok", {b[m]})>>}
    BY SameRecords DEF Repository!Results
<1>3. b[m] = Null <=> Free(rows, request.email)
    BY <1>1, BookHas DEF Free
<1>4. ASSUME NEW old \in rows, BoxOf[old.email] = m
      PROVE  BookOf(rows \ {old}) = [b EXCEPT ![m] = Null] /\ b[m] = old /\ old # Null
    <2> DEFINE c == [b EXCEPT ![m] = Null]
    <2>1. b = [n \in Box |-> b[n]]
        BY DEF BookOf
    <2>2. /\ c = [n \in Box |-> c[n]] /\ c[m] = Null
          /\ \A n \in Box : n # m => c[n] = b[n]
        BY <1>1, <2>1
    <2>3. b[m] = old /\ old # Null
        BY <1>4, BookHas, BoxTyped
    <2>4. \A u \in rows \ {old} : BoxOf[u.email] # m
        BY <1>4 DEF Separate, SameBox
    <2>5. ASSUME NEW n \in Box
          PROVE  \/ c[n] \in rows \ {old} /\ BoxOf[c[n].email] = n
                 \/ c[n] = Null /\ \A u \in rows \ {old} : BoxOf[u.email] # n
        BY <1>4, <2>2, <2>4, BookHas
    <2>6. Separate(rows \ {old})
        BY DEF Separate
    <2> HIDE DEF c
    <2>7. BookOf(rows \ {old}) = c
        BY <2>2, <2>5, <2>6, SameBook
    <2> QED BY <2>3, <2>7 DEF c
<1> QED BY <1>2, <1>3, <1>4

LEMMA UpdateEffect ==
    ASSUME NEW rows \in SUBSET User, Separate(rows), NEW request \in Request,
           request.op = "update"
    PROVE  /\ Free(rows, request.email) =>
                 <<BookOf(rows), Outcome("missing", {})>>
                     \in Repository!Results(request, BookOf(rows))
           /\ \A old \in rows : BoxOf[old.email] = BoxOf[request.email] =>
                 /\ ~Free(rows \ {old}, request.user.email) =>
                       <<BookOf(rows), Outcome("exists", {})>>
                           \in Repository!Results(request, BookOf(rows))
                 /\ Free(rows \ {old}, request.user.email) =>
                       \A new \in {request.user, Filled(request.user, old)} :
                           <<BookOf((rows \ {old}) \cup {new}), Outcome("ok", {new})>>
                               \in Repository!Results(request, BookOf(rows))
<1> DEFINE user == request.user
           m == BoxOf[request.email]
           n == BoxOf[user.email]
           b == BookOf(rows)
<1>1. m \in Box /\ user \in User /\ n \in Box
    BY RecordsAssumption, BoxTyped DEF Request
<1>2. Repository!Results(request, b) =
          IF b[m] = Null THEN {<<b, Outcome("missing", {})>>}
          ELSE IF m # n /\ b[n] # Null THEN {<<b, Outcome("exists", {})>>}
          ELSE {<<[b EXCEPT ![m] = Null, ![n] = u], Outcome("ok", {u})>> :
                  u \in {user, Filled(user, b[m])}}
    BY SameRecords DEF Repository!Results
<1>3. b[m] = Null <=> Free(rows, request.email)
    BY <1>1, BookHas DEF Free
<1>4. ASSUME NEW old \in rows, BoxOf[old.email] = m
      PROVE  /\ b[m] = old /\ old # Null
             /\ (m # n /\ b[n] # Null) <=> ~Free(rows \ {old}, user.email)
    <2>1. b[m] = old /\ old # Null
        BY <1>4, BookHas, BoxTyped
    <2>2. \A u \in rows : u # old => BoxOf[u.email] # m
        BY <1>4 DEF Separate, SameBox
    <2>3. b[n] # Null <=> \E u \in rows : BoxOf[u.email] = n
        BY <1>1, BookHas
    <2> QED BY <1>4, <2>1, <2>2, <2>3 DEF Free
<1>5. ASSUME NEW old \in rows, BoxOf[old.email] = m, Free(rows \ {old}, user.email),
             NEW new \in {user, Filled(user, old)}
      PROVE  BookOf((rows \ {old}) \cup {new}) = [b EXCEPT ![m] = Null, ![n] = new]
    <2> DEFINE c == [b EXCEPT ![m] = Null, ![n] = new]
               after == (rows \ {old}) \cup {new}
    <2>1. b = [k \in Box |-> b[k]]
        BY DEF BookOf
    <2>2. /\ c = [k \in Box |-> c[k]] /\ c[n] = new
          /\ m # n => c[m] = Null
          /\ \A k \in Box : k # m /\ k # n => c[k] = b[k]
        BY <1>1, <2>1
    <2>3. new \in User /\ BoxOf[new.email] = n
        <3>1. old \in User
            OBVIOUS
        <3> QED BY <1>1, <1>5, <3>1, FilledTyped
    <2>4. \A u \in rows \ {old} : BoxOf[u.email] # m /\ BoxOf[u.email] # n
        BY <1>5 DEF Separate, SameBox, Free
    <2>5. after \subseteq User /\ Separate(after)
        BY <2>3, <2>4 DEF Separate, SameBox
    <2>6. ASSUME NEW k \in Box
          PROVE  \/ c[k] \in after /\ BoxOf[c[k].email] = k
                 \/ c[k] = Null /\ \A u \in after : BoxOf[u.email] # k
        <3>1. CASE k = n
            BY <2>2, <2>3, <3>1
        <3>2. CASE k = m /\ k # n
            BY <2>2, <2>3, <2>4, <3>2
        <3>3. CASE k # m /\ k # n
            BY <1>5, <2>2, <2>3, <2>4, <3>3, BookHas
        <3> QED BY <3>1, <3>2, <3>3
    <2> HIDE DEF c, after
    <2>7. BookOf(after) = c
        BY <2>2, <2>5, <2>6, SameBook
    <2> QED BY <2>7 DEF c, after
<1> DEFINE R == Repository!Results(request, b)
<1>6. Free(rows, request.email) => <<b, Outcome("missing", {})>> \in R
    BY <1>2, <1>3
<1>7. ASSUME NEW old \in rows, BoxOf[old.email] = m, ~Free(rows \ {old}, user.email)
      PROVE  <<b, Outcome("exists", {})>> \in R
    BY <1>2, <1>4, <1>7
<1>8. ASSUME NEW old \in rows, BoxOf[old.email] = m, Free(rows \ {old}, user.email),
             NEW new \in {user, Filled(user, old)}
      PROVE  <<BookOf((rows \ {old}) \cup {new}), Outcome("ok", {new})>> \in R
    <2>1. R = {<<[b EXCEPT ![m] = Null, ![n] = u], Outcome("ok", {u})>> :
                  u \in {user, Filled(user, old)}}
        BY <1>2, <1>4, <1>8
    <2>2. BookOf((rows \ {old}) \cup {new}) = [b EXCEPT ![m] = Null, ![n] = new]
        BY <1>5, <1>8
    <2>3. <<[b EXCEPT ![m] = Null, ![n] = new], Outcome("ok", {new})>> \in R
        BY <2>1
    <2> QED BY <2>2, <2>3
<1> QED BY <1>6, <1>7, <1>8
-----------------------------------------------------------------------------
(* The statements and the operations on the list are effects. *)

LEMMA SqlEffect ==
    ASSUME table \subseteq User, Separate(table), NEW request \in Request
    PROVE  <<BookOf(SqlResult(request)[1]), SqlResult(request)[2]>>
               \in Repository!Results(request, BookOf(table))
<1> DEFINE R == Repository!Results(request, BookOf(table))
<1>1. table \in SUBSET User
    OBVIOUS
<1>2. CASE request.op = "list"
    <2>1. SqlResult(request) = <<table, Outcome("ok", table)>>
        BY <1>2 DEF SqlResult
    <2> QED BY <1>1, <1>2, <2>1, ListEffect
<1>3. CASE request.op = "create"
    <2>1. SqlResult(request) = Insert(request.user)
        BY <1>3 DEF SqlResult
    <2>2. request.user \in User
        BY <1>3 DEF Request
    <2>3. Taken(request.user, table) <=> ~Free(table, request.user.email)
        BY DEF Taken, Free
    <2>4. ~Taken(request.user, table) => Separate(table \cup {request.user})
        BY <2>3 DEF Free, Separate, SameBox
    <2>5. /\ ~Free(table, request.user.email) => <<BookOf(table), Outcome("exists", {})>> \in R
          /\ Free(table, request.user.email) =>
                <<BookOf(table \cup {request.user}), Outcome("ok", {request.user})>> \in R
        BY <1>1, <1>3, <2>3, <2>4, CreateEffect
    <2> QED BY <2>1, <2>3, <2>5 DEF Insert
<1>4. CASE request.op = "delete"
    <2>1. SqlResult(request) = DeleteRow(request.email)
        BY <1>4 DEF SqlResult
    <2>2. CASE Rows(request.email) = {}
        <3>1. Free(table, request.email)
            BY <2>2 DEF Rows, Free
        <3> QED BY <1>1, <1>4, <2>1, <2>2, <3>1, DeleteEffect DEF DeleteRow
    <2>3. CASE Rows(request.email) # {}
        <3>1. PICK old \in table : Rows(request.email) = {old}
            BY <2>3, RowsOfOneUser
        <3>2. BoxOf[old.email] = BoxOf[request.email]
            BY <3>1 DEF Rows
        <3>3. <<BookOf(table \ {old}), Outcome("ok", {old})>> \in R
            BY <1>1, <1>4, <3>2, DeleteEffect
        <3> QED BY <2>1, <3>1, <3>3 DEF DeleteRow
    <2> QED BY <2>2, <2>3
<1>5. CASE request.op = "update"
    <2>1. SqlResult(request) = UpdateRow(request.email, request.user)
        BY <1>5 DEF SqlResult
    <2>2. CASE Rows(request.email) = {}
        <3>1. Free(table, request.email)
            BY <2>2 DEF Rows, Free
        <3>2. <<BookOf(table), Outcome("missing", {})>> \in R
            BY <1>1, <1>5, <3>1, UpdateEffect
        <3>3. SqlResult(request) = <<table, Outcome("missing", {})>>
            BY <2>1, <2>2 DEF UpdateRow
        <3> QED BY <3>2, <3>3
    <2>3. CASE Rows(request.email) # {}
        <3>1. PICK old \in table : Rows(request.email) = {old}
            BY <2>3, RowsOfOneUser
        <3>2. BoxOf[old.email] = BoxOf[request.email]
            BY <3>1 DEF Rows
        <3> DEFINE others == table \ {old}
                   new == Filled(request.user, old)
        <3>3. {Filled(request.user, u) : u \in Rows(request.email)} = {new}
            BY <3>1
        <3>4. Taken(request.user, others) <=> ~Free(others, request.user.email)
            BY DEF Taken, Free
        <3>5. /\ ~Free(others, request.user.email) => <<BookOf(table), Outcome("exists", {})>> \in R
              /\ Free(others, request.user.email) =>
                    <<BookOf(others \cup {new}), Outcome("ok", {new})>> \in R
            BY <1>1, <1>5, <3>2, UpdateEffect
        <3>6. UpdateRow(request.email, request.user) =
                IF Taken(request.user, others) THEN <<table, Outcome("exists", {})>>
                ELSE <<others \cup {new}, Outcome("ok", {new})>>
            BY <3>1, <3>3 DEF UpdateRow
        <3> HIDE DEF others, new, R
        <3>7. \/ /\ SqlResult(request) = <<table, Outcome("exists", {})>>
                 /\ <<BookOf(table), Outcome("exists", {})>> \in R
              \/ /\ SqlResult(request) = <<others \cup {new}, Outcome("ok", {new})>>
                 /\ <<BookOf(others \cup {new}), Outcome("ok", {new})>> \in R
            BY <2>1, <3>4, <3>5, <3>6
        <3>8. <<BookOf(SqlResult(request)[1]), SqlResult(request)[2]>> \in R
            BY <3>7
        <3> QED BY <3>8 DEF R
    <2> QED BY <2>2, <2>3
<1> QED BY <1>2, <1>3, <1>4, <1>5 DEF Request

\* The set of a list's users.
LEMMA ApartIsSeparate ==
    ASSUME NEW list \in Seq(User), Apart(list)
    PROVE  ToSet(list) \in SUBSET User /\ Separate(ToSet(list))
BY DEF ToSet, Apart, Separate

LEMMA NoPlaces ==
    ASSUME NEW list \in Seq(User), NEW email
    PROVE  Places(list, email) = {} <=> Free(ToSet(list), email)
BY DEF Places, Free, ToSet

LEMMA CreateInSet ==
    ASSUME NEW list \in Seq(User), NEW user \in User
    PROVE  ToSet(Append(list, user)) = ToSet(list) \cup {user}
<1>1. /\ DOMAIN list = 1 .. Len(list) /\ Len(list) \in Nat
      /\ DOMAIN Append(list, user) = 1 .. Len(list) + 1
      /\ \A i \in 1 .. Len(list) : Append(list, user)[i] = list[i]
      /\ Append(list, user)[Len(list) + 1] = user
    OBVIOUS
<1>2. ASSUME NEW x \in ToSet(Append(list, user)) PROVE x \in ToSet(list) \cup {user}
    <2>1. PICK i \in 1 .. Len(list) + 1 : x = Append(list, user)[i]
        BY <1>1 DEF ToSet
    <2> QED BY <1>1, <2>1 DEF ToSet
<1>3. ASSUME NEW x \in ToSet(list) \cup {user} PROVE x \in ToSet(Append(list, user))
    BY <1>1 DEF ToSet
<1> QED BY <1>2, <1>3

LEMMA UpdateInSet ==
    ASSUME NEW list \in Seq(User), Apart(list), NEW i \in DOMAIN list, NEW user \in User
    PROVE  ToSet([list EXCEPT ![i] = user]) = (ToSet(list) \ {list[i]}) \cup {user}
<1> DEFINE new == [list EXCEPT ![i] = user]
<1>1. DOMAIN new = DOMAIN list /\ new[i] = user /\ \A k \in DOMAIN list : k # i => new[k] = list[k]
    OBVIOUS
<1>2. \A k \in DOMAIN list : k # i => list[k] # list[i]
    BY DEF Apart, SameBox
<1> HIDE DEF new
<1>3. ToSet(new) = (ToSet(list) \ {list[i]}) \cup {user}
    BY <1>1, <1>2 DEF ToSet
<1> QED BY <1>3 DEF new

LEMMA DeleteInSet ==
    ASSUME NEW list \in Seq(User), Apart(list), NEW i \in DOMAIN list
    PROVE  ToSet(RemoveAt(list, i)) = ToSet(list) \ {list[i]}
<1> DEFINE front == SubSeq(list, 1, i - 1)
           back == SubSeq(list, i + 1, Len(list))
           new == RemoveAt(list, i)
<1>1. i \in 1 .. Len(list) /\ Len(list) \in Nat /\ DOMAIN list = 1 .. Len(list)
    OBVIOUS
<1>2. /\ front \in Seq(User) /\ Len(front) = i - 1
      /\ \A k \in 1 .. i - 1 : front[k] = list[k]
    <2>1. \A k \in 1 .. i - 1 : list[k] \in User
        BY <1>1
    <2> QED BY <1>1, <2>1, SubSeqProperties
<1>3. /\ back \in Seq(User) /\ Len(back) = Len(list) - i
      /\ \A k \in 1 .. Len(list) - i : back[k] = list[i + k]
    <2>1. \A k \in i + 1 .. Len(list) : list[k] \in User
        BY <1>1
    <2>2. /\ back \in Seq(User)
          /\ Len(back) = IF i + 1 <= Len(list) THEN Len(list) - (i + 1) + 1 ELSE 0
          /\ \A k \in 1 .. Len(list) - (i + 1) + 1 : back[k] = list[i + 1 + k - 1]
        BY <1>1, <2>1, SubSeqProperties
    <2> HIDE DEF back
    <2>3. Len(back) = Len(list) - i
        BY <1>1, <2>2
    <2>4. ASSUME NEW k \in 1 .. Len(list) - i PROVE back[k] = list[i + k]
        <3>1. k \in 1 .. Len(list) - (i + 1) + 1 /\ i + 1 + k - 1 = i + k
            BY <1>1
        <3> QED BY <2>2, <3>1
    <2> QED BY <2>2, <2>3, <2>4
<1>4. new = front \o back
    BY DEF RemoveAt
<1> HIDE DEF front, back, new
<1>5. ToSet(new) = ToSet(front) \cup ToSet(back)
    <2>1. /\ DOMAIN front = 1 .. Len(front) /\ DOMAIN back = 1 .. Len(back)
          /\ Len(front) \in Nat /\ Len(back) \in Nat
          /\ DOMAIN new = 1 .. Len(front) + Len(back)
          /\ \A k \in 1 .. Len(front) + Len(back) :
                new[k] = IF k <= Len(front) THEN front[k] ELSE back[k - Len(front)]
        BY <1>2, <1>3, <1>4, ConcatProperties
    <2>2. ASSUME NEW x \in ToSet(new) PROVE x \in ToSet(front) \cup ToSet(back)
        <3>1. PICK k \in 1 .. Len(front) + Len(back) : x = new[k]
            BY <2>1 DEF ToSet
        <3>2. CASE k <= Len(front)
            BY <2>1, <3>1, <3>2 DEF ToSet
        <3>3. CASE ~(k <= Len(front))
            <4>1. k - Len(front) \in 1 .. Len(back) /\ x = back[k - Len(front)]
                BY <2>1, <3>1, <3>3
            <4> QED BY <2>1, <4>1 DEF ToSet
        <3> QED BY <3>2, <3>3
    <2>3. ASSUME NEW x \in ToSet(front) PROVE x \in ToSet(new)
        <3>1. PICK k \in 1 .. Len(front) : x = front[k]
            BY <2>1 DEF ToSet
        <3>2. k \in 1 .. Len(front) + Len(back) /\ x = new[k]
            BY <2>1, <3>1
        <3> QED BY <2>1, <3>2 DEF ToSet
    <2>4. ASSUME NEW x \in ToSet(back) PROVE x \in ToSet(new)
        <3>1. PICK k \in 1 .. Len(back) : x = back[k]
            BY <2>1 DEF ToSet
        <3>2. /\ k + Len(front) \in 1 .. Len(front) + Len(back)
              /\ ~(k + Len(front) <= Len(front)) /\ k + Len(front) - Len(front) = k
            BY <2>1, <3>1
        <3>3. new[k + Len(front)] = x
            BY <2>1, <3>1, <3>2
        <3> QED BY <2>1, <3>2, <3>3 DEF ToSet
    <2> QED BY <2>2, <2>3, <2>4
<1>6. \A k \in DOMAIN list : k # i => list[k] # list[i]
    BY DEF Apart, SameBox
<1>7. ASSUME NEW x \in ToSet(front) \cup ToSet(back) PROVE x \in ToSet(list) \ {list[i]}
    <2>1. CASE x \in ToSet(front)
        <3>1. PICK k \in 1 .. i - 1 : x = front[k]
            BY <1>1, <1>2, <2>1 DEF ToSet
        <3>2. k \in DOMAIN list /\ k # i /\ x = list[k]
            BY <1>1, <1>2, <3>1
        <3> QED BY <1>6, <3>2 DEF ToSet
    <2>2. CASE x \in ToSet(back)
        <3>1. PICK k \in 1 .. Len(list) - i : x = back[k]
            BY <1>1, <1>3, <2>2 DEF ToSet
        <3>2. i + k \in DOMAIN list /\ i + k # i /\ x = list[i + k]
            BY <1>1, <1>3, <3>1
        <3> QED BY <1>6, <3>2 DEF ToSet
    <2> QED BY <1>7, <2>1, <2>2
<1>8. ASSUME NEW x \in ToSet(list) \ {list[i]} PROVE x \in ToSet(front) \cup ToSet(back)
    <2>1. PICK k \in 1 .. Len(list) : x = list[k] /\ k # i
        BY <1>1 DEF ToSet
    <2>2. CASE k < i
        <3>1. k \in DOMAIN front /\ front[k] = x
            BY <1>1, <1>2, <2>1, <2>2
        <3> QED BY <3>1 DEF ToSet
    <2>3. CASE k > i
        <3>1. k - i \in 1 .. Len(list) - i /\ i + (k - i) = k
            BY <1>1, <2>1, <2>3
        <3>2. k - i \in DOMAIN back /\ back[k - i] = x
            BY <1>3, <2>1, <3>1
        <3> QED BY <3>2 DEF ToSet
    <2> QED BY <1>1, <2>1, <2>2, <2>3
<1>9. ToSet(new) = ToSet(list) \ {list[i]}
    BY <1>5, <1>7, <1>8
<1> QED BY <1>9 DEF new
LEMMA FileEffect ==
    ASSUME NEW list \in Seq(User), Apart(list), NEW request \in Request
    PROVE  <<BookOf(ToSet(FileResult(list, request)[1])), FileResult(list, request)[2]>>
               \in Repository!Results(request, BookOf(ToSet(list)))
<1> DEFINE rows == ToSet(list)
           R == Repository!Results(request, BookOf(rows))
<1>1. rows \in SUBSET User /\ Separate(rows)
    BY ApartIsSeparate
<1>2. CASE request.op = "list"
    <2>1. FileResult(list, request) = <<list, Outcome("ok", rows)>>
        BY <1>2 DEF FileResult
    <2>2. <<BookOf(rows), Outcome("ok", rows)>> \in R
        BY <1>1, <1>2, ListEffect
    <2> QED BY <2>1, <2>2
<1>3. CASE request.op = "create"
    <2> DEFINE user == request.user
    <2>1. FileResult(list, request) = Create(list, user)
        BY <1>3 DEF FileResult
    <2>2. user \in User
        BY <1>3 DEF Request
    <2>3. Places(list, user.email) = {} <=> Free(rows, user.email)
        BY NoPlaces
    <2>4. Places(list, user.email) = {} => Separate(rows \cup {user})
        BY <1>1, <2>3 DEF Free, Separate, SameBox
    <2>5. ToSet(Append(list, user)) = rows \cup {user}
        BY <2>2, CreateInSet
    <2>6. /\ ~Free(rows, user.email) => <<BookOf(rows), Outcome("exists", {})>> \in R
          /\ Free(rows, user.email) =>
                <<BookOf(rows \cup {user}), Outcome("ok", {user})>> \in R
        BY <1>1, <1>3, <2>3, <2>4, CreateEffect
    <2>7. CASE Places(list, user.email) # {}
        <3>1. FileResult(list, request) = <<list, Outcome("exists", {})>>
            BY <2>1, <2>7 DEF Create
        <3> QED BY <2>3, <2>6, <2>7, <3>1
    <2>8. CASE Places(list, user.email) = {}
        <3>1. FileResult(list, request) = <<Append(list, user), Outcome("ok", {user})>>
            BY <2>1, <2>8 DEF Create
        <3>2. <<BookOf(ToSet(Append(list, user))), Outcome("ok", {user})>> \in R
            BY <2>3, <2>5, <2>6, <2>8
        <3> QED BY <3>1, <3>2
    <2> QED BY <2>7, <2>8
<1>4. CASE request.op = "delete"
    <2>1. FileResult(list, request) = Delete(list, request.email)
        BY <1>4 DEF FileResult
    <2>2. CASE Places(list, request.email) = {}
        <3>1. <<BookOf(rows), Outcome("missing", {})>> \in R
            BY <1>1, <1>4, <2>2, NoPlaces, DeleteEffect
        <3>2. FileResult(list, request) = <<list, Outcome("missing", {})>>
            BY <2>1, <2>2 DEF Delete
        <3> QED BY <3>1, <3>2
    <2>3. CASE Places(list, request.email) # {}
        <3> DEFINE i == FindIndex(list, request.email)
        <3>1. i \in DOMAIN list /\ BoxOf[list[i].email] = BoxOf[request.email]
            BY <2>3, FindIndexFinds
        <3>2. FileResult(list, request) = <<RemoveAt(list, i), Outcome("ok", {list[i]})>>
            BY <2>1, <2>3 DEF Delete
        <3> HIDE DEF i
        <3>3. list[i] \in rows
            BY <3>1 DEF ToSet
        <3>4. ToSet(RemoveAt(list, i)) = rows \ {list[i]}
            BY <3>1, DeleteInSet
        <3>5. <<BookOf(rows \ {list[i]}), Outcome("ok", {list[i]})>> \in R
            BY <1>1, <1>4, <3>1, <3>3, DeleteEffect
        <3>6. <<BookOf(ToSet(RemoveAt(list, i))), Outcome("ok", {list[i]})>> \in R
            BY <3>4, <3>5
        <3> QED BY <3>2, <3>6
    <2> QED BY <2>2, <2>3
<1>5. CASE request.op = "update"
    <2> DEFINE user == request.user
    <2>1. FileResult(list, request) = Update(list, request.email, user) /\ user \in User
        BY <1>5 DEF FileResult, Request
    <2>2. CASE Places(list, request.email) = {}
        <3>1. <<BookOf(rows), Outcome("missing", {})>> \in R
            BY <1>1, <1>5, <2>2, NoPlaces, UpdateEffect
        <3>2. FileResult(list, request) = <<list, Outcome("missing", {})>>
            BY <2>1, <2>2 DEF Update
        <3> QED BY <3>1, <3>2
    <2>3. CASE Places(list, request.email) # {}
        <3> DEFINE i == FindIndex(list, request.email)
                   others == rows \ {list[i]}
        <3>1. i \in DOMAIN list /\ BoxOf[list[i].email] = BoxOf[request.email]
            BY <2>3, FindIndexFinds
        <3>2. FileResult(list, request) =
                IF Places(list, user.email) \ {i} # {} THEN <<list, Outcome("exists", {})>>
                ELSE <<[list EXCEPT ![i] = user], Outcome("ok", {user})>>
            BY <2>1, <2>3 DEF Update
        <3> HIDE DEF i
        <3>3. list[i] \in rows
            BY <3>1 DEF ToSet
        <3>4. Places(list, user.email) \ {i} = {} <=> Free(others, user.email)
            <4>1. others = {list[k] : k \in DOMAIN list \ {i}}
                BY <3>1 DEF ToSet, Apart, SameBox
            <4> QED BY <3>1, <4>1 DEF Places, Free
        <3>5. ToSet([list EXCEPT ![i] = user]) = others \cup {user}
            BY <2>1, <3>1, UpdateInSet
        <3>6. /\ ~Free(others, user.email) => <<BookOf(rows), Outcome("exists", {})>> \in R
              /\ Free(others, user.email) =>
                    <<BookOf(others \cup {user}), Outcome("ok", {user})>> \in R
            BY <1>1, <1>5, <3>1, <3>3, UpdateEffect
        <3>7. CASE ~Free(others, user.email)
            <4>1. FileResult(list, request) = <<list, Outcome("exists", {})>>
                BY <3>2, <3>4, <3>7
            <4> QED BY <3>6, <3>7, <4>1
        <3>8. CASE Free(others, user.email)
            <4>1. FileResult(list, request) = <<[list EXCEPT ![i] = user], Outcome("ok", {user})>>
                BY <3>2, <3>4, <3>8
            <4>2. <<BookOf(ToSet([list EXCEPT ![i] = user])), Outcome("ok", {user})>> \in R
                BY <3>5, <3>6, <3>8
            <4> QED BY <4>1, <4>2
        <3> QED BY <3>7, <3>8
    <2> QED BY <2>2, <2>3
<1> QED BY <1>2, <1>3, <1>4, <1>5 DEF Request
-----------------------------------------------------------------------------
(* Every step of a backend is a step of UserRepository or none. *)

LEMMA BookOfStored == Book = BookOf(Stored) /\ Book' = BookOf(Stored')
BY DEF Book, BookOf

LEMMA BookStays ==
    ASSUME backend' = backend, table' = table,
           backend # "file" \/ ToSet(IF users = Null THEN Seed ELSE users)
               = ToSet(IF users' = Null THEN Seed ELSE users')
    PROVE  Book' = Book
<1>1. Stored' = Stored
    BY DEF Stored
<1> QED BY <1>1, BookOfStored

\* Nothing of what the repository promises changes.
Stutters == UNCHANGED <<Book, asked, outcome, backend>>

LEMMA StutterRefines == Stutters => UNCHANGED Repository!repositoryVars
BY DEF Stutters, Repository!repositoryVars

\* A call takes effect, or fails.
TakesEffect(c, r) ==
    /\ asked[c] # Null /\ outcome[c] = Null
    /\ r \in Repository!Results(asked[c], Book) \cup {<<Book, Failed>>}
    /\ Book' = r[1]
    /\ \E o \in {r[2], Failed} : outcome' = [outcome EXCEPT ![c] = o]
    /\ asked' = asked /\ backend' = backend

LEMMA EffectRefines ==
    ASSUME Extra, NEW c \in Client, NEW r, TakesEffect(c, r)
    PROVE  Repository!RepositoryNext
<1>1. PICK o \in {r[2], Failed} : outcome' = [outcome EXCEPT ![c] = o]
    BY DEF TakesEffect
<1>2. outcome'[c] = o /\ outcome' = [outcome EXCEPT ![c] = outcome'[c]]
    BY <1>1 DEF Extra, ProcessOK
<1>3. Failed = Repository!Outcome("failed", {})
    BY SameRecords DEF Failed
<1>4. Repository!Effect(c)
    BY <1>1, <1>2, <1>3 DEF TakesEffect, Repository!Effect
<1> QED BY <1>4 DEF TakesEffect, Repository!RepositoryNext

\* Where every call is under way.
LEMMA CallUnderWay ==
    ASSUME Inv, Extra, NEW c \in Client, at[c] \notin {"idle", "done"}
    PROVE  asked[c] \in Request /\ asked[c] # Null /\ outcome[c] = Null
BY RecordsAssumption, BackendAssumption DEF Inv, Extra, CallInv

LEMMA FailureRefines ==
    ASSUME Inv, Extra, NEW c \in Client, NEW from, from \notin {"idle", "done"},
           Ends(c, from, Failed), Book' = Book
    PROVE  Repository!RepositoryNext
<1>1. asked[c] # Null /\ outcome[c] = Null
    BY CallUnderWay DEF Ends, Move
<1>2. TakesEffect(c, <<Book, Failed>>)
    BY <1>1 DEF TakesEffect, Ends, Move
<1> QED BY <1>2, EffectRefines

LEMMA OperateRefines ==
    ASSUME Inv, Extra, NEW c \in Client, Operate(c)
    PROVE  Repository!RepositoryNext \/ Stutters
<1>1. backend = "file" /\ backend' = backend /\ table' = table /\ asked' = asked
    BY DEF Operate, Ends, Move
<1>2. CASE users = Null
    <2>1. users' = users /\ outcome' = outcome
        BY <1>2 DEF Operate
    <2>2. Book' = Book
        BY <1>1, <2>1, BookStays
    <2> QED BY <1>1, <2>1, <2>2 DEF Stutters
<1>3. CASE users # Null
    <2> DEFINE r == FileResult(users, asked[c])
    <2>1. users' = r[1] /\ Ends(c, "waits", r[2])
        BY <1>3 DEF Operate
    <2>2. asked[c] \in Request /\ asked[c] # Null /\ outcome[c] = Null
        BY <2>1, CallUnderWay DEF Ends, Move
    <2>3. users \in Seq(User) /\ Apart(users)
        BY <1>3, InvIsItsParts DEF StoreOK
    <2>4. r[1] \in Seq(User) /\ r[1] # Null
        BY <2>2, <2>3, FileResultKeepsApart, SeedAssumption
    <2>5. Stored = ToSet(users) /\ Stored' = ToSet(r[1])
        BY <1>1, <1>3, <2>1, <2>4 DEF Stored
    <2>6. <<BookOf(ToSet(r[1])), r[2]>> \in Repository!Results(asked[c], BookOf(ToSet(users)))
        BY <2>2, <2>3, FileEffect
    <2> HIDE DEF r
    <2>7. <<Book', r[2]>> \in Repository!Results(asked[c], Book)
        BY <2>5, <2>6, BookOfStored
    <2>8. TakesEffect(c, <<Book', r[2]>>)
        BY <1>1, <2>1, <2>2, <2>7 DEF TakesEffect, Ends
    <2> QED BY <2>8, EffectRefines
<1> QED BY <1>2, <1>3

LEMMA StatementRefines ==
    ASSUME Inv, Extra, NEW c \in Client, Statement(c)
    PROVE  Repository!RepositoryNext
<1> DEFINE r == SqlResult(asked[c])
<1>1. /\ at[c] = "connected" /\ backend' = backend /\ asked' = asked /\ users' = users
      /\ \/ table' = r[1] /\ Ends(c, "connected", r[2])
         \/ table' \in {table, r[1]} /\ Ends(c, "connected", Failed)
    BY DEF Statement, Ends, Move, fileVars
<1>2. backend # "file"
    BY <1>1 DEF Extra, CallInv
<1>3. asked[c] \in Request /\ asked[c] # Null /\ outcome[c] = Null
    BY <1>1, CallUnderWay
<1>4. table \subseteq User /\ Separate(table)
    BY InvIsItsParts DEF StoreOK
<1>5. <<BookOf(r[1]), r[2]>> \in Repository!Results(asked[c], BookOf(table))
    BY <1>3, <1>4, SqlEffect
<1>6. Book = BookOf(table) /\ Book' = BookOf(table')
    BY <1>1, <1>2, BookOfStored DEF Stored
<1> HIDE DEF r
<1>7. CASE table' = r[1] /\ (Ends(c, "connected", r[2]) \/ Ends(c, "connected", Failed))
    <2>1. <<Book', r[2]>> \in Repository!Results(asked[c], Book)
        BY <1>5, <1>6, <1>7
    <2>2. TakesEffect(c, <<Book', r[2]>>)
        BY <1>1, <1>3, <1>7, <2>1 DEF TakesEffect, Ends
    <2> QED BY <2>2, EffectRefines
<1>8. CASE table' = table /\ Ends(c, "connected", Failed)
    <2>1. Book' = Book
        BY <1>6, <1>8
    <2> QED BY <1>8, <2>1, FailureRefines
<1> QED BY <1>1, <1>7, <1>8

LEMMA WaitingRefines ==
    ASSUME Inv, Extra, NEW c \in Client,
           Acquire(c) \/ TakeSvid(c) \/ SvidFetched(c) \/ SvidRefused(c)
              \/ SvidHangs(c) \/ Login(c)
    PROVE  Repository!RepositoryNext \/ Stutters
<1>1. backend' = backend /\ table' = table /\ users' = users /\ asked' = asked
    BY DEF Acquire, TakeSvid, SvidFetched, SvidRefused, SvidHangs, Login, Ends, Move, fileVars
<1>2. Book' = Book
    BY <1>1, BookStays
<1>3. outcome' = outcome \/ \E from \in {"waits", "svid", "login"} : Ends(c, from, Failed)
    BY DEF Acquire, TakeSvid, SvidFetched, SvidRefused, SvidHangs, Login
<1>4. CASE outcome' = outcome
    BY <1>1, <1>2, <1>4 DEF Stutters
<1>5. CASE \E from \in {"waits", "svid", "login"} : Ends(c, from, Failed)
    BY <1>2, <1>5, FailureRefines
<1> QED BY <1>3, <1>4, <1>5

LEMMA ReceiveRefines ==
    ASSUME Inv, Extra, NEW c \in Client, Receive(c)
    PROVE  Repository!RepositoryNext
<1>1. /\ backend' = backend /\ table' = table /\ users' = users /\ outcome' = outcome
      /\ at[c] = "idle"
    BY DEF Receive, fileVars
<1>2. PICK request \in Requests : asked' = [asked EXCEPT ![c] = request]
    BY DEF Receive
<1>3. asked[c] = Null /\ asked'[c] = request /\ asked' = [asked EXCEPT ![c] = asked'[c]]
    BY <1>1, <1>2 DEF Inv, Extra, CallInv
<1>4. asked'[c] \in Repository!Request
    BY <1>3, SameRecords, BackendAssumption
<1>5. Book' = Book
    BY <1>1, BookStays
<1>6. Repository!Asks(c)
    BY <1>1, <1>3, <1>4, <1>5 DEF Repository!Asks
<1> QED BY <1>1, <1>6 DEF Repository!RepositoryNext

LEMMA ReplyRefines ==
    ASSUME Inv, Extra, NEW c \in Client, Reply(c)
    PROVE  Repository!RepositoryNext
<1>1. /\ backend' = backend /\ table' = table /\ users' = users /\ at[c] = "done"
      /\ asked' = [asked EXCEPT ![c] = Null] /\ outcome' = [outcome EXCEPT ![c] = Null]
    BY DEF Reply, fileVars
<1>2. asked[c] # Null
    BY <1>1, RecordsAssumption, BackendAssumption DEF Inv
<1>3. Book' = Book
    BY <1>1, BookStays
<1>4. Repository!Returns(c)
    BY <1>1, <1>2, <1>3 DEF Repository!Returns
<1> QED BY <1>1, <1>4 DEF Repository!RepositoryNext

LEMMA GoneRefines == ASSUME Inv, Gone PROVE Repository!RepositoryNext
<1>1. /\ backend' = backend /\ table' = table /\ users' = Null
      /\ asked' = [c \in Client |-> Null] /\ outcome' = [c \in Client |-> Null]
    BY DEF Gone
<1>2. CASE backend # "file"
    BY <1>1, <1>2, BookStays DEF Repository!RepositoryNext, Repository!Restarts
<1>3. CASE backend = "file"
    <2>1. Stored' = ToSet(Seed)
        BY <1>1, <1>3 DEF Stored
    <2>2. Repository!IsBook(BookOf(ToSet(Seed)))
        BY SeedIsApart, BookIsBook
    <2>3. Repository!IsBook(Book')
        BY <2>1, <2>2, BookOfStored
    <2> QED BY <1>1, <1>3, <2>3 DEF Repository!RepositoryNext, Repository!Restarts
<1> QED BY <1>2, <1>3

LEMMA ProcessStutters ==
    ASSUME Start \/ Shutdown \/ TimePasses \/ UNCHANGED vars
    PROVE  Stutters
<1>1. backend' = backend /\ table' = table /\ asked' = asked /\ outcome' = outcome
    BY DEF Start, Shutdown, TimePasses, vars, callVars
<1>2. users' = users \/ (users = Null /\ users' = Seed)
    BY DEF Start, LoadList, Shutdown, TimePasses, vars, fileVars
<1>3. Book' = Book
    BY <1>1, <1>2, BookStays
<1> QED BY <1>1, <1>3 DEF Stutters

\* Every repository of user-mcp, with its lock, pool or connections, its failures and its
\* restarts, is one atomic book of users: what a call returns is what the book was or
\* became at one moment of the call (storage/base.py, file_repo.py, postgres_repo.py).
THEOREM BackendsImplementRepository == Spec => RepositoryImplemented
<1>1. Init => Repository!RepositoryInit
    <2> SUFFICES ASSUME Init PROVE Repository!RepositoryInit
        OBVIOUS
    <2>1. Stored \in SUBSET User /\ Separate(Stored)
        BY SeedIsApart DEF Init, NoList, Stored
    <2>2. Repository!IsBook(Book)
        BY <2>1, BookIsBook, BookOfStored
    <2> QED BY <2>2 DEF Init, Repository!RepositoryInit
<1>2. ASSUME Inv, Extra, [Next]_vars
      PROVE  [Repository!RepositoryNext]_(Repository!repositoryVars)
    <2>1. CASE Exit \/ Crash
        BY <1>2, <2>1, GoneRefines DEF Exit, Crash
    <2>2. CASE \E c \in Client : Receive(c) \/ CallStep(c) \/ Turn(c)
        BY <1>2, <2>2, ReceiveRefines, ReplyRefines, OperateRefines, WaitingRefines,
           StatementRefines, StutterRefines DEF CallStep, Turn
    <2>3. CASE Start \/ Shutdown \/ TimePasses \/ UNCHANGED vars
        BY <2>3, ProcessStutters, StutterRefines
    <2> QED BY <1>2, <2>1, <2>2, <2>3 DEF Next
<1> QED BY <1>1, <1>2, CallsInvariant, PTL
        DEF Spec, RepositoryImplemented, Repository!RepositorySpec
-----------------------------------------------------------------------------
(* Nobody waits in vain for the list's lock, the pool or the SVID. *)

\* _ensure_loaded never waits for the lock its caller holds.
NoCallJams == ~jammed /\ \A c \in Client : at[c] # "stuck"

\* What startup has made before the first call, and keeps until the last one is gone.
StartedFirst ==
    /\ \A c \in Client : at[c] # "idle" => life # "down"
    /\ life # "down" =>
          /\ backend = "file" => users # Null
          /\ backend = "direct" => pool # "none"

\* A call that waits can go on, or waits for a call that holds what it needs: the one in
\* the SVID fetch, or one with a connection of the pool.
WaitsForAHolder ==
    \A c \in Client : at[c] = "waits" =>
        CASE backend = "file"   -> users # Null /\ ~jammed
          [] backend = "direct" -> \/ Cardinality(Connections) < PoolSize
                                   \/ \E d \in Client : at[d] = "connected"
          [] backend = "vault"  -> \/ fetching = Nobody
                                   \/ \E d \in Client : fetching = d /\ at[d] \in {"svid", "hung"}

LEMMA InitStarted == Init => NoCallJams /\ StartedFirst
BY DEF Init, NoList, NoCallJams, StartedFirst

LEMMA FileResultIsList ==
    ASSUME NEW list \in Seq(User), Apart(list), NEW request \in Request
    PROVE  FileResult(list, request)[1] # Null
BY FileResultKeepsApart, SeedAssumption

\* A call's own steps, but for the list's: nothing of what startup made changes.
LEMMA MoveStarted ==
    ASSUME Inv, NoCallJams, StartedFirst, NEW c \in Client, NEW from, NEW to,
           Move(c, from, to), from # "idle", to # "stuck", UNCHANGED fileVars
    PROVE  NoCallJams' /\ StartedFirst'
<1>1. at \in [Client -> {"idle"} \cup Busy] /\ at[c] = from
      /\ at' = [at EXCEPT ![c] = to] /\ UNCHANGED <<backend, life, pool, users, jammed>>
    BY DEF Inv, Move, fileVars
<1>2. \A d \in Client : at'[d] = at[d] \/ (d = c /\ at'[d] = to)
    BY <1>1
<1>3. life # "down"
    BY <1>1 DEF StartedFirst
<1> QED BY <1>1, <1>2, <1>3 DEF NoCallJams, StartedFirst

LEMMA OperateStarted ==
    ASSUME Inv, NoCallJams, StartedFirst, NEW c \in Client, Operate(c)
    PROVE  NoCallJams' /\ StartedFirst'
<1>1. at[c] = "waits" /\ backend = "file" /\ users # Null
    BY DEF Operate, StartedFirst
<1>2. asked[c] \in Request /\ users \in Seq(User) /\ Apart(users)
    BY <1>1, BackendAssumption DEF Inv, OneUserPerMailbox, Apart
<1>3. PICK r : r = FileResult(users, asked[c])
    OBVIOUS
<1>4. users' = r[1] /\ UNCHANGED jammed /\ Move(c, "waits", "done")
    BY <1>1, <1>3 DEF Operate, Ends
<1>5. users' # Null
    BY <1>2, <1>3, <1>4, FileResultIsList
<1>6. at \in [Client -> {"idle"} \cup Busy]
      /\ at' = [at EXCEPT ![c] = "done"] /\ UNCHANGED <<backend, life, pool, jammed>>
    BY <1>4 DEF Inv, Move
<1>7. \A d \in Client : at'[d] = at[d] \/ (d = c /\ at'[d] = "done")
    BY <1>6
<1>8. life # "down"
    BY <1>1 DEF StartedFirst
<1> QED BY <1>5, <1>6, <1>7, <1>8 DEF NoCallJams, StartedFirst

LEMMA NextStarted == Inv /\ NoCallJams /\ StartedFirst /\ [Next]_vars => NoCallJams' /\ StartedFirst'
<1> SUFFICES ASSUME Inv, NoCallJams, StartedFirst, [Next]_vars
             PROVE  NoCallJams' /\ StartedFirst'
    OBVIOUS
<1>1. CASE Start
    <2>1. backend = "file" => users' # Null
        BY <1>1, SeedAssumption DEF Start, LoadList
    <2>2. jammed' = jammed
        BY <1>1 DEF Start, LoadList, fileVars
    <2>3. backend = "direct" => pool' # "none"
        BY <1>1 DEF Start
    <2> QED BY <1>1, <2>1, <2>2, <2>3 DEF Start, callVars, NoCallJams, StartedFirst
<1>2. CASE Shutdown \/ TimePasses \/ UNCHANGED vars
    BY <1>2 DEF Shutdown, TimePasses, vars, callVars, fileVars, NoCallJams, StartedFirst
<1>3. CASE Exit \/ Crash
    BY <1>3 DEF Exit, Crash, Gone, NoCallJams, StartedFirst
<1>4. ASSUME NEW c \in Client, Receive(c) PROVE NoCallJams' /\ StartedFirst'
    BY <1>4 DEF Receive, fileVars, Inv, NoCallJams, StartedFirst
<1>5. ASSUME NEW c \in Client, Reply(c) PROVE NoCallJams' /\ StartedFirst'
    BY <1>5 DEF Reply, fileVars, Inv, NoCallJams, StartedFirst
<1>6. ASSUME NEW c \in Client,
             \/ Acquire(c) \/ TakeSvid(c) \/ SvidFetched(c) \/ SvidRefused(c) \/ SvidHangs(c)
             \/ Login(c) \/ Statement(c)
      PROVE  NoCallJams' /\ StartedFirst'
    <2>1. \E from, to : Move(c, from, to) /\ from # "idle" /\ to # "stuck"
        BY <1>6 DEF Acquire, TakeSvid, SvidFetched, SvidRefused, SvidHangs, Login,
                    Statement, Ends
    <2>2. UNCHANGED fileVars
        BY <1>6 DEF Acquire, TakeSvid, SvidFetched, SvidRefused, SvidHangs, Login, Statement
    <2> QED BY <2>1, <2>2, MoveStarted
<1> QED BY <1>1, <1>2, <1>3, <1>4, <1>5, <1>6, OperateStarted DEF Next, CallStep, Turn

LEMMA StartedHolds == Spec => [](NoCallJams /\ StartedFirst)
<1> QED BY BackendInvariant, InitStarted, NextStarted, PTL DEF Spec

\* The lifespan loads the list before the server takes requests, so no call ever meets
\* _ensure_loaded with nothing loaded, where it would wait for its own lock
\* (file_repo.py _ensure_loaded, mcp_app.py's lifespan).
THEOREM ListNeverJams == Spec => []NoCallJams
<1>1. NoCallJams /\ StartedFirst => NoCallJams
    OBVIOUS
<1> QED BY <1>1, StartedHolds, PTL

\* No call waits for a lock or a connection that nobody holds, for any number of clients
\* and any size of the pool: whoever waits can go on, or somebody holds it
\* (file_repo.py _ensure_loaded, spiffe_client.py get_jwt_svid, postgres_repo.py _acquire).
THEOREM NobodyWaitsInVain == Spec => []WaitsForAHolder
<1>1. Inv /\ Extra /\ NoCallJams /\ StartedFirst => WaitsForAHolder
    <2> SUFFICES ASSUME Inv, Extra, NoCallJams, StartedFirst, NEW c \in Client,
                        at[c] = "waits"
                 PROVE  /\ backend = "file" => users # Null /\ ~jammed
                        /\ backend = "direct" => \/ Cardinality(Connections) < PoolSize
                                                 \/ \E d \in Client : at[d] = "connected"
                        /\ backend = "vault" =>
                              \/ fetching = Nobody
                              \/ \E d \in Client : fetching = d /\ at[d] \in {"svid", "hung"}
        BY DEF WaitsForAHolder, Extra, ProcessOK
    <2>1. backend = "file" => users # Null /\ ~jammed
        BY DEF StartedFirst, NoCallJams
    <2>2. ASSUME \A d \in Client : at[d] # "connected"
          PROVE  Cardinality(Connections) < PoolSize
        <3>1. Connections = {}
            BY <2>2 DEF Connections
        <3> QED BY <3>1, FS_EmptySet, BackendAssumption
    <2>3. fetching = Nobody \/ \E d \in Client : fetching = d /\ at[d] \in {"svid", "hung"}
        BY DEF Extra, ProcessOK
    <2> QED BY <2>1, <2>2, <2>3
<1> QED BY <1>1, CallsInvariant, StartedHolds, PTL
=============================================================================
