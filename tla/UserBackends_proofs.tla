-------------------------- MODULE UserBackends_proofs --------------------------
(***************************************************************************)
(* Proofs about UserBackends, for every set of clients, addresses, seed    *)
(* users and requests and every size of the pool.                          *)
(***************************************************************************)
EXTENDS UserBackends, SequenceTheorems, TLAPS

-----------------------------------------------------------------------------
(* The operations on the list keep its mailboxes apart. *)

Apart(list) == \A i, j \in DOMAIN list : SameBox(list[i], list[j]) => i = j

LEMMA CreateKeepsApart ==
    ASSUME NEW list \in Seq(User), Apart(list), NEW user \in User
    PROVE  Create(list, user)[1] \in Seq(User) /\ Apart(Create(list, user)[1])
<1>1. CASE Places(list, user.email) # {}
    BY <1>1 DEF Create
<1>2. CASE Places(list, user.email) = {}
    <2>1. Create(list, user)[1] = Append(list, user)
        BY <1>2 DEF Create
    <2>2. \A i \in 1 .. Len(list) : BoxOf[list[i].email] # BoxOf[user.email]
        BY <1>2 DEF Places
    <2>3. /\ Append(list, user) \in Seq(User)
          /\ DOMAIN Append(list, user) = 1 .. Len(list) + 1
          /\ \A i \in 1 .. Len(list) : Append(list, user)[i] = list[i]
          /\ Append(list, user)[Len(list) + 1] = user
        OBVIOUS
    <2>4. ASSUME NEW i \in 1 .. Len(list) + 1, NEW j \in 1 .. Len(list) + 1,
                 SameBox(Append(list, user)[i], Append(list, user)[j])
          PROVE  i = j
        BY <2>2, <2>3, <2>4 DEF Apart, SameBox
    <2> QED BY <2>1, <2>3, <2>4 DEF Apart
<1> QED BY <1>1, <1>2

LEMMA FindIndexFinds ==
    ASSUME NEW list \in Seq(User), Apart(list), NEW email, Places(list, email) # {}
    PROVE  /\ FindIndex(list, email) \in DOMAIN list
           /\ BoxOf[list[FindIndex(list, email)].email] = BoxOf[email]
<1>1. PICK i \in DOMAIN list : BoxOf[list[i].email] = BoxOf[email]
    BY DEF Places
<1>2. \A j \in Places(list, email) : j = i
    BY <1>1 DEF Places, Apart, SameBox
<1>3. i \in Places(list, email) /\ \A j \in Places(list, email) : i <= j
    BY <1>1, <1>2 DEF Places
<1>4. FindIndex(list, email) \in Places(list, email)
    BY <1>3 DEF FindIndex
<1> QED BY <1>4 DEF Places

LEMMA UpdateKeepsApart ==
    ASSUME NEW list \in Seq(User), Apart(list), NEW email, NEW user \in User
    PROVE  Update(list, email, user)[1] \in Seq(User) /\ Apart(Update(list, email, user)[1])
<1> DEFINE i == FindIndex(list, email)
<1>1. CASE Places(list, email) = {} \/ Places(list, user.email) \ {i} # {}
    BY <1>1 DEF Update
<1>2. CASE Places(list, email) # {} /\ Places(list, user.email) \ {i} = {}
    <2> DEFINE new == [list EXCEPT ![i] = user]
    <2>1. Update(list, email, user)[1] = new
        BY <1>2 DEF Update
    <2>2. i \in DOMAIN list
        BY <1>2, FindIndexFinds
    <2>3. \A k \in DOMAIN list : k # i => BoxOf[list[k].email] # BoxOf[user.email]
        BY <1>2 DEF Places
    <2> HIDE DEF i
    <2>4. /\ new \in Seq(User) /\ DOMAIN new = DOMAIN list /\ new[i] = user
          /\ \A k \in DOMAIN list : k # i => new[k] = list[k]
        BY <2>2
    <2>5. Apart(new)
        BY <2>2, <2>3, <2>4 DEF Apart, SameBox
    <2> QED BY <2>1, <2>4, <2>5
<1> QED BY <1>1, <1>2

LEMMA DeleteKeepsApart ==
    ASSUME NEW list \in Seq(User), Apart(list), NEW email
    PROVE  Delete(list, email)[1] \in Seq(User) /\ Apart(Delete(list, email)[1])
<1> DEFINE i == FindIndex(list, email)
<1>1. CASE Places(list, email) = {}
    BY <1>1 DEF Delete
<1>2. CASE Places(list, email) # {}
    <2> DEFINE new == RemoveAt(list, i)
    <2>1. Delete(list, email)[1] = new
        BY <1>2 DEF Delete
    <2>2. i \in 1 .. Len(list)
        BY <1>2, FindIndexFinds
    <2> HIDE DEF i
    <2> DEFINE from(k) == IF k < i THEN k ELSE k + 1
    <2>3. /\ new \in Seq(User) /\ Len(new) = Len(list) - 1
          /\ \A k \in 1 .. Len(list) - 1 : new[k] = list[from(k)]
        <3> DEFINE front == SubSeq(list, 1, i - 1)
                   back == SubSeq(list, i + 1, Len(list))
        <3>1. /\ front \in Seq(User) /\ Len(front) = i - 1
              /\ \A k \in 1 .. i - 1 : front[k] = list[k]
            <4>1. \A k \in 1 .. i - 1 : list[k] \in User
                BY <2>2
            <4> QED BY <2>2, <4>1, SubSeqProperties
        <3>2. /\ back \in Seq(User) /\ Len(back) = Len(list) - i
              /\ \A k \in 1 .. Len(list) - i : back[k] = list[i + k]
            <4>1. \A k \in i + 1 .. Len(list) : list[k] \in User
                BY <2>2
            <4>2. /\ back \in Seq(User)
                  /\ Len(back) = IF i + 1 <= Len(list) THEN Len(list) - (i + 1) + 1 ELSE 0
                  /\ \A k \in 1 .. Len(list) - (i + 1) + 1 : back[k] = list[i + 1 + k - 1]
                BY <2>2, <4>1, SubSeqProperties
            <4> HIDE DEF back
            <4> QED BY <2>2, <4>2
        <3>3. new = front \o back
            BY DEF RemoveAt
        <3> HIDE DEF front, back, new
        <3>4. /\ new \in Seq(User) /\ Len(new) = Len(front) + Len(back)
              /\ \A k \in 1 .. Len(front) + Len(back) :
                    new[k] = IF k <= Len(front) THEN front[k] ELSE back[k - Len(front)]
            BY <3>1, <3>2, <3>3, ConcatProperties
        <3>5. Len(new) = Len(list) - 1
            BY <2>2, <3>1, <3>2, <3>4
        <3>6. ASSUME NEW k \in 1 .. Len(list) - 1, k < i
              PROVE  new[k] = list[k]
            <4>1. k \in 1 .. i - 1
                BY <2>2, <3>6
            <4>2. k \in 1 .. Len(front) + Len(back) /\ k <= Len(front)
                BY <2>2, <3>1, <3>2, <4>1
            <4>3. new[k] = front[k]
                BY <3>4, <4>2
            <4> QED BY <3>1, <4>1, <4>3
        <3>7. ASSUME NEW k \in 1 .. Len(list) - 1, ~(k < i)
              PROVE  new[k] = list[k + 1]
            <4>1. new[k] = back[k - (i - 1)]
                BY <2>2, <3>1, <3>2, <3>4, <3>7
            <4>2. k - (i - 1) \in 1 .. Len(list) - i /\ i + (k - (i - 1)) = k + 1
                BY <2>2, <3>7
            <4> QED BY <3>2, <4>1, <4>2
        <3> QED BY <3>4, <3>5, <3>6, <3>7
    <2>4. \A k \in 1 .. Len(list) - 1 : from(k) \in 1 .. Len(list)
        BY <2>2
    <2>5. \A k, l \in 1 .. Len(list) - 1 : from(k) = from(l) => k = l
        BY <2>2
    <2> HIDE DEF new, from
    <2>6. DOMAIN new = 1 .. Len(list) - 1
        BY <2>3
    <2>7. Apart(new)
        BY <2>3, <2>4, <2>5, <2>6 DEF Apart
    <2> QED BY <2>1, <2>3, <2>7
<1> QED BY <1>1, <1>2

LEMMA FileResultKeepsApart ==
    ASSUME NEW list \in Seq(User), Apart(list), NEW request \in Request
    PROVE  FileResult(list, request)[1] \in Seq(User) /\ Apart(FileResult(list, request)[1])
<1>1. CASE request.op = "list"
    BY <1>1 DEF FileResult
<1>2. CASE request.op = "create"
    <2>1. request.user \in User
        BY <1>2 DEF Request
    <2> QED BY <1>2, <2>1, CreateKeepsApart DEF FileResult
<1>3. CASE request.op = "delete"
    BY <1>3, DeleteKeepsApart DEF FileResult
<1>4. CASE request.op = "update"
    <2>1. request.user \in User
        BY <1>4 DEF Request
    <2> QED BY <1>4, <2>1, UpdateKeepsApart DEF FileResult
<1> QED BY <1>1, <1>2, <1>3, <1>4 DEF Request

-----------------------------------------------------------------------------
(* The statements on the table keep its mailboxes apart. *)

Separate(rows) == \A u, v \in rows : SameBox(u, v) => u = v

LEMMA RowsOfOneUser ==
    ASSUME table \subseteq User, Separate(table), NEW email
    PROVE  /\ Rows(email) \subseteq table
           /\ \A u, v \in Rows(email) : u = v
BY DEF Rows, Separate, SameBox

LEMMA InsertKeepsSeparate ==
    ASSUME table \subseteq User, Separate(table), NEW user \in User
    PROVE  Insert(user)[1] \subseteq User /\ Separate(Insert(user)[1])
BY DEF Insert, Taken, Separate, SameBox

LEMMA DeleteRowKeepsSeparate ==
    ASSUME table \subseteq User, Separate(table), NEW email
    PROVE  DeleteRow(email)[1] \subseteq User /\ Separate(DeleteRow(email)[1])
BY DEF DeleteRow, Separate

LEMMA UpdateRowKeepsSeparate ==
    ASSUME table \subseteq User, Separate(table), NEW email, NEW user \in User
    PROVE  UpdateRow(email, user)[1] \subseteq User /\ Separate(UpdateRow(email, user)[1])
<1> DEFINE others == table \ Rows(email)
           new == {Filled(user, old) : old \in Rows(email)}
<1>1. CASE Rows(email) = {} \/ Taken(user, others)
    BY <1>1 DEF UpdateRow
<1>2. CASE Rows(email) # {} /\ ~Taken(user, others)
    <2>1. UpdateRow(email, user)[1] = others \cup new
        BY <1>2 DEF UpdateRow
    <2>2. ASSUME NEW old \in User
          PROVE  Filled(user, old) \in User /\ Filled(user, old).email = user.email
        BY DEF User, Filled
    <2>3. /\ Rows(email) \subseteq User
          /\ \A u, v \in Rows(email) : u = v
        BY RowsOfOneUser
    <2>4. \A u \in new : u \in User /\ u.email = user.email
        BY <2>2, <2>3
    <2>5. \A u, v \in new : u = v
        BY <2>3
    <2>6. \A u \in others : BoxOf[u.email] # BoxOf[user.email]
        BY <1>2 DEF Taken
    <2>7. Separate(others)
        BY DEF Separate
    <2> HIDE DEF others, new
    <2>8. Separate(others \cup new)
        BY <2>4, <2>5, <2>6, <2>7 DEF Separate, SameBox
    <2>9. others \subseteq User
        BY DEF others
    <2> QED BY <2>1, <2>4, <2>8, <2>9
<1> QED BY <1>1, <1>2

LEMMA SqlResultKeepsSeparate ==
    ASSUME table \subseteq User, Separate(table), NEW request \in Request
    PROVE  SqlResult(request)[1] \subseteq User /\ Separate(SqlResult(request)[1])
<1>1. CASE request.op = "list"
    BY <1>1 DEF SqlResult
<1>2. CASE request.op = "create"
    <2>1. request.user \in User
        BY <1>2 DEF Request
    <2> QED BY <1>2, <2>1, InsertKeepsSeparate DEF SqlResult
<1>3. CASE request.op = "delete"
    BY <1>3, DeleteRowKeepsSeparate DEF SqlResult
<1>4. CASE request.op = "update"
    <2>1. request.user \in User
        BY <1>4 DEF Request
    <2> QED BY <1>4, <2>1, UpdateRowKeepsSeparate DEF SqlResult
<1> QED BY <1>1, <1>2, <1>3, <1>4 DEF Request

-----------------------------------------------------------------------------
(* The three parts of Inv: what is stored, the calls, their SVIDs. *)

StoreOK ==
    /\ table \subseteq User /\ Separate(table)
    /\ users \in Seq(User) \cup {Null} /\ (users # Null => Apart(users))

CallsOK ==
    /\ at \in [Client -> {"idle"} \cup Busy]
    /\ asked \in [Client -> Requests \cup {Null}]
    /\ \A c \in Client : at[c] # "idle" => asked[c] \in Requests

SvidsOK == svid \in [Client -> {"none", "fresh"}]

LEMMA InvIsItsParts == Inv <=> StoreOK /\ CallsOK /\ SvidsOK
BY DEF Inv, StoreOK, CallsOK, SvidsOK, OneUserPerMailbox, Separate, Apart

LEMMA PartsPrimed == StoreOK' /\ CallsOK' /\ SvidsOK' => Inv'
BY DEF Inv, StoreOK, CallsOK, SvidsOK, OneUserPerMailbox, Separate, Apart

LEMMA StoreKept == StoreOK /\ UNCHANGED <<table, fileVars>> => StoreOK'
BY DEF StoreOK, fileVars, Separate, Apart

LEMMA MoveKeeps ==
    ASSUME CallsOK, NEW c \in Client, NEW from \in Busy, NEW to \in Busy, Move(c, from, to)
    PROVE  CallsOK'
<1>1. /\ at[c] # "idle" /\ asked' = asked /\ at' = [at EXCEPT ![c] = to]
    BY DEF Move, Busy
<1> QED BY <1>1 DEF CallsOK, Busy

LEMMA SeedIsApart == Seed \in Seq(User) /\ Apart(Seed) /\ ToSet(Seed) \subseteq User /\ Separate(ToSet(Seed))
BY SeedAssumption DEF Apart, ToSet, Separate, SameBox

LEMMA InitInv == Init => Inv
<1> SUFFICES ASSUME Init PROVE Inv
    OBVIOUS
<1>1. StoreOK
    BY SeedIsApart DEF Init, NoList, StoreOK, Separate
<1>2. CallsOK
    BY DEF Init, CallsOK
<1>3. SvidsOK
    BY DEF Init, SvidInit, SvidsOK
<1> QED BY <1>1, <1>2, <1>3, InvIsItsParts

-----------------------------------------------------------------------------
(* Every step keeps Inv. *)

LEMMA StartKeeps == Inv /\ Start => Inv'
<1> SUFFICES ASSUME Inv, Start PROVE Inv'
    OBVIOUS
<1>1. table' = table /\ at' = at /\ asked' = asked /\ svid' = svid
    BY DEF Start, callVars, svidVars
<1>2. users' = users \/ users' = Seed
    BY DEF Start, LoadList, fileVars
<1>3. StoreOK'
    BY <1>1, <1>2, SeedIsApart, InvIsItsParts DEF StoreOK, Separate, Apart
<1>4. CallsOK' /\ SvidsOK'
    BY <1>1, InvIsItsParts DEF CallsOK, SvidsOK
<1> QED BY <1>3, <1>4, PartsPrimed

LEMMA GoneKeeps == Inv /\ Gone => Inv'
<1> SUFFICES ASSUME Inv, Gone PROVE Inv'
    OBVIOUS
<1>1. StoreOK'
    BY InvIsItsParts DEF Gone, StoreOK, Separate
<1>2. CallsOK' /\ SvidsOK'
    BY DEF Gone, CallsOK, SvidsOK
<1> QED BY <1>1, <1>2, PartsPrimed

LEMMA ProcessKeeps == Inv /\ (Shutdown \/ UNCHANGED vars) => Inv'
<1> SUFFICES ASSUME Inv, Shutdown \/ UNCHANGED vars PROVE Inv'
    OBVIOUS
<1>1. UNCHANGED <<table, fileVars>> /\ at' = at /\ asked' = asked /\ svid' = svid
    BY DEF Shutdown, vars, callVars, svidVars
<1>2. StoreOK'
    BY <1>1, StoreKept, InvIsItsParts
<1>3. CallsOK' /\ SvidsOK'
    BY <1>1, InvIsItsParts DEF CallsOK, SvidsOK
<1> QED BY <1>2, <1>3, PartsPrimed

LEMMA TimePassesKeeps == Inv /\ TimePasses => Inv'
<1> SUFFICES ASSUME Inv, TimePasses PROVE Inv'
    OBVIOUS
<1>1. UNCHANGED <<table, fileVars>> /\ at' = at /\ asked' = asked
    BY DEF TimePasses, callVars
<1>2. StoreOK' /\ CallsOK'
    BY <1>1, StoreKept, InvIsItsParts DEF CallsOK
<1>3. SvidsOK'
    BY InvIsItsParts DEF TimePasses, SvidAges, SvidsOK
<1> QED BY <1>2, <1>3, PartsPrimed

LEMMA ReceiveKeeps == ASSUME Inv, NEW c \in Client, Receive(c) PROVE Inv'
<1>1. UNCHANGED <<table, fileVars>> /\ svid' = svid
    BY DEF Receive, svidVars
<1>2. PICK r \in Requests : asked' = [asked EXCEPT ![c] = r]
    BY DEF Receive
<1>3. at' = [at EXCEPT ![c] = "waits"]
    BY DEF Receive
<1>4. CallsOK'
    BY <1>2, <1>3, InvIsItsParts DEF CallsOK, Busy
<1> QED BY <1>1, <1>4, StoreKept, PartsPrimed, InvIsItsParts DEF SvidsOK

LEMMA ReplyKeeps == ASSUME Inv, NEW c \in Client, Reply(c) PROVE Inv'
<1>1. /\ UNCHANGED <<table, fileVars>> /\ svid' = svid
      /\ at' = [at EXCEPT ![c] = "idle"] /\ asked' = [asked EXCEPT ![c] = Null]
    BY DEF Reply, svidVars
<1>2. CallsOK'
    BY <1>1, InvIsItsParts DEF CallsOK, Busy
<1> QED BY <1>1, <1>2, StoreKept, PartsPrimed, InvIsItsParts DEF SvidsOK

LEMMA OperateKeeps == ASSUME Inv, NEW c \in Client, Operate(c) PROVE Inv'
<1>1. /\ StoreOK /\ CallsOK /\ SvidsOK
      /\ at[c] = "waits" /\ table' = table /\ svid' = svid
    BY InvIsItsParts DEF Operate, Move, Ends, svidVars
<1>2. Move(c, "waits", "stuck") \/ Move(c, "waits", "done")
    BY DEF Operate, Ends
<1>3. CallsOK'
    BY <1>1, <1>2, MoveKeeps DEF Busy
<1>4. asked[c] \in Request
    BY <1>1, BackendAssumption DEF CallsOK
<1>5. StoreOK'
    <2>1. CASE users = Null
        <3>1. users' = users
            BY <2>1 DEF Operate
        <3> QED BY <1>1, <3>1 DEF StoreOK, Separate, Apart
    <2>2. CASE users # Null
        <3>1. users \in Seq(User) /\ Apart(users)
            BY <1>1, <2>2 DEF StoreOK
        <3>2. users' = FileResult(users, asked[c])[1]
            BY <2>2 DEF Operate
        <3>3. users' \in Seq(User) /\ Apart(users)'
            BY <1>4, <3>1, <3>2, FileResultKeepsApart DEF Apart
        <3> QED BY <1>1, <3>3 DEF StoreOK, Separate
    <2> QED BY <2>1, <2>2
<1> QED BY <1>1, <1>3, <1>5, PartsPrimed DEF SvidsOK

LEMMA WaitingKeeps ==
    ASSUME Inv, NEW c \in Client,
           Acquire(c) \/ TakeSvid(c) \/ SvidFetched(c) \/ SvidRefused(c)
              \/ SvidHangs(c) \/ Login(c)
    PROVE  Inv'
<1>1. UNCHANGED <<table, fileVars>>
    BY DEF Acquire, TakeSvid, SvidFetched, SvidRefused, SvidHangs, Login
<1>2. \E from, to \in Busy : Move(c, from, to)
    BY DEF Acquire, TakeSvid, SvidFetched, SvidRefused, SvidHangs, Login, Ends, Busy
<1>3. \/ svid' = svid
      \/ svid' = [svid EXCEPT ![c] = "fresh"] \/ svid' = [svid EXCEPT ![c] = "none"]
    BY DEF Acquire, TakeSvid, SvidFetched, SvidRefused, SvidHangs, Login, svidVars,
           GetSvid, UsableSvid, Fetched, FetchRefused, DropSvid
<1>4. StoreOK' /\ CallsOK'
    BY <1>1, <1>2, StoreKept, MoveKeeps, InvIsItsParts
<1>5. SvidsOK'
    BY <1>3, InvIsItsParts DEF SvidsOK
<1> QED BY <1>4, <1>5, PartsPrimed

LEMMA StatementKeeps == ASSUME Inv, NEW c \in Client, Statement(c) PROVE Inv'
<1>1. /\ StoreOK /\ CallsOK /\ SvidsOK
      /\ at[c] = "connected" /\ UNCHANGED fileVars /\ svid' = svid
    BY InvIsItsParts DEF Statement, svidVars
<1>2. Move(c, "connected", "done")
    BY DEF Statement, Ends
<1>3. CallsOK'
    BY <1>1, <1>2, MoveKeeps DEF Busy
<1>4. asked[c] \in Request
    BY <1>1, BackendAssumption DEF CallsOK, Busy
<1>5. table' = table \/ table' = SqlResult(asked[c])[1]
    BY DEF Statement
<1>6. table' \subseteq User /\ Separate(table)'
    BY <1>1, <1>4, <1>5, SqlResultKeepsSeparate DEF StoreOK, Separate
<1>7. StoreOK'
    BY <1>1, <1>6 DEF StoreOK, fileVars, Apart
<1> QED BY <1>1, <1>3, <1>7, PartsPrimed DEF SvidsOK

-----------------------------------------------------------------------------
\* Inv holds in every reachable state.
THEOREM BackendInvariant == Spec => []Inv
<1>1. ASSUME Inv, [Next]_vars PROVE Inv'
    <2>1. CASE Exit \/ Crash
        BY <1>1, <2>1, GoneKeeps DEF Exit, Crash
    <2>2. CASE \E c \in Client : Receive(c) \/ CallStep(c) \/ Turn(c)
        BY <1>1, <2>2, ReceiveKeeps, ReplyKeeps, OperateKeeps, WaitingKeeps,
           StatementKeeps DEF CallStep, Turn
    <2> QED BY <1>1, <2>1, <2>2, StartKeeps, ProcessKeeps, TimePassesKeeps DEF Next
<1> QED BY InitInv, <1>1, PTL DEF Spec

\* No call logs in to Vault with an SVID that has expired by then.
THEOREM SvidIsAlive == Spec => []LoginsWithLiveSvid
<1>1. Inv => LoginsWithLiveSvid
    BY DEF Inv, LoginsWithLiveSvid
<1> QED BY BackendInvariant, <1>1, PTL

\* Two stored users never share a mailbox, in the list or in the table.
THEOREM MailboxesApart == Spec => []OneUserPerMailbox
<1>1. Inv => OneUserPerMailbox
    BY DEF Inv
<1> QED BY BackendInvariant, <1>1, PTL
===============================================================================
