---------------------------- MODULE FileRepository ----------------------------
(***************************************************************************)
(* storage/file_repo.py: the users are a list in memory, loaded once from  *)
(* a seed file that is never written.  Every operation holds an            *)
(* asyncio.Lock; once the list is loaded it does not await under the lock  *)
(* and is one step.  An operation that finds no list calls startup, which  *)
(* waits for the very lock the operation holds.                            *)
(***************************************************************************)
EXTENDS UserRecords, SequencesExt

CONSTANT Seed   \* the users of the seed file

\* Nothing in the code looks for two entries with one mailbox.
ASSUME SeedAssumption ==
    /\ Seed \in Seq(User) /\ Null \notin Seq(User)
    /\ \A i, j \in DOMAIN Seed : BoxOf[Seed[i].email] = BoxOf[Seed[j].email] => i = j

VARIABLES
    users,      \* the list, Null until startup
    jammed      \* an operation waits, with the lock, for the lock

fileVars == <<users, jammed>>

FileTypeOK == users \in Seq(User) \cup {Null} /\ jammed \in BOOLEAN

NoList == users = Null /\ jammed = FALSE

LoadList == users' = (IF users = Null THEN Seed ELSE users) /\ UNCHANGED jammed

Places(list, email) == {i \in DOMAIN list : BoxOf[list[i].email] = BoxOf[email]}

\* _find_index, where there is one: the first.
FindIndex(list, email) ==
    CHOOSE i \in Places(list, email) : \A j \in Places(list, email) : i <= j

\* What each operation makes of the list, and its outcome.
Create(list, user) ==
    IF Places(list, user.email) # {} THEN <<list, Outcome("exists", {})>>
    ELSE <<Append(list, user), Outcome("ok", {user})>>

Delete(list, email) ==
    IF Places(list, email) = {} THEN <<list, Outcome("missing", {})>>
    ELSE LET i == FindIndex(list, email)
         IN <<RemoveAt(list, i), Outcome("ok", {list[i]})>>

\* (Mutant of Update: nobody looks whether the new address is taken.)
UpdateUnchecked(list, email, user) ==
    IF Places(list, email) = {} THEN <<list, Outcome("missing", {})>>
    ELSE <<[list EXCEPT ![FindIndex(list, email)] = user], Outcome("ok", {user})>>

\* The whole record is replaced, by empty fields, too.
Update(list, email, user) ==
    IF Places(list, email) = {} THEN <<list, Outcome("missing", {})>>
    ELSE LET i == FindIndex(list, email)
         IN IF Places(list, user.email) \ {i} # {} THEN <<list, Outcome("exists", {})>>
            ELSE <<[list EXCEPT ![i] = user], Outcome("ok", {user})>>

FileResult(list, request) ==
    CASE request.op = "list" -> <<list, Outcome("ok", ToSet(list))>>
      [] request.op = "create" -> Create(list, request.user)
      [] request.op = "delete" -> Delete(list, request.email)
      [] request.op = "update" -> Update(list, request.email, request.user)
===============================================================================
