----------------------------- MODULE CibaChannel -----------------------------
(***************************************************************************)
(* docker-compose/templates/ciba-channel/server.py: the authentication     *)
(* channel Keycloak delegates to, and the page on which a human decides.   *)
(* It is a ThreadingHTTPServer: every POST runs in a thread of its own, and *)
(* only the accesses to _PENDING are under _LOCK.  _finish calls Keycloak  *)
(* back WITHOUT the lock and writes the item's status afterwards, so two   *)
(* POSTs about one item interleave between the callback and the write.     *)
(***************************************************************************)
EXTENDS Naturals, Sequences, KeycloakCiba

CONSTANTS
    Thread       \* handler threads that can be busy at once (a bound)

VARIABLES
    listed,      \* keys of _PENDING in insertion order
    status,      \* item["status"], "unlisted" before the item exists
    handler      \* what each handler thread is doing

channelVars == <<listed, status, handler>>

Verdict == {"SUCCEED", "CANCELLED"}
Status == {"unlisted", "pending", "approved", "denied", "callback-failed"}
Idle == [at |-> "idle"]
Busy == [at : {"callback"}, item : Call, verdict : Verdict]
            \cup [at : {"record"}, item : Call, verdict : Verdict, ok : BOOLEAN]

ChannelTypeOK ==
    /\ listed \in Seq(Call)
    /\ status \in [Call -> Status]
    /\ handler \in [Thread -> {Idle} \cup Busy]

ChannelInit ==
    /\ listed = <<>>
    /\ status = [c \in Call |-> "unlisted"]
    /\ handler = [t \in Thread |-> Idle]

\* POST /ciba/authn: Keycloak hands over request c.
Authn(c) ==
    /\ listed' = Append(listed, c)
    /\ status' = [status EXCEPT ![c] = "pending"]
    /\ UNCHANGED handler

\* _finish(item, verdict) begins in thread t: the lock is released already.
Take(t, c, verdict) ==
    /\ handler[t] = Idle
    /\ handler' = [handler EXCEPT
                     ![t] = [at |-> "callback", item |-> c, verdict |-> verdict]]
    /\ UNCHANGED <<listed, status>>

\* The positions in _PENDING of the items GET /pending shows.
Pending == {i \in DOMAIN listed : status[listed[i]] = "pending"}

\* The item POST /approve-latest resolves to: pending[-1], read under the lock.
IsLatest(c) == \E i \in Pending : listed[i] = c /\ \A j \in Pending : j <= i

\* POST /approve-latest (404 when nothing is pending).
ApproveLatest(t, c) == IsLatest(c) /\ Take(t, c, "SUCCEED")

\* POST /approve/<id> and /deny/<id> (404 for an unknown id).  The item's status
\* is not looked at: an item decided before can be finished again.
FinishById(t, c, verdict) == status[c] # "unlisted" /\ Take(t, c, verdict)

(***************************************************************************)
(* _callback(bearer, verdict) returns: "accepted" is a 2xx answer, and     *)
(* "refused" an HTTPError or a URLError (Keycloak never reached).  A read  *)
(* that fails after the request was sent raises neither: the exception     *)
(* ends the thread and the status is never written ("lost").               *)
(***************************************************************************)
CallbackReturns(t, outcome) ==
    /\ handler[t].at = "callback"
    /\ handler' = [handler EXCEPT ![t] =
                     IF outcome = "lost" THEN Idle
                     ELSE [at |-> "record", item |-> handler[t].item,
                           verdict |-> handler[t].verdict, ok |-> outcome = "accepted"]]
    /\ UNCHANGED <<listed, status>>

\* Mutant: the verdict is stored as it was sent to Keycloak.
RecordedVerdict(verdict, ok) == IF ok THEN verdict ELSE "callback-failed"

\* Mutant: the callback's status code is not looked at.
RecordedUnchecked(verdict, ok) == IF verdict = "SUCCEED" THEN "approved" ELSE "denied"

RecordedStatus(verdict, ok) ==
    IF ok /\ verdict = "SUCCEED" THEN "approved"
    ELSE IF verdict # "SUCCEED" THEN "denied" ELSE "callback-failed"

\* The end of _finish: the status is overwritten, whatever it was.
Record(t) ==
    /\ handler[t].at = "record"
    /\ status' = [status EXCEPT ![handler[t].item] =
                    RecordedStatus(handler[t].verdict, handler[t].ok)]
    /\ handler' = [handler EXCEPT ![t] = Idle]
    /\ UNCHANGED listed
==============================================================================
