------------------------------ MODULE CibaClient ------------------------------
(***************************************************************************)
(* user-mcp/ciba_client.py, CibaClient.fetch_access_token: ask Keycloak for *)
(* a backchannel authentication, then poll its token endpoint until a      *)
(* token, a refusal or the poll timeout.  One Call is one invocation; calls *)
(* are coroutines of one event loop and interleave at every await.         *)
(***************************************************************************)
EXTENDS Naturals, KeycloakCiba

CONSTANTS
    PollTimeout,     \* poll_timeout_seconds
    PollInterval,    \* the interval Keycloak asks for, at least 1
    SlowDownStep     \* added to the interval on slow_down (5 s in the code)

ASSUME ClientAssumption ==
    /\ PollTimeout \in Nat
    /\ PollInterval \in Nat \ {0}
    /\ SlowDownStep \in Nat

VARIABLES
    stage,           \* where each call is
    interval,        \* seconds slept before each poll
    elapsed,         \* seconds slept so far: the time of the POSTs is not counted
    answer           \* the answer to the call's POST, on its way back to it

clientVars == <<stage, interval, elapsed, answer>>

Ended == {"token", "denied", "timedout", "failed"}
Posting == {"starting", "polling"}
Stage == {"idle", "sleeping"} \cup Posting \cup Ended
Answer == {"started", "token", "pending", "slow_down", "denied"}

ClientTypeOK ==
    /\ stage \in [Call -> Stage]
    /\ interval \in [Call -> Nat \ {0}]
    /\ elapsed \in [Call -> Nat]
    /\ answer \in [Call -> Answer \cup {"none"}]

ClientInit ==
    /\ stage = [c \in Call |-> "idle"]
    /\ interval = [c \in Call |-> PollInterval]
    /\ elapsed = [c \in Call |-> 0]
    /\ answer = [c \in Call |-> "none"]

\* Mutant: the loop runs once more when the timeout has just been reached.
LoopHeadInclusive(seconds) == IF seconds <= PollTimeout THEN "sleeping" ELSE "timedout"

\* `while elapsed < self._poll_timeout`, evaluated before each sleep.
LoopHead(seconds) == IF seconds < PollTimeout THEN "sleeping" ELSE "timedout"

\* The call posts the backchannel request, or has no client credentials.
Begin(c, configured) ==
    /\ stage[c] = "idle"
    /\ stage' = [stage EXCEPT ![c] = IF configured THEN "starting" ELSE "failed"]
    /\ UNCHANGED <<interval, elapsed, answer>>

\* Keycloak's answer leaves for the call, if the call still awaits it.
Deliver(c, reply) ==
    /\ answer' = IF stage[c] \in Posting THEN [answer EXCEPT ![c] = reply] ELSE answer
    /\ UNCHANGED <<stage, interval, elapsed>>

\* Mutant: the timeout is looked at between the sleep and the poll.
SleepThenCheck(c) ==
    /\ stage[c] = "sleeping"
    /\ elapsed' = [elapsed EXCEPT ![c] = @ + interval[c]]
    /\ stage' = [stage EXCEPT ![c] = IF elapsed'[c] < PollTimeout THEN "polling"
                                     ELSE "timedout"]
    /\ UNCHANGED <<interval, answer>>

\* Mutant: the time slept is not added up.
SleepUncounted(c) ==
    /\ stage[c] = "sleeping"
    /\ stage' = [stage EXCEPT ![c] = "polling"]
    /\ UNCHANGED <<interval, elapsed, answer>>

\* asyncio.sleep(interval); elapsed += interval; the poll is posted.
Sleep(c) ==
    /\ stage[c] = "sleeping"
    /\ stage' = [stage EXCEPT ![c] = "polling"]
    /\ elapsed' = [elapsed EXCEPT ![c] = @ + interval[c]]
    /\ UNCHANGED <<interval, answer>>

\* What an await of client.post can end with: the answer, or at any time
\* "error": httpx's timeout (20 s), a transport error, or an answer that is none
\* of the known ones (a status >= 400, a body without auth_req_id, another error).
Received(c) == {"error"} \cup ({answer[c]} \ {"none"})

\* Mutant: any body of a poll that is not an error is returned as the token.
AfterAnyBody(reply, seconds) ==
    CASE reply = "started" -> LoopHead(0)
      [] reply \in {"token", "pending"} -> "token"
      [] reply = "denied" -> "denied"
      [] reply = "error" -> "failed"
      [] OTHER -> LoopHead(seconds)

\* Mutant: a transport error is swallowed and the whole call starts over.
AfterErrorAgain(reply, seconds) ==
    CASE reply = "started" -> LoopHead(0)
      [] reply = "token" -> "token"
      [] reply = "denied" -> "denied"
      [] reply = "error" -> "idle"
      [] OTHER -> LoopHead(seconds)

\* Where a call goes with what it received.
After(reply, seconds) ==
    CASE reply = "started" -> LoopHead(0)
      [] reply = "token" -> "token"
      [] reply = "denied" -> "denied"       \* access_denied or expired_token
      [] reply = "error" -> "failed"
      [] OTHER -> LoopHead(seconds)         \* authorization_pending, slow_down

Resume(c, reply) ==
    /\ stage[c] \in Posting
    /\ reply \in Received(c)
    /\ stage' = [stage EXCEPT ![c] = After(reply, elapsed[c])]
    /\ interval' = [interval EXCEPT
                      ![c] = IF reply = "slow_down" THEN @ + SlowDownStep ELSE @]
    /\ answer' = [answer EXCEPT ![c] = "none"]
    /\ UNCHANGED elapsed
==============================================================================
