----------------------------- MODULE CibaStepUp -----------------------------
(***************************************************************************)
(* The CIBA step-up end to end: user-mcp's poll loop (CibaClient),         *)
(* Keycloak (KeycloakCiba), the approval channel with its handler threads  *)
(* (CibaChannel) and the humans who press Approve or Deny on the page, on  *)
(* the phone, or POST /approve-latest from a script.  `consent` is history: *)
(* the requests somebody pressed Approve for.                              *)
(***************************************************************************)
EXTENDS CibaClient, CibaChannel

VARIABLE consent     \* SUBSET Call

vars == <<clientVars, channelVars, keycloakVars, consent>>

TypeOK ==
    /\ ClientTypeOK
    /\ ChannelTypeOK
    /\ KeycloakTypeOK
    /\ consent \subseteq Call

Init ==
    /\ ClientInit
    /\ ChannelInit
    /\ KeycloakInit
    /\ consent = {}

-----------------------------------------------------------------------------
(* The call and Keycloak. *)

\* fetch_access_token is called; without credentials nothing is sent.
CallBegins(c) ==
    /\ \/ Begin(c, TRUE) /\ Send(c)
       \/ Begin(c, FALSE) /\ UNCHANGED keycloakVars
    /\ UNCHANGED <<channelVars, consent>>

\* Keycloak handles the backchannel POST, maybe after its caller gave up.  It
\* lists the request on the channel before it answers; when it drops the request
\* because the channel's 201 was lost, the item stays listed.
KeycloakOpens(c) ==
    /\ \/ Opened(c, "open") /\ Authn(c) /\ Deliver(c, "started")
       \/ /\ Opened(c, "closed") /\ UNCHANGED clientVars
          /\ Authn(c) \/ UNCHANGED channelVars
    /\ UNCHANGED consent

\* Keycloak handles a poll: the answer is what it knows at this moment.
KeycloakAnswers(c) ==
    /\ stage[c] = "polling" /\ answer[c] = "none"
    /\ \E reply \in Replies(c) : Replied(c, reply) /\ Deliver(c, reply)
    /\ UNCHANGED <<channelVars, consent>>

Expires(c) == Expire(c) /\ UNCHANGED <<clientVars, channelVars, consent>>

Wait(c) == Sleep(c) /\ UNCHANGED <<channelVars, keycloakVars, consent>>

Return(c) ==
    /\ \E reply \in Received(c) : Resume(c, reply)
    /\ UNCHANGED <<channelVars, keycloakVars, consent>>

-----------------------------------------------------------------------------
(* The humans and the channel's handler threads. *)

Press(c, verdict) ==
    /\ consent' = IF verdict = "SUCCEED" THEN consent \cup {c} ELSE consent
    /\ UNCHANGED <<clientVars, keycloakVars>>

PressLatest(t) == \E c \in Call : ApproveLatest(t, c) /\ Press(c, "SUCCEED")

PressItem(t) ==
    \E c \in Call, v \in Verdict : FinishById(t, c, v) /\ Press(c, v)

\* Keycloak handles the callback and the answer arrives, or is lost on the way.
CallbackDelivered(t) ==
    /\ handler[t].at = "callback"
    /\ DecideBy(handler[t].item, handler[t].verdict)
    /\ \E outcome \in {"accepted", "lost"} : CallbackReturns(t, outcome)
    /\ UNCHANGED <<clientVars, consent>>

\* Keycloak refuses the callback, is not reached, or nothing is ever read back.
CallbackFails(t) ==
    /\ \E outcome \in {"refused", "lost"} : CallbackReturns(t, outcome)
    /\ UNCHANGED <<clientVars, keycloakVars, consent>>

RecordStatus(t) == Record(t) /\ UNCHANGED <<clientVars, keycloakVars, consent>>

-----------------------------------------------------------------------------
CallStep(c) == Wait(c) \/ Return(c)

KeycloakStep(c) == KeycloakOpens(c) \/ KeycloakAnswers(c) \/ Expires(c)

ThreadStep(t) == CallbackDelivered(t) \/ CallbackFails(t) \/ RecordStatus(t)

Next ==
    \/ \E c \in Call : CallBegins(c) \/ CallStep(c) \/ KeycloakStep(c)
    \/ \E t \in Thread : PressLatest(t) \/ PressItem(t) \/ ThreadStep(t)

Spec == Init /\ [][Next]_vars

\* The event loop resumes every coroutine: each await is bounded by the sleep or
\* by httpx's 20 s timeout.  Nothing makes Keycloak answer or a human decide, and
\* nothing is assumed of the channel.
CallFairness(c) == WF_vars(CallStep(c))

FairSpec == Spec /\ \A c \in Call : CallFairness(c)

-----------------------------------------------------------------------------
(* Properties. *)

\* A call returns a token only if a human pressed Approve on ITS request and
\* Keycloak took that verdict: not the verdict of another request, not a Deny
\* whose item was finished twice, not an answer of a poll that was overtaken.
TokenNeedsApproval ==
    \A c \in Call :
        stage[c] = "token" => decision[c] = "approved" /\ c \in consent

\* The channel records "approved" only for a request Keycloak really approved,
\* however the threads of two presses interleave around their callbacks.
RecordedApprovalIsReal ==
    \A c \in Call : status[c] = "approved" => decision[c] = "approved"

\* fetch_access_token sleeps less than the poll timeout plus one interval, also
\* when slow_down stretched the interval.
WaitBounded == \A c \in Call : elapsed[c] < PollTimeout + interval[c]

-----------------------------------------------------------------------------
(* The inductive invariant behind them: how far each party can be ahead of the *)
(* others.                                                                     *)

\* A call is never ahead of Keycloak: it sleeps and polls only after its request
\* was handled, and the answer on its way is one to the POST it awaits.
CallFollowsKeycloak ==
    \A c \in Call :
        /\ request[c] = "none" => stage[c] \in {"idle", "failed"}
        /\ request[c] = "sent" => stage[c] \in {"starting", "failed"}
        /\ stage[c] = "idle" => request[c] = "none"
        /\ stage[c] \in {"idle", "starting"} => answer[c] \in {"none", "started"}
        /\ answer[c] = "started" => stage[c] = "starting" /\ request[c] # "sent"
        /\ answer[c] = "token" => decision[c] = "approved"

\* Nobody decides for the human: every SUCCEED under way was pressed for, and an
\* approval Keycloak confirmed stays one until it is recorded.
VerdictsArePressed ==
    /\ \A c \in Call : decision[c] = "approved" => c \in consent
    /\ \A t \in Thread :
          handler[t].at # "idle" /\ handler[t].verdict = "SUCCEED" =>
              /\ handler[t].item \in consent
              /\ handler[t].at = "record" /\ handler[t].ok =>
                     decision[handler[t].item] = "approved"

\* The seconds slept, at each point of the loop.
LoopTime ==
    \A c \in Call :
        /\ stage[c] \in {"idle", "starting"} => elapsed[c] = 0
        /\ stage[c] = "sleeping" => elapsed[c] < PollTimeout

StepUpInv ==
    /\ TypeOK
    /\ CallFollowsKeycloak
    /\ VerdictsArePressed
    /\ LoopTime
    /\ TokenNeedsApproval
    /\ RecordedApprovalIsReal
    /\ WaitBounded

-----------------------------------------------------------------------------
\* A call ends with the timeout only if its last poll was answered before the
\* decision: an approval that Keycloak has when the call goes to sleep is never
\* answered by "timed out".
ApprovalInTimeIsServed ==
    \A c \in Call :
        (stage[c] = "sleeping" /\ decision[c] = "approved")
            ~> stage[c] \in Ended \ {"timedout"}

\* The step-up keeps the promise of CibaGrant, in every call at once.
Grant == INSTANCE CibaGrant WITH
    phase <- [c \in Call |->
                CASE stage[c] = "idle" -> "idle"
                  [] stage[c] = "token" -> "granted"
                  [] stage[c] \in {"denied", "timedout", "failed"} -> "refused"
                  [] OTHER -> "waiting"]

\* Every step of the poll loop, Keycloak, the channel and the humans is a step of
\* the promise or changes nothing it speaks of.
GrantSteps == Grant!GrantInit /\ [][Grant!GrantNext]_(Grant!grantVars)

\* And every call ends: the promise with its fairness.
ImplementsGrant == Grant!GrantSpec

\* What the timeout message says ("approve the pending request, and retry",
\* ciba_client.py:135): a call that begins when the request of a timed-out call
\* has been approved does not time out itself.
RetryUsesTheApproval ==
    \A c, d \in Call :
        (stage[c] = "timedout" /\ decision[c] = "approved" /\ stage[d] = "starting")
            ~> stage[d] \in Ended \ {"timedout"}
==============================================================================
