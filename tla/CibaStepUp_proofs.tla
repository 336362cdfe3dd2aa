-------------------------- MODULE CibaStepUp_proofs --------------------------
(***************************************************************************)
(* Proofs about CibaStepUp, for any number of calls and handler threads and *)
(* any poll timeout, interval and slow_down step.  StepUpInv is inductive;  *)
(* the safety properties are its conjuncts, and with it every step of the   *)
(* step-up is a step of CibaGrant or changes nothing CibaGrant speaks of.   *)
(***************************************************************************)
EXTENDS CibaStepUp, TLAPS

-----------------------------------------------------------------------------
(* Type correctness, one lemma per component. *)

LEMMA InitTypeOK == Init => TypeOK
<1> SUFFICES ASSUME Init PROVE TypeOK
    OBVIOUS
<1>1. ClientTypeOK
    BY ClientAssumption DEF Init, ClientInit, ClientTypeOK, Stage, Answer
<1>2. ChannelTypeOK
    BY DEF Init, ChannelInit, ChannelTypeOK, Status
<1>3. KeycloakTypeOK
    BY DEF Init, KeycloakInit, KeycloakTypeOK, RequestState, Decision
<1>4. consent \subseteq Call
    BY DEF Init
<1> QED BY <1>1, <1>2, <1>3, <1>4 DEF TypeOK

\* Whatever seconds are compared, the loop head sleeps or times out.
LEMMA LoopHeadStage == ASSUME NEW s PROVE LoopHead(s) \in {"sleeping", "timedout"}
BY DEF LoopHead

LEMMA AfterStage ==
    ASSUME NEW reply, NEW s PROVE After(reply, s) \in {"sleeping"} \cup Ended
BY LoopHeadStage DEF After, Ended

LEMMA ClientStepType ==
    ASSUME ClientTypeOK, NEW c \in Call,
           \/ \E b \in BOOLEAN : Begin(c, b)
           \/ \E r \in Answer : Deliver(c, r)
           \/ Sleep(c)
           \/ \E r \in Received(c) : Resume(c, r)
    PROVE  ClientTypeOK'
<1> USE DEF ClientTypeOK, Stage, Posting, Ended
<1>1. ASSUME NEW b \in BOOLEAN, Begin(c, b) PROVE ClientTypeOK'
    BY <1>1 DEF Begin
<1>2. ASSUME NEW r \in Answer, Deliver(c, r) PROVE ClientTypeOK'
    BY <1>2 DEF Deliver
<1>3. CASE Sleep(c)
    BY <1>3 DEF Sleep
<1>4. ASSUME NEW r \in Received(c), Resume(c, r) PROVE ClientTypeOK'
    BY <1>4, AfterStage, ClientAssumption DEF Resume
<1> QED BY <1>1, <1>2, <1>3, <1>4

LEMMA KeycloakStepType ==
    ASSUME KeycloakTypeOK, NEW c \in Call,
           \/ \E from, to \in RequestState : RequestStep(c, from, to)
           \/ \E v \in Verdict : DecideBy(c, v)
           \/ \E r \in Answer : Replied(c, r)
    PROVE  KeycloakTypeOK'
BY DEF KeycloakTypeOK, RequestStep, DecideBy, Decided, Replied, RequestState, Decision

LEMMA ChannelStepType ==
    ASSUME ChannelTypeOK, NEW c \in Call, NEW t \in Thread,
           \/ Authn(c)
           \/ \E v \in Verdict : Take(t, c, v)
           \/ \E o \in {"accepted", "refused", "lost"} : CallbackReturns(t, o)
           \/ Record(t)
    PROVE  ChannelTypeOK'
<1> USE DEF ChannelTypeOK
<1>0. handler[t] \in {Idle} \cup Busy
    OBVIOUS
<1>1. CASE Authn(c)
    BY <1>1 DEF Authn, Status
<1>2. ASSUME NEW v \in Verdict, Take(t, c, v) PROVE ChannelTypeOK'
    <2>1. [at |-> "callback", item |-> c, verdict |-> v] \in Busy
        BY DEF Busy
    <2> QED BY <1>2, <2>1 DEF Take
<1>3. ASSUME NEW o \in {"accepted", "refused", "lost"}, CallbackReturns(t, o)
      PROVE  ChannelTypeOK'
    <2>1. handler[t].item \in Call /\ handler[t].verdict \in Verdict
        BY <1>0, <1>3 DEF CallbackReturns, Idle, Busy
    <2>2. [at |-> "record", item |-> handler[t].item, verdict |-> handler[t].verdict,
           ok |-> o = "accepted"] \in Busy
        BY <2>1 DEF Busy
    <2> QED BY <1>3, <2>2 DEF CallbackReturns
<1>4. CASE Record(t)
    <2>1. RecordedStatus(handler[t].verdict, handler[t].ok) \in Status
        BY DEF RecordedStatus, Status
    <2> QED BY <1>4, <2>1 DEF Record
<1> QED BY <1>1, <1>2, <1>3, <1>4

LEMMA NextTypeOK == TypeOK /\ [Next]_vars => TypeOK'
<1> SUFFICES ASSUME TypeOK, [Next]_vars PROVE TypeOK'
    OBVIOUS
<1> USE DEF TypeOK
<1>1. ASSUME NEW c \in Call, CallBegins(c) PROVE TypeOK'
    <2>1. ClientTypeOK'
        BY <1>1, ClientStepType DEF CallBegins
    <2>2. KeycloakTypeOK'
        BY <1>1, KeycloakStepType DEF CallBegins, Send, keycloakVars, KeycloakTypeOK,
                                      RequestState
    <2> QED BY <1>1, <2>1, <2>2 DEF CallBegins, channelVars, ChannelTypeOK
<1>2. ASSUME NEW c \in Call, Wait(c) \/ Return(c) PROVE TypeOK'
    <2>1. ClientTypeOK'
        BY <1>2, ClientStepType DEF Wait, Return
    <2> QED BY <1>2, <2>1 DEF Wait, Return, channelVars, keycloakVars, ChannelTypeOK,
                              KeycloakTypeOK
<1>3. ASSUME NEW c \in Call, KeycloakOpens(c) PROVE TypeOK'
    <2>1. ClientTypeOK'
        BY <1>3, ClientStepType DEF KeycloakOpens, clientVars, ClientTypeOK, Answer
    <2>2. KeycloakTypeOK'
        BY <1>3, KeycloakStepType DEF KeycloakOpens, Opened, RequestState
    <2>3. ChannelTypeOK'
        <3>1. CASE Authn(c)
            BY <3>1 DEF ChannelTypeOK, Authn, Status
        <3>2. CASE UNCHANGED channelVars
            BY <3>2 DEF channelVars, ChannelTypeOK
        <3> QED BY <1>3, <3>1, <3>2 DEF KeycloakOpens
    <2> QED BY <1>3, <2>1, <2>2, <2>3 DEF KeycloakOpens
<1>4. ASSUME NEW c \in Call, KeycloakAnswers(c) PROVE TypeOK'
    <2>1. PICK r \in Replies(c) : Replied(c, r) /\ Deliver(c, r)
        BY <1>4 DEF KeycloakAnswers
    <2>2. r \in Answer
        BY DEF Replies, Answer
    <2> QED BY <1>4, <2>1, <2>2, ClientStepType, KeycloakStepType
            DEF KeycloakAnswers, channelVars, ChannelTypeOK
<1>5. ASSUME NEW c \in Call, Expires(c) PROVE TypeOK'
    <2>1. KeycloakTypeOK'
        BY <1>5, KeycloakStepType DEF Expires, Expire, RequestState
    <2> QED BY <1>5, <2>1 DEF Expires, clientVars, channelVars, ClientTypeOK,
                              ChannelTypeOK
<1>6. ASSUME NEW t \in Thread, PressLatest(t) \/ PressItem(t) PROVE TypeOK'
    <2>1. PICK c \in Call, v \in Verdict : Take(t, c, v) /\ Press(c, v)
        BY <1>6 DEF PressLatest, PressItem, ApproveLatest, FinishById, Verdict
    <2>2. ChannelTypeOK'
        BY <2>1, ChannelStepType
    <2> QED BY <2>1, <2>2 DEF Press, clientVars, keycloakVars, ClientTypeOK,
                              KeycloakTypeOK
<1>7. ASSUME NEW t \in Thread, CallbackDelivered(t) PROVE TypeOK'
    <2>1. handler[t].item \in Call /\ handler[t].verdict \in Verdict
        BY <1>7 DEF CallbackDelivered, ChannelTypeOK, Idle, Busy
    <2> QED BY <1>7, <2>1, ChannelStepType, KeycloakStepType
            DEF CallbackDelivered, clientVars, ClientTypeOK
<1>8. ASSUME NEW t \in Thread, CallbackFails(t) \/ RecordStatus(t) PROVE TypeOK'
    <2>1. PICK c \in Call : TRUE
        BY <1>8 DEF CallbackFails, CallbackReturns, RecordStatus, Record,
                    ChannelTypeOK, Idle, Busy
    <2>2. ChannelTypeOK'
        BY <1>8, <2>1, ChannelStepType DEF CallbackFails, RecordStatus
    <2> QED BY <1>8, <2>2 DEF CallbackFails, RecordStatus, clientVars, keycloakVars,
                              ClientTypeOK, KeycloakTypeOK
<1>9. CASE UNCHANGED vars
    BY <1>9 DEF vars, clientVars, channelVars, keycloakVars, ClientTypeOK,
                ChannelTypeOK, KeycloakTypeOK
<1> QED
    BY <1>1, <1>2, <1>3, <1>4, <1>5, <1>6, <1>7, <1>8, <1>9
    DEF Next, CallStep, KeycloakStep, ThreadStep

\* Every reachable state is well typed: CibaStepUp's variables hold what
\* fetch_access_token, the channel's items and threads, and Keycloak can hold.
THEOREM TypeCorrect == Spec => []TypeOK
<1> QED BY InitTypeOK, NextTypeOK, PTL DEF Spec

-----------------------------------------------------------------------------
(* The inductive invariant. *)

LEMMA InitInv == Init => StepUpInv
<1> SUFFICES ASSUME Init PROVE StepUpInv
    OBVIOUS
<1> USE DEF Init, ClientInit, ChannelInit, KeycloakInit
<1>1. CallFollowsKeycloak
    BY DEF CallFollowsKeycloak
<1>2. VerdictsArePressed
    BY DEF VerdictsArePressed, Idle
<1>3. LoopTime /\ WaitBounded
    BY ClientAssumption DEF LoopTime, WaitBounded
<1>4. TokenNeedsApproval /\ RecordedApprovalIsReal
    BY DEF TokenNeedsApproval, RecordedApprovalIsReal
<1> QED BY <1>1, <1>2, <1>3, <1>4, InitTypeOK DEF StepUpInv

\* An answer that ends a call well was Keycloak's, and only Resume reads it.
LEMMA ReturnInv ==
    ASSUME StepUpInv, TypeOK', NEW c \in Call, Return(c)
    PROVE  StepUpInv'
<1>1. PICK r \in Received(c) : Resume(c, r)
    BY DEF Return
<1> USE DEF StepUpInv, TypeOK, ClientTypeOK, KeycloakTypeOK, ChannelTypeOK
<1>2. UNCHANGED <<channelVars, keycloakVars, consent, elapsed>>
    BY <1>1 DEF Return, Resume
<1>3. /\ stage[c] \in Posting
      /\ stage' = [stage EXCEPT ![c] = After(r, elapsed[c])]
      /\ answer' = [answer EXCEPT ![c] = "none"]
    BY <1>1 DEF Resume
<1>4. r = "error" \/ (r = answer[c] /\ r # "none")
    BY DEF Received
<1>5. /\ After(r, elapsed[c]) = "token" => r = "token"
      /\ After(r, elapsed[c]) = "sleeping" => elapsed[c] < PollTimeout
      /\ r = "error" => After(r, elapsed[c]) = "failed"
      /\ After(r, elapsed[c]) \in {"sleeping"} \cup Ended
    <2>1. /\ r = "started" => After(r, elapsed[c]) = LoopHead(0)
          /\ r = "error" => After(r, elapsed[c]) = "failed"
          /\ r = "token" => After(r, elapsed[c]) = "token"
          /\ r = "denied" => After(r, elapsed[c]) = "denied"
          /\ r \notin {"started", "error", "token", "denied"} =>
                After(r, elapsed[c]) = LoopHead(elapsed[c])
        BY DEF After
    <2>2. r = "started" => elapsed[c] = 0
        BY <1>4 DEF CallFollowsKeycloak, LoopTime
    <2> QED BY <2>1, <2>2, AfterStage DEF LoopHead
<1>6. CallFollowsKeycloak'
    BY <1>2, <1>3, <1>4, <1>5 DEF CallFollowsKeycloak, keycloakVars, Ended, Posting
<1>7. VerdictsArePressed' /\ RecordedApprovalIsReal'
    BY <1>2 DEF VerdictsArePressed, RecordedApprovalIsReal, channelVars, keycloakVars
<1>8. LoopTime'
    BY <1>2, <1>3, <1>5 DEF LoopTime, Ended
<1>9. TokenNeedsApproval'
    BY <1>2, <1>3, <1>4, <1>5 DEF TokenNeedsApproval, CallFollowsKeycloak,
                                  VerdictsArePressed, keycloakVars
<1>10. WaitBounded'
    <2>1. \A d \in Call : interval[d] <= interval'[d]
        BY <1>1, ClientAssumption DEF Resume
    <2>2. \A d \in Call : interval'[d] \in Nat
        OBVIOUS
    <2> QED BY <1>2, <2>1, <2>2, ClientAssumption DEF WaitBounded
<1> QED BY <1>6, <1>7, <1>8, <1>9, <1>10

\* The other steps of a call and of Keycloak.
LEMMA CallInv ==
    ASSUME StepUpInv, TypeOK', NEW c \in Call,
           CallBegins(c) \/ Wait(c) \/ KeycloakStep(c)
    PROVE  StepUpInv'
<1> USE DEF StepUpInv, TypeOK, ClientTypeOK, KeycloakTypeOK, ChannelTypeOK
<1>1. CASE CallBegins(c)
    <2> USE <1>1 DEF CallBegins, Begin, Send, RequestStep, keycloakVars, channelVars
    <2>1. CallFollowsKeycloak'
        <3>1. CASE Begin(c, TRUE) /\ Send(c)
            BY <3>1 DEF CallFollowsKeycloak
        <3>2. CASE Begin(c, FALSE) /\ UNCHANGED keycloakVars
            BY <3>2 DEF CallFollowsKeycloak
        <3> QED BY <3>1, <3>2
    <2>2. VerdictsArePressed' /\ RecordedApprovalIsReal'
        BY DEF VerdictsArePressed, RecordedApprovalIsReal
    <2>3. LoopTime' /\ WaitBounded' /\ TokenNeedsApproval'
        BY DEF LoopTime, WaitBounded, TokenNeedsApproval
    <2> QED BY <2>1, <2>2, <2>3
<1>2. CASE Wait(c)
    <2> USE <1>2 DEF Wait, Sleep, keycloakVars, channelVars
    <2>1. CallFollowsKeycloak'
        BY DEF CallFollowsKeycloak
    <2>2. VerdictsArePressed' /\ RecordedApprovalIsReal'
        BY DEF VerdictsArePressed, RecordedApprovalIsReal
    <2>3. LoopTime' /\ TokenNeedsApproval'
        BY DEF LoopTime, TokenNeedsApproval
    <2>4. WaitBounded'
        BY ClientAssumption DEF LoopTime, WaitBounded
    <2> QED BY <2>1, <2>2, <2>3, <2>4
<1>3. CASE KeycloakOpens(c)
    <2>1. /\ request[c] = "sent" /\ UNCHANGED <<stage, interval, elapsed, decision>>
          /\ UNCHANGED <<handler, consent>>
          /\ request' \in {[request EXCEPT ![c] = "open"], [request EXCEPT ![c] = "closed"]}
          /\ answer' = answer \/
             (stage[c] \in Posting /\ answer' = [answer EXCEPT ![c] = "started"])
          /\ status' = status \/ status' = [status EXCEPT ![c] = "pending"]
        BY <1>3 DEF KeycloakOpens, Opened, RequestStep, Deliver, Authn, clientVars,
                    channelVars
    <2>2. CallFollowsKeycloak'
        BY <2>1 DEF CallFollowsKeycloak, Posting
    <2>3. VerdictsArePressed'
        BY <2>1 DEF VerdictsArePressed
    <2>4. RecordedApprovalIsReal'
        BY <2>1 DEF RecordedApprovalIsReal
    <2>5. LoopTime' /\ WaitBounded' /\ TokenNeedsApproval'
        BY <2>1 DEF LoopTime, WaitBounded, TokenNeedsApproval
    <2> QED BY <2>2, <2>3, <2>4, <2>5
<1>4. CASE KeycloakAnswers(c)
    <2>1. PICK r \in Replies(c) : Replied(c, r) /\ Deliver(c, r)
        BY <1>4 DEF KeycloakAnswers
    <2>2. r \notin {"none", "started"} /\ (r = "token" => decision[c] = "approved")
        BY DEF Replies
    <2>3. /\ stage[c] = "polling" /\ UNCHANGED <<stage, interval, elapsed, decision>>
          /\ UNCHANGED <<channelVars, consent>>
          /\ answer' = [answer EXCEPT ![c] = r]
          /\ request' \in {request, [request EXCEPT ![c] = "closed"]}
        BY <1>4, <2>1 DEF KeycloakAnswers, Replied, Deliver, Posting
    <2>4. CallFollowsKeycloak'
        BY <2>2, <2>3 DEF CallFollowsKeycloak
    <2>5. VerdictsArePressed' /\ RecordedApprovalIsReal'
        BY <2>3 DEF VerdictsArePressed, RecordedApprovalIsReal, channelVars
    <2>6. LoopTime' /\ WaitBounded' /\ TokenNeedsApproval'
        BY <2>3 DEF LoopTime, WaitBounded, TokenNeedsApproval
    <2> QED BY <2>4, <2>5, <2>6
<1>5. CASE Expires(c)
    <2> USE <1>5 DEF Expires, Expire, RequestStep, clientVars, channelVars
    <2>1. CallFollowsKeycloak'
        BY DEF CallFollowsKeycloak
    <2>2. VerdictsArePressed' /\ RecordedApprovalIsReal'
        BY DEF VerdictsArePressed, RecordedApprovalIsReal
    <2>3. LoopTime' /\ WaitBounded' /\ TokenNeedsApproval'
        BY DEF LoopTime, WaitBounded, TokenNeedsApproval
    <2> QED BY <2>1, <2>2, <2>3
<1> QED BY <1>1, <1>2, <1>3, <1>4, <1>5 DEF KeycloakStep

\* The humans and the handler threads.
LEMMA ThreadInv ==
    ASSUME StepUpInv, TypeOK', NEW t \in Thread,
           PressLatest(t) \/ PressItem(t) \/ ThreadStep(t)
    PROVE  StepUpInv'
<1> USE DEF StepUpInv, TypeOK, ClientTypeOK, KeycloakTypeOK, ChannelTypeOK
<1>1. handler[t] \in {Idle} \cup Busy
    OBVIOUS
<1>2. UNCHANGED clientVars
    BY DEF PressLatest, PressItem, Press, ThreadStep, CallbackDelivered, CallbackFails,
           RecordStatus
<1>3. LoopTime' /\ WaitBounded'
    BY <1>2 DEF clientVars, LoopTime, WaitBounded
<1>4. CASE PressLatest(t) \/ PressItem(t)
    <2>1. PICK c \in Call, v \in Verdict : Take(t, c, v) /\ Press(c, v)
        BY <1>4 DEF PressLatest, PressItem, ApproveLatest, FinishById, Verdict
    <2> USE <2>1 DEF Take, Press, clientVars, keycloakVars
    <2>2. CallFollowsKeycloak' /\ TokenNeedsApproval' /\ RecordedApprovalIsReal'
        BY DEF CallFollowsKeycloak, TokenNeedsApproval, RecordedApprovalIsReal
    <2>3. VerdictsArePressed'
        BY DEF VerdictsArePressed
    <2> QED BY <1>3, <2>2, <2>3
<1>5. CASE CallbackDelivered(t)
    <2> DEFINE item == handler[t].item
               verdict == handler[t].verdict
    <2>1. item \in Call /\ verdict \in Verdict /\ handler[t].at = "callback"
        BY <1>1, <1>5 DEF CallbackDelivered, Idle, Busy
    <2>2. /\ decision[item] = "none" /\ request[item] = "open"
          /\ decision' = [decision EXCEPT ![item] = Decided(verdict)]
          /\ UNCHANGED <<request, consent, status>>
          /\ handler' \in {[handler EXCEPT ![t] = Idle],
                           [handler EXCEPT ![t] = [at |-> "record", item |-> item,
                                                   verdict |-> verdict, ok |-> TRUE]]}
        BY <1>5 DEF CallbackDelivered, CallbackReturns, DecideBy, Undecided
    <2>3. \A d \in Call : decision[d] = "approved" => decision'[d] = "approved"
        BY <2>1, <2>2
    <2>4. CallFollowsKeycloak' /\ TokenNeedsApproval' /\ RecordedApprovalIsReal'
        BY <1>2, <2>2, <2>3 DEF CallFollowsKeycloak, TokenNeedsApproval,
                                RecordedApprovalIsReal, clientVars
    <2>5. \A d \in Call : decision'[d] = "approved" => d \in consent'
        BY <2>1, <2>2 DEF VerdictsArePressed, Decided
    <2>6. ASSUME NEW u \in Thread, handler'[u].at # "idle",
                 handler'[u].verdict = "SUCCEED"
          PROVE  /\ handler'[u].item \in consent'
                 /\ handler'[u].at = "record" /\ handler'[u].ok =>
                        decision'[handler'[u].item] = "approved"
        <3>1. CASE u = t
            <4>1. handler'[t] = [at |-> "record", item |-> item, verdict |-> verdict,
                                 ok |-> TRUE]
                BY <2>2, <2>6, <3>1 DEF Idle
            <4> QED BY <2>1, <2>2, <2>6, <3>1, <4>1 DEF VerdictsArePressed, Decided
        <3>2. CASE u # t
            <4>1. handler'[u] = handler[u]
                BY <2>2, <3>2
            <4>2. handler[u].item \in Call
                BY <2>6, <4>1 DEF Idle, Busy
            <4> QED BY <2>2, <2>3, <2>6, <4>1, <4>2 DEF VerdictsArePressed
        <3> QED BY <3>1, <3>2
    <2> QED BY <1>3, <2>4, <2>5, <2>6 DEF VerdictsArePressed
<1>6. CASE CallbackFails(t)
    <2>1. /\ UNCHANGED <<keycloakVars, consent, status>>
          /\ handler[t].at = "callback"
          /\ handler' \in {[handler EXCEPT ![t] = Idle],
                           [handler EXCEPT ![t] =
                               [at |-> "record", item |-> handler[t].item,
                                verdict |-> handler[t].verdict, ok |-> FALSE]]}
        BY <1>6 DEF CallbackFails, CallbackReturns
    <2>2. CallFollowsKeycloak' /\ TokenNeedsApproval' /\ RecordedApprovalIsReal'
        BY <1>2, <2>1 DEF CallFollowsKeycloak, TokenNeedsApproval,
                          RecordedApprovalIsReal, clientVars, keycloakVars
    <2>3. ASSUME NEW u \in Thread, handler'[u].at # "idle",
                 handler'[u].verdict = "SUCCEED"
          PROVE  /\ handler'[u].item \in consent
                 /\ handler'[u].at = "record" /\ handler'[u].ok =>
                        decision[handler'[u].item] = "approved"
        <3>1. CASE u = t
            <4>1. handler'[t] = [at |-> "record", item |-> handler[t].item,
                                 verdict |-> handler[t].verdict, ok |-> FALSE]
                BY <2>1, <2>3, <3>1 DEF Idle
            <4> QED BY <2>1, <2>3, <3>1, <4>1 DEF VerdictsArePressed
        <3>2. CASE u # t
            BY <2>1, <2>3, <3>2 DEF VerdictsArePressed
        <3> QED BY <3>1, <3>2
    <2>4. VerdictsArePressed'
        BY <2>1, <2>3 DEF VerdictsArePressed, keycloakVars
    <2> QED BY <1>3, <2>2, <2>4
<1>7. CASE RecordStatus(t)
    <2>1. handler[t].item \in Call /\ handler[t].ok \in BOOLEAN
          /\ handler[t].at = "record"
        BY <1>1, <1>7 DEF RecordStatus, Record, Idle, Busy
    <2>2. /\ UNCHANGED <<keycloakVars, consent>>
          /\ handler' = [handler EXCEPT ![t] = Idle]
          /\ status' = [status EXCEPT ![handler[t].item] =
                          RecordedStatus(handler[t].verdict, handler[t].ok)]
        BY <1>7 DEF RecordStatus, Record
    <2>3. CallFollowsKeycloak' /\ TokenNeedsApproval'
        BY <1>2, <2>2 DEF CallFollowsKeycloak, TokenNeedsApproval, clientVars,
                          keycloakVars
    <2>4. VerdictsArePressed'
        BY <2>2 DEF VerdictsArePressed, keycloakVars, Idle
    <2>5. RecordedStatus(handler[t].verdict, handler[t].ok) = "approved" =>
              decision[handler[t].item] = "approved"
        BY <2>1 DEF RecordedStatus, VerdictsArePressed
    <2>6. RecordedApprovalIsReal'
        BY <2>1, <2>2, <2>5 DEF RecordedApprovalIsReal, keycloakVars
    <2> QED BY <1>3, <2>3, <2>4, <2>6
<1> QED BY <1>4, <1>5, <1>6, <1>7 DEF ThreadStep

LEMMA NextInv == StepUpInv /\ [Next]_vars => StepUpInv'
<1> SUFFICES ASSUME StepUpInv, [Next]_vars PROVE StepUpInv'
    OBVIOUS
<1>1. TypeOK'
    BY NextTypeOK DEF StepUpInv
<1>2. CASE \E c \in Call : CallBegins(c) \/ Wait(c) \/ KeycloakStep(c)
    BY <1>1, <1>2, CallInv
<1>3. CASE \E c \in Call : Return(c)
    BY <1>1, <1>3, ReturnInv
<1>4. CASE \E t \in Thread : PressLatest(t) \/ PressItem(t) \/ ThreadStep(t)
    BY <1>1, <1>4, ThreadInv
<1>5. CASE UNCHANGED vars
    BY <1>1, <1>5 DEF vars, clientVars, channelVars, keycloakVars, StepUpInv,
        CallFollowsKeycloak, VerdictsArePressed, LoopTime, TokenNeedsApproval,
        RecordedApprovalIsReal, WaitBounded
<1> QED BY <1>2, <1>3, <1>4, <1>5 DEF Next, CallStep

\* The step-up's invariant holds in every reachable state.
THEOREM InvariantHolds == Spec => []StepUpInv
<1> QED BY InitInv, NextInv, PTL DEF Spec

\* fetch_access_token returns a token only for a request somebody pressed Approve
\* for and Keycloak took as approved.
THEOREM TokenApproved == Spec => []TokenNeedsApproval
<1>1. StepUpInv => TokenNeedsApproval
    BY DEF StepUpInv
<1> QED BY <1>1, InvariantHolds, PTL

\* An item of the approval channel that is recorded as approved was approved in
\* Keycloak, whatever other presses were in progress.
THEOREM ApprovalRecorded == Spec => []RecordedApprovalIsReal
<1>1. StepUpInv => RecordedApprovalIsReal
    BY DEF StepUpInv
<1> QED BY <1>1, InvariantHolds, PTL

\* The poll loop sleeps less than its timeout plus one interval, whatever
\* interval Keycloak asks for and however often it asks to slow down.
THEOREM SleepBounded == Spec => []WaitBounded
<1>1. StepUpInv => WaitBounded
    BY DEF StepUpInv
<1> QED BY <1>1, InvariantHolds, PTL

-----------------------------------------------------------------------------
(* The step-up implements CibaGrant, step by step. *)

\* Calls whose stage does not change keep their phase.
LEMMA SamePhase ==
    ASSUME UNCHANGED stage PROVE UNCHANGED Grant!grantVars <=> UNCHANGED decision
BY DEF Grant!grantVars

LEMMA InitGrant == Init => Grant!GrantInit
BY DEF Init, ClientInit, KeycloakInit, Grant!GrantInit

\* One call moves, to a stage that is a new phase or not.
LEMMA StageStep ==
    ASSUME TypeOK, NEW c \in Call, NEW s \in Stage, UNCHANGED decision,
           stage' = [stage EXCEPT ![c] = s],
           \/ stage[c] = "idle" /\ s \in {"starting", "failed"}
           \/ /\ stage[c] \in {"starting", "sleeping", "polling"} /\ s # "idle"
              /\ s = "token" => decision[c] = "approved"
    PROVE  [Grant!GrantNext]_(Grant!grantVars)
<1> DEFINE phase(st) == CASE st = "idle" -> "idle"
                          [] st = "token" -> "granted"
                          [] st \in {"denied", "timedout", "failed"} -> "refused"
                          [] OTHER -> "waiting"
           before == [d \in Call |-> phase(stage[d])]
           after == [d \in Call |-> phase(stage'[d])]
<1>1. after = [before EXCEPT ![c] = phase(s)]
    BY DEF TypeOK, ClientTypeOK
<1>2. before[c] = phase(stage[c])
    OBVIOUS
<1>3. /\ phase("idle") = "idle" /\ phase("token") = "granted"
      /\ \A st \in {"denied", "timedout", "failed"} : phase(st) = "refused"
      /\ \A st \in {"starting", "sleeping", "polling"} : phase(st) = "waiting"
    OBVIOUS
<1> HIDE DEF phase
<1>4. CASE stage[c] = "idle"
    <2>1. before[c] = "idle" /\ phase(s) \in {"waiting", "refused"}
        BY <1>2, <1>3, <1>4
    <2>2. Grant!Ask(c)
        BY <1>1, <2>1 DEF Grant!Ask, phase, before, after
    <2> QED BY <2>2 DEF Grant!GrantNext
<1>5. CASE stage[c] \in {"starting", "sleeping", "polling"}
    <2>1. before[c] = "waiting"
        BY <1>2, <1>3, <1>5
    <2>2. CASE s = "token"
        <3>1. Grant!Grant(c)
            BY <1>1, <1>3, <2>1, <2>2 DEF Grant!Grant, phase, before, after
        <3> QED BY <3>1 DEF Grant!GrantNext, Grant!GrantStep
    <2>3. CASE s \in {"denied", "timedout", "failed"}
        <3>1. Grant!Refuse(c)
            BY <1>1, <1>3, <2>1, <2>3 DEF Grant!Refuse, phase, before, after
        <3> QED BY <3>1 DEF Grant!GrantNext, Grant!GrantStep
    <2>4. CASE s \in {"starting", "sleeping", "polling"}
        <3>1. after = before
            BY <1>1, <1>3, <2>1, <2>4
        <3> QED BY <3>1 DEF Grant!grantVars, phase, before, after
    <2> QED BY <1>5, <2>2, <2>3, <2>4 DEF Stage, Posting, Ended
<1> QED BY <1>4, <1>5

\* A decision reaches Keycloak: only for a request that was opened, once.
LEMMA DecisionStep ==
    ASSUME StepUpInv, NEW c \in Call, NEW v \in Verdict, DecideBy(c, v),
           UNCHANGED stage
    PROVE  Grant!GrantNext
<1>1. /\ stage[c] # "idle" /\ decision[c] = "none"
      /\ decision' = [decision EXCEPT ![c] = Decided(v)]
    BY DEF DecideBy, Undecided, StepUpInv, CallFollowsKeycloak
<1>2. Decided(v) \in Grant!Decision \ {"none"}
    BY DEF Decided, Grant!Decision
<1>3. Grant!Decide(c, Decided(v))
    BY <1>1 DEF Grant!Decide
<1> QED BY <1>2, <1>3 DEF Grant!GrantNext

LEMMA NextGrant ==
    StepUpInv /\ [Next]_vars => [Grant!GrantNext]_(Grant!grantVars)
<1> SUFFICES ASSUME StepUpInv, [Next]_vars PROVE [Grant!GrantNext]_(Grant!grantVars)
    OBVIOUS
<1>0. TypeOK
    BY DEF StepUpInv
<1>1. ASSUME NEW c \in Call, CallBegins(c) PROVE [Grant!GrantNext]_(Grant!grantVars)
    <2>1. PICK s \in {"starting", "failed"} :
              /\ stage[c] = "idle" /\ stage' = [stage EXCEPT ![c] = s]
              /\ UNCHANGED decision
        BY <1>1 DEF CallBegins, Begin, Send, RequestStep, keycloakVars
    <2> QED BY <1>0, <2>1, StageStep DEF Stage, Posting, Ended
<1>2. ASSUME NEW c \in Call, Wait(c) PROVE [Grant!GrantNext]_(Grant!grantVars)
    BY <1>0, <1>2, StageStep DEF Wait, Sleep, keycloakVars, Stage, Posting, Ended
<1>3. ASSUME NEW c \in Call, Return(c) PROVE [Grant!GrantNext]_(Grant!grantVars)
    <2>1. PICK r \in Received(c) : Resume(c, r)
        BY <1>3 DEF Return
    <2> DEFINE s == After(r, elapsed[c])
    <2>2. s \in {"sleeping"} \cup Ended
        BY AfterStage
    <2>3. s = "token" => decision[c] = "approved"
        BY LoopHeadStage DEF After, Received, StepUpInv, CallFollowsKeycloak
    <2>4. /\ stage[c] \in Posting /\ stage' = [stage EXCEPT ![c] = s]
          /\ UNCHANGED decision
        BY <1>3, <2>1 DEF Return, Resume, keycloakVars
    <2> HIDE DEF s
    <2> QED BY <1>0, <2>2, <2>3, <2>4, StageStep DEF Stage, Posting, Ended
<1>4. ASSUME NEW c \in Call, KeycloakStep(c)
      PROVE  [Grant!GrantNext]_(Grant!grantVars)
    <2>1. UNCHANGED <<stage, decision>>
        BY <1>4 DEF KeycloakStep, KeycloakOpens, KeycloakAnswers, Expires, Opened,
                    RequestStep, Replied, Expire, Deliver, clientVars
    <2> QED BY <2>1, SamePhase
<1>5. ASSUME NEW t \in Thread,
             PressLatest(t) \/ PressItem(t) \/ CallbackFails(t) \/ RecordStatus(t)
      PROVE  [Grant!GrantNext]_(Grant!grantVars)
    <2>1. UNCHANGED <<stage, decision>>
        BY <1>5 DEF PressLatest, PressItem, Press, CallbackFails, RecordStatus,
                    clientVars, keycloakVars
    <2> QED BY <2>1, SamePhase
<1>6. ASSUME NEW t \in Thread, CallbackDelivered(t)
      PROVE  [Grant!GrantNext]_(Grant!grantVars)
    <2>1. handler[t].item \in Call /\ handler[t].verdict \in Verdict
        BY <1>0, <1>6 DEF TypeOK, ChannelTypeOK, CallbackDelivered, Idle, Busy
    <2> QED BY <1>6, <2>1, DecisionStep DEF CallbackDelivered, clientVars
<1>7. CASE UNCHANGED vars
    BY <1>7, SamePhase DEF vars, clientVars, keycloakVars
<1> QED
    BY <1>1, <1>2, <1>3, <1>4, <1>5, <1>6, <1>7 DEF Next, CallStep, ThreadStep

\* Whatever Keycloak, the channel and the humans do, a call is granted only on an
\* approval, ends once, and its request is decided at most once.
THEOREM StepUpImplementsGrant == Spec => GrantSteps
<1>1. Init /\ [][Next]_vars /\ []StepUpInv =>
          Grant!GrantInit /\ [][Grant!GrantNext]_(Grant!grantVars)
    BY InitGrant, NextGrant, PTL
<1> QED BY <1>1, InvariantHolds, PTL DEF Spec, GrantSteps
-----------------------------------------------------------------------------
(* Progress: every step of the poll loop brings its end nearer. *)

\* The seconds the loop may still sleep.
SleepLeft(c) == IF elapsed[c] < PollTimeout THEN PollTimeout - elapsed[c] ELSE 0

\* A bound on the steps the call has left: a sleep and a poll for each second.
StepsLeft(c) ==
    CASE stage[c] = "idle"     -> 2 * PollTimeout + 2
      [] stage[c] = "starting" -> 2 * PollTimeout + 1
      [] stage[c] = "sleeping" -> 2 * SleepLeft(c)
      [] stage[c] = "polling"  -> 2 * SleepLeft(c) + 1
      [] OTHER                 -> 0

\* No step of anybody gives a call more to do, and each of its own leaves it less.
NearerTheEnd ==
    \A c \in Call :
        /\ StepsLeft(c)' <= StepsLeft(c)
        /\ CallStep(c) => StepsLeft(c)' < StepsLeft(c)

LEMMA StepsLeftType ==
    ASSUME ClientTypeOK, NEW c \in Call
    PROVE  SleepLeft(c) \in Nat /\ StepsLeft(c) \in Nat
<1>1. elapsed[c] \in Nat
    BY DEF ClientTypeOK
<1>2. SleepLeft(c) \in Nat
    BY <1>1, ClientAssumption DEF SleepLeft
<1> QED BY <1>2, ClientAssumption DEF StepsLeft

\* A call nothing happens to has as much left as before.
LEMMA StepsKept ==
    ASSUME ClientTypeOK, NEW c \in Call,
           stage'[c] = stage[c], elapsed'[c] = elapsed[c]
    PROVE  StepsLeft(c)' = StepsLeft(c)
BY DEF StepsLeft, SleepLeft

\* The sleep: at least one second of the timeout is gone.
LEMMA WaitNearer ==
    ASSUME StepUpInv, NEW c \in Call, Wait(c)
    PROVE  StepsLeft(c)' < StepsLeft(c)
<1>1. /\ elapsed[c] \in Nat /\ interval[c] \in Nat \ {0}
      /\ stage[c] = "sleeping" /\ stage'[c] = "polling"
      /\ elapsed'[c] = elapsed[c] + interval[c]
    BY DEF Wait, Sleep, StepUpInv, TypeOK, ClientTypeOK
<1>2. elapsed[c] < PollTimeout
    BY <1>1 DEF StepUpInv, LoopTime
<1>3. SleepLeft(c)' < SleepLeft(c) /\ SleepLeft(c) \in Nat /\ SleepLeft(c)' \in Nat
    BY <1>1, <1>2, ClientAssumption DEF SleepLeft
<1> QED BY <1>1, <1>3 DEF StepsLeft

\* The answer to a POST: the call sleeps again if there is time, or it ends.
LEMMA ReturnNearer ==
    ASSUME StepUpInv, NEW c \in Call, Return(c)
    PROVE  StepsLeft(c)' < StepsLeft(c)
<1>1. PICK r \in Received(c) : Resume(c, r)
    BY DEF Return
<1>2. /\ elapsed[c] \in Nat /\ elapsed'[c] = elapsed[c]
      /\ stage[c] \in Posting /\ stage'[c] = After(r, elapsed[c])
    BY <1>1 DEF Resume, StepUpInv, TypeOK, ClientTypeOK
<1>3. SleepLeft(c)' = SleepLeft(c) /\ SleepLeft(c) \in Nat
    BY <1>2, ClientAssumption DEF SleepLeft
<1>4. stage'[c] \in {"sleeping"} \cup Ended
    BY <1>2, AfterStage
<1>5. CASE stage[c] = "starting"
    <2>1. SleepLeft(c) <= PollTimeout
        BY <1>2, ClientAssumption DEF SleepLeft
    <2> QED BY <1>3, <1>4, <1>5, <2>1, ClientAssumption DEF StepsLeft, Ended
<1>6. CASE stage[c] = "polling"
    BY <1>3, <1>4, <1>6 DEF StepsLeft, Ended
<1> QED BY <1>2, <1>5, <1>6 DEF Posting

\* The other steps: only the call's beginning changes what it has left.
LEMMA OthersNearer ==
    ASSUME StepUpInv, NEW c \in Call, [Next]_vars, ~CallStep(c)
    PROVE  StepsLeft(c)' <= StepsLeft(c)
<1> USE DEF StepUpInv, TypeOK
<1>1. CASE CallBegins(c)
    <2>1. stage[c] = "idle" /\ stage'[c] \in {"starting", "failed"}
        BY <1>1 DEF CallBegins, Begin, ClientTypeOK
    <2> QED BY <2>1, ClientAssumption DEF StepsLeft
<1>2. CASE ~CallBegins(c)
    <2>1. ASSUME NEW d \in Call, d # c, CallBegins(d) \/ CallStep(d)
          PROVE  stage'[c] = stage[c] /\ elapsed'[c] = elapsed[c]
        BY <2>1 DEF CallBegins, Begin, CallStep, Wait, Sleep, Return, Resume,
                    ClientTypeOK
    <2>2. ASSUME NEW d \in Call, KeycloakStep(d) PROVE UNCHANGED <<stage, elapsed>>
        BY <2>2 DEF KeycloakStep, KeycloakOpens, KeycloakAnswers, Expires, Deliver,
                    clientVars
    <2>3. ASSUME NEW t \in Thread, PressLatest(t) \/ PressItem(t) \/ ThreadStep(t)
          PROVE  UNCHANGED <<stage, elapsed>>
        BY <2>3 DEF PressLatest, PressItem, Press, ThreadStep, CallbackDelivered,
                    CallbackFails, RecordStatus, clientVars
    <2>4. ASSUME UNCHANGED vars PROVE UNCHANGED <<stage, elapsed>>
        BY <2>4 DEF vars, clientVars
    <2>5. stage'[c] = stage[c] /\ elapsed'[c] = elapsed[c]
        BY <1>2, <2>1, <2>2, <2>3, <2>4 DEF Next
    <2>6. StepsLeft(c)' = StepsLeft(c)
        BY <2>5, StepsKept
    <2>7. StepsLeft(c) \in Nat
        BY StepsLeftType
    <2> QED BY <2>6, <2>7
<1> QED BY <1>1, <1>2

LEMMA NextNearer == StepUpInv /\ [Next]_vars => [NearerTheEnd]_vars
<1> SUFFICES ASSUME StepUpInv, [Next]_vars PROVE NearerTheEnd
    OBVIOUS
<1>1. TypeOK'
    BY NextTypeOK DEF StepUpInv
<1> SUFFICES ASSUME NEW c \in Call
             PROVE  /\ StepsLeft(c)' <= StepsLeft(c)
                    /\ CallStep(c) => StepsLeft(c)' < StepsLeft(c)
    BY DEF NearerTheEnd
<1>2. StepsLeft(c) \in Nat /\ StepsLeft(c)' \in Nat
    <2>1. StepsLeft(c) \in Nat
        BY StepsLeftType DEF StepUpInv, TypeOK
    <2>2. elapsed'[c] \in Nat
        BY <1>1 DEF TypeOK, ClientTypeOK
    <2>3. SleepLeft(c)' \in Nat
        BY <2>2, ClientAssumption DEF SleepLeft
    <2>4. StepsLeft(c)' \in Nat
        BY <2>3, ClientAssumption DEF StepsLeft
    <2> QED BY <2>1, <2>4
<1>3. CASE CallStep(c)
    <2>1. StepsLeft(c)' < StepsLeft(c)
        BY <1>3, WaitNearer, ReturnNearer DEF CallStep
    <2> QED BY <1>2, <2>1
<1>4. CASE ~CallStep(c)
    BY <1>4, OthersNearer
<1> QED BY <1>3, <1>4

\* fetch_access_token's loop ends by itself: each sleep and each poll uses up what
\* is left of the poll timeout, and neither Keycloak's slow_down, nor other calls,
\* nor the humans give any of it back.  It takes at most 2 * PollTimeout + 2 steps.
THEOREM PollLoopProgresses == Spec => [][NearerTheEnd]_vars
<1> QED BY InvariantHolds, NextNearer, PTL DEF Spec

-----------------------------------------------------------------------------
(* Liveness: an approval that is in time is served. *)

\* fetch_access_token has posted its request and has not returned.
UnderWay(c) == stage[c] \in {"sleeping"} \cup Posting

\* A call under way can always be resumed: by the end of its sleep, by an answer,
\* or by httpx's timeout.
Resumable(c) == UnderWay(c) => ENABLED <<CallStep(c)>>_vars
AlwaysResumable(c) == []Resumable(c)

\* The event loop resumes the call again and again while it is under way.
Resumed(c) == []<>~UnderWay(c) \/ []<><<CallStep(c)>>_vars

Asleep(c) == stage[c] = "sleeping" /\ decision[c] = "approved"

\* The poll is on its way, or an answer of Keycloak that knows the approval.
PollApproved(c) ==
    /\ stage[c] = "polling" /\ decision[c] = "approved"
    /\ answer[c] \in {"none", "token", "denied"}

Served(c) == stage[c] \in Ended \ {"timedout"}

\* A call that sleeps holds no answer: the one to its last poll was consumed.
NoAnswerAsleep == \A c \in Call : stage[c] = "sleeping" => answer[c] = "none"

LEMMA InitNoAnswer == Init => NoAnswerAsleep
BY DEF Init, ClientInit, NoAnswerAsleep

LEMMA NextNoAnswer == TypeOK /\ NoAnswerAsleep /\ [Next]_vars => NoAnswerAsleep'
<1> SUFFICES ASSUME TypeOK, NoAnswerAsleep, [Next]_vars PROVE NoAnswerAsleep'
    OBVIOUS
<1> USE DEF TypeOK, ClientTypeOK, NoAnswerAsleep
<1>1. ASSUME NEW c \in Call, CallBegins(c) PROVE NoAnswerAsleep'
    BY <1>1 DEF CallBegins, Begin
<1>2. ASSUME NEW c \in Call, Wait(c) PROVE NoAnswerAsleep'
    BY <1>2 DEF Wait, Sleep
<1>3. ASSUME NEW c \in Call, Return(c) PROVE NoAnswerAsleep'
    BY <1>3 DEF Return, Resume
<1>4. ASSUME NEW c \in Call, KeycloakStep(c) PROVE NoAnswerAsleep'
    BY <1>4 DEF KeycloakStep, KeycloakOpens, KeycloakAnswers, Expires, Deliver,
                clientVars, Posting
<1>5. ASSUME NEW t \in Thread, PressLatest(t) \/ PressItem(t) \/ ThreadStep(t)
      PROVE  NoAnswerAsleep'
    BY <1>5 DEF PressLatest, PressItem, Press, ThreadStep, CallbackDelivered,
                CallbackFails, RecordStatus, clientVars
<1>6. CASE UNCHANGED vars
    BY <1>6 DEF vars, clientVars
<1> QED BY <1>1, <1>2, <1>3, <1>4, <1>5, <1>6 DEF Next, CallStep

LEMMA NoAnswerHolds == Spec => []NoAnswerAsleep
<1> QED BY TypeCorrect, InitNoAnswer, NextNoAnswer, PTL DEF Spec

\* What everybody but the call itself does to it while it sleeps and polls: at most
\* Keycloak answers its poll, and an approval stays one.
LEMMA OthersLeave ==
    ASSUME StepUpInv, NEW c \in Call, stage[c] \in {"sleeping", "polling"},
           decision[c] = "approved", [Next]_vars, ~CallStep(c)
    PROVE  /\ stage'[c] = stage[c] /\ decision'[c] = "approved"
           /\ \/ answer'[c] = answer[c]
              \/ stage[c] = "polling" /\ answer'[c] \in {"token", "denied"}
<1> USE DEF StepUpInv, TypeOK, ClientTypeOK, KeycloakTypeOK
<1> DEFINE Same == /\ stage'[c] = stage[c] /\ answer'[c] = answer[c]
                   /\ decision'[c] = decision[c]
<1>1. ASSUME NEW d \in Call, CallBegins(d) PROVE Same
    BY <1>1 DEF CallBegins, Begin, Send, RequestStep, keycloakVars
<1>2. ASSUME NEW d \in Call, CallStep(d) PROVE Same
    <2>1. d # c
        BY <1>2
    <2> QED BY <1>2, <2>1 DEF CallStep, Wait, Sleep, Return, Resume, keycloakVars
<1>3. ASSUME NEW d \in Call, KeycloakOpens(d) PROVE Same
    <2>1. request[d] = "sent"
        BY <1>3 DEF KeycloakOpens, Opened, RequestStep
    <2>2. d # c
        BY <2>1 DEF CallFollowsKeycloak
    <2> QED BY <1>3, <2>2 DEF KeycloakOpens, Opened, RequestStep, Deliver, clientVars
<1>4. ASSUME NEW d \in Call, KeycloakAnswers(d), d # c PROVE Same
    BY <1>4 DEF KeycloakAnswers, Replied, Deliver
<1>5. CASE KeycloakAnswers(c)
    <2>1. PICK r \in Replies(c) : Replied(c, r) /\ Deliver(c, r)
        BY <1>5 DEF KeycloakAnswers
    <2>2. r \in {"token", "denied"}
        BY DEF Replies
    <2>3. stage[c] = "polling"
        BY <1>5 DEF KeycloakAnswers
    <2> QED BY <2>1, <2>2, <2>3 DEF Replied, Deliver, Posting
<1>6. ASSUME NEW d \in Call, Expires(d) PROVE Same
    BY <1>6 DEF Expires, Expire, RequestStep, clientVars
<1>7. ASSUME NEW t \in Thread,
             PressLatest(t) \/ PressItem(t) \/ CallbackFails(t) \/ RecordStatus(t)
      PROVE  Same
    BY <1>7 DEF PressLatest, PressItem, Press, CallbackFails, RecordStatus, clientVars,
                keycloakVars
<1>8. ASSUME NEW t \in Thread, CallbackDelivered(t) PROVE Same
    <2>1. decision[handler[t].item] = "none"
        BY <1>8 DEF CallbackDelivered, DecideBy, Undecided
    <2> QED BY <1>8, <2>1 DEF CallbackDelivered, DecideBy, clientVars
<1>9. CASE UNCHANGED vars
    BY <1>9 DEF vars, clientVars, keycloakVars
<1> QED BY <1>1, <1>2, <1>3, <1>4, <1>5, <1>6, <1>7, <1>8, <1>9
        DEF Next, KeycloakStep, ThreadStep

\* The call wakes up: its poll will meet the approval.
LEMMA WakesToPoll ==
    ASSUME StepUpInv, NoAnswerAsleep, NEW c \in Call, Asleep(c), CallStep(c)
    PROVE  PollApproved(c)'
<1>1. Wait(c)
    BY DEF Asleep, CallStep, Return, Resume, Posting
<1> QED BY <1>1 DEF Asleep, PollApproved, Wait, Sleep, keycloakVars, NoAnswerAsleep,
                    StepUpInv, TypeOK, ClientTypeOK

\* The poll returns: with the token, or because the request is gone or the POST failed.
LEMMA PollReturnsServed ==
    ASSUME StepUpInv, NEW c \in Call, PollApproved(c), CallStep(c)
    PROVE  Served(c)'
<1>1. PICK r \in Received(c) : Resume(c, r)
    BY DEF PollApproved, CallStep, Wait, Sleep, Return
<1>2. r \in {"error", "token", "denied"}
    BY DEF PollApproved, Received
<1>3. After(r, elapsed[c]) \in {"failed", "token", "denied"}
    BY <1>2 DEF After
<1> QED BY <1>1, <1>3 DEF Resume, Served, Ended, StepUpInv, TypeOK, ClientTypeOK

LEMMA OneIsServed ==
    ASSUME NEW c \in Call
    PROVE  Spec /\ Resumed(c) => (Asleep(c) ~> Served(c))
<1> DEFINE Inv == StepUpInv /\ NoAnswerAsleep
<1>1. Spec => []Inv
    BY InvariantHolds, NoAnswerHolds, PTL
<1>2. Inv /\ Asleep(c) /\ [Next]_vars => Asleep(c)' \/ PollApproved(c)'
    BY WakesToPoll, OthersLeave DEF Asleep
<1>3. Inv /\ Asleep(c) /\ <<CallStep(c)>>_vars => PollApproved(c)'
    BY WakesToPoll
<1>4. Inv /\ PollApproved(c) /\ [Next]_vars => PollApproved(c)' \/ Served(c)'
    BY PollReturnsServed, OthersLeave DEF PollApproved
<1>5. Inv /\ PollApproved(c) /\ <<CallStep(c)>>_vars => Served(c)'
    BY PollReturnsServed
<1>6. Asleep(c) \/ PollApproved(c) => UnderWay(c)
    BY DEF Asleep, PollApproved, UnderWay, Posting
<1> HIDE DEF Inv
<1> QED BY <1>1, <1>2, <1>3, <1>4, <1>5, <1>6, PTL DEF Spec, Resumed

\* Weak fairness resumes a call under way again and again.
LEMMA FairnessResumes ==
    ASSUME NEW c \in Call
    PROVE  CallFairness(c) /\ AlwaysResumable(c) => Resumed(c)
<1> QED BY PTL DEF CallFairness, AlwaysResumable, Resumable, Resumed

\* An approval that Keycloak has when fetch_access_token goes to sleep is not
\* answered by "timed out": the call polls once more, whatever its timeout and
\* however many calls and presses there are.  That a call under way can be resumed
\* is a hypothesis: what is ENABLED only TLC can tell.
THEOREM ApprovalServed ==
    FairSpec /\ (\A c \in Call : AlwaysResumable(c)) => ApprovalInTimeIsServed
<1>1. ASSUME NEW c \in Call
      PROVE  Spec /\ CallFairness(c) /\ AlwaysResumable(c) => (Asleep(c) ~> Served(c))
    BY FairnessResumes, OneIsServed, PTL
<1> QED BY <1>1 DEF FairSpec, ApprovalInTimeIsServed, Asleep, Served
=============================================================================
