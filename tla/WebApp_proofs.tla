---------------------------- MODULE WebApp_proofs ----------------------------
(***************************************************************************)
(* Proofs about WebApp, for every number of queries, attempts and runs and *)
(* every bound on the history: the inductive invariant Inv, the safety     *)
(* properties it contains, and that the composer comes back.               *)
(***************************************************************************)
EXTENDS WebApp, SequenceTheorems, TLAPS

-----------------------------------------------------------------------------
(* What may happen to the messages. *)

IsAnswer(message, q) ==
    message.who = "agent" /\ message.is = "text" /\ message.query = q

LEMMA AnsweredMeans ==
    ASSUME NEW q
    PROVE  q \in Answered <=> \E i \in DOMAIN log : IsAnswer(log[i], q)
BY DEF Answered, IsAnswer

LEMMA AnsweredMeansNext ==
    ASSUME NEW q
    PROVE  q \in Answered' <=> \E i \in DOMAIN log' : IsAnswer(log'[i], q)
BY DEF Answered, IsAnswer

\* The messages that tell of a failed query.
Failure(q) == {Message("agent", q, "part"), Message("agent", q, "error")}

LEMMA FailureTyped ==
    ASSUME NEW q \in Query
    PROVE  /\ Failure(q) \subseteq Messages
           /\ \A m \in Failure(q) : m.is # "text" /\ m.query = q
BY DEF Failure, Message, Messages

\* onError appends such messages, and at least one.
LEMMA ErrorAppends ==
    ASSUME NEW q \in Query, NEW messages \in Seq(Messages)
    PROVE  \E m \in Seq(Failure(q)) : WithError(q, messages) = messages \o m
<1> DEFINE part == IF q \in partial THEN <<Message("agent", q, "part")>> ELSE << >>
           error == <<Message("agent", q, "error")>>
<1>1. part \in Seq(Failure(q)) /\ error \in Seq(Failure(q))
    <2>1. \A x \in Failure(q) : <<x>> \in Seq(Failure(q))
        OBVIOUS
    <2>2. << >> \in Seq(Failure(q))
        OBVIOUS
    <2>3. Message("agent", q, "part") \in Failure(q) /\ Message("agent", q, "error") \in Failure(q)
        BY DEF Failure
    <2> QED BY <2>1, <2>2, <2>3
<1>2. part \in Seq(Messages) /\ error \in Seq(Messages)
    BY <1>1, FailureTyped, SeqMonotonic
<1>3. WithError(q, messages) = (messages \o part) \o error
    BY DEF WithError
<1> HIDE DEF part, error
<1>4. (messages \o part) \o error = messages \o (part \o error)
    BY <1>2, ConcatAssociative
<1>5. part \o error \in Seq(Failure(q))
    BY <1>1, ConcatProperties
<1> QED BY <1>3, <1>4, <1>5

\* The log of after is that of before with failures of q behind it.
LEMMA FailuresBehind ==
    ASSUME NEW q \in Query, NEW messages \in Seq(Messages), NEW m \in Seq(Failure(q))
    PROVE  /\ messages \o m \in Seq(Messages)
           /\ \A i \in DOMAIN messages :
                 i \in DOMAIN (messages \o m) /\ (messages \o m)[i] = messages[i]
           /\ \A i \in DOMAIN (messages \o m) :
                 \/ i \in DOMAIN messages
                 \/ (messages \o m)[i].is # "text" /\ (messages \o m)[i].query = q
<1>1. m \in Seq(Messages)
    BY FailureTyped, SeqMonotonic
<1>2. /\ messages \o m \in Seq(Messages)
      /\ Len(messages \o m) = Len(messages) + Len(m)
      /\ \A i \in 1 .. Len(messages) + Len(m) : (messages \o m)[i] =
            IF i <= Len(messages) THEN messages[i] ELSE m[i - Len(messages)]
    BY <1>1, ConcatProperties
<1>3. Len(messages) \in Nat /\ Len(m) \in Nat
    BY <1>1
<1>4. ASSUME NEW i \in DOMAIN (messages \o m), i \notin DOMAIN messages
      PROVE  (messages \o m)[i] \in Failure(q)
    <2>1. i \in 1 .. Len(messages) + Len(m) /\ ~(i <= Len(messages))
        BY <1>2, <1>3, <1>4
    <2>2. i - Len(messages) \in 1 .. Len(m)
        BY <1>3, <2>1
    <2>3. m[i - Len(messages)] \in Failure(q)
        BY <2>2, ElementOfSeq
    <2> QED BY <1>2, <2>1, <2>3
<1> QED BY <1>2, <1>3, <1>4, FailureTyped

\* The page's part of a step: nothing, a submission, an error, an answer, a clearing.
PageStays == UNCHANGED <<sent, log, open, sending>> /\ partial' \subseteq open'

PageAsks ==
    /\ ~sending /\ sent < MaxQueries
    /\ sent' = sent + 1
    /\ log' = Append(log, Message("user", sent', "text"))
    /\ open' = open \cup {sent'} /\ sending' = TRUE /\ UNCHANGED partial

PageTells(q) ==
    /\ q \in open /\ sent' = sent
    /\ \E m \in Seq(Failure(q)) : log' = log \o m
    /\ Over({q})

PageAnswers(q) ==
    /\ q \in open /\ sent' = sent
    /\ log' = Append(log, Message("agent", q, "text"))
    /\ Over({q})

PageClears ==
    /\ sent' = sent /\ Over(open)
    /\ \/ log' = << >>
       \/ \E q \in open : \E m \in Seq(Failure(q)) : log' = << >> \o m

PageType ==
    /\ sent \in 0 .. MaxQueries
    /\ log \in Seq(Messages)
    /\ open \subseteq Query /\ partial \subseteq open
    /\ sending \in BOOLEAN /\ (sending <=> open # {})

PageOk == PageType /\ PageInv /\ AnswersFollowQuestions

\* An answer is new only when the page shows it.
Shows(answers) == \A q \in Query \ answers : q \in Answered' => q \in Answered

LEMMA TellsKeeps ==
    ASSUME PageOk, NEW q \in Query, PageTells(q)
    PROVE  PageOk' /\ Shows({})
<1>1. PICK m \in Seq(Failure(q)) : log' = log \o m
    BY DEF PageTells
<1>2. log \in Seq(Messages)
    BY DEF PageOk, PageType
<1>3. /\ log' \in Seq(Messages)
      /\ \A i \in DOMAIN log : i \in DOMAIN log' /\ log'[i] = log[i]
      /\ \A i \in DOMAIN log' :
            i \in DOMAIN log \/ (log'[i].is # "text" /\ log'[i].query = q)
    BY <1>1, <1>2, FailuresBehind
<1>4. open = {q} /\ open' = {} /\ partial' = {} /\ sending' = FALSE /\ sent' = sent
    BY DEF PageTells, Over, PageOk, PageType, PageInv
<1>5. q <= sent
    BY <1>4 DEF PageOk, PageType, PageInv, Query
<1>6. PageType'
    BY <1>3, <1>4 DEF PageOk, PageType
<1>7. PageInv'
    BY <1>3, <1>4, <1>5 DEF PageOk, PageInv
<1>8. AnswersFollowQuestions'
    <2> SUFFICES ASSUME NEW i \in DOMAIN log', log'[i].who = "agent", log'[i].is = "text"
                 PROVE  /\ i > 1 /\ log'[i - 1] = Message("user", log'[i].query, "text")
                        /\ \A j \in DOMAIN log' : log'[j] = log'[i] => j = i
        BY DEF AnswersFollowQuestions, Message
    <2>1. i \in DOMAIN log /\ log'[i] = log[i]
        BY <1>3
    <2>2. /\ i > 1 /\ log[i - 1] = Message("user", log[i].query, "text")
          /\ \A j \in DOMAIN log : log[j] = log[i] => j = i
        BY <2>1 DEF PageOk, AnswersFollowQuestions
    <2>3. i - 1 \in DOMAIN log
        BY <1>2, <2>1, <2>2
    <2>4. ASSUME NEW j \in DOMAIN log', log'[j] = log'[i] PROVE j = i
        <3>1. j \in DOMAIN log /\ log'[j] = log[j]
            BY <1>3, <2>4
        <3> QED BY <2>1, <2>2, <2>4, <3>1
    <2> QED BY <1>3, <2>1, <2>2, <2>3, <2>4
<1>9. Shows({})
    BY <1>3, AnsweredMeans, AnsweredMeansNext DEF Shows, IsAnswer
<1> QED BY <1>6, <1>7, <1>8, <1>9 DEF PageOk

LEMMA ClearsKeeps ==
    ASSUME PageOk, PageClears
    PROVE  PageOk' /\ Shows({})
<1>1. open' = {} /\ partial' = {} /\ sending' = FALSE /\ sent' = sent
    BY DEF PageClears, Over, PageOk, PageType
<1>2. /\ log' \in Seq(Messages)
      /\ \A i \in DOMAIN log' : log'[i].is # "text" /\ log'[i].query <= sent
    <2>1. CASE log' = << >>
        BY <2>1
    <2>2. ASSUME NEW q \in open, NEW m \in Seq(Failure(q)), log' = << >> \o m
          PROVE  /\ log' \in Seq(Messages)
                 /\ \A i \in DOMAIN log' : log'[i].is # "text" /\ log'[i].query <= sent
        <3>1. q \in Query /\ q <= sent
            BY DEF PageOk, PageType, PageInv, Query
        <3> DEFINE none == << >>
        <3>2. none \in Seq(Messages) /\ DOMAIN none = {} /\ log' = none \o m
            BY <2>2
        <3> HIDE DEF none
        <3>3. /\ log' \in Seq(Messages)
              /\ \A i \in DOMAIN log' : log'[i].is # "text" /\ log'[i].query = q
            <4>1. /\ none \o m \in Seq(Messages)
                  /\ \A i \in DOMAIN (none \o m) :
                        \/ i \in DOMAIN none
                        \/ (none \o m)[i].is # "text" /\ (none \o m)[i].query = q
                BY <3>1, <3>2, FailuresBehind
            <4> QED BY <3>2, <4>1
        <3> QED BY <3>1, <3>3
    <2> QED BY <2>1, <2>2 DEF PageClears
<1>3. PageType'
    BY <1>1, <1>2 DEF PageOk, PageType
<1>4. PageInv'
    BY <1>1, <1>2 DEF PageInv
<1>5. AnswersFollowQuestions'
    BY <1>2 DEF AnswersFollowQuestions
<1>6. Shows({})
    BY <1>2, AnsweredMeansNext DEF Shows, IsAnswer
<1> QED BY <1>3, <1>4, <1>5, <1>6 DEF PageOk

\* What Append does to the log.
LEMMA AppendedLog ==
    ASSUME PageOk, NEW message \in Messages, log' = Append(log, message)
    PROVE  /\ log' \in Seq(Messages) /\ log' # << >>
           /\ Len(log') = Len(log) + 1 /\ log'[Len(log')] = message
           /\ \A i \in DOMAIN log : i \in DOMAIN log' /\ log'[i] = log[i]
           /\ \A i \in DOMAIN log' : i \in DOMAIN log \/ (i = Len(log') /\ log'[i] = message)
BY DEF PageOk, PageType

LEMMA AsksKeeps ==
    ASSUME PageOk, PageAsks
    PROVE  PageOk' /\ Shows({})
<1> DEFINE message == Message("user", sent + 1, "text")
<1>1. sent + 1 \in Query /\ sent \in Nat /\ open = {}
    BY WebAssumption DEF PageOk, PageType, PageAsks, Query
<1>2. message \in Messages
    BY <1>1 DEF Message, Messages
<1>3. log' = Append(log, message) /\ sent' = sent + 1 /\ open' = {sent'}
    BY <1>1 DEF PageAsks
<1> HIDE DEF message
<1>4. /\ log' \in Seq(Messages) /\ log' # << >>
      /\ Len(log') = Len(log) + 1 /\ log'[Len(log')] = message
      /\ \A i \in DOMAIN log : i \in DOMAIN log' /\ log'[i] = log[i]
      /\ \A i \in DOMAIN log' : i \in DOMAIN log \/ (i = Len(log') /\ log'[i] = message)
    BY <1>2, <1>3, AppendedLog
<1>5. message.who = "user" /\ message.query = sent + 1
    BY DEF message, Message
<1>6. PageType'
    BY <1>1, <1>3, <1>4 DEF PageOk, PageType, PageAsks, Query
<1>7. \A i \in DOMAIN log' : log'[i].query <= sent'
    <2>1. \A i \in DOMAIN log : log[i].query <= sent /\ log[i].query \in Int
        <3>1. \A m \in Messages : m.query \in Query
            BY DEF Messages
        <3>2. Query \subseteq Int
            BY DEF Query
        <3>3. \A i \in DOMAIN log : log[i] \in Messages
            BY DEF PageOk, PageType
        <3> QED BY <3>1, <3>2, <3>3 DEF PageOk, PageInv
    <2> QED BY <1>1, <1>3, <1>4, <1>5, <2>1
<1>8. sent' \notin Answered'
    <2>1. ASSUME NEW i \in DOMAIN log', IsAnswer(log'[i], sent') PROVE FALSE
        <3>1. i \in DOMAIN log /\ log[i].query = sent + 1
            BY <1>3, <1>4, <1>5, <2>1 DEF IsAnswer
        <3> QED BY <1>1, <3>1 DEF PageOk, PageInv
    <2> QED BY <2>1, AnsweredMeansNext
<1>9. PageInv'
    BY <1>3, <1>4, <1>7, <1>8 DEF PageInv, message
<1>10. AnswersFollowQuestions'
    <2> SUFFICES ASSUME NEW i \in DOMAIN log', log'[i].who = "agent", log'[i].is = "text"
                 PROVE  /\ i > 1 /\ log'[i - 1] = Message("user", log'[i].query, "text")
                        /\ \A j \in DOMAIN log' : log'[j] = log'[i] => j = i
        BY DEF AnswersFollowQuestions, Message
    <2>1. i \in DOMAIN log /\ log'[i] = log[i]
        BY <1>4, <1>5
    <2>2. /\ i > 1 /\ log[i - 1] = Message("user", log[i].query, "text")
          /\ \A j \in DOMAIN log : log[j] = log[i] => j = i
        BY <2>1 DEF PageOk, AnswersFollowQuestions
    <2>3. i - 1 \in DOMAIN log
        BY <2>1, <2>2 DEF PageOk, PageType
    <2>4. ASSUME NEW j \in DOMAIN log', log'[j] = log'[i] PROVE j = i
        <3>1. j \in DOMAIN log /\ log'[j] = log[j]
            BY <1>4, <1>5, <2>4
        <3> QED BY <2>1, <2>2, <2>4, <3>1
    <2> QED BY <1>4, <2>1, <2>2, <2>3, <2>4
<1>11. Shows({})
    BY <1>4, <1>5, AnsweredMeans, AnsweredMeansNext DEF Shows, IsAnswer
<1> QED BY <1>6, <1>9, <1>10, <1>11 DEF PageOk

LEMMA AnswersKeeps ==
    ASSUME PageOk, NEW q \in Query, PageAnswers(q)
    PROVE  PageOk' /\ Shows({q})
<1> DEFINE message == Message("agent", q, "text")
<1>1. message \in Messages
    BY DEF Message, Messages
<1>2. /\ log' = Append(log, message) /\ sent' = sent /\ open = {q}
      /\ open' = {} /\ partial' = {} /\ sending' = FALSE
    BY DEF PageAnswers, Over, PageOk, PageType, PageInv
<1> HIDE DEF message
<1>3. /\ log' \in Seq(Messages) /\ log' # << >>
      /\ Len(log') = Len(log) + 1 /\ log'[Len(log')] = message
      /\ \A i \in DOMAIN log : i \in DOMAIN log' /\ log'[i] = log[i]
      /\ \A i \in DOMAIN log' : i \in DOMAIN log \/ (i = Len(log') /\ log'[i] = message)
    BY <1>1, <1>2, AppendedLog
<1>4. message.who = "agent" /\ message.query = q /\ message.is = "text"
    BY DEF message, Message
<1>5. /\ q <= sent /\ log # << >> /\ log[Len(log)] = Message("user", q, "text")
      /\ q \notin Answered
    BY <1>2 DEF PageOk, PageType, PageInv, Query
<1>6. Len(log) \in Nat \ {0} /\ DOMAIN log = 1 .. Len(log)
    BY <1>5 DEF PageOk, PageType
<1>7. \A i \in DOMAIN log : log[i] # message
    BY <1>4, <1>5, AnsweredMeans DEF IsAnswer
<1>8. PageType'
    BY <1>2, <1>3 DEF PageOk, PageType
<1>9. PageInv'
    BY <1>2, <1>3, <1>4, <1>5 DEF PageOk, PageInv
<1>10. AnswersFollowQuestions'
    <2> SUFFICES ASSUME NEW i \in DOMAIN log', log'[i].who = "agent", log'[i].is = "text"
                 PROVE  /\ i > 1 /\ log'[i - 1] = Message("user", log'[i].query, "text")
                        /\ \A j \in DOMAIN log' : log'[j] = log'[i] => j = i
        BY DEF AnswersFollowQuestions, Message
    <2>1. CASE i \in DOMAIN log
        <3>1. /\ i > 1 /\ log[i - 1] = Message("user", log[i].query, "text")
              /\ \A j \in DOMAIN log : log[j] = log[i] => j = i
            BY <1>3, <2>1 DEF PageOk, AnswersFollowQuestions
        <3>2. i - 1 \in DOMAIN log
            BY <1>6, <2>1, <3>1
        <3>3. ASSUME NEW j \in DOMAIN log', log'[j] = log'[i] PROVE j = i
            <4>1. j \in DOMAIN log
                BY <1>3, <1>7, <2>1, <3>3
            <4> QED BY <1>3, <2>1, <3>1, <3>3, <4>1
        <3> QED BY <1>3, <2>1, <3>1, <3>2, <3>3
    <2>2. CASE i \notin DOMAIN log
        <3>1. i = Len(log) + 1 /\ log'[i] = message
            BY <1>3, <2>2
        <3>2. Len(log) \in DOMAIN log /\ i - 1 = Len(log) /\ i > 1
            BY <1>6, <3>1
        <3>3. log'[i - 1] = Message("user", log'[i].query, "text")
            BY <1>3, <1>4, <1>5, <3>1, <3>2
        <3>4. \A j \in DOMAIN log' : log'[j] = log'[i] => j = i
            BY <1>3, <1>7, <3>1
        <3> QED BY <3>2, <3>3, <3>4
    <2> QED BY <2>1, <2>2
<1>11. Shows({q})
    BY <1>3, <1>4, AnsweredMeans, AnsweredMeansNext DEF Shows, IsAnswer
<1> QED BY <1>8, <1>9, <1>10, <1>11 DEF PageOk

LEMMA StaysKeeps ==
    ASSUME PageOk, PageStays
    PROVE  PageOk' /\ Shows({})
<1>1. log' = log /\ open' = open /\ sent' = sent /\ sending' = sending
    BY DEF PageStays
<1>2. Answered' = Answered
    BY <1>1 DEF Answered
<1> QED BY <1>1, <1>2 DEF PageStays, PageOk, PageType, PageInv, AnswersFollowQuestions, Shows

LEMMA ErrorTells ==
    ASSUME PageOk, NEW q \in Query, TellError(q)
    PROVE  PageOk' /\ Shows({}) /\ sent' = sent
<1>1. CASE q \in open
    <2>1. PageTells(q)
        BY <1>1, ErrorAppends DEF TellError, PageTells, PageOk, PageType
    <2> QED BY <2>1, TellsKeeps DEF PageTells
<1>2. CASE q \notin open
    <2>1. PageStays
        BY <1>2 DEF TellError, PageStays, pageVars, PageOk, PageType
    <2> QED BY <2>1, StaysKeeps DEF PageStays
<1> QED BY <1>1, <1>2

LEMMA DoneAnswers ==
    ASSUME PageOk, NEW q \in Query, TellDone(q)
    PROVE  PageOk' /\ Shows({q}) /\ sent' = sent
<1>1. CASE q \in open
    <2>1. PageAnswers(q)
        BY <1>1 DEF TellDone, PageAnswers
    <2> QED BY <2>1, AnswersKeeps DEF PageAnswers
<1>2. CASE q \notin open
    <2>1. PageStays
        BY <1>2 DEF TellDone, PageStays, pageVars, PageOk, PageType
    <2> QED BY <2>1, StaysKeeps DEF PageStays, Shows
<1> QED BY <1>1, <1>2

LEMMA PageUnchanged ==
    ASSUME PageOk, UNCHANGED pageVars
    PROVE  PageOk' /\ Shows({}) /\ sent' = sent
<1>1. PageStays
    BY DEF PageStays, pageVars, PageOk, PageType
<1> QED BY <1>1, StaysKeeps DEF PageStays

-----------------------------------------------------------------------------
(* Runs: what is over stays over. *)

RunsGoOn ==
    \A r \in Run :
        /\ stage[r] = "over" => stage'[r] = "over" /\ (r \notin running => r \notin running')
        /\ result[r] = "answer" => result'[r] = "answer"

RunsOk == RunTypeOK /\ Settled

LEMMA RunsUnchanged ==
    ASSUME RunsOk, UNCHANGED runVars
    PROVE  RunsOk' /\ RunsGoOn
BY DEF RunsOk, RunTypeOK, Settled, RunsGoOn, runVars

LEMMA AcceptGoesOn ==
    ASSUME RunsOk, NEW r \in Run, Accept(r)
    PROVE  RunsOk' /\ RunsGoOn
<1>1. CASE stage' = [stage EXCEPT ![r] = "busy"] /\ UNCHANGED <<result, running, touched>>
    BY <1>1 DEF RunsOk, RunTypeOK, Settled, RunsGoOn, Accept
<1>2. CASE Ends(r, "error")
    BY <1>2 DEF RunsOk, RunTypeOK, Settled, RunsGoOn, Accept, Ends
<1> QED BY <1>1, <1>2 DEF Accept

LEMMA AgentGoesOn ==
    ASSUME RunsOk, AgentStep
    PROVE  RunsOk' /\ RunsGoOn
<1>1. CASE Dies
    BY <1>1 DEF Dies, RunsOk, RunTypeOK, Settled, RunsGoOn
<1>2. ASSUME NEW r \in Run, Call(r) \/ Operate(r)
      PROVE  RunsOk' /\ RunsGoOn
    BY <1>2 DEF Call, Operate, RunsOk, RunTypeOK, Settled, RunsGoOn
<1>3. ASSUME NEW r \in Run, Answers(r) \/ Fails(r)
      PROVE  RunsOk' /\ RunsGoOn
    BY <1>3 DEF Answers, Fails, Ends, RunsOk, RunTypeOK, Settled, RunsGoOn
<1> QED BY <1>1, <1>2, <1>3 DEF AgentStep

-----------------------------------------------------------------------------
(* Queries: a step of the route moves one of them. *)

RouteStage == {"none", "check", "long", "post", "await", "head", "body", "over"}

RouteType ==
    /\ session \in BOOLEAN
    /\ route \in [Query -> RouteStage]
    /\ attempt \in [Query -> 0 .. MaxAttempts]
    /\ run \in [Query -> Run \cup {None}]
    /\ runsOf \in [Query -> SUBSET Run]
    /\ reset \subseteq Run

Quiet(q) == \A r \in runsOf[q] \ reset : stage[r] = "over" /\ r \notin running

LEMMA TypeParts ==
    TypeOK <=> RunTypeOK /\ PageType /\ RouteType
BY DEF TypeOK, PageType, RouteType, RouteStage

LEMMA InvParts ==
    Inv <=> /\ PageOk /\ RunsOk /\ RouteType
            /\ \A q \in Query : RouteInv(q) /\ (q \in Answered => Quiet(q))
<1>1. PageType => Answered \subseteq Query
    <2>1. \A m \in Messages : m.query \in Query
        BY DEF Messages
    <2> QED BY <2>1 DEF PageType, Answered
<1>2. QuietAfterAnswer <=> \A q \in Answered : Quiet(q)
    BY DEF QuietAfterAnswer, Quiet
<1>3. PageType => (QuietAfterAnswer <=> \A q \in Query : q \in Answered => Quiet(q))
    BY <1>1, <1>2
<1> QED BY <1>3, TypeParts DEF Inv, PageOk, RunsOk

LEMMA InvPartsNext ==
    Inv' <=> /\ PageOk' /\ RunsOk' /\ RouteType'
             /\ \A q \in Query : RouteInv(q)' /\ (q \in Answered' => Quiet(q)')
<1>1. PageType' => Answered' \subseteq Query
    <2>1. \A m \in Messages : m.query \in Query
        BY DEF Messages
    <2> QED BY <2>1 DEF PageType, Answered
<1>2. QuietAfterAnswer' <=> \A q \in Answered' : Quiet(q)'
    BY DEF QuietAfterAnswer, Quiet
<1>3. PageType' => (QuietAfterAnswer' <=> \A q \in Query : q \in Answered' => Quiet(q)')
    BY <1>1, <1>2
<1>4. TypeOK' <=> RunTypeOK' /\ PageType' /\ RouteType'
    BY DEF TypeOK, PageType, RouteType, RouteStage
<1> QED BY <1>3, <1>4 DEF Inv, PageOk, RunsOk

\* A query that is left alone.
LEMMA LeftAlone ==
    ASSUME Inv, RunsGoOn, NEW q \in Query, sent <= sent', reset \subseteq reset',
           route'[q] = route[q], run'[q] = run[q], runsOf'[q] = runsOf[q],
           q \in Answered' => q \in Answered, sent \in Nat, sent' \in Nat
    PROVE  RouteInv(q)' /\ (q \in Answered' => Quiet(q)')
<1>1. RouteInv(q) /\ (q \in Answered => Quiet(q)) /\ runsOf[q] \subseteq Run /\ q \in Int
    BY InvParts DEF RouteType, Query
<1>2. RouteInv(q)'
    BY <1>1 DEF RouteInv, RunsGoOn
<1>3. q \in Answered' => Quiet(q)'
    BY <1>1 DEF Quiet, RunsGoOn
<1> QED BY <1>2, <1>3

\* A step of the route that shows no answer, and one that does.
Moves(q) ==
    /\ PageOk' /\ RunsOk' /\ RunsGoOn /\ RouteType' /\ sent' = sent
    /\ reset \subseteq reset'
    /\ \A p \in Query \ {q} :
          route'[p] = route[p] /\ run'[p] = run[p] /\ runsOf'[p] = runsOf[p]

LEMMA MoveKeeps ==
    ASSUME Inv, NEW q \in Query, Moves(q), Shows({}), RouteInv(q)', route[q] # "over"
    PROVE  Inv'
<1>1. sent \in Nat /\ sent <= sent' /\ sent' \in Nat
    BY WebAssumption, InvParts DEF Moves, PageOk, PageType
<1>2. ASSUME NEW p \in Query \ {q} PROVE RouteInv(p)' /\ (p \in Answered' => Quiet(p)')
    BY <1>1, LeftAlone DEF Moves, Shows
<1>3. q \notin Answered'
    BY InvParts DEF RouteInv, Shows
<1> QED BY <1>2, <1>3, InvPartsNext DEF Moves

LEMMA AnswerKeeps ==
    ASSUME Inv, NEW q \in Query, Moves(q), Shows({q}), RouteInv(q)', Quiet(q)'
    PROVE  Inv'
<1>1. sent \in Nat /\ sent <= sent' /\ sent' \in Nat
    BY WebAssumption, InvParts DEF Moves, PageOk, PageType
<1>2. ASSUME NEW p \in Query \ {q} PROVE RouteInv(p)' /\ (p \in Answered' => Quiet(p)')
    BY <1>1, LeftAlone DEF Moves, Shows
<1> QED BY <1>2, InvPartsNext DEF Moves

\* The route's stage alone is written.
LEMMA GotoMoves ==
    ASSUME RouteType, NEW q \in Query, NEW from, NEW to \in RouteStage, Goto(q, from, to)
    PROVE  /\ route[q] = from /\ route'[q] = to
           /\ route' \in [Query -> RouteStage]
           /\ \A p \in Query \ {q} : route'[p] = route[p]
BY DEF RouteType, Goto

LEMMA FailsKeeps ==
    ASSUME Inv, NEW q \in Query, NEW from \in RouteStage \ {"none", "over"},
           RouteFails(q, from), UNCHANGED <<session, runVars>>,
           reset \subseteq reset', reset' \subseteq Run
    PROVE  Inv'
<1>1. PageOk /\ RunsOk /\ RouteType /\ RouteInv(q)
    BY InvParts
<1>2. PageOk' /\ Shows({}) /\ sent' = sent
    BY <1>1, ErrorTells DEF RouteFails
<1>3. RunsOk' /\ RunsGoOn
    BY <1>1, RunsUnchanged
<1>4. /\ route[q] = from /\ route'[q] = "over"
      /\ route' \in [Query -> RouteStage]
      /\ \A p \in Query \ {q} : route'[p] = route[p]
    BY <1>1, GotoMoves DEF RouteFails, RouteStage
<1>5. Moves(q)
    BY <1>1, <1>2, <1>3, <1>4 DEF Moves, RouteFails, RouteType
<1>6. RouteInv(q)'
    BY <1>1, <1>2, <1>4 DEF RouteInv
<1> QED BY <1>2, <1>4, <1>5, <1>6, MoveKeeps

LEMMA AgainKeeps ==
    ASSUME Inv, NEW q \in Query, NEW from \in RouteStage \ {"none", "over"},
           Again(q, from), UNCHANGED <<session, runVars>>,
           reset \subseteq reset', reset' \subseteq Run, runsOf[q] \subseteq reset'
    PROVE  Inv'
<1>1. PageOk /\ RunsOk /\ RouteType /\ RouteInv(q)
    BY InvParts
<1>2. CASE RouteFails(q, from)
    BY <1>2, FailsKeeps
<1>3. CASE /\ attempt[q] < MaxAttempts /\ Goto(q, from, "post")
           /\ attempt' = [attempt EXCEPT ![q] = @ + 1]
           /\ UNCHANGED <<pageVars, run, runsOf>>
    <2>1. PageOk' /\ Shows({}) /\ sent' = sent
        BY <1>1, <1>3, PageUnchanged
    <2>2. RunsOk' /\ RunsGoOn
        BY <1>1, RunsUnchanged
    <2>3. /\ route[q] = from /\ route'[q] = "post"
          /\ route' \in [Query -> RouteStage]
          /\ \A p \in Query \ {q} : route'[p] = route[p]
        BY <1>1, <1>3, GotoMoves DEF RouteStage
    <2>4. attempt' \in [Query -> 0 .. MaxAttempts]
        <3>1. attempt[q] + 1 \in 0 .. MaxAttempts
            BY <1>1, <1>3, WebAssumption DEF RouteType
        <3> QED BY <1>1, <1>3, <3>1 DEF RouteType
    <2>5. Moves(q)
        BY <1>1, <1>3, <2>1, <2>2, <2>3, <2>4 DEF Moves, RouteType
    <2>6. RouteInv(q)'
        BY <1>1, <1>3, <2>1, <2>3 DEF RouteInv, Shows
    <2> QED BY <2>1, <2>3, <2>5, <2>6, MoveKeeps
<1> QED BY <1>2, <1>3 DEF Again

LEMMA CheckKeeps ==
    ASSUME Inv, NEW q \in Query, Check(q)
    PROVE  Inv'
<1>1. PageOk /\ RunsOk /\ RouteType /\ RouteInv(q)
    BY InvParts
<1>2. CASE RouteFails(q, "check")
    BY <1>1, <1>2, FailsKeeps DEF Check, RouteStage, RouteType
<1>3. CASE /\ Goto(q, "check", "post") /\ attempt' = [attempt EXCEPT ![q] = 1]
           /\ UNCHANGED <<pageVars, run, runsOf>>
    <2>1. PageOk' /\ Shows({}) /\ sent' = sent
        BY <1>1, <1>3, PageUnchanged
    <2>2. RunsOk' /\ RunsGoOn
        BY <1>1, RunsUnchanged DEF Check
    <2>3. /\ route[q] = "check" /\ route'[q] = "post"
          /\ route' \in [Query -> RouteStage]
          /\ \A p \in Query \ {q} : route'[p] = route[p]
        BY <1>1, <1>3, GotoMoves DEF RouteStage
    <2>4. attempt' \in [Query -> 0 .. MaxAttempts]
        BY <1>1, <1>3, WebAssumption DEF RouteType
    <2>5. Moves(q)
        BY <1>1, <1>3, <2>1, <2>2, <2>3, <2>4 DEF Moves, RouteType, Check
    <2>6. RouteInv(q)'
        BY <1>1, <1>3, <2>1, <2>3 DEF RouteInv, Shows, Check
    <2> QED BY <2>1, <2>3, <2>5, <2>6, MoveKeeps
<1> QED BY <1>2, <1>3 DEF Check

LEMMA DeliverKeeps ==
    ASSUME Inv, NEW q \in Query, Deliver(q)
    PROVE  Inv'
<1>1. PageOk /\ RunsOk /\ RouteType /\ RouteInv(q)
    BY InvParts
<1>2. NextRun \in Run
    BY DEF NextRun, Deliver
<1>3. PageOk' /\ Shows({}) /\ sent' = sent
    BY <1>1, PageUnchanged DEF Deliver
<1>4. RunsOk' /\ RunsGoOn
    BY <1>1, <1>2, AcceptGoesOn DEF Deliver
<1>5. /\ route[q] = "post" /\ route'[q] = "await"
      /\ route' \in [Query -> RouteStage]
      /\ \A p \in Query \ {q} : route'[p] = route[p]
    BY <1>1, GotoMoves DEF RouteStage, Deliver
<1>6. /\ run' \in [Query -> Run \cup {None}] /\ runsOf' \in [Query -> SUBSET Run]
      /\ run'[q] = NextRun /\ runsOf'[q] = runsOf[q] \cup {NextRun}
      /\ \A p \in Query \ {q} : run'[p] = run[p] /\ runsOf'[p] = runsOf[p]
    <2> HIDE DEF NextRun
    <2> QED BY <1>1, <1>2 DEF Deliver, RouteType
<1>7. Moves(q)
    BY <1>1, <1>3, <1>4, <1>5, <1>6 DEF Moves, RouteType, Deliver
<1>8. RouteInv(q)'
    BY <1>1, <1>2, <1>3, <1>5, <1>6 DEF RouteInv, Shows, Deliver
<1> QED BY <1>3, <1>5, <1>7, <1>8, MoveKeeps

LEMMA RespondKeeps ==
    ASSUME Inv, NEW q \in Query, Respond(q)
    PROVE  Inv'
<1>1. PageOk /\ RunsOk /\ RouteType /\ RouteInv(q)
    BY InvParts
<1>2. CASE RouteFails(q, "await")
    BY <1>1, <1>2, FailsKeeps DEF Respond, RouteStage, RouteType
<1>3. CASE /\ result[run[q]] = "answer" /\ Goto(q, "await", "head")
           /\ UNCHANGED <<pageVars, attempt, run, runsOf>>
    <2>1. PageOk' /\ Shows({}) /\ sent' = sent
        BY <1>1, <1>3, PageUnchanged
    <2>2. RunsOk' /\ RunsGoOn
        BY <1>1, RunsUnchanged DEF Respond
    <2>3. /\ route[q] = "await" /\ route'[q] = "head"
          /\ route' \in [Query -> RouteStage]
          /\ \A p \in Query \ {q} : route'[p] = route[p]
        BY <1>1, <1>3, GotoMoves DEF RouteStage
    <2>4. Moves(q)
        BY <1>1, <1>3, <2>1, <2>2, <2>3 DEF Moves, RouteType, Respond
    <2>5. RouteInv(q)'
        BY <1>1, <1>3, <2>1, <2>3 DEF RouteInv, Shows, Respond, runVars
    <2> QED BY <2>1, <2>3, <2>4, <2>5, MoveKeeps
<1> QED BY <1>2, <1>3 DEF Respond

LEMMA ChunkKeeps ==
    ASSUME Inv, NEW q \in Query, Chunk(q)
    PROVE  Inv'
<1>1. PageOk /\ RunsOk /\ RouteType /\ RouteInv(q)
    BY InvParts
<1>2. PageStays
    BY <1>1 DEF Chunk, PageStays, PageOk, PageType
<1>3. PageOk' /\ Shows({}) /\ sent' = sent
    BY <1>1, <1>2, StaysKeeps DEF PageStays
<1>4. RunsOk' /\ RunsGoOn
    BY <1>1, RunsUnchanged DEF Chunk
<1>5. /\ route[q] = "head" /\ route'[q] = "body"
      /\ route' \in [Query -> RouteStage]
      /\ \A p \in Query \ {q} : route'[p] = route[p]
    BY <1>1, GotoMoves DEF RouteStage, Chunk
<1>6. Moves(q)
    BY <1>1, <1>3, <1>4, <1>5 DEF Moves, RouteType, Chunk
<1>7. RouteInv(q)'
    BY <1>1, <1>3, <1>5 DEF RouteInv, Shows, Chunk, runVars
<1> QED BY <1>3, <1>5, <1>6, <1>7, MoveKeeps

\* The answer is shown: the query's last run is over, the others were reset.
LEMMA StreamEndsKeeps ==
    ASSUME Inv, NEW q \in Query, StreamEnds(q)
    PROVE  Inv'
<1>1. PageOk /\ RunsOk /\ RouteType /\ RouteInv(q)
    BY InvParts
<1>2. PageOk' /\ Shows({q}) /\ sent' = sent
    BY <1>1, DoneAnswers DEF StreamEnds
<1>3. RunsOk' /\ RunsGoOn
    BY <1>1, RunsUnchanged DEF StreamEnds
<1>4. /\ route[q] \in {"head", "body"} /\ route'[q] = "over"
      /\ route' \in [Query -> RouteStage]
      /\ \A p \in Query \ {q} : route'[p] = route[p]
    BY <1>1, GotoMoves DEF RouteStage, StreamEnds
<1>5. Moves(q)
    BY <1>1, <1>2, <1>3, <1>4 DEF Moves, RouteType, StreamEnds
<1>6. RouteInv(q)'
    BY <1>1, <1>2, <1>4 DEF RouteInv, StreamEnds
<1>7. Quiet(q)'
    <2>1. stage[run[q]] = "over" /\ run[q] \notin running
        BY <1>1, <1>4 DEF RouteInv, RunsOk, Settled
    <2> QED BY <1>1, <1>4, <2>1 DEF RouteInv, Quiet, StreamEnds, runVars
<1> QED BY <1>2, <1>5, <1>6, <1>7, AnswerKeeps

LEMMA RouteKeeps ==
    ASSUME Inv, NEW q \in Query, RouteStep(q)
    PROVE  Inv'
<1>1. RouteType /\ RouteInv(q) /\ runsOf[q] \subseteq Run
    BY InvParts DEF RouteType
<1>2. CASE TooLong(q)
    BY <1>1, <1>2, FailsKeeps DEF TooLong, RouteStage, RouteType
<1>3. CASE NoChunk(q)
    BY <1>1, <1>3, FailsKeeps DEF NoChunk, RouteStage, RouteType
<1>4. CASE TimeOut(q)
    <2>1. PICK from \in {"post", "await", "head"} : RouteFails(q, from)
        BY <1>4 DEF TimeOut
    <2> QED BY <1>1, <1>4, <2>1, FailsKeeps DEF TimeOut, RouteStage, RouteType
<1>5. CASE NoConnection(q)
    <2>1. CASE RouteFails(q, "post")
        BY <1>1, <1>5, <2>1, FailsKeeps DEF NoConnection, RouteStage, RouteType
    <2>2. CASE Again(q, "post")
        <3>1. route[q] = "post"
            BY <2>2 DEF Again, RouteFails, Goto
        <3>2. runsOf[q] \subseteq reset
            BY <1>1, <3>1 DEF RouteInv
        <3> QED BY <1>1, <1>5, <2>2, <3>2, AgainKeeps DEF NoConnection, RouteStage, RouteType
    <2> QED BY <1>5, <2>1, <2>2 DEF NoConnection
<1>6. CASE Reset(q)
    <2>1. route[q] = "await"
        BY <1>6 DEF Reset, Again, RouteFails, Goto
    <2>2. run[q] \in Run /\ runsOf[q] \subseteq reset'
        BY <1>1, <1>6, <2>1 DEF RouteInv, Reset
    <2>3. reset \subseteq reset' /\ reset' \subseteq Run
        BY <1>1, <1>6, <2>2 DEF Reset, RouteType
    <2> QED BY <1>6, <2>2, <2>3, AgainKeeps DEF Reset, RouteStage
<1> QED BY <1>2, <1>3, <1>4, <1>5, <1>6, CheckKeeps, DeliverKeeps, RespondKeeps, ChunkKeeps,
           StreamEndsKeeps DEF RouteStep, Advance

-----------------------------------------------------------------------------
(* The page, the agent and the session. *)

LEMMA SubmitKeeps ==
    ASSUME Inv, Submit
    PROVE  Inv'
<1>1. PageOk /\ RunsOk /\ RouteType /\ \A q \in Query : RouteInv(q)
    BY InvParts
<1>2. PageOk' /\ Shows({})
    <2>1. PageAsks
        BY DEF Submit, PageAsks
    <2> QED BY <1>1, <2>1, AsksKeeps
<1>3. RunsOk' /\ RunsGoOn
    BY <1>1, RunsUnchanged DEF Submit
<1>4. PICK n \in Query : n = sent + 1 /\ sent' = n /\ sent \in Nat
    BY <1>1, WebAssumption DEF Submit, PageOk, PageType, Query
<1>5. PICK s \in {"check", "long"} : route' = [route EXCEPT ![n] = s]
    BY <1>4 DEF Submit
<1>6. RouteType'
    BY <1>1, <1>4, <1>5 DEF Submit, RouteType, RouteStage
<1>7. ASSUME NEW q \in Query, q # n
      PROVE  RouteInv(q)' /\ (q \in Answered' => Quiet(q)')
    <2>1. route'[q] = route[q] /\ run'[q] = run[q] /\ runsOf'[q] = runsOf[q]
        BY <1>1, <1>5, <1>7 DEF RouteType, Submit
    <2>2. sent <= sent' /\ sent' \in Nat /\ reset \subseteq reset'
        BY <1>4 DEF Submit
    <2>3. q \in Answered' => q \in Answered
        BY <1>2 DEF Shows
    <2> QED BY <1>3, <1>4, <2>1, <2>2, <2>3, LeftAlone
<1>8. RouteInv(n)' /\ n \notin Answered'
    <2>1. route[n] = "none" /\ runsOf[n] = {}
        BY <1>1, <1>4 DEF RouteInv
    <2>2. route'[n] \in {"check", "long"} /\ runsOf' = runsOf
        BY <1>1, <1>4, <1>5 DEF RouteType, Submit
    <2>3. n \notin Answered
        BY <1>1, <2>1 DEF RouteInv
    <2>4. n \notin Answered'
        BY <1>2, <2>3 DEF Shows
    <2>5. ~(n > sent')
        BY <1>4
    <2> QED BY <2>1, <2>2, <2>4, <2>5 DEF RouteInv
<1> QED BY <1>2, <1>3, <1>6, <1>7, <1>8, InvPartsNext

\* A step that leaves the route alone and shows no answer.
LEMMA RouteStays ==
    ASSUME Inv, PageOk', Shows({}), sent' = sent, RunsOk', RunsGoOn,
           UNCHANGED routeVars, session' \in BOOLEAN
    PROVE  Inv'
<1>1. PageOk /\ RunsOk /\ RouteType /\ \A q \in Query : RouteInv(q)
    BY InvParts
<1>2. sent \in Nat /\ sent <= sent' /\ sent' \in Nat
    BY <1>1, WebAssumption DEF PageOk, PageType
<1>3. RouteType'
    BY <1>1 DEF RouteType, routeVars
<1>4. ASSUME NEW q \in Query PROVE RouteInv(q)' /\ (q \in Answered' => Quiet(q)')
    BY <1>2, LeftAlone DEF routeVars, Shows
<1> QED BY <1>3, <1>4, InvPartsNext

LEMMA NextKeeps == Inv /\ [Next]_vars => Inv'
<1> SUFFICES ASSUME Inv, [Next]_vars PROVE Inv'
    OBVIOUS
<1>1. PageOk /\ RunsOk /\ RouteType
    BY InvParts
<1>2. CASE SessionChanges
    BY <1>1, <1>2, PageUnchanged, RunsUnchanged, RouteStays DEF SessionChanges, RouteType
<1>3. CASE AgentStep
    BY <1>1, <1>3, PageUnchanged, AgentGoesOn, RouteStays DEF AgentStep, RouteType
<1>4. CASE Submit
    BY <1>4, SubmitKeeps
<1>5. CASE Clear
    <2>1. PageClears
        <3>1. ASSUME open # {}
              PROVE  \E q \in open : \E m \in Seq(Failure(q)) : log' = << >> \o m
            <4> DEFINE q == CHOOSE q \in open : TRUE
            <4>1. q \in open /\ q \in Query
                BY <1>1, <3>1 DEF PageOk, PageType
            <4>2. log' = WithError(q, << >>)
                BY <1>5, <3>1 DEF Clear
            <4> HIDE DEF q
            <4>3. << >> \in Seq(Messages)
                OBVIOUS
            <4> QED BY <4>1, <4>2, <4>3, ErrorAppends
        <3> QED BY <1>5, <3>1 DEF Clear, PageClears
    <2>2. PageOk' /\ Shows({}) /\ sent' = sent
        BY <1>1, <2>1, ClearsKeeps DEF PageClears
    <2> QED BY <1>1, <1>5, <2>2, RunsUnchanged, RouteStays DEF Clear, RouteType
<1>6. ASSUME NEW q \in Query, PageLoses(q) PROVE Inv'
    BY <1>1, <1>6, ErrorTells, RunsUnchanged, RouteStays DEF PageLoses, RouteType
<1>7. CASE UNCHANGED vars
    BY <1>1, <1>7, PageUnchanged, RunsUnchanged, RouteStays DEF vars, RouteType
<1> QED BY <1>2, <1>3, <1>4, <1>5, <1>6, <1>7, RouteKeeps DEF Next

LEMMA InitInv == Init => Inv
<1> SUFFICES ASSUME Init PROVE Inv
    OBVIOUS
<1>1. RunsOk
    BY DEF Init, RunInit, RunsOk, RunTypeOK, Settled
<1>2. PageOk
    <2>1. DOMAIN log = {} /\ log \in Seq(Messages)
        BY DEF Init
    <2>2. PageInv /\ AnswersFollowQuestions
        BY <2>1 DEF Init, PageInv, AnswersFollowQuestions
    <2>3. PageType
        <3>1. sent \in 0 .. MaxQueries
            BY WebAssumption DEF Init
        <3>2. open = {} /\ partial = {} /\ sending = FALSE
            BY DEF Init
        <3> QED BY <2>1, <3>1, <3>2 DEF PageType
    <2> QED BY <2>2, <2>3 DEF PageOk
<1>3. RouteType
    BY WebAssumption DEF Init, RouteType, RouteStage
<1>4. \A q \in Query : q \notin Answered
    <2>1. log = << >> /\ DOMAIN log = {}
        BY DEF Init
    <2> QED BY <2>1, AnsweredMeans
<1>5. ASSUME NEW q \in Query PROVE RouteInv(q)
    <2>1. route[q] = "none" /\ runsOf[q] = {} /\ q \notin Answered
        BY <1>4 DEF Init
    <2> QED BY <2>1 DEF RouteInv
<1> QED BY <1>1, <1>2, <1>3, <1>4, <1>5, InvParts

-----------------------------------------------------------------------------
(* The theorems. *)

\* The chat's inductive invariant: the last query is the one that is open, and what is
\* known of its runs (chat-workspace.tsx, client.ts fetchWithRetry).
THEOREM WebInvariant == Spec => []Inv
BY InitInv, NextKeeps, PTL DEF Spec

\* Every reachable state of the chat is well typed; the composer is disabled exactly
\* while a query is open (chat-workspace.tsx handleSend).
THEOREM WebTypeCorrect == Spec => []TypeOK
<1>1. Inv => TypeOK
    BY DEF Inv
<1> QED BY <1>1, WebInvariant, PTL

\* An answer is shown right below its question and only once (chat-workspace.tsx
\* handleSend, handleClear).
THEOREM AnswersInPlace == Spec => []AnswersFollowQuestions
<1>1. Inv => AnswersFollowQuestions
    BY DEF Inv
<1> QED BY <1>1, WebInvariant, PTL

\* Once an answer is shown nothing goes on for its question, but in runs whose
\* connection was reset (client.ts fetchWithRetry).
THEOREM AnswersAreFinal == Spec => []QuietAfterAnswer
<1>1. Inv => QuietAfterAnswer
    BY DEF Inv
<1> QED BY <1>1, WebInvariant, PTL
-----------------------------------------------------------------------------
(* Progress: every step of the route brings the end of its work nearer. *)

\* A bound on the steps the route has left for a query: four for each attempt.
RouteLeft(q) ==
    CASE route[q] = "none" -> 4 * MaxAttempts + 2
      [] route[q] \in {"check", "long"} -> 4 * MaxAttempts + 1
      [] route[q] = "post" -> 4 * (MaxAttempts - attempt[q]) + 4
      [] route[q] = "await" -> 4 * (MaxAttempts - attempt[q]) + 3
      [] route[q] = "head" -> 2
      [] route[q] = "body" -> 1
      [] OTHER -> 0

\* Nobody gives the route more to do for a query, and each of its steps leaves less.
RouteNearer ==
    \A q \in Query :
        /\ RouteLeft(q)' <= RouteLeft(q)
        /\ RouteStep(q) => RouteLeft(q)' < RouteLeft(q)

LEMMA RouteLeftType ==
    ASSUME RouteType, NEW q \in Query
    PROVE  RouteLeft(q) \in Nat
<1>1. attempt[q] \in 0 .. MaxAttempts /\ MaxAttempts \in Nat
    BY WebAssumption DEF RouteType
<1> QED BY <1>1 DEF RouteLeft

\* The route goes from one stage to another, with the attempts it has made.
LEMMA GotoLeaves ==
    ASSUME RouteType, NEW q \in Query, NEW from \in RouteStage, NEW to \in RouteStage,
           Goto(q, from, to)
    PROVE  route[q] = from /\ route'[q] = to
BY DEF RouteType, RouteStage, Goto

LEMMA RouteStepNearer ==
    ASSUME RouteType, NEW q \in Query, RouteStep(q)
    PROVE  RouteLeft(q)' < RouteLeft(q)
<1>0. attempt[q] \in 0 .. MaxAttempts /\ MaxAttempts \in Nat \ {0}
    BY WebAssumption DEF RouteType
<1>1. ASSUME NEW from \in {"check", "long", "post", "await", "head", "body"},
             RouteFails(q, from)
      PROVE  RouteLeft(q)' < RouteLeft(q)
    <2>1. route[q] = from /\ route'[q] = "over"
        BY <1>1, GotoLeaves DEF RouteFails, RouteStage
    <2> QED BY <1>0, <2>1 DEF RouteLeft
<1>2. ASSUME NEW from \in {"post", "await"}, Again(q, from)
      PROVE  RouteLeft(q)' < RouteLeft(q)
    <2>1. CASE attempt[q] < MaxAttempts
        <3>1. route[q] = from /\ route'[q] = "post" /\ attempt'[q] = attempt[q] + 1
            BY <1>2, <2>1, GotoLeaves DEF Again, RouteStage, RouteType
        <3> QED BY <1>0, <2>1, <3>1 DEF RouteLeft
    <2> QED BY <1>1, <1>2, <2>1 DEF Again
<1>3. CASE Check(q)
    <2>1. CASE session
        <3>1. route[q] = "check" /\ route'[q] = "post" /\ attempt'[q] = 1
            BY <1>3, <2>1, GotoLeaves DEF Check, RouteStage, RouteType
        <3> QED BY <1>0, <3>1 DEF RouteLeft
    <2> QED BY <1>1, <1>3, <2>1 DEF Check
<1>4. CASE Deliver(q)
    <2>1. route[q] = "post" /\ route'[q] = "await" /\ attempt'[q] = attempt[q]
        BY <1>4, GotoLeaves DEF Deliver, RouteStage
    <2> QED BY <1>0, <2>1 DEF RouteLeft
<1>5. CASE Respond(q)
    <2>1. CASE Goto(q, "await", "head")
        <3>1. route[q] = "await" /\ route'[q] = "head"
            BY <2>1, GotoLeaves DEF RouteStage
        <3> QED BY <1>0, <3>1 DEF RouteLeft
    <2> QED BY <1>1, <1>5, <2>1 DEF Respond
<1>6. CASE Chunk(q)
    <2>1. route[q] = "head" /\ route'[q] = "body"
        BY <1>6, GotoLeaves DEF Chunk, RouteStage
    <2> QED BY <2>1 DEF RouteLeft
<1>7. CASE StreamEnds(q)
    <2>1. route[q] \in {"head", "body"} /\ route'[q] = "over"
        BY <1>7, GotoLeaves DEF StreamEnds, RouteStage
    <2> QED BY <2>1 DEF RouteLeft
<1> QED BY <1>1, <1>2, <1>3, <1>4, <1>5, <1>6, <1>7
        DEF RouteStep, Advance, TooLong, TimeOut, NoConnection, Reset, NoChunk

\* A step of another query leaves the route of this one alone.
LEMMA OtherRoute ==
    ASSUME RouteType, NEW q \in Query, NEW d \in Query, d # q, RouteStep(d)
    PROVE  route'[q] = route[q] /\ attempt'[q] = attempt[q]
BY DEF RouteType, RouteStep, Advance, Check, TooLong, Respond, StreamEnds, TimeOut, Deliver,
       NoConnection, Reset, Chunk, NoChunk, RouteFails, Again, Goto

LEMMA SubmitNearer ==
    ASSUME Inv, Submit, NEW q \in Query
    PROVE  RouteLeft(q)' <= RouteLeft(q)
<1>1. RouteType /\ sent \in Nat /\ sent' = sent + 1 /\ MaxAttempts \in Nat /\ RouteInv(q)
    BY InvParts, WebAssumption DEF Submit, PageOk, PageType
<1>2. attempt[q] \in 0 .. MaxAttempts /\ attempt'[q] = attempt[q]
    BY <1>1 DEF RouteType, Submit
<1>3. CASE q = sent'
    <2>1. route[q] = "none"
        BY <1>1, <1>3 DEF RouteInv
    <2>2. route'[q] \in {"check", "long"}
        BY <1>1, <1>3 DEF Submit, RouteType
    <2> QED BY <1>1, <2>1, <2>2 DEF RouteLeft
<1>4. CASE q # sent'
    <2>1. route'[q] = route[q]
        BY <1>1, <1>4 DEF Submit, RouteType
    <2> QED BY <1>1, <1>2, <2>1 DEF RouteLeft
<1> QED BY <1>3, <1>4

LEMMA NextRouteNearer == Inv /\ [Next]_vars => RouteNearer
<1> SUFFICES ASSUME Inv, [Next]_vars, NEW q \in Query
             PROVE  /\ RouteLeft(q)' <= RouteLeft(q)
                    /\ RouteStep(q) => RouteLeft(q)' < RouteLeft(q)
    BY DEF RouteNearer
<1>1. RouteType /\ RouteType'
    <2>1. Inv'
        BY NextKeeps
    <2> QED BY <2>1, InvParts DEF Inv, TypeOK, RouteType, RouteStage
<1>2. RouteLeft(q) \in Nat /\ RouteLeft(q)' \in Nat
    <2>1. RouteLeft(q) \in Nat
        BY <1>1, RouteLeftType
    <2>2. attempt'[q] \in 0 .. MaxAttempts /\ MaxAttempts \in Nat
        BY <1>1, WebAssumption DEF RouteType
    <2> QED BY <2>1, <2>2 DEF RouteLeft
<1>3. ASSUME RouteStep(q) PROVE RouteLeft(q)' < RouteLeft(q)
    BY <1>1, <1>3, RouteStepNearer
<1>4. ASSUME route'[q] = route[q], attempt'[q] = attempt[q]
      PROVE  RouteLeft(q)' <= RouteLeft(q)
    <2>1. RouteLeft(q)' = RouteLeft(q)
        BY <1>4 DEF RouteLeft
    <2> QED BY <1>2, <2>1
<1>5. RouteLeft(q)' <= RouteLeft(q)
    <2>1. ASSUME NEW d \in Query, RouteStep(d) PROVE RouteLeft(q)' <= RouteLeft(q)
        <3>1. CASE d = q
            BY <1>2, <1>3, <2>1, <3>1
        <3> QED BY <1>1, <1>4, <2>1, <3>1, OtherRoute
    <2>2. ASSUME UNCHANGED routeVars PROVE RouteLeft(q)' <= RouteLeft(q)
        BY <1>4, <2>2 DEF routeVars
    <2> QED BY <2>1, <2>2, SubmitNearer
            DEF Next, SessionChanges, AgentStep, Clear, PageLoses, vars
<1> QED BY <1>3, <1>5

\* The route's work on a query ends by itself: its attempts are counted, so whatever the
\* network and ai-agent do, each of its steps is one of at most 4 * MaxAttempts + 1
\* (client.ts fetchWithRetry, the route's stream).
THEOREM RouteProgresses == Spec => [][RouteNearer]_vars
<1> QED BY WebInvariant, NextRouteNearer, PTL DEF Spec
-----------------------------------------------------------------------------
(* The composer waits for the route only while the route works on the query. *)

\* The page waits for a query only while the route works on it: the composer is never
\* disabled for work that is over or was never begun.
OpenIsUnderWay == \A q \in open : route[q] \notin {"none", "over"}

\* What a step that is not the route's own does to an open query: it goes on, or the
\* composer is enabled.
LEMMA OpenGoesOn ==
    ASSUME Inv, [Next]_vars, NEW q \in Query, q \in open, ~RouteStep(q)
    PROVE  \/ ~sending'
           \/ open' = open /\ route'[q] = route[q]
<1>1. sending /\ RouteType /\ open \subseteq {q}
    BY InvParts DEF Inv, TypeOK, PageInv
<1>2. ASSUME NEW d \in Query, RouteStep(d)
      PROVE  open' = open /\ route'[q] = route[q]
    <2>1. d # q /\ d \notin open
        BY <1>1, <1>2
    <2>2. route'[q] = route[q]
        BY <1>1, <1>2, <2>1, OtherRoute
    <2>3. open' = open
        BY <1>2, <2>1 DEF RouteStep, Advance, Check, TooLong, Respond, StreamEnds, TimeOut,
            Deliver, NoConnection, Reset, Chunk, NoChunk, RouteFails, Again, TellError,
            TellDone, pageVars
    <2> QED BY <2>2, <2>3
<1>3. ASSUME NEW d \in Query, PageLoses(d) PROVE ~sending'
    BY <1>3 DEF PageLoses, TellError, Over
<1>4. CASE Clear
    BY <1>4 DEF Clear, Over
<1>5. CASE SessionChanges \/ AgentStep \/ UNCHANGED vars
    BY <1>5 DEF SessionChanges, AgentStep, vars, pageVars, routeVars
<1> QED BY <1>1, <1>2, <1>3, <1>4, <1>5 DEF Next, Submit

\* What the route's own step does to an open query.
LEMMA OpenAdvances ==
    ASSUME Inv, NEW q \in Query, q \in open, RouteStep(q)
    PROVE  \/ ~sending'
           \/ /\ open' = open
              /\ \/ route[q] = "check" /\ route'[q] = "post"
                 \/ route[q] = "post" /\ route'[q] \in {"post", "await"}
                 \/ route[q] = "await" /\ route'[q] \in {"post", "head"}
                 \/ route[q] = "head" /\ route'[q] = "body"
<1>1. RouteType
    BY InvParts
<1>2. ASSUME NEW from, RouteFails(q, from) PROVE ~sending'
    BY <1>2 DEF RouteFails, TellError, Over
<1>3. ASSUME NEW from \in {"post", "await"}, Again(q, from)
      PROVE  \/ ~sending'
             \/ open' = open /\ route[q] = from /\ route'[q] = "post"
    BY <1>1, <1>2, <1>3, GotoLeaves DEF Again, pageVars, RouteStage
<1>4. CASE Check(q)
    BY <1>1, <1>2, <1>4, GotoLeaves DEF Check, pageVars, RouteStage
<1>5. CASE Deliver(q)
    BY <1>1, <1>5, GotoLeaves DEF Deliver, pageVars, RouteStage
<1>6. CASE Respond(q)
    BY <1>1, <1>2, <1>6, GotoLeaves DEF Respond, pageVars, RouteStage
<1>7. CASE Chunk(q)
    BY <1>1, <1>7, GotoLeaves DEF Chunk, RouteStage
<1>8. CASE StreamEnds(q)
    BY <1>8 DEF StreamEnds, TellDone, Over
<1> QED BY <1>2, <1>3, <1>4, <1>5, <1>6, <1>7, <1>8
        DEF RouteStep, Advance, TooLong, TimeOut, NoConnection, Reset, NoChunk

LEMMA NextOpenUnderWay ==
    Inv /\ OpenIsUnderWay /\ [Next]_vars => OpenIsUnderWay'
<1> SUFFICES ASSUME Inv, OpenIsUnderWay, [Next]_vars, NEW q \in open'
             PROVE  route'[q] \notin {"none", "over"}
    BY DEF OpenIsUnderWay
<1>1. Inv'
    BY NextKeeps
<1>2. q \in Query /\ sending'
    BY <1>1, InvParts DEF Inv, TypeOK
<1>3. CASE q \in open
    BY <1>2, <1>3, OpenGoesOn, OpenAdvances DEF OpenIsUnderWay
<1>4. CASE q \notin open
    <2>1. Submit
        BY <1>2, <1>4 DEF Next, RouteStep, Advance, Check, TooLong, Respond, StreamEnds,
            TimeOut, Deliver, NoConnection, Reset, Chunk, NoChunk, RouteFails, Again,
            TellError, TellDone, pageVars, PageLoses, Clear, Over, SessionChanges, AgentStep,
            vars
    <2>2. q = sent' /\ RouteType
        BY <1>4, <2>1, InvParts DEF Submit
    <2> QED BY <1>2, <2>1, <2>2 DEF Submit, RouteType
<1> QED BY <1>3, <1>4

\* The composer is disabled only while the route works on the query it waits for
\* (chat-workspace.tsx handleSend): it never waits for nothing.
THEOREM ComposerWaitsForRoute == Spec => []OpenIsUnderWay
<1>1. Init => OpenIsUnderWay
    BY DEF Init, OpenIsUnderWay
<1> QED BY <1>1, WebInvariant, NextOpenUnderWay, PTL DEF Spec

-----------------------------------------------------------------------------
(* Liveness: the composer comes back. *)

\* The route works on a query the page waits for.
Awaited(q) == q \in open
First(q) == q \in open /\ route[q] \in {"check", "long"}
Waiting(q) == q \in open /\ route[q] \in {"post", "await"}
Streaming(q) == q \in open /\ route[q] \in {"head", "body"}

\* While the page waits the route can take a step by itself: at the latest its request
\* times out.
RouteCan(q) == Awaited(q) => ENABLED <<Advance(q)>>_vars
RouteAlwaysCan(q) == []RouteCan(q)

\* The route's work on a query goes on while the page waits for it.
RouteServed(q) == []<>~Awaited(q) \/ []<><<Advance(q)>>_vars

LEMMA FairnessServes ==
    ASSUME NEW q \in Query
    PROVE  RouteFairness(q) /\ RouteAlwaysCan(q) => RouteServed(q)
<1> QED BY PTL DEF RouteFairness, RouteAlwaysCan, RouteCan, RouteServed

\* Any step, and a step of the route's own, at each of the three stages.
LEMMA OpenStages ==
    ASSUME Inv, NEW q \in Query, [Next]_vars
    PROVE  /\ First(q) => First(q)' \/ Waiting(q)' \/ ~sending'
           /\ Waiting(q) => Waiting(q)' \/ Streaming(q)' \/ ~sending'
           /\ Streaming(q) => Streaming(q)' \/ ~sending'
BY OpenGoesOn, OpenAdvances DEF First, Waiting, Streaming

LEMMA AdvanceStages ==
    ASSUME Inv, NEW q \in Query, Advance(q)
    PROVE  /\ First(q) => Waiting(q)' \/ ~sending'
           /\ Waiting(q) => Streaming(q)' \/ ~sending'
           /\ Streaming(q) => ~sending'
<1>1. RouteType
    BY InvParts
<1>2. ASSUME NEW from, RouteFails(q, from), q \in open PROVE ~sending'
    BY <1>2 DEF RouteFails, TellError, Over
<1>3. CASE Check(q)
    BY <1>1, <1>2, <1>3, GotoLeaves
       DEF Check, pageVars, RouteStage, First, Waiting, Streaming, Goto, RouteFails
<1>4. CASE Respond(q)
    BY <1>1, <1>2, <1>4, GotoLeaves
       DEF Respond, pageVars, RouteStage, First, Waiting, Streaming
<1>5. CASE StreamEnds(q)
    BY <1>5 DEF StreamEnds, TellDone, Over, First, Waiting, Streaming
<1>6. CASE TooLong(q) \/ TimeOut(q)
    BY <1>2, <1>6 DEF TooLong, TimeOut, First, Waiting, Streaming
<1> QED BY <1>3, <1>4, <1>5, <1>6 DEF Advance

LEMMA OneComesBack ==
    ASSUME NEW q \in Query
    PROVE  Spec /\ RouteServed(q) => (Awaited(q) ~> ~sending)
<1> DEFINE IInv == Inv /\ OpenIsUnderWay
<1>1. Spec => []IInv
    BY WebInvariant, ComposerWaitsForRoute, PTL
<1>2. IInv /\ Awaited(q) => First(q) \/ Waiting(q) \/ Streaming(q)
    BY InvParts DEF Awaited, OpenIsUnderWay, RouteType, RouteStage, First, Waiting, Streaming
<1>3. First(q) \/ Waiting(q) \/ Streaming(q) => Awaited(q)
    BY DEF Awaited, First, Waiting, Streaming
<1>4. /\ IInv /\ First(q) /\ [Next]_vars => First(q)' \/ Waiting(q)' \/ ~sending'
      /\ IInv /\ Waiting(q) /\ [Next]_vars => Waiting(q)' \/ Streaming(q)' \/ ~sending'
      /\ IInv /\ Streaming(q) /\ [Next]_vars => Streaming(q)' \/ ~sending'
    BY OpenStages
<1>5. /\ IInv /\ First(q) /\ <<Advance(q)>>_vars => Waiting(q)' \/ ~sending'
      /\ IInv /\ Waiting(q) /\ <<Advance(q)>>_vars => Streaming(q)' \/ ~sending'
      /\ IInv /\ Streaming(q) /\ <<Advance(q)>>_vars => ~sending'
    BY AdvanceStages
<1> HIDE DEF IInv
<1> QED BY <1>1, <1>2, <1>3, <1>4, <1>5, PTL DEF Spec, RouteServed

\* The composer comes back from every query, whatever ai-agent, the network and the user
\* do, for any number of attempts and queries: the timeout of the route's request is
\* enough (client.ts invokeStream).  That the route can take a step while the page waits
\* is a hypothesis: what is ENABLED only TLC can tell.
THEOREM ComposerReturns ==
    FairSpec /\ (\A q \in Query : RouteAlwaysCan(q)) => ComposerComesBack
<1>1. ASSUME NEW q \in Query
      PROVE  Spec /\ RouteFairness(q) /\ RouteAlwaysCan(q) => (Awaited(q) ~> ~sending)
    BY FairnessServes, OneComesBack, PTL
<1> QED BY <1>1 DEF FairSpec, ComposerComesBack, Awaited
=============================================================================
