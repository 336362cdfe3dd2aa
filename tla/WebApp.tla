-------------------------------- MODULE WebApp --------------------------------
(***************************************************************************)
(* The chat of the web-app: the page (chat-workspace.tsx,                  *)
(* stream-client.ts), the route it posts to (app/api/agent/query/route.ts, *)
(* lib/agent/client.ts), and ai-agent as AgentRun promises it.  A run is   *)
(* one delivery of the route's POST.  The route is not told when the page  *)
(* gives a query up.                                                       *)
(***************************************************************************)
EXTENDS AgentRun, Naturals, Sequences

CONSTANTS
    MaxQueries,     \* bound: queries that are submitted
    MaxAttempts,    \* agent.retry.maxAttempts
    MaxHistory,     \* max(200) of the route's schema
    None

ASSUME WebAssumption ==
    /\ MaxQueries \in Nat /\ MaxHistory \in Nat
    /\ MaxAttempts \in Nat \ {0}
    /\ None \notin Run

Query == 1 .. MaxQueries

VARIABLES
    session,    \* the browser's cookies hold a session that is not over (getSession)
    sent,       \* the number of queries submitted
    log,        \* the messages shown
    open,       \* the queries streamAgent runs for
    partial,    \* those of which some of the answer was shown
    sending,    \* the composer is disabled
    route,      \* the route's work on each query
    attempt,    \* which attempt of fetchWithRetry it is
    run,        \* the run of the attempt, None before it is delivered
    runsOf,     \* history: all runs of a query
    reset       \* history: the runs whose connection was reset

pageVars == <<sent, log, open, partial, sending>>
routeVars == <<route, attempt, run, runsOf, reset>>
vars == <<session, runVars, pageVars, routeVars>>

Message(who, query, is) == [who |-> who, query |-> query, is |-> is]
Messages == [who : {"user", "agent"}, query : Query, is : {"text", "part", "error"}]

\* The composer is disabled exactly while a query is open.
TypeOK ==
    /\ RunTypeOK /\ session \in BOOLEAN
    /\ sent \in 0 .. MaxQueries
    /\ log \in Seq(Messages)
    /\ open \subseteq Query /\ partial \subseteq open
    /\ sending \in BOOLEAN /\ (sending <=> open # {})
    /\ route \in [Query -> {"none", "check", "long", "post", "await", "head",
                            "body", "over"}]
    /\ attempt \in [Query -> 0 .. MaxAttempts]
    /\ run \in [Query -> Run \cup {None}]
    /\ runsOf \in [Query -> SUBSET Run]
    /\ reset \subseteq Run

Init ==
    /\ RunInit /\ session = TRUE
    /\ sent = 0 /\ log = << >> /\ open = {} /\ partial = {} /\ sending = FALSE
    /\ route = [q \in Query |-> "none"]
    /\ attempt = [q \in Query |-> 0]
    /\ run = [q \in Query |-> None]
    /\ runsOf = [q \in Query |-> {}]
    /\ reset = {}

-----------------------------------------------------------------------------
(* The page. *)

\* handleSend: the messages shown so far are the history.
Submit ==
    /\ ~sending /\ sent < MaxQueries
    /\ sent' = sent + 1
    /\ log' = Append(log, Message("user", sent', "text"))
    /\ open' = open \cup {sent'} /\ sending' = TRUE
    /\ route' = [route EXCEPT ![sent'] = IF Len(log) <= MaxHistory THEN "check" ELSE "long"]
    /\ UNCHANGED <<session, runVars, partial, attempt, run, runsOf, reset>>

\* streamAgent is over for some queries: its callbacks enable the composer.
Over(done) == open' = open \ done /\ partial' = partial \ done /\ sending' = FALSE

\* onError: what was shown of the answer, and the error.
WithError(q, messages) ==
    messages \o (IF q \in partial THEN <<Message("agent", q, "part")>> ELSE << >>)
             \o <<Message("agent", q, "error")>>

\* onError and onDone, if the page still waits for the query.
TellError(q) ==
    IF q \in open THEN log' = WithError(q, log) /\ Over({q}) /\ UNCHANGED sent
    ELSE UNCHANGED pageVars

TellDone(q) ==
    IF q \in open
    THEN log' = Append(log, Message("agent", q, "text")) /\ Over({q}) /\ UNCHANGED sent
    ELSE UNCHANGED pageVars

\* (Mutant of Clear: the query is not aborted.)
ClearOnly ==
    /\ log # << >>
    /\ log' = << >> /\ sending' = FALSE
    /\ UNCHANGED <<session, runVars, routeVars, sent, open, partial>>

\* handleClear: the abort calls onError after the messages are emptied.
Clear ==
    /\ log # << >>
    /\ log' = IF open = {} THEN << >> ELSE WithError(CHOOSE q \in open : TRUE, << >>)
    /\ Over(open)
    /\ UNCHANGED <<session, runVars, routeVars, sent>>

\* The connection between page and route breaks.
PageLoses(q) ==
    /\ q \in open /\ TellError(q)
    /\ UNCHANGED <<session, runVars, routeVars>>

-----------------------------------------------------------------------------
(* The route. *)

Goto(q, from, to) == route[q] = from /\ route' = [route EXCEPT ![q] = to]

\* The route answers with an error, or its stream breaks off without a chunk.
RouteFails(q, from) ==
    /\ Goto(q, from, "over") /\ TellError(q)
    /\ UNCHANGED <<attempt, run, runsOf>>

\* fetchWithRetry: a failure that may be transient leads to the next attempt.
Again(q, from) ==
    IF attempt[q] < MaxAttempts
    THEN /\ Goto(q, from, "post")
         /\ attempt' = [attempt EXCEPT ![q] = @ + 1]
         /\ UNCHANGED <<pageVars, run, runsOf>>
    ELSE RouteFails(q, from)

\* 401 without a live session, 400 for a history that is too long.
Check(q) ==
    /\ IF session
       THEN /\ Goto(q, "check", "post")
            /\ attempt' = [attempt EXCEPT ![q] = 1]
            /\ UNCHANGED <<pageVars, run, runsOf>>
       ELSE RouteFails(q, "check")
    /\ UNCHANGED <<session, runVars, reset>>

TooLong(q) == RouteFails(q, "long") /\ UNCHANGED <<session, runVars, reset>>

NextRun == CHOOSE r \in Run : stage[r] = "off"

\* The POST reaches ai-agent.
Deliver(q) ==
    /\ Goto(q, "post", "await")
    /\ \E r \in Run : stage[r] = "off"
    /\ Accept(NextRun)
    /\ run' = [run EXCEPT ![q] = NextRun]
    /\ runsOf' = [runsOf EXCEPT ![q] = @ \cup {NextRun}]
    /\ UNCHANGED <<session, pageVars, attempt, reset>>

\* There is no connection: its name is not resolved or it is not established in time,
\* which is transient, or it is refused.
NoConnection(q) ==
    /\ Again(q, "post") \/ RouteFails(q, "post")
    /\ UNCHANGED <<session, runVars, reset>>

\* The connection is reset (ECONNRESET) before the response: the POST is sent again.
Reset(q) ==
    /\ Again(q, "await")
    /\ reset' = reset \cup {run[q]}
    /\ UNCHANGED <<session, runVars>>

\* (Mutant of TimeOut: a request that timed out is sent again.)
TimeOutAgain(q) ==
    /\ \E from \in {"post", "await", "head"} : Again(q, from)
    /\ UNCHANGED <<session, runVars, reset>>

\* The 310 s of the request are over, whatever it waits for.
TimeOut(q) ==
    /\ \E from \in {"post", "await", "head"} : RouteFails(q, from)
    /\ UNCHANGED <<session, runVars, reset>>

\* ai-agent responds when the run is over.
Respond(q) ==
    /\ route[q] = "await"
    /\ \/ /\ result[run[q]] = "answer" /\ Goto(q, "await", "head")
          /\ UNCHANGED <<pageVars, attempt, run, runsOf>>
       \/ result[run[q]] = "error" /\ RouteFails(q, "await")
    /\ UNCHANGED <<session, runVars, reset>>

Chunk(q) ==
    /\ Goto(q, "head", "body")
    /\ partial' = partial \cup ({q} \cap open)
    /\ UNCHANGED <<session, runVars, sent, log, open, sending, attempt, run, runsOf, reset>>

NoChunk(q) == RouteFails(q, "head") /\ UNCHANGED <<session, runVars, reset>>

\* The stream ends; after a chunk it makes no difference whether it was complete.
StreamEnds(q) ==
    /\ route[q] \in {"head", "body"} /\ Goto(q, route[q], "over")
    /\ TellDone(q)
    /\ UNCHANGED <<session, runVars, attempt, run, runsOf, reset>>

-----------------------------------------------------------------------------
(* Mutant of Advance: the request has no timeout. *)
AdvancePatiently(q) == Check(q) \/ TooLong(q) \/ Respond(q) \/ StreamEnds(q)

\* What the route does by itself.
Advance(q) == Check(q) \/ TooLong(q) \/ Respond(q) \/ StreamEnds(q) \/ TimeOut(q)

RouteStep(q) ==
    \/ Advance(q)
    \/ Deliver(q) \/ NoConnection(q) \/ Reset(q) \/ Chunk(q) \/ NoChunk(q)

AgentStep ==
    /\ Dies \/ \E r \in Run : Call(r) \/ Operate(r) \/ Answers(r) \/ Fails(r)
    /\ UNCHANGED <<session, pageVars, routeVars>>

\* Its time is over, or another tab logs out or in.
SessionChanges == session' = ~session /\ UNCHANGED <<runVars, pageVars, routeVars>>

Next ==
    \/ SessionChanges \/ AgentStep \/ Submit \/ Clear
    \/ \E q \in Query : PageLoses(q) \/ RouteStep(q)

Spec == Init /\ [][Next]_vars

\* Nothing is assumed of ai-agent, of the network or of the user.
RouteFairness(q) == WF_vars(Advance(q))

FairSpec == Spec /\ \A q \in Query : RouteFairness(q)

-----------------------------------------------------------------------------
(* Properties. *)

Answered == {log[i].query : i \in {j \in DOMAIN log : log[j].who = "agent" /\ log[j].is = "text"}}

\* An answer is shown right below its question and only once, whatever was cleared,
\* aborted or submitted meanwhile (chat-workspace.tsx handleSend, handleClear).
AnswersFollowQuestions ==
    \A i \in DOMAIN log : (log[i].who = "agent" /\ log[i].is = "text") =>
        /\ i > 1 /\ log[i - 1] = Message("user", log[i].query, "text")
        /\ \A j \in DOMAIN log : log[j] = log[i] => j = i

\* Once an answer is shown nothing goes on for its question at ai-agent and user-mcp,
\* but in runs whose connection was reset (client.ts fetchWithRetry: what it sends again
\* and what it does not).
QuietAfterAnswer ==
    \A q \in Answered : \A r \in runsOf[q] \ reset : stage[r] = "over" /\ r \notin running

\* The composer comes back from every query, whether or not ai-agent answers (client.ts
\* invokeStream's timeout).
ComposerComesBack == \A q \in Query : q \in open ~> ~sending

-----------------------------------------------------------------------------
(* The inductive invariant behind AnswersFollowQuestions and QuietAfterAnswer. *)

\* Only the last query is open; the log ends with it and does not answer it.
PageInv ==
    /\ open \subseteq {sent}
    /\ \A q \in open :
          /\ log # << >> /\ log[Len(log)] = Message("user", q, "text")
          /\ q \notin Answered
    /\ \A i \in DOMAIN log : log[i].query <= sent

\* The runs of a query are reset but for the last one, which is over once there is a
\* response; nothing follows an answer that was shown.
RouteInv(q) ==
    /\ q > sent => route[q] = "none"
    /\ route[q] \in {"none", "check", "long"} => runsOf[q] = {}
    /\ route[q] = "post" => runsOf[q] \subseteq reset
    /\ route[q] \in {"await", "head", "body"} =>
          run[q] \in Run /\ runsOf[q] \subseteq reset \cup {run[q]}
    /\ route[q] \in {"head", "body"} => result[run[q]] = "answer"
    /\ q \in Answered => route[q] = "over"

Settled == \A r \in Run : result[r] = "answer" => stage[r] = "over" /\ r \notin running

Inv ==
    /\ TypeOK /\ PageInv /\ AnswersFollowQuestions
    /\ (\A q \in Query : RouteInv(q)) /\ Settled /\ QuietAfterAnswer
===============================================================================
