---------------------------- MODULE UserRepository ----------------------------
(***************************************************************************)
(* What the tools of user-mcp may expect of their repository, whichever it *)
(* is (storage/base.py): a book with at most one user per mailbox.  A call *)
(* takes effect at one moment between its request and its answer, or not   *)
(* at all; the answer tells what the book was or became at that moment.  A *)
(* call may end without an answer, and may have taken effect all the same. *)
(* Locks, pools, credentials and statements are not visible.               *)
(***************************************************************************)
EXTENDS UserRecords

CONSTANTS
    Client      \* tool calls that may be under way at a time

VARIABLES
    book,       \* the user with each mailbox
    asked,      \* the request of each client
    outcome,    \* what it led to, once it has taken effect
    durable     \* the book outlives the process: fixed

repositoryVars == <<book, asked, outcome, durable>>

IsBook(b) == \A m \in Box : b[m] = Null \/ (b[m] \in User /\ BoxOf[b[m].email] = m)

\* The books a request may turn b into, each with its outcome.  Whether an update
\* clears a field left empty is up to the repository.
Results(request, b) ==
    CASE request.op = "list" ->
            {<<b, Outcome("ok", {b[m] : m \in Box} \ {Null})>>}
      [] request.op = "create" ->
            LET m == BoxOf[request.user.email]
            IN IF b[m] # Null THEN {<<b, Outcome("exists", {})>>}
               ELSE {<<[b EXCEPT ![m] = request.user], Outcome("ok", {request.user})>>}
      [] request.op = "delete" ->
            LET m == BoxOf[request.email]
            IN IF b[m] = Null THEN {<<b, Outcome("missing", {})>>}
               ELSE {<<[b EXCEPT ![m] = Null], Outcome("ok", {b[m]})>>}
      [] request.op = "update" ->
            LET m == BoxOf[request.email]
                n == BoxOf[request.user.email]
            IN IF b[m] = Null THEN {<<b, Outcome("missing", {})>>}
               ELSE IF m # n /\ b[n] # Null THEN {<<b, Outcome("exists", {})>>}
               ELSE {<<[b EXCEPT ![m] = Null, ![n] = u], Outcome("ok", {u})>> :
                       u \in {request.user, Filled(request.user, b[m])}}

RepositoryInit ==
    /\ IsBook(book)
    /\ asked = [c \in Client |-> Null]
    /\ outcome = [c \in Client |-> Null]

Asks(c) ==
    /\ asked[c] = Null /\ asked'[c] \in Request
    /\ asked' = [asked EXCEPT ![c] = asked'[c]]
    /\ UNCHANGED <<book, outcome>>

\* It takes effect, or fails; a failure tells nothing of the effect.
Effect(c) ==
    /\ asked[c] # Null /\ outcome[c] = Null
    /\ \E r \in Results(asked[c], book) \cup {<<book, Outcome("failed", {})>>} :
          /\ book' = r[1]
          /\ outcome' = [outcome EXCEPT ![c] = outcome'[c]]
          /\ outcome'[c] \in {r[2], Outcome("failed", {})}
    /\ UNCHANGED asked

\* The call returns what it led to, or an error.
Returns(c) ==
    /\ asked[c] # Null
    /\ asked' = [asked EXCEPT ![c] = Null]
    /\ outcome' = [outcome EXCEPT ![c] = Null]
    /\ UNCHANGED book

\* The process stops: its calls are gone, and a book it kept in memory is.
Restarts ==
    /\ asked' = [c \in Client |-> Null] /\ outcome' = [c \in Client |-> Null]
    /\ IF durable THEN UNCHANGED book ELSE IsBook(book')

RepositoryNext ==
    /\ UNCHANGED durable
    /\ Restarts \/ \E c \in Client : Asks(c) \/ Effect(c) \/ Returns(c)

RepositorySpec == RepositoryInit /\ [][RepositoryNext]_repositoryVars
===============================================================================
