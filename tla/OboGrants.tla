------------------------------ MODULE OboGrants ------------------------------
(***************************************************************************)
(* What a tool call relies on: a task that runs a scoped tool is given a   *)
(* token that is live when it is given, that acts for the task's own user  *)
(* and carries the scopes of its tool, the delegation scope and no other,  *)
(* all of them scopes that user is entitled to; or it is given none.       *)
(* Nothing of the caches, the exchange or its retries is visible.          *)
(***************************************************************************)
EXTENDS Integers

CONSTANTS Task, None, Delegation,
    Asks,       \* who each task acts for and the scopes its tool requires
    Entitled    \* <<subject, scope>> pairs

VARIABLES
    now,
    held        \* the token of each task, None while it has none

grantVars == <<now, held>>

\* Every scope a task asks for is one its user is entitled to.
MayHave(t) == \A s \in Asks[t].what : <<Asks[t].who, s>> \in Entitled

Fits(t, token) ==
    /\ token.for.who = Asks[t].who
    /\ token.grants = Asks[t].what \cup {Delegation}
    /\ MayHave(t)

GrantsInit == now = 0 /\ held = [t \in Task |-> None]

Give(t) ==
    /\ held[t] = None
    /\ held'[t] # None /\ Fits(t, held'[t]) /\ now < held'[t].exp
    /\ held' = [held EXCEPT ![t] = held'[t]]
    /\ UNCHANGED now

\* Calls end, or the agent restarts.
Drop == \E gone \in SUBSET Task :
    /\ held' = [t \in Task |-> IF t \in gone THEN None ELSE held[t]]
    /\ UNCHANGED now

Pass == now' = now + 1 /\ UNCHANGED held

GrantsNext == Drop \/ Pass \/ \E t \in Task : Give(t)

GrantsSpec == GrantsInit /\ [][GrantsNext]_grantVars
=============================================================================
