------------------------------ MODULE CibaGrant ------------------------------
(***************************************************************************)
(* What a CIBA step-up promises to the code that asks for one: a call of   *)
(* CibaClient.fetch_access_token (user-mcp/ciba_client.py) opens a request, *)
(* a human decides it at most once, and the call ends exactly once, with a *)
(* token only if the decision was an approval.  How the decision travels   *)
(* (poll loop, approval page, callbacks, failures) is CibaStepUp's affair. *)
(***************************************************************************)
CONSTANTS Call           \* calls of fetch_access_token, one CIBA request each

VARIABLES
    phase,               \* [Call -> "idle" | "waiting" | "granted" | "refused"]
    decision             \* [Call -> "none" | "approved" | "denied"]

grantVars == <<phase, decision>>

Phase == {"idle", "waiting", "granted", "refused"}
Decision == {"none", "approved", "denied"}

GrantTypeOK ==
    /\ phase \in [Call -> Phase]
    /\ decision \in [Call -> Decision]

GrantInit ==
    /\ phase = [c \in Call |-> "idle"]
    /\ decision = [c \in Call |-> "none"]

\* The call is made; it may be refused at once (no client secret, Keycloak down).
Ask(c) ==
    /\ phase[c] = "idle"
    /\ \E p \in {"waiting", "refused"} : phase' = [phase EXCEPT ![c] = p]
    /\ UNCHANGED decision

\* A human's decision reaches Keycloak, possibly after the caller gave up.
Decide(c, d) ==
    /\ phase[c] # "idle"
    /\ decision[c] = "none"
    /\ decision' = [decision EXCEPT ![c] = d]
    /\ UNCHANGED phase

\* The call returns the elevated token.
Grant(c) ==
    /\ phase[c] = "waiting"
    /\ decision[c] = "approved"
    /\ phase' = [phase EXCEPT ![c] = "granted"]
    /\ UNCHANGED decision

\* The call raises: denied, expired, timed out, or a failure on the way.
Refuse(c) ==
    /\ phase[c] = "waiting"
    /\ phase' = [phase EXCEPT ![c] = "refused"]
    /\ UNCHANGED decision

GrantStep(c) == Grant(c) \/ Refuse(c)

GrantNext == 
    \E c \in Call :
        \/ Ask(c)
        \/ \E d \in Decision \ {"none"} : Decide(c, d)
        \/ GrantStep(c)

\* fetch_access_token always ends: its loop is bounded by the poll timeout.
GrantSpec ==
    /\ GrantInit /\ [][GrantNext]_grantVars
    /\ \A c \in Call : WF_grantVars(GrantStep(c))
==============================================================================
