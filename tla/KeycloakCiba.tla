----------------------------- MODULE KeycloakCiba -----------------------------
(***************************************************************************)
(* Keycloak's CIBA endpoints, as user-mcp/ciba_client.py and the           *)
(* ciba-channel server use them.  Keycloak is not part of the repository:  *)
(* it is modelled by the answers its callers handle.  A request is opened  *)
(* by the backchannel POST, decided at most once by a callback of the      *)
(* authentication channel, and closed when its token is fetched, when its  *)
(* refusal has been told, or when it expires.                              *)
(***************************************************************************)
CONSTANTS Call           \* backchannel authentication requests

VARIABLES
    request,             \* [Call -> "none" | "sent" | "open" | "closed"]
    decision             \* [Call -> "none" | "approved" | "denied"]

keycloakVars == <<request, decision>>

RequestState == {"none", "sent", "open", "closed"}
Decision == {"none", "approved", "denied"}

KeycloakTypeOK ==
    /\ request \in [Call -> RequestState]
    /\ decision \in [Call -> Decision]

KeycloakInit ==
    /\ request = [c \in Call |-> "none"]
    /\ decision = [c \in Call |-> "none"]

RequestStep(c, from, to) ==
    /\ request[c] = from
    /\ request' = [request EXCEPT ![c] = to]
    /\ UNCHANGED decision

\* The backchannel POST is on its way.
Send(c) == RequestStep(c, "none", "sent")

\* It is handled: "open", or "closed" when it is rejected or its delegation to
\* the authentication channel fails.
Opened(c, state) == state \in {"open", "closed"} /\ RequestStep(c, "sent", state)

\* The request's lifetime runs out.  (A poll that is handled after its client
\* gave up, and whose token nobody receives, ends the request the same way.)
Expire(c) == RequestStep(c, "open", "closed")

\* A callback takes effect on an open request nobody decided yet; any other is
\* answered with an error and changes nothing.
Undecided(c) == request[c] = "open" /\ decision[c] = "none"

Decided(verdict) == IF verdict = "SUCCEED" THEN "approved" ELSE "denied"

DecideBy(c, verdict) ==
    /\ Undecided(c)
    /\ decision' = [decision EXCEPT ![c] = Decided(verdict)]
    /\ UNCHANGED request

\* The replies of the token endpoint to a poll for request c.
Replies(c) ==
    CASE request[c] # "open"       -> {"denied"}
      [] decision[c] = "approved"  -> {"token"}
      [] decision[c] = "denied"    -> {"denied"}
      [] OTHER                     -> {"pending", "slow_down"}

\* The token is issued once, and a refusal is told once: both close the request.
Replied(c, reply) ==
    /\ reply \in Replies(c)
    /\ request' = [request EXCEPT
                     ![c] = IF reply \in {"token", "denied"} THEN "closed" ELSE @]
    /\ UNCHANGED decision
==============================================================================
