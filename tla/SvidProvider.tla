----------------------------- MODULE SvidProvider -----------------------------
(***************************************************************************)
(* SpiffeSvidProvider of user-mcp (spiffe_client.py): the workload's       *)
(* JWT-SVID is cached until 30 s before it expires and fetched under an    *)
(* asyncio.Lock.  The SPIRE Workload API is external: it gives a new SVID, *)
(* refuses, or leaves a fetch without an answer for ever.                  *)
(***************************************************************************)
CONSTANTS
    Client,
    Nobody

ASSUME NobodyAssumption == Nobody \notin Client

\* fresh: more than _REFRESH_HEADROOM_SECONDS to live; aging: less; dead: expired.
Age == {"none", "fresh", "aging", "dead"}

VARIABLES
    cached,     \* the age of the cached SVID, "none" if there is none
    fetching,   \* the holder of the lock, suspended in the fetch
    svid        \* the age of the SVID with which each client logs in to Vault

svidVars == <<cached, fetching, svid>>

SvidTypeOK ==
    /\ cached \in Age
    /\ fetching \in Client \cup {Nobody}
    /\ svid \in [Client -> Age]

SvidInit ==
    /\ cached = "none"
    /\ fetching = Nobody
    /\ svid = [c \in Client |-> "none"]

\* (Mutant of UsableSvid: no headroom.)
UsableUntilDead == cached \in {"fresh", "aging"}

UsableSvid == cached = "fresh"

\* get_jwt_svid with the lock free: the cached SVID, or a fetch is begun.
GetSvid(c) ==
    /\ fetching = Nobody
    /\ IF UsableSvid
       THEN svid' = [svid EXCEPT ![c] = cached] /\ UNCHANGED <<cached, fetching>>
       ELSE fetching' = c /\ UNCHANGED <<cached, svid>>

Fetched(c) ==
    /\ fetching = c
    /\ fetching' = Nobody /\ cached' = "fresh"
    /\ svid' = [svid EXCEPT ![c] = "fresh"]

\* (Mutant of FetchRefused: the lock is not released.)
FetchRefusedLocked(c) == fetching = c /\ UNCHANGED svidVars

\* The error leaves the lock free and the old SVID cached.
FetchRefused(c) ==
    /\ fetching = c
    /\ fetching' = Nobody
    /\ UNCHANGED <<cached, svid>>

\* The login is over.
DropSvid(c) == svid' = [svid EXCEPT ![c] = "none"] /\ UNCHANGED <<cached, fetching>>

Older(age) == CASE age = "fresh" -> "aging" [] age = "aging" -> "dead" [] OTHER -> age

\* Time passes.  A login takes less than the headroom (httpx.Timeout of 10 s against
\* 30 s): an SVID that was fresh when it was given outlives it, one that was aging
\* may not.
SvidAges ==
    /\ cached' = Older(cached)
    /\ svid' = [c \in Client |-> IF svid[c] = "aging" THEN "dead" ELSE svid[c]]
    /\ UNCHANGED fetching
===============================================================================
