---------------------------- MODULE MCCibaStepUp ----------------------------
(* Instances of CibaStepUp for TLC. *)
EXTENDS CibaStepUp, TLC

\* Calls and handler threads are interchangeable (safety runs only).
Symmetry == Permutations(Call) \cup Permutations(Thread)

\* The user does what the timeout message says: approve the pending request of
\* the call that timed out, then retry.
Begins(c) == stage[c] = "idle" /\ stage'[c] # "idle"
ByTheMessage ==
    \A c, d \in Call :
        Begins(d) /\ stage[c] # "idle" => stage[c] = "timedout" /\ decision[c] = "approved"

RetrySpec ==
    /\ Init /\ [][Next /\ ByTheMessage]_vars
    /\ \A c \in Call : WF_vars(CallStep(c))
=============================================================================
