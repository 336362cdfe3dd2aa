\* Two concurrent step-ups that share the approval page, one handler thread and
\* one poll per call: /approve-latest and /approve/<id> can hit either request.
CONSTANTS
    Call = {c1, c2}
    Thread = {t1}
    PollTimeout = 1
    PollInterval = 1
    SlowDownStep = 1
SYMMETRY Symmetry
SPECIFICATION Spec
INVARIANTS
    TypeOK
    TokenNeedsApproval
    StepUpInv
PROPERTIES
    GrantSteps
\* Every call may have ended and nobody may press a button again.
CHECK_DEADLOCK FALSE
