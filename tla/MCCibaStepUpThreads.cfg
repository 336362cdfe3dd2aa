\* One request and three handler threads, so that an Approve, a Deny and a second
\* Approve of the same item can all be between their callback and the write of
\* the item's status.  Polls at 1, 2, 3 s, or further apart after slow_down.
CONSTANTS
    Call = {c1}
    Thread = {t1, t2, t3}
    PollTimeout = 3
    PollInterval = 1
    SlowDownStep = 1
SPECIFICATION FairSpec
INVARIANTS
    RecordedApprovalIsReal
    WaitBounded
PROPERTIES
    ApprovalInTimeIsServed
    ImplementsGrant
\* The call may have ended and nobody may press a button again.
CHECK_DEADLOCK FALSE
