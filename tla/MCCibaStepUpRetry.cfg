\* A step-up that times out and the retry of the same tool call.
CONSTANTS
    Call = {c1, c2}
    Thread = {t1}
    PollTimeout = 1
    PollInterval = 1
    SlowDownStep = 1
SPECIFICATION RetrySpec
PROPERTIES
    RetryUsesTheApproval
CHECK_DEADLOCK FALSE
