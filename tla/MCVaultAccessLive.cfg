\* Two calls that run one after the other in the same task context.
CONSTANTS
    Call = {k1, k2}
    Context = {x1}
    alice = alice
    bob = bob
    User = {alice, bob}
    None = None
    Request <- Requests
SPECIFICATION FairSpec
PROPERTIES
    EveryCallAnswered
