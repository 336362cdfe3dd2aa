\* Two calls, one after the other in one task context or side by side in two.
CONSTANTS
    Call = {k1, k2}
    Context = {x1, x2}
    alice = alice
    bob = bob
    User = {alice, bob}
    None = None
    Request <- Requests
SYMMETRY Symmetry
SPECIFICATION Spec
INVARIANTS
    TypeOK
    OwnActionToken
    MintedWithWorkload
    StepUpHonoured
    ConnectionClosed
    AnswerIsEarned
    AccessInv
