\* One call is enough to ask a human about something else than the tool.
CONSTANTS
    Call = {k1}
    Context = {x1}
    alice = alice
    bob = bob
    User = {alice, bob}
    None = None
    Request <- Requests
SPECIFICATION Spec
INVARIANTS
    BindingIsTheTool
