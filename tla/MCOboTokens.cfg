\* Two users, three tool calls, two renderings of the actor token.
CONSTANTS
    alice = alice
    bob = bob
    actor1 = actor1
    actor2 = actor2
    read = read
    write = write
    reading = reading
    writing = writing
    refused = refused
    delegation = delegation
    Subject = {alice, bob}
    Actor = {actor1, actor2}
    Scope = {read, write}
    Delegation = delegation
    Client = {reading, writing, refused}
    None = None
    Exp <- TheExp
    Entitled <- TheEntitled
    Asks <- TheAsks
    Lifetime = {3}
    Headroom = 1
    Leeway = 0
    CacheTtl = 2
    MaxEntries = 1
    MaxAttempts = 2
    ExchangeTimeout = 2
    MaxTime = 3
    MaxInbox = 1
SPECIFICATION FairSpec
INVARIANTS
    TypeOK
    TokenFitsTask
    InspectorShowsLatest
    NoDoubleIssue
PROPERTIES
    GrantsImplemented
    LoopComesFree
CHECK_DEADLOCK FALSE
