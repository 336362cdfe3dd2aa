\* Two clients compete for two mailboxes, the lock and a pool of one connection.
CONSTANTS
    first = first
    other = other
    name = name
    Client = {c1, c2}
    Email <- TheEmails
    Box = {first, other}
    BoxOf <- TheBoxOf
    Name = {name}
    Null = Null
    Nobody = Nobody
    Seed <- TheSeed
    PoolSize = 1
    Requests <- TheRequests
SPECIFICATION FairSpec
INVARIANTS
    TypeOK
    LoginsWithLiveSvid
    OneUserPerMailbox
PROPERTIES
    RepositoryImplemented
    CallsEnd
CHECK_DEADLOCK FALSE
