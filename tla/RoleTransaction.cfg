SPECIFICATION FairSpec
CONSTANTS
    r1 = r1
    r2 = r2
    r3 = r3
    alice = alice
    bob = bob
    Reqs = {r1, r2, r3}
    Clients = {c1, c2}
    Roles = {alice, bob}
    LoginRole = login
    None = None
    KindOf <- MCKind
    RoleOf <- MCRole
INVARIANTS
    TypeOK
    IdleClientsAreClean
    WorkRunsAsRequester
    AnswersAreTrue
    ClientsAccountedFor
PROPERTIES
    ImplementsAtomicRequests
    EveryRequestFinishes
