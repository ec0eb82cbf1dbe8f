SPECIFICATION FairSpec
CONSTANTS
    describer = describer
    executor = executor
    outsider = outsider
    alice = alice
    bob = bob
    mallory = mallory
    Requests = {r1, r2}
    Tokens = {describer, executor, outsider}
    ScopesOf <- MCScopes
    RoleOf <- MCRoles
    AllowedRoles = {alice, bob}
    FixedRole = service
    Bodies <- MCBodies
    Options <- MCOptions
    None = None
INVARIANTS
    WorkIsAuthorized
    SessionIsNoCredential
    MapHoldsOpenTransports
PROPERTY
    EveryRequestSettles
CHECK_DEADLOCK FALSE
