SPECIFICATION Spec
CHECK_DEADLOCK FALSE
CONSTANTS
    None = None
    Blank = Blank
    Unusable = Unusable
    Commands = {"dev", "mcp_http", "mcp_stdio"}
    Urls <- MCUrls
    HostName <- MCHostName
    Files <- MCFiles
    Environments <- MCEnvironments
    Headers <- MCHeaders
    Hosts <- MCHosts
    Origins <- MCOrigins
    MaxTime = 1
INVARIANTS
    RolesAreGranted
    ExposureIsHonest
    SilenceMeansAgreement
    DescribedRoleActs
    ConnectPageIsTrue
