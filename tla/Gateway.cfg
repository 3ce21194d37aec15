SPECIFICATION FairSpec
CONSTANTS
    None = None
    Forms = {"create", "release"}
    RawRequests = {"delete"}
    Pages = {"netbird"}
    ClientHeaders <- MCHeaders
    AgentToken = "secret"
    Startups <- MCStartups
    MaxRequests = 2
    MaxRestarts = 2
INVARIANTS TypeOK AtMostOnce SuccessIsReal ListingFresh UpstreamHeaders ProxyGated
PROPERTIES NothingAfterAnswer Answered
CHECK_DEADLOCK FALSE
