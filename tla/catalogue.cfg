\* Three sessions of any kind, with a feed that is imported at any time.
CONSTANTS
    tcp = tcp
    udp = udp
    v6 = v6
    server = server
    abroad = abroad
    Nodes = {tcp, udp, v6}
    Tcp = {tcp}
    Ipv6 = {v6}
    Exits = {server, abroad}
    Countries = {"near", "far", "listed"}
    ServerOf <- MCServerOf
    CountryOf <- MCCountryOf
    Offers <- MCOffers
    Feeds = {"listed"}
    Answers <- MCAnswers
    Asked <- MCAsked
    MaxSessions = 3
    None = None
    MaxConfigBytes = 26
    MaxLineLength = 3
    MaxInlineBlockBytes = 7
    Unknown = Unknown
SPECIFICATION MCSpec
INVARIANT CatalogueTypeOK
INVARIANT RowFollowsRecords
INVARIANT AvailableWasReached
INVARIANT RowDescribesExit
INVARIANT RunningHasScan
INVARIANT SanitisedIsStable
INVARIANT CandidateIsBest
PROPERTY VerdictWithRecord
CHECK_DEADLOCK FALSE
