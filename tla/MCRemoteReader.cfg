SPECIFICATION FairSpec
CONSTANTS
    Size = 3
    Urls <- UrlsMixed
    Hosts <- HostsDefault
INVARIANTS
    BodyInPlace
    StreamsReleased
PROPERTIES
    ImplementsBlobReader
    EveryReadReturns
    FetchReturns
