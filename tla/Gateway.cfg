SPECIFICATION FairSpec
CONSTANTS
    Conns <- MCConns
    None = None
    Ttl = 1 MaxNow = 1 MaxConfigs = 2 MaxAsked = 2
    MaxLoginBody = 1 MaxProxyBody = 2
    Shapes <- MCShapes Breaks <- MCBreaks Earlier <- MCEarlier
INVARIANTS TypeOK Framed OnlyOwner StaysSignedIn
PROPERTIES InOrder Answered
CHECK_DEADLOCK FALSE
