SPECIFICATION FairSpec
CONSTANTS
    Clusters = {k1}
    LtkClusters = {k1}
    Conns = {c1, c2}
    NoConn = NoConn
    NoCluster = NoCluster
    Pinger = Pinger
    MaxTokens = 0
INVARIANTS TypeOK OnlineIsReal PingsAreLive
PROPERTIES SilentGoesOffline
CHECK_DEADLOCK FALSE
