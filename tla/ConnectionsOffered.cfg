SPECIFICATION FairSpec
CONSTANTS
    Clusters = {k1}
    LtkClusters = {}
    Conns = {c1}
    NoConn = NoConn
    NoCluster = NoCluster
    Pinger = Pinger
    MaxTokens = 2
PROPERTIES OfflineIsOffered
CHECK_DEADLOCK FALSE
