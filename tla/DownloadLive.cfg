SPECIFICATION FairSpec
CONSTANTS
    Downloads = {d1}
    Conns = {c1}
    NoConn = NoConn
    Arms = {a1}
    Worker = Worker
    NoDownload = NoDownload
CHECK_DEADLOCK FALSE
PROPERTIES
    RetainedIsClosed
    ImplementsFairRelease
