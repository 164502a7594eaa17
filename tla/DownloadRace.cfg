SPECIFICATION Spec
CONSTANTS
    Downloads = {d1}
    Conns = {c1, c2}
    NoConn = NoConn
    Arms = {a1, a2}
    Worker = Worker
    NoDownload = NoDownload
SYMMETRY Symmetric
CHECK_DEADLOCK FALSE
PROPERTY ImplementsRelease
INVARIANTS
    NothingLeftBehind
    ShutdownStartedOnce
    AcceptedIsWired
    NoStrandedSocket
    GuardedPathsTrigger
