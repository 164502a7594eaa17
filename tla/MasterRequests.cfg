SPECIFICATION FairMasterSpec
CONSTANTS
    Users = {u1}
    Fillers = {f1, f2}
    Requests <- MCRequests
    EarlyFiles <- MCEarly
    FinalFiles <- MCFinal
    DbConns = {"a", "b"}
    ClusterOf <- MCClusterOf
    DbRequests <- MCDbRequests
    FirstTables <- MCTables
    MaxRequests = 2
    Bodies <- MCBodies
INVARIANTS AnswerIsRight RowsStayOwn ReadAsSent
PROPERTIES CacheIsFinal ListEnds
CHECK_DEADLOCK FALSE
