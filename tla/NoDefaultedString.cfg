SPECIFICATION MasterSpec
CONSTANTS
    Users = {u1}
    Fillers = {f1, f2}
    Requests <- MCRequests
    EarlyFiles <- MCEarly
    FinalFiles <- MCFinal
    DbConns = {"a", "b"}
    ClusterOf <- MCClusterOf
    DbRequests <- MCDbRequests
    FirstTables <- MCTables
    MaxRequests = 2
    Bodies <- MCBodies
INVARIANT NoDefaultedString
CHECK_DEADLOCK FALSE
