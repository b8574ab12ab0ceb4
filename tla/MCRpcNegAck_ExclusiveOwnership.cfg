CONSTANTS
    p1 = p1
    p2 = p2
    sa = sa
    sb = sb
    NoServer = NoServer
    NoChan = NoChan
    Procs <- MCProcs
    Servers <- MCServers
    NumChannels <- MCNumChannels
    TableSize <- MCTableSize
INIT InitNA
NEXT NextNA
INVARIANT ExclusiveOwnership
