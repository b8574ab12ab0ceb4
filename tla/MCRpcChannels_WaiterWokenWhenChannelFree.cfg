CONSTANTS
    p1 = p1
    p2 = p2
    p3 = p3
    sa = sa
    sb = sb
    NoServer = NoServer
    NoChan = NoChan
    Procs <- MCProcs
    Servers <- MCServers
    NumChannels <- MCNumChannels
SPECIFICATION Spec
PROPERTY WaiterWokenWhenChannelFree
