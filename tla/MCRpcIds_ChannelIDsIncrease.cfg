CONSTANTS
    p1 = p1
    p2 = p2
    sa = sa
    sb = sb
    NoServer = NoServer
    NoChan = NoChan
    Procs <- MCProcs
    Servers <- MCServers
    NumChannels <- MCNumChannels
    MaxID <- MCMaxID
SPECIFICATION SpecIds
CONSTRAINT IdBound
PROPERTY
    ChannelIDsIncrease
