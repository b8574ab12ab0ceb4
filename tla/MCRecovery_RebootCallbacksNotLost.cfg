CONSTANTS
    h1 = h1
    s1 = s1
    w1 = w1
    b1 = b1
    NoHost = NoHost
    ptr = ptr
    PtrValue <- ptr
    Hosts <- MCHosts
    Servers <- MCServers
    Waiters <- MCWaiters
    Bits <- MCBits
    MaxBoot <- MCMaxBoot
SPECIFICATION SpecPing
CONSTRAINT StateConstraint
INVARIANT RebootCallbacksNotLost
