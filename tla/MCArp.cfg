\* Three calls, two of them for one host; a query of ours may be lost.
SPECIFICATION FairSpec
CONSTANTS
    c1 = c1
    c2 = c2
    c3 = c3
    h1 = h1
    h2 = h2
    our = our
    m1 = m1
    m2 = m2
    m3 = m3
    nomac = nomac
    Callers <- MCCallers
    Wants <- MCWants
    Hosts <- MCHosts
    Our = our
    Macs <- MCMacs
    NoMac = nomac
    MacsOf <- MCMacsOf
    MaxQueries = 1
    MaxLosses = 1
    MaxExtras = 1
CHECK_DEADLOCK FALSE
PROPERTY EveryCallReturns
PROPERTY EveryQueryReplied
INVARIANT OneRoutePerHost
INVARIANT ResultIsAnAnswer
INVARIANT NoReplyUnasked
