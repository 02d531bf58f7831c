CONSTANTS
    Conns = {c1, c2}
    MaxClients = 1
    CounterMod = 4
    TmpNames = {n1}
    NoName = NoName
    MaxUploadSize = 1
    MayFail = FALSE
SPECIFICATION FairSpec
PROPERTIES EveryUploadEnds BusyServerRecovers
