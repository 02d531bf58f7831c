CONSTANTS
    Conns = {c1, c2}
    MaxClients = 1
    CounterMod = 4
    TmpNames = {n1, n2}
    NoName = NoName
    MaxUploadSize = 2
    MayFail = TRUE
SYMMETRY UploadSymmetry
SPECIFICATION Spec
INVARIANTS TypeOK CounterExact TmpOwned OwnFile RefusalsAreSilent
