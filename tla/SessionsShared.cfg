CONSTANTS
    Threads = {"t1", "t2"}
    Keys = {"k1", "k2"}
    KeysOf <- AllKeys
    Class <- Mixed
    DspNames = {"a.dsp"}
    ZipNames = {}
    Targets = {"linux"}
    Others = {}
    MaxSize = 1
    MayFail = FALSE
SPECIFICATION FairSpec
INVARIANT TypeOK
PROPERTY EveryRequestEnds
