CONSTANTS
    Threads = {"t1"}
    Keys = {"k2", "k3", "k4", "k5"}
    KeysOf <- AllKeys
    Class <- Mixed
    DspNames = {"a.dsp"}
    ZipNames = {"a.zip"}
    Targets = {"linux"}
    Others = {"none"}
    MaxSize = 1
    MayFail = TRUE
SPECIFICATION Spec
INVARIANTS NoAssertFails OneDspPerTarget
PROPERTIES FileMeansSources ServesClients
