CONSTANTS
    Threads = {"t1", "t2"}
    Keys = {"k1", "k2"}
    KeysOf <- OwnKeys
    Class <- Mixed
    DspNames = {"a.dsp", "user_code.dsp"}
    ZipNames = {}
    Targets = {"linux"}
    Others = {}
    MaxSize = 2
    MayFail = TRUE
SPECIFICATION Spec
INVARIANTS NoAssertFails NoTargetOfRefused
PROPERTIES KeyMeansSession ServesClients
