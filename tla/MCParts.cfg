\* An extraction, a filtering and a parse end: their last states have no successor.
CONSTANTS
    Entries <- MCEntries
    Programs = {"a.dsp", "b.dsp", "user_code.dsp"}
    Libraries = {"a.lib"}
    Copied = {"a.dsp", "b.dsp", "user_code.dsp", "a.lib", "old.flac", "toolong.dsp",
              "toomanyentries.dsp", "toobig.dsp", "multi.dsp", "empty.dsp"}
    MacNames = {"__MACOSX.dsp"}
    MaxExtracted = 3
    MaxEntries = 2
    MaxRead = 4
    Compilers = {t1, t2}
    Help <- MCHelp
    Sources <- MCSources
    MaxLines = 2
    Clean <- MCClean
    Numbers = {"32"}
    Names = {"32", "cpp", "-vec", "--vectorize", "-vs", "-lang", "-cn", "-i"}
    Hashes = {"k1", "k2"}
    Targets <- MCTargets
    Svgs <- MCSvgs
    Pages <- MCPages
    Length <- MCLength
    Extension <- MCExtension
    Web <- MCWeb
    Artifact <- MCArtifact
    DebugAPI = TRUE
    Makefiles <- MCMakefiles
    Callers = {c1, c2}
    Output = 2
    Capacity = 1
    \* One thread: any sequence of complete calls.
    Threads = {t1}
    Keys = {k1, k2, k3}
    Nodes = {n1, n2, n3}
    MaxSize = 2
SPECIFICATION PartsSpec
INVARIANTS OneProgram LimitsHold VerdictFollows TableWhole FilterReadable ApiServed ParsesWhole NoDescriptorLeft IteratorsValid
PROPERTIES IsRefer OwnResult EveryCallEnds
CHECK_DEADLOCK FALSE
