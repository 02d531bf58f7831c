CONSTANTS
    Threads = {"t1", "t2"}
    Keys = {"k1"}
    Mixes = {
        {"svg.zip", "webapp.zip"},
        {"signals.svg", "tasks.svg"},
        {"webapp", "asset", "generated.cpp"}}
    Pieces = 2
    MayFail = TRUE
SPECIFICATION Spec
INVARIANTS TypeOK NotRemade NothingLeft
PROPERTY AloneIsServed
