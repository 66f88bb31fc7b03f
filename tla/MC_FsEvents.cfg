CONSTANTS
    Dirs = {d1, d2}
    Files = {f1, f2}
    Cpus = {c1, c2}
    SinkSize = 1
    MaxInc = 2
SPECIFICATION Spec
INVARIANTS
    TypeOK
    SeenDeleteReported
