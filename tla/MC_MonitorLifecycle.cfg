CONSTANTS
    Cpus = {c1, c2, c3, c4}
    MaxMonitors = 2
SPECIFICATION Spec
INVARIANTS
    TypeOK
    MonitorRefcount
    SingleMonitor
