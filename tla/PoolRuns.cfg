SPECIFICATION Spec
CONSTANTS
    Clients = {f1, f2, f3}
    Commands = {k1, k2, k3, k4}
    MaxClients = 2
    None = None
    MaxLosses = 2
    Shutdown = TRUE
INVARIANTS FreeMeansIdle ConnectionsBounded
PROPERTIES AnsweredUntilForgotten ShutdownEnds ShutdownWaits
CHECK_DEADLOCK FALSE
