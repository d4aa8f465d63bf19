SPECIFICATION Spec
CONSTANTS
    Clients <- MCClients
    Ops <- MCStartStop
    Procs <- MCProcs
    Monitor = monitor
    None = None
    External = External
PROPERTIES
    MonitorKeepsStop
CHECK_DEADLOCK FALSE
