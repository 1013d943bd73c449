SPECIFICATION OrderSpec
CONSTANTS
    Token = {1, 2, 3}
    Process = {"p", "q", "r"}
    Owner <- ThreeProcesses
    HostOf <- TwoHosts
    MaxTicket = 2
INVARIANTS
    TypeOK
    MutualExclusion
    FirstComeFirstServed
PROPERTIES
    ImplementsLease
    NoStarvation
CHECK_DEADLOCK FALSE
