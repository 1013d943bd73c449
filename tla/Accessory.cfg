SPECIFICATION Spec
CONSTANTS
    Level = {0, 1, 2}
    Full = 2
    Preset = {"fx"}
    None = None
    MaxSet = 4
    MaxCommand = 3
INVARIANTS
    VerdictIsNewest
    Converges
    EchoIsCurrent
CHECK_DEADLOCK FALSE
