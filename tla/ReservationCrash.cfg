SPECIFICATION Spec
CONSTANTS
    Caller = {"homebridge", "cli", "third"}
    Path = {1, 2, 3}
    Dir = {11, 12, 13}
    None = None
    MaxIvIndex = 1
    MaxSequence = 1
    Setups <- BootstrapOnly
INVARIANT
    CrashConsumesRange
