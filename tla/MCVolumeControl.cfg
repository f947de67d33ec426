SPECIFICATION VCSpec
CONSTANTS
    scheduler = scheduler
    r1 = r1
    r2 = r2
    d1 = d1
    d2 = d2
    Threads = {scheduler, r1, r2}
    Scheduler = scheduler
    Recursive = {"user"}
    Devices = {d1}
    NoDevice = NoDevice
    Configured = d1
    MaxVolume = 1
    Step = 1
    IntModulus = 8
    SizeModulus = 16
    NoChange = NoChange
SYMMETRY Symmetry
INVARIANTS
    VCTypeOK
    NoCircularWait
    OneLock
PROPERTIES
    VolumeStepBounded
