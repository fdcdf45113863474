CONSTANTS
    Ports = {"encoder", "splitter"}
    Headers <- McHeaders
    MaxChunks = 2
    Clients = {c1}
    None = None
SPECIFICATION Spec
INVARIANTS NothingAfterDisable WorkerNeverEmpty AllCirculate
PROPERTIES WorkerEnds ClientServed
CHECK_DEADLOCK FALSE
