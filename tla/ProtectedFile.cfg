SPECIFICATION Spec
CONSTANTS
    None = None
    Values = {1}
    Attached = 1
    Child = 1
    MaxBlocks = 3
    Lengths = {1, 3}
    MaxFlushes = 2
    MaxFaults = 2
INVARIANTS HandleReadable FlushedIsDurable
PROPERTY ImplementsAtomicFile
