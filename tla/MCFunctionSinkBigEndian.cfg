\* A big-endian host: the jump table is appended as the uint32 values lie
\* in memory, which spec 6 and 8.8 require to be little-endian.
CONSTANTS
    MaxInsts = 3
    MaxEntries = 2
    MaxDebugCalls = 2
    JumpVals <- MCJumpVals
    TableVals = {7, 300}
    Infos = {i1, i2}
    HostLittleEndian = FALSE
SPECIFICATION Spec
INVARIANTS
    JumpTableLayout
