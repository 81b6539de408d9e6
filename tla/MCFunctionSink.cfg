\* Up to three instructions, switches of up to two entries, jump distances
\* that do and do not fit a byte, one of them negative, and table entries
\* that need more than one byte.
CONSTANTS
    MaxInsts = 3
    MaxEntries = 2
    MaxDebugCalls = 2
    JumpVals <- MCJumpVals
    TableVals = {7, 300}
    Infos = {i1, i2}
    HostLittleEndian = TRUE
SPECIFICATION Spec
INVARIANTS
    TypeOK
    JumpOperandsReadBack
    JumpTableLayout
    DebugLocationsDeduped
