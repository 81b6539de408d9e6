\* Property lists of up to five distinct names (four that stay strings, so
\* the placeholder budget of three can run out, and one that becomes an
\* index), values one string literal and two computed ones, with and
\* without a prototype.  Arrays of up to five literal elements (two
\* serializable values, undefined and a bigint) with maxSize_ 3, so that both
\* the demotion and the trim occur.  Every dominator tree of four blocks,
\* up to two users of the allocation per block, for the store collector.  Instruction sizes are those of the HBC encoding
\* (opcode byte plus operands); maxSize is cut to 4 so that the bound is
\* reached; the array index bound is scaled down from 2^32 - 2 to 99 so
\* that a 3-digit text crosses it.
CONSTANTS
    KeyStrings <- MCKeyStrings
    ValueStrings <- MCValueStrings
    NumComputed = 2
    MaxArrayIndex = 99
    Null = null
    Parent = proto
    MaxProps = 5
    NewObjectSize = 2
    NewObjectWithBufferSize = 10
    CallBuiltinSize = 4
    LoadConstIntSize = 6
    PutNewOwnByIdSize = 5
    PutByIdLooseSize = 6
    PlaceholderLimit = 3
    MaxBufferSize = 4
    SerVals = {v1, v2}
    UnserVals = {undef, bigint}
    SizeHint = sizeHint
    MaxLen = 5
    MaxSize = 3
    UWidth = 16
    NumBlocks = 4
    MaxUsers = 2
SPECIFICATION AllocSpec
INVARIANTS
    TypeOK
    EstimateIsOptimalPrefix
    PlaceholderBudget
    PackingPreservesObject
    CollectorTypeOK
    LastDominatesRemaining
    CollectedStoresPrecedeOtherUses
    ArrayTypeOK
    OnlyElementsTrimmed
    ArrayLimitingMatchesSpec
