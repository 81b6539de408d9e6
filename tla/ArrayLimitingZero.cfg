\* maxSize_ 0: spec 4.5 says the inline elements are trimmed down to 0.
\* The trim loop `for (unsigned i = count - 1; i >= maxSize_; i--)` then
\* never fails its condition: i wraps from 0 to the largest unsigned, where
\* the offset 1 + i wraps to 0 and the SizeHint is stored and removed.
CONSTANTS
    SerVals = {v1, v2}
    UnserVals = {undef, bigint}
    SizeHint = sizeHint
    MaxLen = 2
    MaxSize = 0
    UWidth = 16
SPECIFICATION Spec
INVARIANTS
    OnlyElementsTrimmed
