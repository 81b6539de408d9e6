\* Code points at every UTF-8 length boundary: 65 and 127 (1 byte),
\* 128 and 2047 (2 bytes), 2048 and 65535 (3 bytes), 65536 and 1114111
\* (4 bytes, re-encoded as a surrogate pair).  Weak fairness of the loop,
\* and the one-step abstract re-encoding as a property.
CONSTANTS
    CodePoints = {65, 127, 128, 2047, 2048, 65535, 65536, 1114111}
    MaxChars = 2
SPECIFICATION FairSpec
INVARIANTS
    TypeOK
    ReencodingRoundTrips
PROPERTIES
    ImplementsAbstractReencoding
