\* ES2015 12.14.5.3: an Elision in an array pattern only steps the iterator.
\* The same patterns and iterators as the passing run.
CONSTANTS
    IterVals = {v1}
    Undef = undef
    Uninit = uninit
    MaxElems = 3
    MaxIter = 3
SPECIFICATION Spec
INVARIANTS
    TraceFollowsES
