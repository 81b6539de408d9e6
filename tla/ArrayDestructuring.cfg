\* Patterns of up to three elements (holes, variables and member targets,
\* with and without initializers) against iterators that yield up to three
\* values, each a value or undefined, before reporting done: an iterator can
\* run out before, at or after the last element, and an initializer can meet
\* both an explicit and an implicit undefined.
CONSTANTS
    IterVals = {v1}
    Undef = undef
    Uninit = uninit
    MaxElems = 3
    MaxIter = 3
SPECIFICATION Spec
INVARIANTS
    TypeOK
    IteratorProtocolRespected
    TraceFollowsESButElisionReads
