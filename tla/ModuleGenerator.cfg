\* Three functions (the global entry point and two others), one ASCII and one
\* non-ASCII source so that two functions can share either, every option
\* combination, and two extra addFunction calls.
CONSTANTS
    NumFns = 3
    AsciiSrcs = {a1}
    UnicodeSrcs = {u1}
    NoSource = nosrc
    MaxReAdds = 2
SPECIFICATION Spec
INVARIANTS
    TypeOK
    IDsDenseInModuleOrder
    StringLookupsSucceed
    AllOrNothing
