\* Two identifiers, so that a name can be declared at one level, shadowed
\* at another and be a function expression's name at a third; the global
\* code and three nested functions compiled lazily one after the other, so
\* that a chain of three saved scopes is materialized.
CONSTANTS
    Names = {x, y}
    NoName = anon
    None = none
    Depth = 3
SPECIFICATION Spec
SYMMETRY NameSymmetry
INVARIANTS
    TypeOK
    SavedChainMatchesNesting
    ResolutionMatchesEager
