\* Switches with 1..3 cases over three destinations and two case values
\* (so duplicate case values and shared destinations both occur).
CONSTANTS
    Dests = {d1, d2, d3}
    CaseVals = {c1, c2}
    PhiVals = {p1, p2}
    ExtVal = pe
    Orig = orig
    Ext = ext
    NoMatch = nomatch
    MinCases = 1
    MaxCases = 3
SPECIFICATION Spec
INVARIANTS
    TypeOK
    PhiEdgesMatchCFG
    ChainPreservesSwitch
