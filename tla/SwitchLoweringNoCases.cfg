\* A SwitchInst with an empty case list: lowerSwitchIntoIfs builds no block,
\* erases Orig's phi entries in the default and then branches Orig to it.
CONSTANTS
    Dests = {d1, d2, d3}
    CaseVals = {c1, c2}
    PhiVals = {p1, p2}
    ExtVal = pe
    Orig = orig
    Ext = ext
    NoMatch = nomatch
    MinCases = 0
    MaxCases = 0
SPECIFICATION Spec
INVARIANTS
    ChainPreservesSwitch
