\* Two blocks of up to two instructions, a comparison, a `**` and a `+`: a
\* comparison right before its branch or not, in the branch's block or an
\* earlier one, with a second user; two `**` in a row; a `**` used by a
\* later block and by a branch.  "read" acts as "write" for both passes.
CONSTANTS
    NumBlocks = 2
    MaxBody = 2
    InputOps = {"<", "**", "+"}
    Effects = {"none", "write"}
SPECIFICATION Spec
INVARIANTS
    TypeOK
    ExpLoweredInPlace
    EffectOrderPreserved
    NoDanglingUses
