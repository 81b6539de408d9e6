--------------------------- MODULE ModuleGenerator ---------------------------
(***************************************************************************)
(* The module orchestrator BytecodeModuleGenerator                         *)
(* (src/lib/BCGen/HBC/BytecodeGenerator.cpp): addFunction, collectStrings  *)
(* and generate, with generateBytecodeFunction's encoding-error exit.      *)
(*                                                                         *)
(* The module's functions are 1..NumFns in module order; function Entry is *)
(* the global function and the entry point.  Each function has inputs: in  *)
(* the requested segment or not, its outcome in code generation ("ok",     *)
(* "lazy": still marked lazy, "fail": the instruction selector reports an  *)
(* encoding error), its source representation (none, an ASCII one, or one *)
(* with non-ASCII text) and whether it is a CommonJS module.  Strings are  *)
(* tokens: the name of f, a raw source, the re-encoded form of a non-ASCII *)
(* source, the file name of f's CJS module, and the stripped-name          *)
(* placeholder.  The string accumulator and toTable are outside src/:      *)
(* the table is the set of strings added.  The map functionIDMap_ is a     *)
(* DenseMap, so the per-function loops visit functions in any order.       *)
(***************************************************************************)
EXTENDS Integers, FiniteSets, Functions

CONSTANTS
    NumFns,        \* functions in the module
    AsciiSrcs,     \* ASCII source representations (model values)
    UnicodeSrcs,   \* non-ASCII source representations (model values)
    NoSource,      \* the default source representation
    MaxReAdds      \* addFunction calls on already registered functions

ASSUME NumFns \in Nat \ {0} /\ MaxReAdds \in Nat
ASSUME NoSource \notin AsciiSrcs \cup UnicodeSrcs

Fns == 1..NumFns
Entry == 1
NoID == -1
Srcs == {NoSource} \cup AsciiSrcs \cup UnicodeSrcs
Outcomes == {"ok", "lazy", "fail"}

Name(f) == <<"name", f>>
RawSrc(s) == <<"src", s>>
Reencoded(s) == <<"usrc", s>>
CJSFile(f) == <<"cjs", f>>
StrippedName == <<"stripped", 0>>

VARIABLES
    fn,             \* per function: [seg, outcome, src, cjs] (input)
    opt,            \* [segment, strip, cjsResolved] (input)
    valid,          \* valid_
    ids,            \* functionIDMap_: function -> ID, NoID if absent
    numFunctions,   \* bm_->getNumFunctions()
    entryIndex,     \* the entry point index, NoID until set
    strings,        \* the string table
    unicodeSources, \* keys of unicodeFunctionSources_
    setFns,         \* IDs for which bm_->setFunction was called
    generated,      \* functions the per-function loop has finished
    nextAdd,        \* position of the `for (auto &F : *M_)` loop
    reAdds,         \* addFunction calls of other callers
    missing,        \* a getStringID lookup found no string
    result,         \* "pending", "module", "null" or "fatal"
    pc

vars == <<fn, opt, valid, ids, numFunctions, entryIndex, strings, unicodeSources,
          setFns, generated, nextAdd, reAdds, missing, result, pc>>

Init ==
    /\ fn \in [Fns -> [seg : BOOLEAN, outcome : Outcomes, src : Srcs, cjs : BOOLEAN]]
    /\ fn[Entry].src = NoSource /\ fn[Entry].seg = FALSE
    /\ opt \in [segment : BOOLEAN, strip : BOOLEAN, cjsResolved : BOOLEAN]
    /\ valid = TRUE
    /\ ids = [f \in Fns |-> NoID]
    /\ numFunctions = 0
    /\ entryIndex = NoID
    /\ strings = {}
    /\ unicodeSources = {}
    /\ setFns = {}
    /\ generated = {}
    /\ nextAdd = 1
    /\ reAdds = 0
    /\ missing = FALSE
    /\ result = "pending"
    /\ pc = "start"

(* Mutant: the segment filter is ignored.                                  *)
ShouldGenerateAll(f) == TRUE

(* shouldGenerate (lines 379-387): with a segment, the entry point and the *)
(* functions of the segment; without one, every function.                 *)
ShouldGenerate(f) == ~opt.segment \/ f = Entry \/ fn[f].seg

IsGlobalScope(f) == f = Entry

(* addFunction (lines 193-200) as <<functionIDMap_, function count>>: the *)
(* first registration takes the next ID, a later one keeps it.            *)
AddFunction(idsv, n, f) ==
    IF idsv[f] # NoID THEN <<idsv, n>> ELSE <<[idsv EXCEPT ![f] = n], n + 1>>

(* Mutant: CJS file names are added when they are resolved, not when not.  *)
StringsCollectedCJSInverted(g) ==
    (IF opt.strip THEN {StrippedName} ELSE {Name(f) : f \in g})
    \cup {RawSrc(fn[f].src) : f \in {h \in g : ~IsGlobalScope(h) /\ fn[h].src \in AsciiSrcs}}
    \cup {Reencoded(fn[f].src) : f \in {h \in g : ~IsGlobalScope(h) /\ fn[h].src \in UnicodeSrcs}}
    \cup (IF opt.cjsResolved THEN {CJSFile(f) : f \in {h \in g : fn[h].cjs}} ELSE {})

(* collectStrings (lines 270-355) for the functions g of functionIDMap_:  *)
(* the stripped-name placeholder or every function name; the source of    *)
(* every non-global function with one, re-encoded if it is not ASCII      *)
(* (addFunctionSource, whose cache only avoids re-encoding twice); the    *)
(* CJS file names unless CJS modules were resolved.  Seeding from a base  *)
(* provider and the operand strings only add strings no lookup below      *)
(* depends on.                                                            *)
StringsCollected(g) ==
    (IF opt.strip THEN {StrippedName} ELSE {Name(f) : f \in g})
    \cup {RawSrc(fn[f].src) : f \in {h \in g : ~IsGlobalScope(h) /\ fn[h].src \in AsciiSrcs}}
    \cup {Reencoded(fn[f].src) : f \in {h \in g : ~IsGlobalScope(h) /\ fn[h].src \in UnicodeSrcs}}
    \cup (IF ~opt.cjsResolved THEN {CJSFile(f) : f \in {h \in g : fn[h].cjs}} ELSE {})

Registered == {f \in Fns : ids[f] # NoID}

(* generate, lines 360-372: single use; lowering and setSegmentID leave   *)
(* nothing the model tracks.                                               *)
StartGenerate ==
    /\ pc = "start"
    /\ valid
    /\ valid' = FALSE
    /\ pc' = "add"
    /\ UNCHANGED <<fn, opt, ids, numFunctions, entryIndex, strings, unicodeSources,
                   setFns, generated, nextAdd, reAdds, missing, result>>

(* One iteration of lines 390-398.                                         *)
AddNext ==
    /\ pc = "add"
    /\ nextAdd <= NumFns
    /\ IF ShouldGenerate(nextAdd)
         THEN LET r == AddFunction(ids, numFunctions, nextAdd)
              IN  /\ ids' = r[1]
                  /\ numFunctions' = r[2]
                  /\ entryIndex' = IF nextAdd = Entry THEN r[1][nextAdd] ELSE entryIndex
         ELSE UNCHANGED <<ids, numFunctions, entryIndex>>
    /\ nextAdd' = nextAdd + 1
    /\ UNCHANGED <<fn, opt, valid, strings, unicodeSources, setFns, generated, reAdds,
                   missing, result, pc>>

(* Line 399 asserts that the entry point was added; then line 401.         *)
CollectStrings ==
    /\ pc = "add"
    /\ nextAdd > NumFns
    /\ entryIndex # NoID
    /\ strings' = StringsCollected(Registered)
    /\ unicodeSources' = {fn[f].src : f \in {h \in Registered :
                                               ~IsGlobalScope(h) /\ fn[h].src \in UnicodeSrcs}}
    /\ pc' = "gen"
    /\ UNCHANGED <<fn, opt, valid, ids, numFunctions, entryIndex, setFns, generated,
                   nextAdd, reAdds, missing, result>>

(* The strings the loop body looks up for f: its CJS file name when CJS   *)
(* is resolved at run time, its source (through unicodeFunctionSources_  *)
(* if it was re-encoded), and its name or the stripped placeholder.       *)
LookedUp(f) ==
    (IF fn[f].cjs /\ ~opt.cjsResolved THEN {CJSFile(f)} ELSE {})
    \cup (IF ~IsGlobalScope(f) /\ fn[f].src # NoSource
            THEN {IF fn[f].src \in unicodeSources THEN Reencoded(fn[f].src) ELSE RawSrc(fn[f].src)}
            ELSE {})
    \cup {IF opt.strip THEN StrippedName ELSE Name(f)}

(* Mutant: the loop marks the function's ID, not the function, as done.   *)
GenFunctionMarkByID ==
    /\ pc = "gen"
    /\ \E f \in Registered \ generated :
          IF fn[f].outcome = "lazy"
            THEN result' = "fatal" /\ pc' = "done" /\ UNCHANGED <<setFns, generated, missing>>
            ELSE /\ missing' = (missing \/ ~(LookedUp(f) \subseteq strings))
                 /\ IF fn[f].outcome = "fail"
                      THEN result' = "null" /\ pc' = "done" /\ UNCHANGED <<setFns, generated>>
                      ELSE /\ setFns' = setFns \cup {ids[f]}
                           /\ generated' = generated \cup {ids[f]}
                           /\ UNCHANGED <<result, pc>>
    /\ UNCHANGED <<fn, opt, valid, ids, numFunctions, entryIndex, strings, unicodeSources,
                   nextAdd, reAdds>>

(* Mutant: a function whose encoding failed is still set in the module.    *)
GenFunctionIgnoreFailure ==
    /\ pc = "gen"
    /\ \E f \in Registered \ generated :
          IF fn[f].outcome = "lazy"
            THEN result' = "fatal" /\ pc' = "done" /\ UNCHANGED <<setFns, generated, missing>>
            ELSE /\ missing' = (missing \/ ~(LookedUp(f) \subseteq strings))
                 /\ setFns' = setFns \cup {ids[f]}
                 /\ generated' = generated \cup {f}
                 /\ UNCHANGED <<result, pc>>
    /\ UNCHANGED <<fn, opt, valid, ids, numFunctions, entryIndex, strings, unicodeSources,
                   nextAdd, reAdds>>

(* One iteration of lines 422-495 for a function f of functionIDMap_: a   *)
(* lazy function is fatal (hermes_fatal); the string lookups; then        *)
(* generateBytecodeFunction (lines 88-137), whose encoding error makes    *)
(* generate return nullptr, dropping bm_ with every function set so far.  *)
GenFunction ==
    /\ pc = "gen"
    /\ \E f \in Registered \ generated :
          IF fn[f].outcome = "lazy"
            THEN result' = "fatal" /\ pc' = "done" /\ UNCHANGED <<setFns, generated, missing>>
            ELSE /\ missing' = (missing \/ ~(LookedUp(f) \subseteq strings))
                 /\ IF fn[f].outcome = "fail"
                      THEN result' = "null" /\ pc' = "done" /\ UNCHANGED <<setFns, generated>>
                      ELSE /\ setFns' = setFns \cup {ids[f]}
                           /\ generated' = generated \cup {f}
                           /\ UNCHANGED <<result, pc>>
    /\ UNCHANGED <<fn, opt, valid, ids, numFunctions, entryIndex, strings, unicodeSources,
                   nextAdd, reAdds>>

(* Lines 497-498: every function was generated; the module is returned.   *)
Finish ==
    /\ pc = "gen"
    /\ generated = Registered
    /\ result' = "module"
    /\ pc' = "done"
    /\ UNCHANGED <<fn, opt, valid, ids, numFunctions, entryIndex, strings, unicodeSources,
                   setFns, generated, nextAdd, reAdds, missing>>

(* Other callers (the instruction selector, for closures) call            *)
(* addFunction on functions that are already registered.                  *)
ReAddFunction ==
    /\ pc \in {"gen"}
    /\ reAdds < MaxReAdds
    /\ \E f \in Registered :
          LET r == AddFunction(ids, numFunctions, f)
          IN  ids' = r[1] /\ numFunctions' = r[2]
    /\ reAdds' = reAdds + 1
    /\ UNCHANGED <<fn, opt, valid, entryIndex, strings, unicodeSources, setFns, generated,
                   nextAdd, missing, result, pc>>

Terminating == pc = "done" /\ UNCHANGED vars

Next ==
    \/ StartGenerate \/ AddNext \/ CollectStrings \/ GenFunction \/ Finish
    \/ ReAddFunction \/ Terminating

Spec == Init /\ [][Next]_vars

-----------------------------------------------------------------------------
(* Properties.                                                             *)

TypeOK ==
    /\ ids \in [Fns -> {NoID} \cup Nat]
    /\ numFunctions \in Nat /\ entryIndex \in {NoID} \cup Nat
    /\ \A x \in setFns : x \in Nat
    /\ generated \subseteq Fns
    /\ result \in {"pending", "module", "null", "fatal"}
    /\ pc \in {"start", "add", "gen", "done"}

(* Spec 4.8: once functions are added, exactly the functions to generate  *)
(* (the entry point and the segment's functions) have IDs, the IDs are    *)
(* 0..n-1 in module order, and the entry point index is the entry's ID;  *)
(* addFunction calls of other callers change none of this.               *)
IDsDenseInModuleOrder ==
    pc \in {"gen", "done"} =>
        LET g == {f \in Fns : ~opt.segment \/ f = Entry \/ fn[f].seg}
        IN  /\ Registered = g
            /\ numFunctions = Cardinality(g)
            /\ {ids[f] : f \in g} = 0..(numFunctions - 1)
            /\ \A f, h \in g : f < h => ids[f] < ids[h]
            /\ entryIndex = ids[Entry]

(* Every getStringID in the per-function loop finds its string: the names, *)
(* sources (re-encoded or not) and CJS file names it looks up are the     *)
(* ones collectStrings added, under every combination of options.        *)
StringLookupsSucceed == ~missing

(* Spec 7: generation is all-or-nothing.  A module is returned only with  *)
(* every ID set and no failing or lazy function; no module is returned    *)
(* only because some registered function failed to encode or is lazy.    *)
AllOrNothing ==
    /\ result = "module" =>
          /\ setFns = 0..(numFunctions - 1)
          /\ \A f \in Registered : fn[f].outcome = "ok"
    /\ result = "null" => \E f \in Registered : fn[f].outcome = "fail"
    /\ result = "fatal" => \E f \in Registered : fn[f].outcome = "lazy"
=============================================================================
