------------------------- MODULE ArrayDestructuring -------------------------
(***************************************************************************)
(* ESTreeIRGen::emitDestructuringArray (src/lib/IRGen/ESTreeIRGen.cpp)    *)
(* and the code it emits for an array pattern [t1 = d1, , t3] = source.   *)
(* The generator is straight-line per element, so each element's blocks   *)
(* are executed as they are emitted: one action per emitted block.        *)
(*                                                                         *)
(* An element's target is a hole (EmptyNode, whose LReference stores      *)
(* nothing), a variable, or a member expression o.f whose object is       *)
(* evaluated by createLRef; it may have an initializer.  The iterator     *)
(* yields the values of `iter` and then reports done for every later     *)
(* call.  `trace` records what the running program can observe: the      *)
(* iterator's creation, each next() with its `done` read, each `value`   *)
(* read, the evaluation of a member target and of an initializer, and    *)
(* each store with the value stored.  Exceptions are not modelled.       *)
(***************************************************************************)
EXTENDS Integers, Sequences, SequencesExt

CONSTANTS
    IterVals,   \* values an iterator yields, besides undefined
    Undef,      \* the literal undefined
    Uninit,     \* the content of a fresh AllocStackInst
    MaxElems,   \* bound on the pattern's length
    MaxIter     \* bound on the number of values before done

ASSUME Undef \notin IterVals /\ Uninit \notin IterVals \cup {Undef}

Elements == {[target |-> "hole", init |-> FALSE]}
            \cup [target : {"var", "member"}, init : BOOLEAN]

Default(k) == <<"default", k>>   \* the value of element k's initializer

VARIABLES
    pattern,       \* the ArrayPatternNode's elements (input)
    iter,          \* what the source's iterator yields (input)
    i,             \* the element being generated and run
    blk,           \* the block executing
    first,         \* the generator's `first`
    iteratorDone,  \* the iterDone stack slot
    value,         \* the iterValue stack slot
    calls,         \* next() calls made on the iterator
    trace          \* observable effects, in order

vars == <<pattern, iter, i, blk, first, iteratorDone, value, calls, trace>>

Truthy(v) == v = TRUE

Init ==
    /\ pattern \in BoundedSeq(Elements, MaxElems)
    /\ iter \in BoundedSeq(IterVals \cup {Undef}, MaxIter)
    /\ i = 1
    /\ blk = "entry"
    /\ first = TRUE
    /\ iteratorDone = Uninit
    /\ value = Uninit
    /\ calls = 0
    /\ trace = <<>>

(* createLRef for element k's target, lines 492-541: an EmptyNode gives   *)
(* an Empty reference, an identifier a VarOrGlobal one (its lookup emits  *)
(* no code), a member expression evaluates its object (and a computed    *)
(* property) into a Member reference.                                     *)
CreateLRef(k) == IF pattern[k].target = "member" THEN <<<<"lref", k>>>> ELSE <<>>

(* LReference::emitStore, lines 88-107: an Empty reference stores         *)
(* nothing, a Member or VarOrGlobal reference stores the value.          *)
EmitStore(k, v) == IF pattern[k].target = "hole" THEN <<>> ELSE <<<<"store", k, v>>>>

(* Lines 610-620: emitGetIteraror(source), iterDone = undefined, a fresh  *)
(* iterValue slot, first = true.                                           *)
Entry ==
    /\ blk = "entry"
    /\ trace' = <<<<"getIterator">>>>
    /\ iteratorDone' = Undef
    /\ blk' = IF pattern = <<>> THEN "done" ELSE "elem"
    /\ UNCHANGED <<pattern, iter, i, first, value, calls>>

(* Mutant: the slot is not reset to undefined for each element.           *)
ElemStartNoReset ==
    /\ blk = "elem"
    /\ trace' = trace \o CreateLRef(i)
    /\ first' = FALSE
    /\ blk' = IF first \/ ~Truthy(iteratorDone) THEN "notDone" ELSE "nextBlock"
    /\ UNCHANGED <<pattern, iter, i, iteratorDone, value, calls>>

(* Lines 622-668: unwrap the initializer, createLRef(target) (a member    *)
(* target evaluates its object), iterValue = undefined, then branch: the  *)
(* first element goes straight to notDoneBlock, every later one only if  *)
(* the loaded iterDone is falsy (undefined or false).                     *)
ElemStart ==
    /\ blk = "elem"
    /\ trace' = trace \o CreateLRef(i)
    /\ value' = Undef
    /\ first' = FALSE
    /\ blk' = IF first \/ ~Truthy(iteratorDone) THEN "notDone" ELSE "nextBlock"
    /\ UNCHANGED <<pattern, iter, i, iteratorDone, calls>>

(* Mutant: stepDone is not stored into iterDone.                          *)
NotDoneNoStore ==
    /\ blk = "notDone"
    /\ calls' = calls + 1
    /\ trace' = Append(trace, <<"next">>)
    /\ blk' = IF calls + 1 > Len(iter)
                THEN IF pattern[i].init THEN "getDefault" ELSE "nextBlock"
                ELSE "newValue"
    /\ UNCHANGED <<pattern, iter, i, first, iteratorDone, value>>

(* notDoneBlock, lines 671-676: stepResult = next(), stepDone = its done, *)
(* iterDone = stepDone; when done go to the default (if there is an      *)
(* initializer) or to nextBlock, else to newValueBlock.                   *)
NotDone ==
    /\ blk = "notDone"
    /\ calls' = calls + 1
    /\ trace' = Append(trace, <<"next">>)
    /\ iteratorDone' = (calls + 1 > Len(iter))
    /\ blk' = IF calls + 1 > Len(iter)
                THEN IF pattern[i].init THEN "getDefault" ELSE "nextBlock"
                ELSE "newValue"
    /\ UNCHANGED <<pattern, iter, i, first, value>>

(* Mutant: the step result itself is stored, emitIteratorValue forgotten. *)
NewValueResult ==
    /\ blk = "newValue"
    /\ value' = <<"result", calls>>
    /\ trace' = Append(trace, <<"value", i>>)
    /\ blk' = "nextBlock"
    /\ UNCHANGED <<pattern, iter, i, first, iteratorDone, calls>>

(* newValueBlock, lines 679-682: iterValue = stepResult.value, read for  *)
(* every element, a hole included.                                        *)
NewValue ==
    /\ blk = "newValue"
    /\ value' = iter[calls]
    /\ trace' = Append(trace, <<"value", i>>)
    /\ blk' = "nextBlock"
    /\ UNCHANGED <<pattern, iter, i, first, iteratorDone, calls>>

(* nextBlock with an initializer, lines 687-697: iterValue !== undefined  *)
(* goes to storeBlock, else to getDefaultBlock.                           *)
CheckDefault ==
    /\ blk = "nextBlock"
    /\ pattern[i].init
    /\ blk' = IF value # Undef THEN "storeBlock" ELSE "getDefault"
    /\ UNCHANGED <<pattern, iter, i, first, iteratorDone, value, calls, trace>>

(* getDefaultBlock, lines 700-702: iterValue = the initializer's value,   *)
(* evaluated only here.                                                    *)
GetDefault ==
    /\ blk = "getDefault"
    /\ value' = Default(i)
    /\ trace' = Append(trace, <<"init", i>>)
    /\ blk' = "storeBlock"
    /\ UNCHANGED <<pattern, iter, i, first, iteratorDone, calls>>

(* Lines 705-708, in storeBlock (with an initializer) or at the end of    *)
(* nextBlock: lref.emitStore(iterValue) unless the target is a hole; the  *)
(* loop then moves to the next element.                                   *)
Store ==
    /\ \/ blk = "storeBlock"
       \/ blk = "nextBlock" /\ ~pattern[i].init
    /\ trace' = trace \o EmitStore(i, value)
    /\ i' = i + 1
    /\ blk' = IF i = Len(pattern) THEN "done" ELSE "elem"
    /\ UNCHANGED <<pattern, iter, first, iteratorDone, value, calls>>

Terminating == blk = "done" /\ UNCHANGED vars

Next ==
    \/ Entry \/ ElemStart \/ NotDone \/ NewValue \/ CheckDefault
    \/ GetDefault \/ Store \/ Terminating

Spec == Init /\ [][Next]_vars

-----------------------------------------------------------------------------
(* Properties.                                                             *)

TypeOK ==
    /\ i \in 1..(MaxElems + 1)
    /\ blk \in {"entry", "elem", "notDone", "newValue", "nextBlock", "getDefault",
                "storeBlock", "done"}
    /\ iteratorDone \in BOOLEAN \cup {Undef, Uninit}
    /\ value \in IterVals \cup {Undef, Uninit} \cup {Default(k) : k \in 1..MaxElems}
    /\ calls \in Nat

(* The iterator protocol: once next() has reported done it is not called *)
(* again.  The code relies on the iterDone slot written in notDoneBlock  *)
(* and read by the next element's branch.                                 *)
IteratorProtocolRespected == calls <= Len(iter) + 1

(* The reference: IteratorDestructuringAssignmentEvaluation of ECMAScript *)
(* 2015 (12.14.5.3), for elements k.. with `pos` values consumed and the  *)
(* record's [[Done]] = done.  A member target is evaluated before the    *)
(* step; a step is made only while not done; an Elision (a hole) only    *)
(* steps, every other element then reads the result's value unless the   *)
(* step was done; a done step or a done record gives undefined; the      *)
(* initializer is evaluated only for undefined; a hole stores nothing.   *)
(* (The final IteratorClose of a not-done iterator is left out.)          *)
RECURSIVE ESTrace(_, _, _)
ESTrace(k, pos, done) ==
    IF k > Len(pattern) THEN <<>>
    ELSE LET e      == pattern[k]
             pos2   == IF done THEN pos ELSE pos + 1
             done2  == done \/ pos2 > Len(iter)
             got    == IF done2 THEN Undef ELSE iter[pos2]
             useDef == e.init /\ got = Undef
         IN  (IF e.target = "member" THEN <<<<"lref", k>>>> ELSE <<>>)
             \o (IF done THEN <<>> ELSE <<<<"next">>>>)
             \o (IF done2 \/ e.target = "hole" THEN <<>> ELSE <<<<"value", k>>>>)
             \o (IF useDef THEN <<<<"init", k>>>> ELSE <<>>)
             \o (IF e.target = "hole" THEN <<>>
                 ELSE <<<<"store", k, IF useDef THEN Default(k) ELSE got>>>>)
             \o ESTrace(k + 1, pos2, done2)

ESDestructuring == <<<<"getIterator">>>> \o ESTrace(1, 0, FALSE)

(* The `value` reads the code makes for holes (line 680 runs for every   *)
(* element), which ES2015 does not make.                                  *)
IsElisionRead(e) == e[1] = "value" /\ pattern[e[2]].target = "hole"

(* Apart from the extra `value` reads for holes, the emitted code does    *)
(* what the language prescribes, step by step: every effect so far is a  *)
(* prefix of the reference's, and at the end they are the same.  So each *)
(* target receives the right value (undefined once the iterator is done, *)
(* never a value left from an earlier element), next() and the targets' *)
(* objects are evaluated in ES order, and initializers run exactly when  *)
(* the value is undefined.                                                *)
TraceFollowsESButElisionReads ==
    LET t == SelectSeq(trace, LAMBDA e : ~IsElisionRead(e))
    IN  /\ IsPrefix(t, ESDestructuring)
        /\ blk = "done" => t = ESDestructuring

(* ES2015 12.14.5.3: the emitted code's observable effects are exactly    *)
(* those of the language, step by step.  emitDestructuringArray reads     *)
(* stepResult.value for a hole too (lines 679-682), which a `value`       *)
(* getter on the iterator's result object can observe.                    *)
TraceFollowsES ==
    /\ IsPrefix(trace, ESDestructuring)
    /\ blk = "done" => trace = ESDestructuring
=============================================================================
