------------------------ MODULE MCAllocationLowering ------------------------
(***************************************************************************)
(* The allocation lowerings of src/lib/BCGen/Lowering.cpp on one function  *)
(* holding an object allocation (AllocObjectInst and its SNOPs, or an     *)
(* AllocObjectLiteralInst) and an AllocArrayInst: LowerNumericProperties, *)
(* LowerAllocObject and LowerAllocObjectLiteral (ObjectPacking),          *)
(* LimitAllocArray (ArrayLimiting), and the collectStores analysis that   *)
(* LowerAllocObject runs over the allocation's dominator tree             *)
(* (StoreCollector).  Each part works only on what is its own, so their   *)
(* steps interleave freely.  To keep the state space a sum rather than a  *)
(* product, every part but one starts idle: the array and the object     *)
(* literal empty ([] and {}), the collected allocation without users.    *)
(* An idle part that would still take steps (the collector's DFS, the    *)
(* object literal's two passes) starts in the final state those steps    *)
(* reach.                                                                  *)
(***************************************************************************)
EXTENDS ObjectPacking

CONSTANTS SerVals, UnserVals, SizeHint, MaxLen, MaxSize, UWidth, NumBlocks, MaxUsers

VARIABLES orig, ops, stores, ti, pc
VARIABLES parent, users, userMap, sorted, stopAdding, stack, scStores, scPc

AL == INSTANCE ArrayLimiting WITH orig <- orig, ops <- ops, stores <- stores, ti <- ti, pc <- pc

SC == INSTANCE StoreCollector WITH stores <- scStores, pc <- scPc

arrayVars == <<orig, ops, stores, ti, pc>>
collectorVars == <<parent, users, userMap, sorted, stopAdding, stack, scStores, scPc>>
allVars == <<vars, arrayVars, collectorVars>>

(* Names and values as character sequences (0..9 the digits, 10 for "-", *)
(* 11 for "a"): "0" (an index), and four names that stay strings: "07"    *)
(* (leading zero), "-7" (a sign), "700" (above the scaled MaxArrayIndex)  *)
(* and "a"; the value "7" looks like an index but is not a name.         *)
MCKeyStrings == {<<0>>, <<0, 7>>, <<10, 7>>, <<7, 0, 0>>, <<11>>}
MCValueStrings == {<<7>>}

(* The collector's final state for an allocation without users: no      *)
(* block in the BlockUserMap, so the DFS sorts nothing and collectStores  *)
(* returns no store.  The tree is the chain 1 <- 2 <- ...                *)
CollectorIdle ==
    /\ parent = [b \in SC!Blocks \ {SC!Root} |-> b - 1]
    /\ users = [b \in SC!Blocks |-> <<>>]
    /\ userMap = [b \in {} |-> <<>>]
    /\ sorted = <<>> /\ stopAdding = FALSE /\ stack = <<>>
    /\ scStores = <<>> /\ scPc = "done"

(* The object lowering's final state for an empty object literal: both    *)
(* passes ran and the estimate 0 left a plain allocation.                 *)
ObjectIdle ==
    /\ kind = "literal" /\ insts = InstsOf("literal", <<>>) /\ insts0 = insts
    /\ numeric = TRUE /\ parentObj = NoParent
    /\ alloc = "plain" /\ buffer = <<>> /\ code = <<>>

(* The array lowering's final state for an empty array: skipped.          *)
ArrayIdle ==
    /\ orig = <<>> /\ ops = <<SizeHint>> /\ stores = <<>> /\ ti = 0 /\ pc = "done"

AllocInit ==
    \/ orig = <<>> /\ CollectorIdle /\ Init /\ AL!Init
    \/ kind \in {"object", "literal"} /\ insts = InstsOf(kind, <<>>) /\ CollectorIdle
       /\ Init /\ AL!Init
    \/ ArrayIdle /\ ObjectIdle /\ SC!Init

AllocNext ==
    \/ Next /\ UNCHANGED <<arrayVars, collectorVars>>
    \/ AL!Next /\ UNCHANGED <<vars, collectorVars>>
    \/ SC!Next /\ UNCHANGED <<vars, arrayVars>>

AllocSpec == AllocInit /\ [][AllocNext]_allVars

(* The type of the collector's state.                                     *)
CollectorTypeOK == SC!TypeOK

(* orderBlocksByDominance keeps a chain whose last block dominates every  *)
(* remaining block with a user (the comment above it, lines 187-196).    *)
LastDominatesRemaining == SC!LastDominatesRemaining

(* collectStores returns SNOPs of the allocation in execution order, each *)
(* executing before every user that was not collected, on every path.    *)
CollectedStoresPrecedeOtherUses == SC!CollectedStoresPrecedeOtherUses

(* The type of the array lowering's state.                                *)
ArrayTypeOK == AL!TypeOK

(* LimitAllocArray's trim loop reads and removes element operands only:   *)
(* its unsigned counter leaves the loop before it wraps onto the          *)
(* SizeHint and past the operand list.                                     *)
OnlyElementsTrimmed == AL!OnlyElementsTrimmed

(* LimitAllocArray keeps exactly the elements before the first            *)
(* unserializable one, cut to maxSize_, and stores every other element   *)
(* once at its own index (spec 4.5, 8.3, 8.4).                             *)
ArrayLimitingMatchesSpec == AL!ArrayLimitingMatchesSpec
=============================================================================
