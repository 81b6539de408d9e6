--------------------------- MODULE ObjectPacking ---------------------------
(***************************************************************************)
(* Object buffer packing (src/lib/BCGen/Lowering.cpp): the cost model      *)
(* estimateBestNumElemsToSerialize and the rewrites lowerAllocObjectBuffer *)
(* of LowerAllocObject (an AllocObjectInst and the SNOPs collected for it, *)
(* see StoreCollector) and of LowerAllocObjectLiteral (an                  *)
(* AllocObjectLiteralInst and its own key/value list), with the size-0     *)
(* fallback lowerAlloc, after LowerNumericProperties has rewritten the     *)
(* property names (see NumericProperties).                                 *)
(*                                                                         *)
(* The input is the allocation's instructions as the frontend emits them: *)
(* its SNOPs (StoreOwnProperty layout: value, object, name, enumerable),   *)
(* or one AllocObjectLiteralInst with operands key1, value1, key2, ....   *)
(* Keys are string literals with distinct texts (the frontend emits a     *)
(* new-own-property definition once per key).  A value is a string        *)
(* literal with a text of ValueStrings, which                              *)
(* SerializedLiteralGenerator::isSerializableLiteral accepts, or one of    *)
(* NumComputed computed values, which it does not.                         *)
(*                                                                         *)
(* The output is the allocation, its buffer (a sequence of <<key, value>>, *)
(* with Null as placeholder) and the stores that follow it, in order.  An  *)
(* interpreter of that code (Run) gives the object both programs build.    *)
(***************************************************************************)
EXTENDS Integers, Sequences, SequencesExt, NumericProperties

CONSTANTS
    KeyStrings,            \* texts of the property names
    ValueStrings,          \* texts of string-literal values
    NumComputed,           \* computed (unserializable) values
    Null,                  \* the null placeholder of the buffer
    Parent,                \* a non-default prototype of an AllocObjectInst
    MaxProps,              \* length bound of the property lists
    \* Encoded sizes of the HBC instructions the cost model is built from.
    NewObjectSize, NewObjectWithBufferSize, CallBuiltinSize,
    LoadConstIntSize, PutNewOwnByIdSize, PutByIdLooseSize,
    PlaceholderLimit,      \* kNonLiteralPlaceholderLimit
    MaxBufferSize          \* the maxSize bound (UINT16_MAX in the code)

Computed(c) == [t |-> "val", s |-> <<>>, n |-> c]
Keys == {Str(s) : s \in KeyStrings} \cup {Num(n) : n \in 0..MaxArrayIndex}
LitVals == {Str(s) : s \in ValueStrings} \cup {Num(n) : n \in 0..MaxArrayIndex}
OtherVals == {Computed(c) : c \in 1..NumComputed}
Vals == LitVals \cup OtherVals
NoParent == "EmptySentinel"

(* kLiteralSavedBytes and kNonLiteralCostBytes (lines 284-293).            *)
LiteralSavedBytes == LoadConstIntSize + PutNewOwnByIdSize - 4 - 1
NonLiteralCostBytes == 1 + PutByIdLooseSize - PutNewOwnByIdSize

CanSerialize(v) == v \in LitVals
IsNumKey(k) == k.t = "num"
IsPlaceholder(p) == ~CanSerialize(p.val) /\ ~IsNumKey(p.key)

Store(op, k, v) == [op |-> op, key |-> k, val |-> v]

VARIABLES
    kind,        \* "object" (AllocObjectInst) or "literal"
    insts,       \* the SNOPs, or the AllocObjectLiteralInst
    insts0,      \* the input, for the properties
    numeric,     \* LowerNumericProperties has run
    parentObj,   \* allocInst->getParentObject() (AllocObjectInst only)
    alloc,       \* "none" (not lowered yet), "plain" or "buffer"
    buffer,      \* the buffer of HBCAllocObjectFromBufferInst
    code         \* the stores after the allocation, in order

vars == <<kind, insts, insts0, numeric, parentObj, alloc, buffer, code>>

(* The instructions that define the properties ps.                        *)
InstsOf(kd, ps) ==
    IF kd = "literal"
      THEN <<[kind |-> "AllocObjectLiteral",
              ops |-> FlattenSeq([j \in DOMAIN ps |-> <<ps[j].key, ps[j].val>>])]>>
      ELSE [j \in DOMAIN ps |-> [kind |-> "StoreOwnProperty",
                                 ops |-> <<ps[j].val, Val, ps[j].key, Val>>]]

(* The [key, val] list the lowering reads: the collected SNOPs' name and  *)
(* value operands, or the literal's getKey(i) and getValue(i).            *)
PropsOf(kd, is) ==
    IF kd = "literal"
      THEN [j \in 1..(Len(is[1].ops) \div 2) |-> [key |-> is[1].ops[2 * j - 1],
                                                  val |-> is[1].ops[2 * j]]]
      ELSE [j \in DOMAIN is |-> [key |-> is[j].ops[3], val |-> is[j].ops[1]]]

props == PropsOf(kind, insts)

DistinctProps ==
    UNION {{s \in [1..n -> [key : {Str(t) : t \in KeyStrings},
                            val : {Str(t) : t \in ValueStrings} \cup OtherVals]] :
              \A a, b \in 1..n : a # b => s[a].key # s[b].key}
           : n \in 0..MaxProps}

Init ==
    /\ kind \in {"object", "literal"}
    /\ \E ps \in DistinctProps : insts = InstsOf(kind, ps)
    /\ insts0 = insts
    /\ numeric = FALSE
    /\ parentObj \in IF kind = "object" THEN {NoParent, Parent} ELSE {NoParent}
    /\ alloc = "none"
    /\ buffer = <<>>
    /\ code = <<>>

(* The LowerNumericProperties pass over the allocation's instructions.    *)
NumericPass ==
    /\ ~numeric
    /\ insts' = LowerNumericProperties(insts)
    /\ numeric' = TRUE
    /\ UNCHANGED <<kind, insts0, parentObj, alloc, buffer, code>>

(* Mutant: the placeholder cost is never subtracted from curSaving.      *)
EstimateNoPlaceholderCost(ps, hasParent) ==
    LET RECURSIVE Loop(_, _, _, _, _)
        Loop(k, cur, maxSaving, optimumStopIndex, placeholders) ==
            IF k > Len(ps) THEN optimumStopIndex
            ELSE IF CanSerialize(ps[k].val)
              THEN LET c2 == cur + LiteralSavedBytes
                   IN  IF c2 > maxSaving THEN Loop(k + 1, c2, c2, k, placeholders)
                       ELSE Loop(k + 1, c2, maxSaving, optimumStopIndex, placeholders)
            ELSE IF IsNumKey(ps[k].key) THEN Loop(k + 1, cur, maxSaving, optimumStopIndex, placeholders)
            ELSE IF placeholders = PlaceholderLimit THEN optimumStopIndex
            ELSE Loop(k + 1, cur, maxSaving, optimumStopIndex, placeholders + 1)
    IN  Loop(1, NewObjectSize - NewObjectWithBufferSize
                - (IF hasParent THEN CallBuiltinSize ELSE 0), 0, 0, 0)

(* estimateBestNumElemsToSerialize (lines 305-359 and 473-506): the       *)
(* position after which the running saving was highest, 0 if it never    *)
(* rose above 0.                                                          *)
EstimateBestNumElems(ps, hasParent) ==
    LET RECURSIVE Loop(_, _, _, _, _)
        Loop(k, cur, maxSaving, optimumStopIndex, placeholders) ==
            IF k > Len(ps) THEN optimumStopIndex
            ELSE IF CanSerialize(ps[k].val)
              THEN LET c2 == cur + LiteralSavedBytes
                   IN  IF c2 > maxSaving THEN Loop(k + 1, c2, c2, k, placeholders)
                       ELSE Loop(k + 1, c2, maxSaving, optimumStopIndex, placeholders)
            ELSE IF IsNumKey(ps[k].key) THEN Loop(k + 1, cur, maxSaving, optimumStopIndex, placeholders)
            ELSE IF placeholders = PlaceholderLimit THEN optimumStopIndex
            ELSE Loop(k + 1, cur - NonLiteralCostBytes, maxSaving, optimumStopIndex, placeholders + 1)
        base == NewObjectSize - NewObjectWithBufferSize
                - (IF hasParent THEN CallBuiltinSize ELSE 0)
    IN  Loop(1, base, 0, 0, 0)

(* Mutant: the computed value itself is pushed where Null belongs.        *)
BufferOfValue(ps, size) ==
    LET kept == SelectSeq(SubSeq(ps, 1, size), LAMBDA p : CanSerialize(p.val) \/ ~IsNumKey(p.key))
    IN  [j \in DOMAIN kept |-> <<kept[j].key, kept[j].val>>]

(* The buffer built from the first `size` properties: literal values go  *)
(* in as they are, string keys with other values as Null placeholders,   *)
(* numeric keys with other values are left out.                          *)
BufferOf(ps, size) ==
    LET pre == SubSeq(ps, 1, size)
        kept == SelectSeq(pre, LAMBDA p : CanSerialize(p.val) \/ ~IsNumKey(p.key))
    IN  [j \in DOMAIN kept |->
           <<kept[j].key, IF CanSerialize(kept[j].val) THEN kept[j].val ELSE Null>>]

(* Mutant: the maxSize bound is dropped.                                  *)
MinOfDropped(a, b) == b
MinOf(a, b) == IF a < b THEN a ELSE b

(* Mutant: the CallBuiltin that sets a non-default prototype is omitted.  *)
LowerAllocObjectNoProto ==
    /\ kind = "object" /\ alloc = "none" /\ numeric
    /\ LET est == EstimateBestNumElems(props, parentObj # NoParent)
           size == MinOf(MaxBufferSize, est)
           kept == SelectSeq([j \in DOMAIN props |-> j],
                             LAMBDA j : ~(j <= size /\ CanSerialize(props[j].val)))
       IN  /\ alloc' = IF est = 0 THEN "plain" ELSE "buffer"
           /\ buffer' = IF est = 0 THEN <<>> ELSE BufferOf(props, size)
           /\ code' = [j \in DOMAIN kept |->
                         Store(IF kept[j] <= size /\ IsPlaceholder(props[kept[j]])
                                 THEN "storeprop" ELSE "snop",
                               props[kept[j]].key, props[kept[j]].val)]
    /\ UNCHANGED <<kind, insts, insts0, numeric, parentObj>>

(* Mutant: a placeholder's SNOP is kept instead of being replaced by a    *)
(* StorePropertyInst.                                                      *)
LowerAllocObjectKeepSNOP ==
    /\ kind = "object" /\ alloc = "none" /\ numeric
    /\ LET est == EstimateBestNumElems(props, parentObj # NoParent)
           size == MinOf(MaxBufferSize, est)
           kept == SelectSeq([j \in DOMAIN props |-> j],
                             LAMBDA j : ~(j <= size /\ CanSerialize(props[j].val)))
       IN  IF est = 0
             THEN /\ alloc' = "plain"
                  /\ code' = [j \in DOMAIN props |-> Store("snop", props[j].key, props[j].val)]
                  /\ UNCHANGED buffer
             ELSE /\ alloc' = "buffer"
                  /\ buffer' = BufferOf(props, size)
                  /\ code' = (IF parentObj # NoParent
                                THEN <<Store("setproto", Parent, Parent)>> ELSE <<>>)
                             \o [j \in DOMAIN kept |->
                                   Store("snop", props[kept[j]].key, props[kept[j]].val)]
    /\ UNCHANGED <<kind, insts, insts0, numeric, parentObj>>

(* LowerAllocObject::lowerAllocObjectBuffer (lines 361-432).  The buffer  *)
(* replaces the allocation; SNOPs of the prefix with literal values are  *)
(* erased, those with placeholders become StorePropertyInsts in place,   *)
(* all others stay; a non-default parent is set by a CallBuiltin right   *)
(* after the new allocation.  A size of 0 leaves everything unchanged.   *)
LowerAllocObject ==
    /\ kind = "object" /\ alloc = "none" /\ numeric
    /\ LET est == EstimateBestNumElems(props, parentObj # NoParent)
           size == MinOf(MaxBufferSize, est)
           rewritten == [j \in DOMAIN props |->
                           IF j <= size /\ IsPlaceholder(props[j])
                             THEN Store("storeprop", props[j].key, props[j].val)
                             ELSE Store("snop", props[j].key, props[j].val)]
           kept == SelectSeq([j \in DOMAIN props |-> <<j, rewritten[j]>>],
                             LAMBDA e : ~(e[1] <= size /\ CanSerialize(props[e[1]].val)))
       IN  IF est = 0
             THEN /\ alloc' = "plain"
                  /\ code' = [j \in DOMAIN props |-> Store("snop", props[j].key, props[j].val)]
                  /\ UNCHANGED buffer
             ELSE /\ alloc' = "buffer"
                  /\ buffer' = BufferOf(props, size)
                  /\ code' = (IF parentObj # NoParent
                                THEN <<Store("setproto", Parent, Parent)>> ELSE <<>>)
                             \o [j \in DOMAIN kept |-> kept[j][2]]
    /\ UNCHANGED <<kind, insts, insts0, numeric, parentObj>>

(* LowerAllocObjectLiteral::lowerAllocObjectBuffer (lines 508-578) and    *)
(* lowerAlloc (lines 450-471).  Within the prefix, placeholders get a     *)
(* StorePropertyInst and numeric keys with other values a                 *)
(* StoreOwnPropertyInst, in order; every later property gets a SNOP.      *)
LowerAllocObjectLiteral ==
    /\ kind = "literal" /\ alloc = "none" /\ numeric
    /\ LET size == MinOf(MaxBufferSize, EstimateBestNumElems(props, FALSE))
           pre == SubSeq(props, 1, size)
           fixups == SelectSeq(pre, LAMBDA p : ~CanSerialize(p.val))
       IN  IF size = 0
             THEN /\ alloc' = "plain"
                  /\ code' = [j \in DOMAIN props |-> Store("snop", props[j].key, props[j].val)]
                  /\ UNCHANGED buffer
             ELSE /\ alloc' = "buffer"
                  /\ buffer' = BufferOf(props, size)
                  /\ code' = [j \in DOMAIN fixups |->
                                Store(IF IsNumKey(fixups[j].key) THEN "storeown" ELSE "storeprop",
                                      fixups[j].key, fixups[j].val)]
                             \o [j \in 1..(Len(props) - size) |->
                                   Store("snop", props[size + j].key, props[size + j].val)]
    /\ UNCHANGED <<kind, insts, insts0, numeric, parentObj>>

Terminating == alloc # "none" /\ UNCHANGED vars

Next == NumericPass \/ LowerAllocObject \/ LowerAllocObjectLiteral \/ Terminating

Spec == Init /\ [][Next]_vars

-----------------------------------------------------------------------------
(* The object a construction builds: the insertion order of its string    *)
(* keys (index keys enumerate in index order whatever the insertion       *)
(* order), the value of every key defined so far, and its prototype.      *)
(* Every store kind defines or overwrites an own data property, but a     *)
(* StoreNewOwnPropertyInst is only valid as the key's first definition    *)
(* (spec 2: "first definition"); `newOwnOK` turns false when one is not.  *)

EmptyObject(proto) == [order |-> <<>>, vals |-> <<>>, proto |-> proto, newOwnOK |-> TRUE]

Define(obj, k, v) ==
    [obj EXCEPT !.order = IF k.t = "str" /\ k \notin DOMAIN obj.vals THEN Append(@, k) ELSE @,
                !.vals = (k :> v) @@ @]

RECURSIVE Run(_, _)
Run(obj, sts) ==
    IF sts = <<>> THEN obj
    ELSE LET s == Head(sts)
             o2 == IF s.op = "setproto" THEN [obj EXCEPT !.proto = s.val]
                   ELSE Define(obj, s.key, s.val)
         IN  Run(IF s.op = "snop" /\ s.key \in DOMAIN obj.vals
                   THEN [o2 EXCEPT !.newOwnOK = FALSE] ELSE o2,
                 Tail(sts))

RECURSIVE Fill(_, _)
Fill(obj, buf) ==
    IF buf = <<>> THEN obj ELSE Fill(Define(obj, Head(buf)[1], Head(buf)[2]), Tail(buf))

(* The object the source defines: its properties in order, each name the *)
(* property JavaScript gives it.                                          *)
OriginalObject ==
    LET ps == PropsOf(kind, insts0)
    IN  Run(EmptyObject(parentObj),
            [j \in DOMAIN ps |-> Store("snop", JSKey(ps[j].key), ps[j].val)])

LoweredObject ==
    IF alloc = "buffer" THEN Run(Fill(EmptyObject(NoParent), buffer), code)
    ELSE Run(EmptyObject(parentObj), code)

(* The reference cost model: the scan covers the properties before the    *)
(* (PlaceholderLimit+1)-th placeholder; the saving after position k is    *)
(* the base plus LiteralSavedBytes per literal and minus                  *)
(* NonLiteralCostBytes per placeholder up to k; the answer is the first   *)
(* literal position where the saving is maximal, if that maximum is > 0.  *)
ScanLen(ps) ==
    LET over == {k \in DOMAIN ps :
                   IsPlaceholder(ps[k]) /\
                   Len(SelectSeq(SubSeq(ps, 1, k), IsPlaceholder)) > PlaceholderLimit}
    IN  IF over = {} THEN Len(ps) ELSE (CHOOSE k \in over : \A j \in over : k <= j) - 1

SavingAt(ps, hasParent, k) ==
    NewObjectSize - NewObjectWithBufferSize - (IF hasParent THEN CallBuiltinSize ELSE 0)
    + LiteralSavedBytes * Len(SelectSeq(SubSeq(ps, 1, k), LAMBDA p : CanSerialize(p.val)))
    - NonLiteralCostBytes * Len(SelectSeq(SubSeq(ps, 1, k), IsPlaceholder))

ReferenceBest(ps, hasParent) ==
    LET cands == {k \in 1..ScanLen(ps) :
                    CanSerialize(ps[k].val) /\ SavingAt(ps, hasParent, k) > 0}
        best == {k \in cands : \A j \in cands : SavingAt(ps, hasParent, j) <= SavingAt(ps, hasParent, k)}
    IN  IF cands = {} THEN 0 ELSE CHOOSE k \in best : \A j \in best : k <= j

-----------------------------------------------------------------------------
(* Properties.                                                             *)

TypeOK ==
    /\ kind \in {"object", "literal"}
    /\ alloc \in {"none", "plain", "buffer"}
    /\ buffer \in Seq(Keys \X (LitVals \cup {Null}))
    /\ code \in Seq([op : {"snop", "storeprop", "storeown", "setproto"},
                     key : Keys \cup {Parent}, val : Vals \cup {Parent}])

(* The loop of estimateBestNumElemsToSerialize (running saving, strict    *)
(* new maximum, numeric keys skipped, stop at the placeholder budget)     *)
(* computes the first position of maximal saving among the properties it *)
(* may scan (spec 4.6 and 8.5).                                           *)
EstimateIsOptimalPrefix ==
    alloc = "none" =>
        EstimateBestNumElems(props, parentObj # NoParent)
            = ReferenceBest(props, parentObj # NoParent)

(* The buffer never carries more than kNonLiteralPlaceholderLimit null    *)
(* placeholders, nor more than maxSize entries.                           *)
PlaceholderBudget ==
    /\ Len(SelectSeq(buffer, LAMBDA e : e[2] = Null)) <= PlaceholderLimit
    /\ Len(buffer) <= MaxBufferSize

(* Canonicalization and packing together do not change the object: after *)
(* the buffer allocation, the prototype call and the remaining stores,   *)
(* the object has the same string keys in the same order, the same value *)
(* for every key and the same prototype as the allocation and stores of  *)
(* the source, with "0" and 0 naming one property but "07" not; and no    *)
(* StoreNewOwnPropertyInst redefines a key the buffer already holds.      *)
PackingPreservesObject ==
    alloc # "none" => LoweredObject = OriginalObject
=============================================================================
