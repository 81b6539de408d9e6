--------------------------- MODULE ArrayLimiting ---------------------------
(***************************************************************************)
(* LimitAllocArray::runOnFunction (src/lib/BCGen/Lowering.cpp) on one     *)
(* AllocArrayInst.  Its element operands are literals: SerVals are         *)
(* serializable ones, UnserVals stand for LiteralBigInt and                 *)
(* LiteralUndefined.  Elements that leave the instruction become           *)
(* StoreOwnPropertyInsts <<index, value>> emitted after it, in order.      *)
(* `ops` is the whole operand list: operand 0 is the SizeHint literal,    *)
(* the elements start at ElementStartIdx = 1 (AllocArrayInst's layout,    *)
(* outside src/), so element k is ops[k + 1] in TLA+'s 1-based indexing.  *)
(*                                                                         *)
(* The first loop (demotion of the first unserializable element and all   *)
(* after it) is one step.  The trim loop is one step per iteration, with   *)
(* its `unsigned` counter, and the operand offset computed from it, kept   *)
(* modulo 2^UWidth: TLC's integers cannot hold 2^32, and the wraps below  *)
(* 0 and above the largest value behave the same at any width.            *)
(***************************************************************************)
EXTENDS Integers, Sequences, SequencesExt

CONSTANTS
    SerVals, UnserVals,  \* literal element values
    SizeHint,            \* the SizeHint operand (a LiteralNumber)
    MaxLen,              \* bound on the element count
    MaxSize,             \* maxSize_ of the pass
    UWidth               \* width of `unsigned` in the model

ASSUME /\ SerVals \cap UnserVals = {} /\ SizeHint \notin SerVals \cup UnserVals
       /\ MaxSize \in Nat /\ UWidth \in Nat \ {0}

Vals == SerVals \cup UnserVals
UMod == 2^UWidth
ElementStartIdx == 1

VARIABLES
    orig,     \* the element operands before the pass (input)
    ops,      \* the operand list now: SizeHint, then the elements
    stores,   \* <<index, value>> stores emitted after the AllocArrayInst
    ti,       \* the `unsigned i` of the trim loop
    pc        \* "demote", "trim", "done" or "ub" (operand read out of range)

vars == <<orig, ops, stores, ti, pc>>

(* getElementCount: the operands from ElementStartIdx on.                  *)
ElementCount == Len(ops) - ElementStartIdx

Init ==
    /\ orig \in BoundedSeq(Vals, MaxLen)
    /\ ops = <<SizeHint>> \o orig
    /\ stores = <<>>
    /\ ti = 0
    /\ pc = "demote"

(* Lines 636-637: arrays without elements are skipped.                     *)
SkipEmpty ==
    /\ pc = "demote"
    /\ ElementCount = 0
    /\ pc' = "done"
    /\ UNCHANGED <<orig, ops, stores, ti>>

(* Index (from 0) of the first unserializable element, or Len(es).         *)
FirstUnser(es) ==
    LET bad == {k \in DOMAIN es : es[k] \in UnserVals}
    IN  IF bad = {} THEN Len(es) ELSE (CHOOSE k \in bad : \A j \in bad : k <= j) - 1

(* Mutant: only the unserializable elements themselves are demoted.        *)
DemoteOnlyUnser ==
    /\ pc = "demote"
    /\ ElementCount # 0
    /\ LET es   == Tail(ops)
           kept == SelectSeq(es, LAMBDA v : v \in SerVals)
           bad  == SelectSeq([k \in DOMAIN es |-> k], LAMBDA k : es[k] \in UnserVals)
       IN  /\ ops' = <<SizeHint>> \o kept
           /\ stores' = [j \in DOMAIN bad |-> <<bad[j] - 1, es[bad[j]]>>]
           /\ IF kept = <<>> THEN pc' = "done" /\ UNCHANGED ti
              ELSE pc' = "trim" /\ ti' = (Len(kept) - 1) % UMod
    /\ UNCHANGED orig

(* Mutant: the trim loop starts at i = count instead of count - 1.         *)
TrimFromCount ==
    /\ pc = "demote"
    /\ ElementCount # 0
    /\ LET es == Tail(ops)
           f  == FirstUnser(es)
       IN  /\ ops' = SubSeq(ops, 1, ElementStartIdx + f)
           /\ stores' = [j \in 1..(Len(es) - f) |-> <<f + j - 1, es[f + j]>>]
           /\ IF f = 0 THEN pc' = "done" /\ UNCHANGED ti
              ELSE pc' = "trim" /\ ti' = f % UMod
    /\ UNCHANGED orig

(* Lines 643-671: from the first unserializable element on, every element *)
(* is removed and stored at its original index `ind`; if none is left the *)
(* instruction is done (669-670), else the trim loop starts at            *)
(* i = count - 1 (676).                                                    *)
Demote ==
    /\ pc = "demote"
    /\ ElementCount # 0
    /\ LET es == Tail(ops)
           f  == FirstUnser(es)
       IN  /\ ops' = SubSeq(ops, 1, ElementStartIdx + f)
           /\ stores' = [j \in 1..(Len(es) - f) |-> <<f + j - 1, es[f + j]>>]
           /\ IF f = 0 THEN pc' = "done" /\ UNCHANGED ti
              ELSE pc' = "trim" /\ ti' = (f - 1) % UMod
    /\ UNCHANGED orig

(* Line 678: the operand offset ElementStartIdx + i, an unsigned sum that *)
(* wraps to 0 when i is the largest unsigned.  Converted to int and back  *)
(* to getOperand's unsigned index, it is the same offset modulo 2^UWidth. *)
OperandOffset(i) == (ElementStartIdx + i) % UMod

(* Mutant: the store uses the operand offset as the index.                 *)
TrimStepOperandOffset ==
    /\ pc = "trim"
    /\ ti >= MaxSize
    /\ LET o == OperandOffset(ti)
       IN  IF o < Len(ops)
             THEN /\ stores' = Append(stores, <<o, ops[o + 1]>>)
                  /\ ops' = RemoveAt(ops, o + 1)
                  /\ ti' = (ti - 1) % UMod
                  /\ UNCHANGED pc
             ELSE /\ pc' = "ub"
                  /\ UNCHANGED <<ops, stores, ti>>
    /\ UNCHANGED orig

(* One iteration of lines 677-685: while i >= maxSize_, the operand at    *)
(* offset ElementStartIdx + i is stored at index i and removed; then i--. *)
(* Whatever operand the offset names is read, the SizeHint included;     *)
(* reading an offset the instruction does not have is undefined.        *)
TrimStep ==
    /\ pc = "trim"
    /\ ti >= MaxSize
    /\ LET o == OperandOffset(ti)
       IN  IF o < Len(ops)
             THEN /\ stores' = Append(stores, <<ti, ops[o + 1]>>)
                  /\ ops' = RemoveAt(ops, o + 1)
                  /\ ti' = (ti - 1) % UMod
                  /\ UNCHANGED pc
             ELSE /\ pc' = "ub"
                  /\ UNCHANGED <<ops, stores, ti>>
    /\ UNCHANGED orig

TrimDone ==
    /\ pc = "trim"
    /\ ti < MaxSize
    /\ pc' = "done"
    /\ UNCHANGED <<orig, ops, stores, ti>>

Terminating == pc \in {"done", "ub"} /\ UNCHANGED vars

Next == SkipEmpty \/ Demote \/ TrimStep \/ TrimDone \/ Terminating

Spec == Init /\ [][Next]_vars

-----------------------------------------------------------------------------
(* Properties.                                                             *)

TypeOK ==
    /\ orig \in Seq(Vals) /\ ops \in Seq(Vals \cup {SizeHint})
    /\ stores \in Seq((0..(MaxLen - 1)) \X Vals)
    /\ ti \in 0..(UMod - 1)
    /\ pc \in {"demote", "trim", "done", "ub"}

(* The trim loop touches element operands only: the SizeHint stays       *)
(* operand 0, and no offset past the operand list is read.  Both need    *)
(* the unsigned counter to leave the loop through `i >= maxSize_` before *)
(* it wraps: at the wrap the offset ElementStartIdx + i is 0, the        *)
(* SizeHint.                                                              *)
OnlyElementsTrimmed ==
    /\ pc # "ub"
    /\ ops # <<>> /\ ops[1] = SizeHint

MinOf(a, b) == IF a < b THEN a ELSE b

(* Spec 4.5, 8.3 and 8.4: afterwards the instruction keeps exactly the    *)
(* elements before the first unserializable one, cut to maxSize_, and    *)
(* every other element is stored once, at its own index, with its own    *)
(* value: the array the program builds is unchanged.                     *)
ArrayLimitingMatchesSpec ==
    pc = "done" =>
        LET keep == MinOf(MaxSize, FirstUnser(orig))
        IN  /\ ops = <<SizeHint>> \o SubSeq(orig, 1, keep)
            /\ Len(stores) = Len(orig) - keep
            /\ {s[1] : s \in Range(stores)} = keep..(Len(orig) - 1)
            /\ \A s \in Range(stores) : s[2] = orig[s[1] + 1]
=============================================================================
