------------------------- MODULE NumericProperties -------------------------
(***************************************************************************)
(* LowerNumericProperties (src/lib/BCGen/Lowering.cpp 580-629): a string  *)
(* literal in a property-name operand that toArrayIndex accepts is        *)
(* replaced by the LiteralNumber of that index.  The pass is a loop over  *)
(* the instructions with no other effect, so it is given here as an      *)
(* operator from a function's instructions to the rewritten ones;        *)
(* ObjectPacking applies it to an allocation and its stores.              *)
(*                                                                         *)
(* An instruction is a kind and its operand list.  An operand is a string *)
(* literal (its text as a sequence of character codes: 0..9 the digits,   *)
(* 10 for "-", 11 for "a"), a number literal, or another value.  The      *)
(* operand layouts (the PropertyIdx constants) are in the IR headers,     *)
(* outside src/; they are taken from there, 1-based.                      *)
(***************************************************************************)
EXTENDS Integers, Sequences, SequencesExt

CONSTANT
    MaxArrayIndex    \* the largest array index (2^32 - 2 in the code)

ASSUME MaxArrayIndex \in Nat

Str(s) == [t |-> "str", s |-> s, n |-> -1]
Num(n) == [t |-> "num", s |-> <<>>, n |-> n]
Val == [t |-> "val", s |-> <<>>, n |-> -1]

Digits == 0..9

(* toArrayIndex (Support/Conversions.h): the index if the text is the     *)
(* decimal of an integer in 0..MaxArrayIndex with no sign and no leading  *)
(* zero, none otherwise (-1).                                              *)
RECURSIVE DecimalValue(_)
DecimalValue(s) == IF s = <<>> THEN 0 ELSE DecimalValue(Front(s)) * 10 + Last(s)

(* Mutant: a leading zero is accepted.                                     *)
ToArrayIndexLeadingZero(s) ==
    IF /\ s # <<>>
       /\ \A k \in DOMAIN s : s[k] \in Digits
       /\ DecimalValue(s) <= MaxArrayIndex
    THEN DecimalValue(s) ELSE -1

ToArrayIndex(s) ==
    IF /\ s # <<>>
       /\ \A k \in DOMAIN s : s[k] \in Digits
       /\ (Len(s) = 1 \/ s[1] # 0)
       /\ DecimalValue(s) <= MaxArrayIndex
    THEN DecimalValue(s) ELSE -1

(* The IR operand layouts: the operand count of each kind and the         *)
(* position of its property name (Inst::PropertyIdx + 1).                  *)
Kinds == {"LoadProperty", "StoreProperty", "StoreOwnProperty", "DeleteProperty",
          "StoreGetterSetter", "AllocObjectLiteral", "Other"}
NumOperands == [LoadProperty |-> 2, StoreProperty |-> 3, StoreOwnProperty |-> 4,
                DeleteProperty |-> 2, StoreGetterSetter |-> 5, Other |-> 2]
PropertyIdx == [LoadProperty |-> 2, StoreProperty |-> 3, StoreOwnProperty |-> 3,
                DeleteProperty |-> 2, StoreGetterSetter |-> 4]

(* Mutant: the result of toArrayIndex is used without checking it.        *)
StringToNumericPropertyNoCheck(i, k) ==
    IF i.ops[k].t = "str"
      THEN [i EXCEPT !.ops[k] = Num(ToArrayIndex(i.ops[k].s))]
      ELSE i

(* stringToNumericProperty (lines 580-596) on operand k of instruction i.  *)
StringToNumericProperty(i, k) ==
    IF i.ops[k].t = "str" /\ ToArrayIndex(i.ops[k].s) # -1
      THEN [i EXCEPT !.ops[k] = Num(ToArrayIndex(i.ops[k].s))]
      ELSE i

(* Mutant: the value slots 2i+1 of an object literal are rewritten.       *)
NameOperandsValueSlots(i) ==
    CASE i.kind = "AllocObjectLiteral" -> {2 * j + 2 : j \in 0..(Len(i.ops) \div 2 - 1)}
      [] i.kind = "Other" -> {}
      [] OTHER -> {PropertyIdx[i.kind]}

(* The operands runOnFunction (lines 598-629) passes for each kind.       *)
NameOperands(i) ==
    CASE i.kind = "AllocObjectLiteral" -> {2 * j + 1 : j \in 0..(Len(i.ops) \div 2 - 1)}
      [] i.kind = "Other" -> {}
      [] OTHER -> {PropertyIdx[i.kind]}

(* One iteration of the instruction loop (lines 603-627): every name     *)
(* operand of the instruction goes through stringToNumericProperty.       *)
VisitInst(i) ==
    [i EXCEPT !.ops = [k \in DOMAIN i.ops |->
                         IF k \in NameOperands(i) THEN StringToNumericProperty(i, k).ops[k]
                         ELSE i.ops[k]]]

(* LowerNumericProperties::runOnFunction (lines 598-629) on a sequence of *)
(* instructions.                                                           *)
LowerNumericProperties(is) == [j \in DOMAIN is |-> VisitInst(is[j])]

(* The reference ToString of a non-negative integer: its decimal digits.  *)
RECURSIVE NumberToString(_)
NumberToString(n) == IF n < 10 THEN <<n>> ELSE NumberToString(n \div 10) \o <<n % 10>>

(* The property a key literal names in JavaScript: a string that is the   *)
(* ToString of an array index names that index, any other string names   *)
(* itself.                                                                 *)
JSKey(k) ==
    IF /\ k.t = "str" /\ k.s # <<>>
       /\ \A j \in DOMAIN k.s : k.s[j] \in Digits
       /\ DecimalValue(k.s) <= MaxArrayIndex
       /\ NumberToString(DecimalValue(k.s)) = k.s
      THEN Num(DecimalValue(k.s)) ELSE k
=============================================================================
