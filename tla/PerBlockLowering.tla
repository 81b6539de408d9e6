-------------------------- MODULE PerBlockLowering --------------------------
(***************************************************************************)
(* Two per-block rewrites of src/lib/BCGen/Lowering.cpp on one function:  *)
(*                                                                         *)
(*  - LowerExponentiationOperator (lines 770-806): every `a ** b`          *)
(*    BinaryOperatorInst is replaced by a CallBuiltinInst of               *)
(*    HermesBuiltin_exponentiationOperator created where it stood, its     *)
(*    uses anywhere in the function are redirected to the call, and it is  *)
(*    erased, while an iterator walks each block;                          *)
(*  - LowerCondBranch (lines 692-768): a CondBranchInst whose condition is *)
(*    a supported comparison with one user is replaced by a                *)
(*    CompareBranchInst, and the comparison is erased.  A comparison that  *)
(*    may read or worse is fused only when it is the instruction right     *)
(*    before the branch.                                                   *)
(*                                                                         *)
(* The model runs the first pass, then the second, on the same IR; each   *)
(* pass's properties are stated on the IR that pass receives (body1 and   *)
(* term1 for the fusion), so they do not depend on the pipeline order.    *)
(*                                                                         *)
(* A function is NumBlocks blocks in function order.  A block is a body,  *)
(* a sequence of instructions, and a terminator.  An instruction is a     *)
(* binary operator (op, side effect), a store (writes), a builtin call,   *)
(* or another user of a value.  Values are named by the position          *)
(* <<block, index>> of their definition in the input; the call made for   *)
(* the operator at p is CallID(p).  Operands of a comparison are not      *)
(* tracked: the fused instruction names the comparison it evaluates.  An  *)
(* iterator is the id of the node it points at (an ilist iterator is a    *)
(* node pointer), End past the last one.                                  *)
(***************************************************************************)
EXTENDS Integers, Sequences, SequencesExt, FiniteSets

CONSTANTS
    NumBlocks,   \* blocks of the function
    MaxBody,     \* instructions per block body in the input
    InputOps,    \* operators of the binary instructions of the input
    Effects      \* side effects of an operator: "none", "read" or "write"

ASSUME NumBlocks \in Nat \ {0} /\ MaxBody \in Nat
ASSUME Effects \subseteq {"none", "read", "write"}

Blocks == 1..NumBlocks
Pos == Blocks \X (1..MaxBody)
Param == <<0, 0>>    \* a condition that is not an instruction
End == <<0>>
CallID(p) == <<p[1], p[2], 1>>

(* Mutant: a non-comparison kind (BinaryAddInstKind) among the cases.    *)
SupportedOpsWidened == {"<", "<=", ">", ">=", "===", "!==", "!=", "==", "+"}

(* isOperatorSupported (lines 692-706).                                    *)
SupportedOps == {"<", "<=", ">", ">=", "===", "!==", "!=", "=="}

(* getSideEffect().mayReadOrWorse().                                       *)
MayReadOrWorse(eff) == eff # "none"

Binop(id, op, eff) == [id |-> id, kind |-> "binop", op |-> op, eff |-> eff, arg |-> Param]
Store(id) == [id |-> id, kind |-> "store", op |-> "", eff |-> "write", arg |-> Param]
Use(id, x) == [id |-> id, kind |-> "use", op |-> "", eff |-> "none", arg |-> x]
(* A builtin call may do anything: its side effect is unknown.            *)
Call(x) == [id |-> CallID(x), kind |-> "call", op |-> "**", eff |-> "write", arg |-> Param]
CondBr(x) == [kind |-> "cb", cond |-> x, op |-> "", eff |-> "none"]
Ret == [kind |-> "ret", cond |-> Param, op |-> "", eff |-> "none"]
CmpBr(x, op, eff) == [kind |-> "cmpbr", cond |-> x, op |-> op, eff |-> eff]

(* Instructions that may stand at position p, using values defined at q.  *)
InstsAt(p, q) ==
    {Binop(p, op, eff) : op \in InputOps, eff \in Effects} \cup {Store(p)}
    \cup {Use(p, x) : x \in q}

(* The bodies block b may have in the input.                              *)
Bodies(b) ==
    UNION {{s \in [1..n -> UNION {InstsAt(<<b, k>>, Pos) : k \in 1..n}] :
               \A k \in 1..n : s[k].id = <<b, k>>} : n \in 0..MaxBody}

VARIABLES
    body,    \* block -> sequence of instructions
    term,    \* block -> terminator
    body0,   \* the input, for the properties
    term0,
    body1,   \* the IR the fusion pass receives
    term1,
    phase,   \* "exp", "fuse" or "done"
    pc,      \* the block the outer loop of the current pass is at
    it       \* the iterator of the exponentiation pass

vars == <<body, term, body0, term0, body1, term1, phase, pc, it>>

AllInsts(bd) == UNION {ToSet(bd[b]) : b \in Blocks}
BinopIDs(bd) == {i.id : i \in {j \in AllInsts(bd) : j.kind = "binop"}}
ValueIDs(bd) == {i.id : i \in {j \in AllInsts(bd) : j.kind \in {"binop", "call"}}}
InstOf(bd, x) == CHOOSE i \in AllInsts(bd) : i.id = x
IDs(s) == {s[k].id : k \in DOMAIN s}
FirstOf(s) == IF s = <<>> THEN End ELSE s[1].id
IndexOf(s, x) == CHOOSE k \in DOMAIN s : s[k].id = x

(* SSA: a value is used after its definition, earlier in the same block  *)
(* or in an earlier block (the blocks are listed in an order compatible   *)
(* with dominance).                                                        *)
WellFormed(bd, tm) ==
    /\ \A b \in Blocks : \A k \in DOMAIN bd[b] :
          bd[b][k].kind = "use" =>
             /\ bd[b][k].arg \in BinopIDs(bd)
             /\ bd[b][k].arg[1] < b \/ (bd[b][k].arg[1] = b /\ bd[b][k].arg[2] < k)
    /\ \A b \in Blocks : tm[b].kind = "cb" =>
          tm[b].cond = Param \/ (tm[b].cond \in BinopIDs(bd) /\ tm[b].cond[1] <= b)

Init ==
    /\ body \in {bd \in [Blocks -> UNION {Bodies(b) : b \in Blocks}] :
                    \A b \in Blocks : bd[b] \in Bodies(b)}
    /\ term \in [Blocks -> {Ret} \cup {CondBr(x) : x \in Pos \cup {Param}}]
    /\ WellFormed(body, term)
    /\ body0 = body /\ term0 = term
    /\ body1 = body /\ term1 = term
    /\ phase = "exp"
    /\ pc = 1
    /\ it = FirstOf(body[1])

-----------------------------------------------------------------------------
(* LowerExponentiationOperator.                                            *)

IsExp(i) == i.kind = "binop" /\ i.op = "**"

(* replaceAllUsesWith(old -> new) on one instruction or terminator.        *)
Redirect(i, old, new) == IF i.kind = "use" /\ i.arg = old THEN [i EXCEPT !.arg = new] ELSE i
RedirectTerm(t, old, new) == IF t.kind = "cb" /\ t.cond = old THEN [t EXCEPT !.cond = new] ELSE t

(* Mutant: the uses are not redirected (replaceAllUsesWith missing).      *)
LowerExpNoRAUW(bd, tm, b, k) ==
    LET x == bd[b][k].id
    IN  <<[bd EXCEPT ![b] = SubSeq(@, 1, k - 1) \o <<Call(x)>> \o SubSeq(@, k + 1, Len(@))], tm>>

(* lowerExponentiationOperator (lines 792-806) on the instruction at k of *)
(* block b: the call is created at the operator (setInsertionPoint), the  *)
(* operator's uses in the whole function go to the call, and the operator *)
(* is erased.  The result is the new <<body, term>>.                      *)
LowerExp(bd, tm, b, k) ==
    LET x == bd[b][k].id
        placed == [bd EXCEPT ![b] = SubSeq(@, 1, k - 1) \o <<Call(x)>> \o SubSeq(@, k + 1, Len(@))]
    IN  << [c \in Blocks |-> [j \in DOMAIN placed[c] |-> Redirect(placed[c][j], x, CallID(x))]],
           [c \in Blocks |-> RedirectTerm(tm[c], x, CallID(x))] >>

(* Mutant: the iterator is incremented after the instruction is erased,   *)
(* so it keeps pointing at the erased node.                              *)
ExpStepIncrementLate ==
    /\ phase = "exp" /\ it # End
    /\ LET k == IndexOf(body[pc], it)
           next == IF k < Len(body[pc]) THEN body[pc][k + 1].id ELSE End
       IN  IF IsExp(body[pc][k])
             THEN /\ body' = LowerExp(body, term, pc, k)[1]
                  /\ term' = LowerExp(body, term, pc, k)[2]
                  /\ it' = it
             ELSE /\ it' = next
                  /\ UNCHANGED <<body, term>>
    /\ UNCHANGED <<body0, term0, body1, term1, phase, pc>>

(* One iteration of the inner loop (lines 776-786): `++it` first, then    *)
(* the instruction is lowered if it is a `**` operator.                   *)
ExpStep ==
    /\ phase = "exp" /\ it # End
    /\ LET k == IndexOf(body[pc], it)
           next == IF k < Len(body[pc]) THEN body[pc][k + 1].id ELSE End
       IN  /\ it' = next
           /\ IF IsExp(body[pc][k])
                THEN /\ body' = LowerExp(body, term, pc, k)[1]
                     /\ term' = LowerExp(body, term, pc, k)[2]
                ELSE UNCHANGED <<body, term>>
    /\ UNCHANGED <<body0, term0, body1, term1, phase, pc>>

(* The outer loop (line 775) moves to the next block.                      *)
ExpNextBlock ==
    /\ phase = "exp" /\ it = End /\ pc < NumBlocks
    /\ pc' = pc + 1
    /\ it' = FirstOf(body[pc + 1])
    /\ UNCHANGED <<body, term, body0, term0, body1, term1, phase>>

(* The pass is over; the fusion pass receives the IR.                      *)
ExpDone ==
    /\ phase = "exp" /\ it = End /\ pc = NumBlocks
    /\ phase' = "fuse" /\ pc' = 1
    /\ body1' = body /\ term1' = term
    /\ UNCHANGED <<body, term, body0, term0, it>>

-----------------------------------------------------------------------------
(* LowerCondBranch.                                                        *)

(* cond->hasOneUser(): the uses of value x by instructions and branches.  *)
Users(bd, tm, x) ==
    Cardinality({i \in AllInsts(bd) : i.kind = "use" /\ i.arg = x})
    + Cardinality({b \in Blocks : tm[b].kind = "cb" /\ tm[b].cond = x})

(* cbInst->getPrevNode() == binopInst.                                     *)
IsPrevNode(bd, b, x) == bd[b] # <<>> /\ Last(bd[b]).id = x

EraseInst(bd, x) == [b \in Blocks |-> SelectSeq(bd[b], LAMBDA i : i.id # x)]

(* Mutant: a comparison with side effects is fused wherever it is.       *)
FusibleNoAdjacency(bd, tm, b) ==
    /\ tm[b].kind = "cb"
    /\ Users(bd, tm, tm[b].cond) = 1
    /\ tm[b].cond \in BinopIDs(bd)
    /\ InstOf(bd, tm[b].cond).op \in SupportedOps

(* Mutant: the hasOneUser check is missing.                               *)
FusibleIgnoreUsers(bd, tm, b) ==
    /\ tm[b].kind = "cb"
    /\ tm[b].cond \in BinopIDs(bd)
    /\ LET bi == InstOf(bd, tm[b].cond)
       IN  /\ MayReadOrWorse(bi.eff) => IsPrevNode(bd, b, bi.id)
           /\ bi.op \in SupportedOps

(* The conditions of lines 721-743 for the branch ending block b.          *)
Fusible(bd, tm, b) ==
    /\ tm[b].kind = "cb"
    /\ Users(bd, tm, tm[b].cond) = 1
    /\ tm[b].cond \in BinopIDs(bd)
    /\ LET bi == InstOf(bd, tm[b].cond)
       IN  /\ MayReadOrWorse(bi.eff) => IsPrevNode(bd, b, bi.id)
           /\ bi.op \in SupportedOps

(* One iteration of the outer loop (lines 712-765) on block b: the scan   *)
(* finds the block's CondBranchInst (its terminator) and creates the     *)
(* CompareBranchInst before it; the second loop replaces and erases the  *)
(* branch and erases the comparison, wherever it is.                     *)
LowerBlock ==
    /\ phase = "fuse"
    /\ IF Fusible(body, term, pc)
         THEN LET bi == InstOf(body, term[pc].cond)
              IN  /\ term' = [term EXCEPT ![pc] = CmpBr(bi.id, bi.op, bi.eff)]
                  /\ body' = EraseInst(body, bi.id)
         ELSE UNCHANGED <<body, term>>
    /\ pc' = pc + 1
    /\ phase' = IF pc = NumBlocks THEN "done" ELSE "fuse"
    /\ UNCHANGED <<body0, term0, body1, term1, it>>

Terminating == phase = "done" /\ UNCHANGED vars

Next == ExpStep \/ ExpNextBlock \/ ExpDone \/ LowerBlock \/ Terminating

Spec == Init /\ [][Next]_vars

-----------------------------------------------------------------------------
(* Properties.                                                             *)

(* Spec 8.6: the comparison kinds a CompareBranchInst can evaluate        *)
(* (CompareBranchInst::fromBinaryOperatorValueKind is outside src/).      *)
SpecComparisons == {"<", "<=", ">", ">=", "===", "!==", "==", "!="}

Values == Pos \cup {CallID(p) : p \in Pos}
Insts == UNION {InstsAt(p, Values) : p \in Pos} \cup {Call(p) : p \in Pos}
Terms == {Ret} \cup {CondBr(x) : x \in Values \cup {Param}}
         \cup {CmpBr(x, op, eff) : x \in Pos, op \in SpecComparisons, eff \in Effects}

(* The iterator points at a node of the block the loop is at, or at its   *)
(* end (an ilist iterator to an erased node is dangling), and a fused     *)
(* branch carries a comparison kind, the only ones                        *)
(* CompareBranchInst::fromBinaryOperatorValueKind is defined on.          *)
TypeOK ==
    /\ body \in [Blocks -> Seq(Insts)]
    /\ term \in [Blocks -> Terms]
    /\ phase \in {"exp", "fuse", "done"}
    /\ pc \in 1..(NumBlocks + 1)
    /\ phase = "exp" => it \in IDs(body[pc]) \cup {End}

(* Spec 4.3, the reference result of the exponentiation pass: each `**`  *)
(* operator replaced in place by its call, and every use of it, by an    *)
(* instruction of any block or by a branch, redirected to the call.      *)
LoweredInst(i) ==
    IF IsExp(i) THEN Call(i.id)
    ELSE IF i.kind = "use" /\ IsExp(InstOf(body0, i.arg))
      THEN [i EXCEPT !.arg = CallID(i.arg)]
      ELSE i
LoweredTerm(t) ==
    IF t.kind = "cb" /\ t.cond # Param /\ IsExp(InstOf(body0, t.cond))
      THEN [t EXCEPT !.cond = CallID(t.cond)] ELSE t

(* Once the exponentiation pass is over, the function is the reference   *)
(* result: no `**` operator is left, every call stands where its         *)
(* operator stood, no instruction was skipped or visited twice, and no   *)
(* use is left on an erased operator.                                     *)
ExpLoweredInPlace ==
    phase # "exp" =>
        /\ body1 = [b \in Blocks |-> [k \in DOMAIN body0[b] |-> LoweredInst(body0[b][k])]]
        /\ term1 = [b \in Blocks |-> LoweredTerm(term0[b])]

(* The observable effects of block b in order: its instructions that may  *)
(* read or write, then the comparison its terminator evaluates, if that   *)
(* may read or write.                                                      *)
EffectTrace(bd, tm, b) ==
    LET e == SelectSeq(bd[b], LAMBDA i : MayReadOrWorse(i.eff))
    IN  [k \in DOMAIN e |-> e[k].id]
        \o (IF MayReadOrWorse(tm[b].eff) THEN <<tm[b].cond>> ELSE <<>>)

(* Spec 4.2 and 8.2: fusion never reorders effects.  In every block, the  *)
(* instructions that may read or write, with a fused comparison counted   *)
(* at its branch, happen in the same order as in the IR the pass got.     *)
EffectOrderPreserved ==
    phase # "exp" =>
        \A b \in Blocks : EffectTrace(body, term, b) = EffectTrace(body1, term1, b)

(* Erasing a comparison leaves no instruction or branch using it, and     *)
(* every branch decides on the same value as before the fusion:           *)
(* unchanged, or fused into a CompareBranchInst of that comparison.       *)
NoDanglingUses ==
    phase # "exp" =>
        /\ \A i \in AllInsts(body) : i.kind = "use" => i.arg \in ValueIDs(body)
        /\ \A b \in Blocks :
              \/ /\ term[b] = term1[b]
                 /\ term[b].kind = "cb" /\ term[b].cond # Param => term[b].cond \in ValueIDs(body)
              \/ /\ term1[b].kind = "cb"
                 /\ LET bi == InstOf(body1, term1[b].cond)
                    IN  term[b] = CmpBr(bi.id, bi.op, bi.eff)
=============================================================================
