--------------------------- MODULE SwitchLowering ---------------------------
(***************************************************************************)
(* SwitchLowering::lowerSwitchIntoIfs (src/lib/BCGen/Lowering.cpp).        *)
(*                                                                         *)
(* One SwitchInst terminates block Orig.  Its case list and default        *)
(* destination are fixed inputs; the destinations are the blocks of Dests, *)
(* each of which starts with one phi.  A phi entry is a pair               *)
(* <<value, predecessor>>.  Besides Orig, every destination has one more   *)
(* predecessor Ext that the pass never touches.                            *)
(*                                                                         *)
(* The loop of lowerSwitchIntoIfs builds one new block per case, from the  *)
(* last case to the first; a new block is named by the iteration that made *)
(* it (1, 2, ...).  Each iteration is one step (BuildIf); the erasure of   *)
(* the old phi edges plus the final branch out of Orig is the last step    *)
(* (EraseAndBranch).  The pass is sequential, so these steps never         *)
(* interleave with anything.                                               *)
(***************************************************************************)
EXTENDS Integers, Sequences, FiniteSets

CONSTANTS
    Dests,      \* destination blocks of the switch (model values)
    CaseVals,   \* literal values a case may test (model values)
    PhiVals,    \* values a phi entry may carry from Orig
    ExtVal,     \* the value every phi carries from Ext
    Orig,       \* the block terminated by the SwitchInst
    Ext,        \* another predecessor of every destination
    NoMatch,    \* a discriminant value that no case tests
    MinCases,   \* bounds on the number of case pairs
    MaxCases

ASSUME MinCases \in Nat /\ MaxCases \in Nat /\ MinCases <= MaxCases
ASSUME NoMatch \notin CaseVals /\ ExtVal \notin PhiVals

NewBlocks == 1..MaxCases
Nodes == {Orig} \cup NewBlocks
Preds == Nodes \cup {Ext}

(* Terminators: all have the same record shape.  "none" marks a block the *)
(* builder has not created yet.                                           *)
Cond(v, t, f) == [kind |-> "cond", val |-> v, t |-> t, f |-> f]
Br(t) == [kind |-> "br", val |-> NoMatch, t |-> t, f |-> t]
SwitchTerm == [kind |-> "switch", val |-> NoMatch, t |-> Orig, f |-> Orig]
NoTerm == [kind |-> "none", val |-> NoMatch, t |-> Orig, f |-> Orig]

VARIABLES
    cases,        \* <<value, dest>> case pairs of the SwitchInst
    defaultDest,  \* switchInst->getDefaultDestination()
    origVal,      \* value each phi carried from Orig before the pass
    term,         \* terminator of Orig and of each new block
    phi,          \* phi entries of each destination block
    next,         \* the local `next` of lowerSwitchIntoIfs
    i,            \* loop index of lowerSwitchIntoIfs
    pc

vars == <<cases, defaultDest, origVal, term, phi, next, i, pc>>

CaseDests == {cases[k][2] : k \in DOMAIN cases}
Targets == CaseDests \cup {defaultDest}

Init ==
    /\ \E n \in MinCases..MaxCases :
          cases \in [1..n -> CaseVals \X Dests]
    /\ defaultDest \in Dests
    /\ origVal \in [Dests -> PhiVals]
    \* "Some codegen can add multiple identical entries": the entry from
    \* Orig may appear once or twice.
    /\ \E dup \in BOOLEAN :
          phi = [d \in Dests |->
                   <<<<ExtVal, Ext>>>>
                   \o (IF d \in Targets
                         THEN IF dup THEN <<<<origVal[d], Orig>>, <<origVal[d], Orig>>>>
                                     ELSE <<<<origVal[d], Orig>>>>
                         ELSE <<>>)]
    /\ term = [n \in Nodes |-> IF n = Orig THEN SwitchTerm ELSE NoTerm]
    /\ next = defaultDest
    /\ i = 0
    /\ pc = "loop"

(* copyPhiTarget: the first entry of the phi of `block` that comes from   *)
(* `previousBlock`, if there is one, is appended again for `newBlock`.    *)
CopyPhiTarget(ph, block, previousBlock, newBlock) ==
    LET es == ph[block]
        from == {k \in DOMAIN es : es[k][2] = previousBlock}
    IN  IF from = {} THEN ph
        ELSE LET k0 == CHOOSE k \in from : \A k2 \in from : k <= k2
             IN  [ph EXCEPT ![block] = Append(es, <<es[k0][1], newBlock>>)]

(* erasePhiTarget: every entry coming from `toDelete` is removed.          *)
EraseEntries(es, toDelete) == SelectSeq(es, LAMBDA e : e[2] # toDelete)

(* Mutants (plausible slips in lowerSwitchIntoIfs), each checked to break  *)
(* a property.  BuildIfForward scans the cases from the first instead of  *)
(* the last; BuildIfNoDefaultCopy omits the phi copy into the default;    *)
(* BuildIfNextOffByOne numbers `next` one past the block just built;      *)
(* EraseAndBranchDefaultOnly erases Orig's entries only in the default.   *)
BuildIfWith(idx, copyDefault, nextBlock) ==
    /\ pc = "loop"
    /\ i < Len(cases)
    /\ LET c == cases[idx]
           ph1 == CopyPhiTarget(phi, c[2], Orig, i + 1)
       IN  /\ term' = [term EXCEPT ![i + 1] = Cond(c[1], c[2], next)]
           /\ phi' = IF copyDefault /\ next = defaultDest /\ c[2] # next
                       THEN CopyPhiTarget(ph1, next, Orig, i + 1)
                       ELSE ph1
           /\ next' = nextBlock
           /\ i' = i + 1
    /\ UNCHANGED <<cases, defaultDest, origVal, pc>>
BuildIfForward == BuildIfWith(i + 1, TRUE, i + 1)
BuildIfNoDefaultCopy == BuildIfWith(Len(cases) - i, FALSE, i + 1)
BuildIfNextOffByOne == BuildIfWith(Len(cases) - i, TRUE, i + 2)
EraseAndBranchDefaultOnly ==
    /\ pc = "loop"
    /\ i = Len(cases)
    /\ phi' = [phi EXCEPT ![defaultDest] = EraseEntries(@, Orig)]
    /\ term' = [term EXCEPT ![Orig] = Br(next)]
    /\ pc' = "done"
    /\ UNCHANGED <<cases, defaultDest, origVal, next, i>>

(* One iteration of the loop of lowerSwitchIntoIfs (lines 51-81).          *)
BuildIf ==
    /\ pc = "loop"
    /\ i < Len(cases)
    /\ LET idx == Len(cases) - i          \* e - i - 1, counted from 1
           c == cases[idx]
           ifBlock == i + 1
           ph1 == CopyPhiTarget(phi, c[2], Orig, ifBlock)
       IN  /\ term' = [term EXCEPT ![ifBlock] = Cond(c[1], c[2], next)]
           /\ phi' = IF next = defaultDest /\ c[2] # next
                       THEN CopyPhiTarget(ph1, next, Orig, ifBlock)
                       ELSE ph1
           /\ next' = ifBlock
           /\ i' = i + 1
    /\ UNCHANGED <<cases, defaultDest, origVal, pc>>

(* Lines 83-91: erase the phi edges from Orig in the default and in every *)
(* case destination, then replace the switch by a branch to `next`.       *)
EraseAndBranch ==
    /\ pc = "loop"
    /\ i = Len(cases)
    /\ phi' = [d \in Dests |->
                 IF d \in Targets THEN EraseEntries(phi[d], Orig) ELSE phi[d]]
    /\ term' = [term EXCEPT ![Orig] = Br(next)]
    /\ pc' = "done"
    /\ UNCHANGED <<cases, defaultDest, origVal, next, i>>

Terminating == pc = "done" /\ UNCHANGED vars

Next == BuildIf \/ EraseAndBranch \/ Terminating

Spec == Init /\ [][Next]_vars

-----------------------------------------------------------------------------
(* Helpers for the properties.                                             *)

Succ(n) == IF term[n].kind \in {"cond", "br"} THEN {term[n].t, term[n].f}
           ELSE IF term[n].kind = "switch" THEN Targets ELSE {}

(* The predecessors of a destination in the current CFG.                  *)
CFGPreds(d) == {n \in Nodes : d \in Succ(n)} \cup {Ext}

(* The destination the original switch picks for discriminant x: the     *)
(* first case whose value is x, else the default.                         *)
SwitchTarget(x) ==
    LET hits == {k \in DOMAIN cases : cases[k][1] = x}
    IN  IF hits = {} THEN defaultDest
        ELSE cases[CHOOSE k \in hits : \A k2 \in hits : k <= k2][2]

(* Follow the lowered control flow from Orig for discriminant x; the      *)
(* result is <<last block before the destination, destination>>.          *)
RECURSIVE Walk(_, _)
Walk(n, x) ==
    LET tm == term[n]
        tgt == IF tm.kind = "br" \/ tm.val = x THEN tm.t ELSE tm.f
    IN  IF tgt \in Dests THEN <<n, tgt>> ELSE Walk(tgt, x)

(* The value the phi of d yields when entered from pred.                  *)
PhiValue(d, pred) ==
    LET es == phi[d]
        from == {k \in DOMAIN es : es[k][2] = pred}
    IN  IF from = {} THEN NoMatch
        ELSE es[CHOOSE k \in from : \A k2 \in from : k <= k2][1]

-----------------------------------------------------------------------------
(* Properties.                                                             *)

TypeOK ==
    /\ cases \in Seq(CaseVals \X Dests) /\ Len(cases) <= MaxCases
    /\ defaultDest \in Dests
    /\ origVal \in [Dests -> PhiVals]
    /\ \A n \in Nodes : term[n].kind \in {"none", "switch", "cond", "br"}
    /\ \A d \in Dests : phi[d] \in Seq((PhiVals \cup {ExtVal}) \X Preds)
    /\ next \in Dests \cup 1..i
    /\ i \in 0..MaxCases
    /\ pc \in {"loop", "done"}

(* Phi/CFG agreement, at every step of the pass: the phi of every         *)
(* destination has an entry for exactly the blocks that branch to it.     *)
(* copyPhiTarget must add an entry for each new block as the block is     *)
(* built (including the default's entry on the first iteration), and     *)
(* erasePhiTarget must remove Orig's entries once Orig no longer branches *)
(* to the destinations.                                                   *)
PhiEdgesMatchCFG ==
    \A d \in Dests : {phi[d][k][2] : k \in DOMAIN phi[d]} = CFGPreds(d)

(* Spec 8.1/8.2: after the pass, no switch remains, one block was built   *)
(* per case, and for every discriminant the branch chain reaches the      *)
(* destination the switch would have chosen and the phi there yields the *)
(* value it yielded on the old edge from Orig.                            *)
ChainPreservesSwitch ==
    pc = "done" =>
        /\ term[Orig].kind = "br"
        /\ \A n \in NewBlocks : (term[n].kind = "cond") <=> n <= Len(cases)
        /\ \A x \in CaseVals \cup {NoMatch} :
              LET w == Walk(Orig, x)
              IN  /\ w[2] = SwitchTarget(x)
                  /\ PhiValue(w[2], w[1]) = origVal[w[2]]
=============================================================================
