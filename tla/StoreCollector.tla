--------------------------- MODULE StoreCollector ---------------------------
(***************************************************************************)
(* The part of LowerAllocObject (src/lib/BCGen/Lowering.cpp) that decides  *)
(* which StoreNewOwnPropertyInsts (SNOPs) into one AllocObjectInst may be  *)
(* folded into an object buffer: tryAdd and the user scan of               *)
(* runOnFunction, orderBlocksByDominance, and collectStores.               *)
(*                                                                         *)
(* Blocks are 1..NumBlocks; block 1 holds the AllocObjectInst and is the   *)
(* root of its dominator subtree, which is given by `parent` (parent[b] <  *)
(* b, so every shape of tree occurs up to renaming).  users[b] lists, in   *)
(* instruction order, the users of the allocation in block b: "snop" is a  *)
(* SNOP whose target object is the allocation, "other" is any other user  *)
(* (a load, a call, a SNOP that stores the allocation as its value).  Phi  *)
(* users are not modelled.                                                 *)
(*                                                                         *)
(* DomTreeDFS visits the children of a node in an order the pass does not *)
(* control, so the DFS picks the next child nondeterministically.          *)
(***************************************************************************)
EXTENDS Integers, Sequences, SequencesExt

CONSTANTS
    NumBlocks,   \* blocks in the allocation's dominator subtree
    MaxUsers     \* users of the allocation per block

ASSUME NumBlocks \in Nat \ {0} /\ MaxUsers \in Nat

Blocks == 1..NumBlocks
Root == 1
Kinds == {"snop", "other"}
Stop == 0        \* the nullptr that tryAdd appends to end a block's list

VARIABLES
    parent,      \* the dominator tree (input)
    users,       \* users of the allocation, per block (input)
    userMap,     \* BlockUserMap: per block, SNOP positions then maybe Stop
    sorted,      \* sortedBasicBlocks_ of OrderBlocksContext
    stopAdding,  \* stopAddingBasicBlock_
    stack,       \* the DFS stack: records [node, todo]
    stores,      \* result of collectStores: <<block, position>> pairs
    pc

vars == <<parent, users, userMap, sorted, stopAdding, stack, stores, pc>>

RECURSIVE AncestorsOf(_, _)
AncestorsOf(b, par) == IF b = Root THEN {Root} ELSE {b} \cup AncestorsOf(par[b], par)

Dominates(a, b) == a \in AncestorsOf(b, parent)
ProperlyDominates(a, b) == a # b /\ Dominates(a, b)
Children(b) == {c \in Blocks \ {Root} : parent[c] = b}

Init ==
    /\ parent \in {p \in [Blocks \ {Root} -> Blocks] : \A b \in DOMAIN p : p[b] < b}
    /\ users \in [Blocks -> BoundedSeq(Kinds, MaxUsers)]
    /\ userMap = [b \in {} |-> <<>>]
    /\ sorted = <<>>
    /\ stopAdding = FALSE
    /\ stack = <<>>
    /\ stores = <<>>
    /\ pc = "scan"

(* tryAdd applied to the users of one block in order: SNOPs are appended  *)
(* until the first other user, which appends Stop; later users are        *)
(* ignored.                                                               *)
TryAddAll(us) ==
    LET firstOther == SelectInSeq(us, LAMBDA k : k = "other")
        snops == IF firstOther = 0 THEN Len(us) ELSE firstOther - 1
    IN  [k \in 1..snops |-> k] \o (IF firstOther = 0 THEN <<>> ELSE <<Stop>>)

(* runOnFunction lines 263-270: allocUsers[A][&BB] exists exactly for the *)
(* blocks that contain a user of A.                                       *)
ScanUsers ==
    /\ pc = "scan"
    /\ userMap' = [b \in {b2 \in Blocks : users[b2] # <<>>} |-> TryAddAll(users[b])]
    /\ pc' = "dfs"
    /\ UNCHANGED <<parent, users, sorted, stopAdding, stack, stores>>

(* Mutants.  PopOnce rolls back at most one block (an `if` for the        *)
(* `while`); CollectNoCut reads past the nullptr that ends a block's list; *)
(* CollectSkipBlock leaves only the current block at a nullptr (a `break` *)
(* for the `return`) and goes on with the next sorted block.              *)
PopOnce(s, bb) ==
    IF s = <<>> \/ ProperlyDominates(Last(s), bb) THEN s ELSE Front(s)
CollectNoCut(bs, acc) ==
    acc \o FlattenSeq([j \in DOMAIN bs |->
                         [k \in DOMAIN userMap[bs[j]] |-> <<bs[j], userMap[bs[j]][k]>>]])
RECURSIVE CollectSkipBlock(_, _)
CollectSkipBlock(bs, acc) ==
    IF bs = <<>> THEN acc
    ELSE LET lst == userMap[Head(bs)]
             cut == SelectInSeq(lst, LAMBDA e : e = Stop)
             n == IF cut = 0 THEN Len(lst) ELSE cut - 1
         IN  CollectSkipBlock(Tail(bs), acc \o [k \in 1..n |-> <<Head(bs), lst[k]>>])

(* processNode of OrderBlocksContext, as <<sorted, stopAdding>>.           *)
RECURSIVE PopWhileParallel(_, _)
PopWhileParallel(s, bb) ==
    IF s = <<>> \/ ProperlyDominates(Last(s), bb) THEN s
    ELSE PopWhileParallel(Front(s), bb)

ProcessNode(bb) ==
    IF bb \notin DOMAIN userMap THEN <<sorted, stopAdding>>
    ELSE LET s2 == PopWhileParallel(sorted, bb)
             stop2 == stopAdding \/ Len(s2) < Len(sorted)
         IN  IF stop2 THEN <<s2, stop2>> ELSE <<Append(s2, bb), stop2>>

Visit(bb) ==
    LET r == ProcessNode(bb) IN sorted' = r[1] /\ stopAdding' = r[2]

(* DFS(getNode(entryBlock)): the root is processed first.                 *)
DFSRoot ==
    /\ pc = "dfs"
    /\ Visit(Root)
    /\ stack' = <<[node |-> Root, todo |-> Children(Root)]>>
    /\ pc' = "walk"
    /\ UNCHANGED <<parent, users, userMap, stores>>

DFSDescend ==
    /\ pc = "walk"
    /\ stack # <<>>
    /\ \E c \in Last(stack).todo :
          /\ Visit(c)
          /\ stack' = Append([stack EXCEPT ![Len(stack)].todo = @ \ {c}],
                             [node |-> c, todo |-> Children(c)])
    /\ UNCHANGED <<parent, users, userMap, stores, pc>>

DFSAscend ==
    /\ pc = "walk"
    /\ stack # <<>>
    /\ Last(stack).todo = {}
    /\ stack' = Front(stack)
    /\ UNCHANGED <<parent, users, userMap, sorted, stopAdding, stores, pc>>

(* collectStores lines 223-232: concatenate the lists of the sorted       *)
(* blocks, returning at the first Stop.                                   *)
RECURSIVE Collect(_, _)
Collect(bs, acc) ==
    IF bs = <<>> THEN acc
    ELSE LET lst == userMap[Head(bs)]
             cut == SelectInSeq(lst, LAMBDA e : e = Stop)
             taken == [k \in 1..(IF cut = 0 THEN Len(lst) ELSE cut - 1) |->
                         <<Head(bs), lst[k]>>]
         IN  IF cut = 0 THEN Collect(Tail(bs), acc \o taken) ELSE acc \o taken

CollectStores ==
    /\ pc = "walk"
    /\ stack = <<>>
    /\ stores' = Collect(sorted, <<>>)
    /\ pc' = "done"
    /\ UNCHANGED <<parent, users, userMap, sorted, stopAdding, stack>>

Terminating == pc = "done" /\ UNCHANGED vars

Next == ScanUsers \/ DFSRoot \/ DFSDescend \/ DFSAscend \/ CollectStores \/ Terminating

Spec == Init /\ [][Next]_vars

-----------------------------------------------------------------------------
(* Properties.                                                             *)

TypeOK ==
    /\ users \in [Blocks -> Seq(Kinds)]
    /\ sorted \in Seq(Blocks)
    /\ stopAdding \in BOOLEAN
    /\ stores \in Seq(Blocks \X (1..MaxUsers))
    /\ pc \in {"scan", "dfs", "walk", "done"}

UserSites == {s \in Blocks \X (1..MaxUsers) : s[2] \in DOMAIN users[s[1]]}

(* Site s executes before site t on every path from the allocation: the  *)
(* block of s properly dominates the block of t, or both are in one block *)
(* and s comes first.                                                     *)
Precedes(s, t) ==
    \/ ProperlyDominates(s[1], t[1])
    \/ s[1] = t[1] /\ s[2] < t[2]

(* The comment above orderBlocksByDominance: the last block of the chain  *)
(* dominates every remaining block that contains a user.                  *)
LastDominatesRemaining ==
    pc = "done" /\ sorted # <<>> =>
        \A b \in DOMAIN userMap : Dominates(Last(sorted), b) \/ b \in Range(sorted)

(* What makes folding sound: every collected store is a SNOP into the     *)
(* allocation, the collected stores are listed in execution order, and    *)
(* each of them executes, on every path, before every user of the object  *)
(* that was not collected.  Folding them into the buffer can therefore    *)
(* not be observed by any other user.                                     *)
CollectedStoresPrecedeOtherUses ==
    pc = "done" =>
        /\ \A k \in DOMAIN stores : users[stores[k][1]][stores[k][2]] = "snop"
        /\ \A k \in 1..(Len(stores) - 1) : Precedes(stores[k], stores[k + 1])
        /\ \A s \in Range(stores), t \in UserSites \ Range(stores) : Precedes(s, t)
=============================================================================
