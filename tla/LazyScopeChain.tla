--------------------------- MODULE LazyScopeChain ---------------------------
(***************************************************************************)
(* Lazy compilation's scope chain in ESTreeIRGen                           *)
(* (src/lib/IRGen/ESTreeIRGen.cpp): saveCurrentScope records the scope of  *)
(* the function being compiled when a nested function is deferred;        *)
(* doLazyFunction later compiles that function in a fresh IRGen, rebuilds *)
(* the enclosing scopes with materializeScopesInChain and the closure     *)
(* alias of a named function expression, then declares its own variables *)
(* (declareVariableOrGlobalProperty) and resolves identifiers             *)
(* (ensureVariableExists, declareAmbientGlobalProperty).                  *)
(*                                                                         *)
(* The program is a chain of nested functions F0 (the global code) ... *)
(* F[Depth]; F[k+1] is defined in F[k] and compiled lazily, one level at  *)
(* a time.  vars[k] are the names F[k] declares; fname[k] is the name of  *)
(* F[k] if it is a named function expression, whose closure then lives   *)
(* in a generated alias variable Alias(k) of F[k-1] (created outside     *)
(* src/, by the function expression's IRGen).                              *)
(*                                                                         *)
(* nameTable_ is an llvm::ScopedHashTable: a lookup returns the binding   *)
(* inserted last, whatever scope it was inserted into.  A binding is a    *)
(* variable of F[at] ("var"), a variable of ExternalScope(-at) of the     *)
(* wrapper function ("ext"), or a global object property.                 *)
(***************************************************************************)
EXTENDS Integers, Sequences, SequencesExt, TLC

CONSTANTS
    Names,    \* user identifiers
    NoName,   \* the name of an anonymous function
    None,     \* nullptr, an empty shared_ptr, an invalid Identifier
    Depth     \* nesting depth of the innermost lazily compiled function

ASSUME Depth \in Nat \ {0} /\ NoName \notin Names /\ None \notin Names

Fns == 0..Depth
Alias(k) == <<"alias", k>>          \* a generated name, never a user name

Own(k, n) == [kind |-> "var", at |-> k, name |-> n]
Ext(d, n) == [kind |-> "ext", at |-> d, name |-> n]
Glob(n) == [kind |-> "global", at |-> 0, name |-> n]

VARIABLES
    vars,       \* declared names of each function (input)
    fname,      \* name of each function expression, NoName if none (input)
    level,      \* the function being compiled
    pc,
    chain,      \* lexicalScopeChain
    saved,      \* saved[k]: the parentScope of F[k]'s LazyCompilationData
    table,      \* nameTable_: <<name, binding>> in insertion order
    frames,     \* materializeScopesInChain's call stack: <<scope, depth>>
    cursor,     \* the scope argument of the innermost call
    cdepth,     \* its depth argument
    scopeVars,  \* names of the Variables of the function's scope
    toDeclare,  \* declarations not yet made
    resolved    \* ensureVariableExists' result per name, None before

vars_ == <<vars, fname, level, pc, chain, saved, table, frames, cursor, cdepth,
           scopeVars, toDeclare, resolved>>

HasAlias(k) == k \in 1..Depth /\ fname[k] # NoName

(* ScopedHashTable::lookup: the binding inserted last for n.              *)
Lookup(t, n) ==
    LET i == SelectLastInSeq(t, LAMBDA e : e[1] = n) IN IF i = 0 THEN None ELSE t[i][2]

(* ESTreeIRGen::doIt without a scope chain: the global code is compiled   *)
(* by the top-level function, lexicalScopeChain is null.                  *)
Init ==
    /\ vars \in [Fns -> SUBSET Names]
    /\ fname \in {f \in [Fns -> Names \cup {NoName}] : f[0] = NoName}
    /\ level = 0
    /\ pc = "declare"
    /\ chain = None
    /\ saved = [k \in 1..Depth |-> None]
    /\ table = <<>>
    /\ frames = <<>>
    /\ cursor = None
    /\ cdepth = 0
    /\ scopeVars = {}
    /\ toDeclare = vars[0]
    /\ resolved = [n \in Names |-> None]

(* Mutant: the function of a found Variable is not checked.               *)
DeclareAnyVariable(v) ==
    LET found == Lookup(table, v)
        reuse == found # None /\ (found.kind # "global" \/ level = 0)
    IN  /\ table' = IF reuse THEN table
                    ELSE Append(table, <<v, IF level = 0 THEN Glob(v) ELSE Own(level, v)>>)
        /\ scopeVars' = IF reuse \/ level = 0 THEN scopeVars ELSE scopeVars \cup {v}

(* declareVariableOrGlobalProperty(F[level], v): reuse the binding found  *)
(* if it is a Variable of this very function, or a global property while *)
(* in global scope; otherwise create a global property (global scope) or *)
(* a Variable of the function's scope and insert it.                      *)
DeclareVariableOrGlobalProperty(v) ==
    LET found == Lookup(table, v)
        reuse == /\ found # None
                 /\ IF found.kind = "global" THEN level = 0
                    ELSE found.kind = "var" /\ found.at = level
    IN  /\ table' = IF reuse THEN table
                    ELSE Append(table, <<v, IF level = 0 THEN Glob(v) ELSE Own(level, v)>>)
        /\ scopeVars' = IF reuse \/ level = 0 THEN scopeVars ELSE scopeVars \cup {v}

Declare ==
    /\ pc = "declare"
    /\ \E v \in toDeclare :
          /\ DeclareVariableOrGlobalProperty(v)
          /\ toDeclare' = toDeclare \ {v}
    /\ UNCHANGED <<vars, fname, level, pc, chain, saved, frames, cursor, cdepth, resolved>>

(* The body starts; generating the nested function expression creates    *)
(* its closure alias Variable in this function's scope.                   *)
DeclareDone ==
    /\ pc = "declare"
    /\ toDeclare = {}
    /\ scopeVars' = IF HasAlias(level + 1) THEN scopeVars \cup {Alias(level + 1)} ELSE scopeVars
    /\ pc' = "body"
    /\ UNCHANGED <<vars, fname, level, chain, saved, table, frames, cursor, cdepth,
                   toDeclare, resolved>>

(* ensureVariableExists(n): a known binding, or else                     *)
(* declareAmbientGlobalProperty, which finds no global property either    *)
(* and inserts a new one into the top-level scope.                        *)
DeclareAmbientGlobalProperty(n) ==
    LET found == Lookup(table, n)
    IN  IF found # None /\ found.kind = "global" THEN found ELSE Glob(n)

EnsureVariableExists ==
    /\ pc = "body"
    /\ \E n \in {m \in Names : resolved[m] = None} :
          LET found == Lookup(table, n)
          IN  IF found # None
                THEN /\ resolved' = [resolved EXCEPT ![n] = found]
                     /\ UNCHANGED table
                ELSE /\ resolved' = [resolved EXCEPT ![n] = DeclareAmbientGlobalProperty(n)]
                     /\ table' = Append(table, <<n, DeclareAmbientGlobalProperty(n)>>)
    /\ UNCHANGED <<vars, fname, level, pc, chain, saved, frames, cursor, cdepth,
                   scopeVars, toDeclare>>
(* Mutant: saveCurrentScope forgets the enclosing chain.                  *)
SavedScopeNoParent ==
    [parent |-> None, originalName |-> fname[level],
     closureAlias |-> IF HasAlias(level) THEN Alias(level) ELSE None,
     variables |-> scopeVars]

(* saveCurrentScope: the current chain, the function's name and closure   *)
(* alias, and the names of its scope's Variables.                         *)
SavedScope ==
    [parent |-> chain, originalName |-> fname[level],
     closureAlias |-> IF HasAlias(level) THEN Alias(level) ELSE None,
     variables |-> scopeVars]

(* F[level+1] is deferred: its LazyCompilationData keeps the saved scope. *)
SaveCurrentScope ==
    /\ pc = "body"
    /\ \A n \in Names : resolved[n] # None
    /\ level < Depth
    /\ saved' = [saved EXCEPT ![level + 1] = SavedScope]
    /\ pc' = "lazy"
    /\ UNCHANGED <<vars, fname, level, chain, table, frames, cursor, cdepth,
                   scopeVars, toDeclare, resolved>>

(* Mutant: lexicalScopeChain is not set from the lazy data.               *)
LazyChainUnset(k) == None

LazyChain(k) == saved[k]

(* doLazyFunction, lines 268-285: a fresh IRGen with a dummy top-level    *)
(* function; lexicalScopeChain is the saved parent scope, and             *)
(* materializeScopesInChain(topLevel, lexicalScopeChain, 1) starts.       *)
DoLazyFunction ==
    /\ pc = "lazy"
    /\ level' = level + 1
    /\ chain' = LazyChain(level + 1)
    /\ cursor' = LazyChain(level + 1)
    /\ cdepth' = 1
    /\ frames' = <<>>
    /\ table' = <<>>
    /\ scopeVars' = {}
    /\ toDeclare' = vars[level + 1]
    /\ resolved' = [n \in Names |-> None]
    /\ pc' = "descend"
    /\ UNCHANGED <<vars, fname, saved>>

(* materializeScopesInChain, lines 736-741: a non-null scope recurses on   *)
(* its parent first, with depth + 1.                                      *)
Descend ==
    /\ pc = "descend"
    /\ cursor # None
    /\ frames' = Append(frames, <<cursor, cdepth>>)
    /\ cursor' = cursor.parent
    /\ cdepth' = cdepth + 1
    /\ UNCHANGED <<vars, fname, level, pc, chain, saved, table, scopeVars, toDeclare, resolved>>

ChainEnd ==
    /\ pc = "descend"
    /\ cursor = None
    /\ pc' = "unwind"
    /\ UNCHANGED <<vars, fname, level, chain, saved, table, frames, cursor, cdepth,
                   scopeVars, toDeclare, resolved>>

(* Mutant: the scope's variables are inserted before its closure alias.   *)
MaterializeAliasLast(t, s, d) ==
    LET withVars == t \o [i \in 1..Cardinality(s.variables) |->
                             <<SetToSeq(s.variables)[i], Ext(d, SetToSeq(s.variables)[i])>>]
    IN  IF s.closureAlias # None
          THEN Append(withVars, <<s.originalName, Lookup(t, s.closureAlias)>>)
          ELSE withVars

(* The rest of one call, lines 743-772, once its parents are done: the    *)
(* alias originalName -> lookup(closureAlias), then every variable of the *)
(* scope as a Variable of ExternalScope(-depth).                           *)
MaterializeScope(t, s, d) ==
    LET withAlias == IF s.closureAlias # None
                       THEN Append(t, <<s.originalName, Lookup(t, s.closureAlias)>>)
                       ELSE t
    IN  withAlias \o [i \in 1..Cardinality(s.variables) |->
                        <<SetToSeq(s.variables)[i], Ext(d, SetToSeq(s.variables)[i])>>]

Unwind ==
    /\ pc = "unwind"
    /\ frames # <<>>
    /\ table' = MaterializeScope(table, Last(frames)[1], Last(frames)[2])
    /\ frames' = Front(frames)
    /\ UNCHANGED <<vars, fname, level, pc, chain, saved, cursor, cdepth,
                   scopeVars, toDeclare, resolved>>

(* doLazyFunction, lines 287-302: the function's own closure alias is     *)
(* re-created (before genES5Function declares the function's variables). *)
LazyAlias ==
    /\ pc = "unwind"
    /\ frames = <<>>
    /\ table' = IF HasAlias(level)
                  THEN Append(table, <<fname[level], Lookup(table, Alias(level))>>)
                  ELSE table
    /\ pc' = "declare"
    /\ UNCHANGED <<vars, fname, level, chain, saved, frames, cursor, cdepth,
                   scopeVars, toDeclare, resolved>>

Finish ==
    /\ pc = "body"
    /\ \A n \in Names : resolved[n] # None
    /\ level = Depth
    /\ pc' = "done"
    /\ UNCHANGED <<vars, fname, level, chain, saved, table, frames, cursor, cdepth,
                   scopeVars, toDeclare, resolved>>

Terminating == pc = "done" /\ UNCHANGED vars_

Next ==
    \/ Declare \/ DeclareDone \/ EnsureVariableExists \/ SaveCurrentScope
    \/ DoLazyFunction \/ Descend \/ ChainEnd \/ Unwind \/ LazyAlias
    \/ Finish \/ Terminating

Spec == Init /\ [][Next]_vars_

NameSymmetry == Permutations(Names)

-----------------------------------------------------------------------------
(* Properties.                                                             *)

Idents == Names \cup {Alias(k) : k \in 1..Depth}
Bindings == [kind : {"var", "ext"}, at : Fns, name : Idents] \cup {Glob(n) : n \in Names}

(* Every name-table entry is a binding: in particular the closure alias   *)
(* looked up for an originalName was found (the cast<Variable> of lines   *)
(* 297-298 and 762-763 never sees null).                                   *)
TypeOK ==
    /\ level \in Fns
    /\ pc \in {"declare", "body", "lazy", "descend", "unwind", "done"}
    /\ \A i \in DOMAIN table : table[i][1] \in Idents /\ table[i][2] \in Bindings
    /\ resolved \in [Names -> Bindings \cup {None}]
    /\ scopeVars \subseteq Idents
    /\ cdepth \in 0..(Depth + 1)

(* What a binding denotes for the function being compiled: a variable of *)
(* ExternalScope(-d) is the variable of the function d levels out; a     *)
(* closure alias Variable of F[i-1] holds the closure of F[i].            *)
Meaning(b) ==
    IF b.kind = "global" THEN <<"global", b.name>>
    ELSE LET j == IF b.kind = "ext" THEN level - b.at ELSE b.at
         IN  IF \E i \in 1..Depth : b.name = Alias(i) /\ j = i - 1
               THEN <<"closure", j + 1>>
               ELSE <<"var", j, b.name>>

(* The reference: lexical scoping of the nested functions as if all were *)
(* compiled at once.  Inside F[j] a name is F[j]'s own declaration, else *)
(* the name of the function expression F[j] itself, else it is looked    *)
(* up in F[j-1]; in the global code every name is a global property.     *)
RECURSIVE EagerResolve(_, _)
EagerResolve(n, j) ==
    IF j = 0 THEN <<"global", n>>
    ELSE IF n \in vars[j] THEN <<"var", j, n>>
    ELSE IF fname[j] = n THEN <<"closure", j>>
    ELSE EagerResolve(n, j - 1)

(* Lazy compilation resolves every identifier of the lazily compiled     *)
(* function to the same binding as eager compilation would: the order of *)
(* materializeScopesInChain (outer scopes first, a scope's closure alias *)
(* before its variables), the ExternalScope depths, the re-created alias *)
(* of doLazyFunction and the function check of                           *)
(* declareVariableOrGlobalProperty together give lexical scoping.        *)
ResolutionMatchesEager ==
    \A n \in Names : resolved[n] # None => Meaning(resolved[n]) = EagerResolve(n, level)

(* The Variables of F[j]'s scope: its declarations (the global code's    *)
(* are global properties instead) and the closure alias of F[j+1].       *)
FunctionVariables(j) ==
    (IF j = 0 THEN {} ELSE vars[j]) \cup (IF HasAlias(j + 1) THEN {Alias(j + 1)} ELSE {})

RECURSIVE ScopeOf(_)
ScopeOf(j) ==
    [parent |-> IF j = 0 THEN None ELSE ScopeOf(j - 1), originalName |-> fname[j],
     closureAlias |-> IF HasAlias(j) THEN Alias(j) ELSE None,
     variables |-> FunctionVariables(j)]

(* The scope chain saved for a deferred function describes all of its    *)
(* enclosing functions, innermost first, however many lazy compilations *)
(* it passed through: saveCurrentScope in a lazily compiled function     *)
(* chains onto the lexicalScopeChain that doLazyFunction restored.        *)
SavedChainMatchesNesting ==
    \A k \in 1..Depth : saved[k] # None => saved[k] = ScopeOf(k - 1)
====
