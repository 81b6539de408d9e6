# TLA+ models of the Hermes bytecode backend

This directory holds TLA+ models of the compiler backend in `src/`. The backend has three stages.
The lowering passes (`src/lib/BCGen/Lowering.cpp`) rewrite one function's IR.
The per-function bytecode sink and the module orchestrator
(`src/lib/BCGen/HBC/BytecodeGenerator.cpp`) serialize the IR into a bytecode module.
The frontend (`src/lib/IRGen/ESTreeIRGen.cpp`) builds the IR they consume. Two parts of the
frontend are modelled. The first is the lazy-compilation scope protocol: how a function
compiled later finds the variables of the functions around it. The second is the code
emitted for array destructuring, checked against the ECMAScript 2015 algorithm.

The whole backend is sequential (spec section 5). Nothing runs concurrently, nothing is persisted,
and no operation is retried. So the hard parts are not interleavings. They are:

- the order of steps inside a pass;
- the effect of a rewrite on every input the pass accepts;
- numeric edges: unsigned wrap, negative savings, byte order;
- the one-shot protocols of the generators.

Each module models one component as a state machine (PerBlockLowering two passes, one after the other). The input of a pass is chosen
nondeterministically in `Init` from a bounded set of IR shapes. Each loop iteration or
handler is an action. The final state stutters through `Terminating`, so deadlock checking
stays on and a run that gets stuck is reported. The safety properties are stated on
the terminal state, where that state is reached. Liveness is stated once, through a
refinement: the source re-encoding loop, under weak fairness, implements a one-step
abstract specification that eventually adds the string (see "Fairness and refinement").

## Inventory

| Component | Source | Module | Status |
|---|---|---|---|
| Switch-to-branch-chain lowering | Lowering.cpp 21-133 | SwitchLowering | modelled |
| Dominance-ordered store collector | Lowering.cpp 135-282 | StoreCollector, MCAllocationLowering | modelled |
| Object buffer packing and cost model | Lowering.cpp 284-578 | ObjectPacking, MCAllocationLowering | modelled |
| Array-literal size limiting | Lowering.cpp 631-690 | ArrayLimiting, MCAllocationLowering | modelled |
| Numeric-property canonicalization | Lowering.cpp 580-629 | NumericProperties (operators), applied in ObjectPacking and MCAllocationLowering | modelled (toArrayIndex and operand layouts from their definitions outside src/) |
| Comparison/branch fusion | Lowering.cpp 692-768 | PerBlockLowering | modelled |
| Exponentiation lowering | Lowering.cpp 770-806 | PerBlockLowering | modelled |
| Per-function bytecode sink | BytecodeGenerator.cpp 73-190 | FunctionSink, MCFunctionSink | partly (the emitter is modelled from spec 4.7) |
| Module orchestrator and string table | BytecodeGenerator.cpp 193-200, 270-498 | ModuleGenerator | partly (see below) |
| Function source re-encoding | BytecodeGenerator.cpp 249-267, 299-325 | SourceReencoding, AbstractReencoding | modelled |
| AST to IR generation | ESTreeIRGen.cpp 88-107, 161-164, 268-373, 440-462, 492-541, 607-710, 736-799 | LazyScopeChain, ArrayDestructuring | partly (the lazy scope chain and array destructuring; see Not modelled) |
| IR dumper | Dumper.h | none | not modelled: declarations only, bodies outside src/ |

How the parts interact:

- StoreCollector feeds ObjectPacking. `collectStores` chooses the SNOPs
  (StoreNewOwnPropertyInsts) that `lowerAllocObjectBuffer` may fold into a buffer.
  ObjectPacking takes that list as its input, with any shape.
  StoreCollector shows which lists the collector can produce.
- LowerNumericProperties turns string keys that are canonical array indices into
  LiteralNumbers before the object lowering runs. ObjectPacking composes the two: its
  `NumericPass` applies `LowerNumericProperties` to the frontend's SNOPs or
  AllocObjectLiteralInst, and the packing then works on the rewritten operands.
- The allocation lowerings each work on their own allocation: the store collector, object
  packing and array limiting. MCAllocationLowering runs them in one model as a disjoint
  sum. In each state one part has a real input and the others are idle, each in the final
  state its empty input reaches: an allocation without users, an empty object literal, an
  empty array. A step of one part leaves the others' variables alone.
- The frontend's lazy compilation saves a function's scope (`saveCurrentScope`) and
  later rebuilds the chain of scopes in a fresh compiler (`doLazyFunction`,
  `materializeScopesInChain`); LazyScopeChain models that protocol over several levels.
- The orchestrator runs the lowering. It then collects strings, allocates registers and
  drives instruction selection, which writes into the sink.

## Modules

**SwitchLowering** models `lowerSwitchIntoIfs`, `copyPhiTarget` and `erasePhiTarget`.
One SwitchInst ends block `Orig`. Every destination has one phi, with an entry from
`Orig` (once, or twice as a duplicate) and one from an unrelated predecessor `Ext`.
- `BuildIf` is one iteration of the loop (lines 51-81). It builds new block `i+1`,
  testing case `e-i-1`, and copies the phi entries.
- `EraseAndBranch` (lines 83-91) erases the phi entries from `Orig` and replaces the
  switch by `br next`.
- `term` holds the terminator of every block and `phi` the phi entries.

**StoreCollector** models `tryAdd`, the user scan, `orderBlocksByDominance` and
`collectStores`. The dominator subtree of the allocation is `parent`, one of every tree
of `NumBlocks` blocks. Each block lists its users in order: an SNOP into the object, or
any other user.
- `ScanUsers` builds the BlockUserMap. Each block's list is its SNOP positions until the
  first other user, then the nullptr `Stop`.
- `DFSRoot`, `DFSDescend` and `DFSAscend` are the dominator-tree DFS. DFSDescend picks
  the next child nondeterministically, because DomTreeDFS's order is not the pass's to
  choose.
- Each visit applies `processNode`.
- `CollectStores` concatenates the lists in chain order up to the first `Stop`.

**ObjectPacking** models both `estimateBestNumElemsToSerialize` (a recursive operator
with the loop's variables as parameters), both `lowerAllocObjectBuffer`, and `lowerAlloc`,
run after the numeric-property pass.
- `Init` picks a list of properties with distinct key texts (strings as digit
  sequences) and builds the frontend's instructions for it with `InstsOf`: SNOPs after an
  AllocObjectInst, or one AllocObjectLiteralInst. `insts0` keeps them.
- `NumericPass` is `LowerNumericProperties` on those instructions; the packing actions
  run only after it, and read the properties back with `PropsOf`. Distinct key texts stay
  distinct keys only because `toArrayIndex` accepts canonical texts alone: were "07"
  accepted, it would name property 7, and merge with a key "7" into one LiteralNumber
  (a repeated key at line 529).
- For an AllocObjectInst, the prototype may or may not be the default.
- The output is the allocation kind, the buffer (Null for placeholders) and the stores
  that follow the allocation.
- `Run` and `Fill` interpret that code into an object: its string-key insertion order,
  its values and its prototype. They also flag a StoreNewOwnPropertyInst onto a key
  that is already defined, since spec section 2 allows it only as a first definition.
  This catches a placeholder whose SNOP was not replaced by a StorePropertyInst
  (line 409). `OriginalObject` is the object the frontend's
  instructions denote in JavaScript (`JSKey` turns a key text into the property it
  names), `LoweredObject` the one the packed code builds; they are compared.
- The instruction sizes behind `kLiteralSavedBytes` and `kNonLiteralCostBytes` are
  constants, set in the cfg to the HBC encoding. The spec fixes the shape of the model,
  not these numbers.

**MCAllocationLowering** extends ObjectPacking and instantiates ArrayLimiting and
StoreCollector. StoreCollector's `stores` and `pc` are renamed `scStores` and `scPc`.
- `AllocInit` gives one part a real input. The others start idle (`CollectorIdle`,
  `ObjectIdle`, `ArrayIdle`), in the final state their empty input reaches.
- `AllocNext` is a step of one part, with the other parts' variables unchanged.
- It also supplies the key texts that a cfg cannot write, and restates the instances'
  properties under its own names.

**ArrayLimiting** models `LimitAllocArray::runOnFunction` on one AllocArrayInst.
- `Demote` is the first loop: the first unserializable element, and every element after
  it, becomes a store at its own index.
- `ops` is the whole operand list. Operand 0 is the SizeHint literal, and the elements
  start at `ElementStartIdx` = 1.
- `TrimStep` is one iteration of the trim loop. Its `unsigned i` and the operand offset
  `ElementStartIdx + i` (`OperandOffset`) are kept modulo `2^UWidth`. TLC's integers
  are 32-bit signed, but the wraps are the same at width 16. At the wrap, the offset is 0
  and the step reads, stores and removes the SizeHint, as the code does.
- `pc = "ub"` marks a read of an operand offset the instruction does not have.

**FunctionSink** models the byte-level side of `BytecodeFunctionGenerator`.
- `opcodes` is the byte sequence. An instruction without a relocation is one byte `Op`.
  A long jump is the byte `LongJmp` and a 4-byte operand, and a `SwitchImm` is its byte
  and a 4-byte jump-table offset. The instruction selector is outside `src/`, so
  `EmitOp`, `EmitJump`, `EmitSwitch` and `StartRelocation` follow spec 4.7: emit, then
  relocate in any order, then complete.
- `ShrinkJump` is `shrinkJump` (lines 139-146). It drops 3 operand bytes, and every later
  relocation and debug address moves by 3. `WriteJump` is `updateJumpTarget`, which
  writes the value byte by byte with `>>= 8` (`UpdateJumpTarget`, RECURSIVE).
  `WriteSwitch` is `updateJumpTableOffset`.
- A relocation is `fresh` until it is rewritten after the last shrink before it.
  `BytecodeGenerationComplete` requires that none is fresh. It records `bytecodeSize_`,
  pads to 4 and appends the table in host byte order (`HostBytes`).
- `AddDebugLocation` is `addDebugSourceLocation`, with the address of the current end.
- `MCFunctionSink` supplies the negative jump values, which a `.cfg` cannot write.

**ModuleGenerator** models `generate` and `addFunction` on a module of `NumFns`
functions. Function 1 is the entry point and the global function.
- Each function has a segment flag, an outcome (`ok`, `lazy`, or `fail` for an encoding
  error from `generateBytecodeFunction`), a source (none, ASCII or non-ASCII) and a CJS
  flag. The options are a segment, name stripping, and statically resolved CJS.
- `AddNext` is one iteration of the add loop. `CollectStrings` builds the string table as
  a set of tokens. `GenFunction` is one iteration of the per-function loop. It picks any
  function not yet generated, because `functionIDMap_` is a DenseMap with no order.
  `ReAddFunction` stands for the instruction selector's `addFunction` calls on functions
  that are already registered.
- Not modelled: base-provider seeding, the per-instruction operand strings, the literal
  buffers and register allocation. They add strings or state that no modelled lookup or
  property depends on.

**SourceReencoding** models `addFunctionSource` and `appendUnicodeToStorage` on one
source text, written as real bytes.
- The text is a sequence of code points. `EncodeUTF8` and `DecodeUTF8At` are the
  contracts of `hermes::encodeUTF8` and `_decodeUTF8SlowPath`, which are outside `src/`.
- `FastPath` adds an ASCII source as it is. Otherwise `CopyByte` and `ReencodeChar` are
  the two branches of the byte loop, and `AddReencoded` adds the result.
- `Units` and `JoinSurrogates` are an independent reference reading of the table's
  encoding, used only by the property.

**PerBlockLowering** models `LowerExponentiationOperator` and then `LowerCondBranch` on
one function of `NumBlocks` blocks, the second pass working on what the first leaves.
- A block is a body and a terminator. An instruction is a binary operator (operator and
  side effect), a store, a builtin call, or another user of a value. Values are named by
  the position of their definition; the call made for the operator at `p` is
  `CallID(p)`. A builtin call's side effect is unknown, so it counts as a write.
- Exponentiation: `it` is the iterator as the id of the node it points at (an ilist
  iterator is a node pointer), `End` past the last one. `ExpStep` is one inner-loop
  iteration: `++it` first, then `LowerExp` creates the call where the operator stood,
  redirects its uses in every block and every branch (`Redirect`, `RedirectTerm`) and
  erases it. `ExpNextBlock` is the outer loop; `ExpDone` hands the IR (`body1`,
  `term1`) to the fusion.
- Fusion: operands of a comparison are not tracked; the fused `CmpBr` names the
  comparison it evaluates and carries its operator and effect. `Fusible` is the chain of
  `continue`s of the scan (lines 721-743). `LowerBlock` is one outer-loop iteration: the
  CompareBranchInst replaces the terminator and the comparison is erased from whichever
  block holds it.
- `EffectTrace` lists a block's effectful instructions in order, with a fused comparison
  counted at its branch. The fusion properties compare the result with `body1`/`term1`,
  the exponentiation property compares `body1`/`term1` with a reference lowering of the
  input, so neither depends on the order the pass pipeline (outside `src/`) runs them in.

**NumericProperties** is a library of operators for `LowerNumericProperties`, used by
ObjectPacking.
- Strings are sequences of character codes (0-9 the digits, 10 `-`, 11 `a`).
  `ToArrayIndex` is `toArrayIndex`: decimal, no sign, no leading zero, at most
  `MaxArrayIndex`.
- `NameOperands` is the dispatch of lines 605-625: the `PropertyIdx` operand of each
  property instruction, every key slot `2i` of an object literal. `VisitInst` applies
  `StringToNumericProperty` to each of them, and `LowerNumericProperties` to every
  instruction of a function.
- `JSKey` and `NumberToString` are the reference: the JavaScript property a key text
  names (an array index only if it prints back as the same text).

**LazyScopeChain** models the lazy-compilation scope protocol of ESTreeIRGen over
functions `F0` (global code) to `FDepth`, each nested in the one before and each
compiled lazily inside the previous compilation.
- `table` is `nameTable_`, a sequence of name/binding pairs; `Lookup` returns the last
  one inserted for a name, as the ScopedHashTable does, whichever scope it was put in.
  A binding is a Variable of a function (`Own`), a Variable of an ExternalScope at a
  depth (`Ext`), or a global property (`Glob`).
- `Declare` is `declareVariableOrGlobalProperty` for each declared name, `DeclareDone`
  adds the closure alias variable of a named function expression to the next function's
  parent, `EnsureVariableExists` resolves each used name (an unknown name becomes an
  ambient global through `DeclareAmbientGlobalProperty`).
- `SaveCurrentScope` is `saveCurrentScope`: the parent chain, the function's name, its
  closure alias and its variables.
- `DoLazyFunction` starts the next level from the saved scope in a fresh table; `Descend`,
  `ChainEnd` and `Unwind` are the recursion of `materializeScopesInChain` (parents first,
  then the alias, then the variables at `-depth`); `LazyAlias` is the alias re-created by
  `doLazyFunction` itself.
- `Meaning` reads a binding as the function whose frame it lives in, and
  `EagerResolve` is what the same name means when the whole program is compiled at once.

**ArrayDestructuring** models `emitDestructuringArray` (lines 607-710) with
`createLRef` (492-541) and `LReference::emitStore` (88-107) on one array pattern.
- The generator is straight-line per element, so each block it emits is executed as it
  is emitted. There is one action per block: `Entry` (get the iterator, `iterDone =
  undefined`), `ElemStart` (create the target's reference, reset `iterValue`, branch on
  `first` or `iterDone`), `NotDone` (call `next()`, store `done`), `NewValue` (read
  `value`, for a hole too), `CheckDefault`, `GetDefault` (evaluate the initializer) and
  `Store`.
- An element is a hole, a variable or a member target, with or without an initializer.
  The iterator yields the values of `iter` and then reports done.
- `trace` records what a program can observe, in order. `ESTrace` (RECURSIVE) is the
  reference: IteratorDestructuringAssignmentEvaluation of ES2015 12.14.5.3, written from
  the standard rather than from the code. In it an Elision only steps the iterator. The
  final IteratorClose is left out.
- Two properties compare against it. `TraceFollowsES` is the exact comparison; the code
  violates it (finding 4). `TraceFollowsESButElisionReads` first drops the code's extra
  `value` reads for holes, then compares; the code satisfies it.

**AbstractReencoding** is what adding a function source promises: in one step, the
string added is the source's code points as UTF-16 units, each unit UTF-8-encoded
(`TableEncoding`). The step is weakly fair. It is written from spec 4.8 and 6, not from
the byte loop.

## Fairness and refinement

`SourceReencoding!FairSpec`, the specification of the source_reencoding run, is `Spec /\ WF_vars(Next)`. The backend is single-threaded
and runs each loop to its end (spec 5): a step that is enabled is taken, and nothing
else can take the thread away, so weak fairness of the whole next-state relation is
what the code guarantees. No stronger fairness is assumed.

`SourceReencoding` instantiates `AbstractReencoding` with `text` and `added` mapped by
name and `done <- (pc = "done")`. `FastPath` and `AddReencoded` are the abstract `Add`
step; `SlowPath`, `CopyByte` and `ReencodeChar` leave the abstract state unchanged.
The property `ImplementsAbstractReencoding` is `Abs!Spec`, so TLC checks both that every
step refines (the bytes added are the table encoding) and that `Add` eventually happens
(the loop cannot stall before `cur` passes the end).

The other passes get no liveness property: each is a loop over a finite structure, and a
loop that stops early or never ends shows up as a deadlock or as a violation of a
property stated on the terminal state, which every run checks.

## Runs

| Run | Module / cfg | Expect | What it shows |
|---|---|---|---|
| switch_lowering | SwitchLowering.cfg | pass | At every step the phis agree with the CFG. At the end every discriminant reaches the switch's destination and gets the same phi value. |
| switch_no_cases | SwitchLoweringNoCases.cfg | violation | A switch with no case pair loses the default's phi entry for `Orig` (finding 1). |
| allocation_lowering | MCAllocationLowering.cfg | pass | Store collector: for every tree of 4 blocks and every DFS order, the collected SNOPs run in order and before every other use of the object. Object literals: the estimate is the optimal prefix of a reference cost function. The buffer keeps both budgets. The numeric-property pass and the packing together build the object the frontend's instructions denote ("07" and "-7" stay strings, "0" becomes index 0), and no new-own store redefines a key in the buffer. Array literals: with maxSize_ 3, the inline prefix is the one spec 4.5 prescribes, every other element is stored at its own index, and the trim touches neither the SizeHint nor any offset outside the operands. |
| array_limit_zero | ArrayLimitingZero.cfg | violation | With maxSize_ 0, the trim counter wraps, the offset `1 + i` wraps to 0, and the SizeHint is stored as element UINT_MAX and removed (finding 2). |
| function_sink | MCFunctionSink.cfg | pass | Through any order of shrinks and rewrites, every jump operand reads back little-endian, every jump-table slot is where `offset + instruction` rounded up to 4 points and decodes to its entry, and debug locations are one per address with the last call's info. |
| function_sink_big_endian | MCFunctionSinkBigEndian.cfg | violation | On a big-endian host the jump table slots do not read back little-endian (finding 3). |
| module_generator | ModuleGenerator.cfg | pass | Under every option and every map iteration order, the IDs are dense in module order and stable under re-adds. Every string lookup finds its string, and a module is returned only when every function encoded. |
| source_reencoding | MCSourceReencoding.cfg | pass | Every source of up to 2 code points at the UTF-8 length edges is stored with no 4-byte sequence. It decodes back to the same code points, and a text below 0x10000 is stored unchanged. Under weak fairness the loop implements AbstractReencoding: it always ends and adds the table encoding of the source, once. |
| per_block_lowering | PerBlockLowering.cfg | pass | The exponentiation iterator never points at an erased node and every use of a `**`, in any block or branch, ends on its call. The fusion then keeps every block's order of effects, leaves no use of an erased comparison, and fuses only the comparison kinds of spec 8.6 (TypeOK, whose set of kinds is taken from the spec, not from `isOperatorSupported`). |
| array_destructuring | ArrayDestructuring.cfg | pass | For every pattern of up to 3 holes, variables and member targets, with or without initializers, and every iterator of up to 3 values: `next()` is never called after it reported done, and, apart from the `value` reads for holes, the emitted code's effects are, step by step, those of ES2015 12.14.5.3. Each target gets its value or undefined, never a value left from the element before, and an initializer runs exactly when the value is undefined. |
| array_destructuring_elision | ArrayDestructuringElision.cfg | violation | For `[ , ] = it` with a not-done iterator, the code reads the step result's `value`, which ES2015 does not (finding 4). |
| lazy_scope_chain | LazyScopeChain.cfg | pass | Through 3 levels of lazy compilation, each saved scope is the scope of the function it belongs to, with its parents in nesting order, and every name of a lazily compiled function resolves to the same variable, external-scope depth or global that eager compilation gives it. |

Every property of a passing run has a mutant in PROJECT.json. A mutant is a plausible
slip in the code that TLC shows breaks the property:

- the loop scanning forward;
- a missing phi copy;
- a rollback that pops only once;
- a missing prototype call;
- a trim starting one too high;
- and others.

## Bounds

- **SwitchLowering:** 1-3 cases over 3 destinations and 2 case values. This covers
  repeated case values, shared destinations, a default that is also a case destination,
  and duplicate phi entries.
- **StoreCollector** (in MCAllocationLowering): 4 blocks give every tree shape up to relabelling, including two
  parallel branches below a chain. 2 users per block allow an SNOP before and after
  another user.
- **ObjectPacking** (in MCAllocationLowering): 5 properties with key texts "0", "07",
  "-7", "700", "a" (set in MCAllocationLowering, since a cfg cannot write sequences) and `MaxArrayIndex` 99: one
  text becomes a numeric key, three look numeric and must stay strings. 5 properties
  let the placeholder budget of 3 run out, the numeric key covers the skip rule, and
  `MaxBufferSize` 4 lets the maxSize cut happen.
- **ArrayLimiting** (in MCAllocationLowering): 5 elements with maxSize_ 3 make demotion
  and trimming occur together. The composed run, with the store collector, has about
  997,000 states and takes 90 to 135 seconds.
- **ArrayDestructuring:** 3 elements of every kind, and iterators of up to 3 values from
  {v1, undefined}. This covers an iterator done before, at and after the last element, an
  undefined value that triggers the default, and a hole between two targets. About 32,000
  states.
- **FunctionSink:** 3 instructions give two jumps, or a jump and a switch, so one shrink
  moves another relocation. Jump values -300, -2 and 100 cover a negative value that
  shrinks, one that does not, and a multi-byte negative. Table values 7 and 300 need one
  and two bytes. 2 debug calls can share an address.
- **ModuleGenerator:** 3 functions give the entry, one function in the segment and one
  outside it. There is one ASCII and one non-ASCII source, and 2 re-adds.
- **SourceReencoding:** two code points of each UTF-8 length: the last of every length
  (127, 2047, 65535, 0x10FFFF) and the first of lengths 2-4. Texts have up to 2 code
  points, so a text can mix ASCII with a surrogate pair.
- **PerBlockLowering:** 2 blocks of up to 2 instructions, operators `<`, `**` and `+`,
  effects none and write (read behaves as write in both passes). This gives a comparison
  right before its branch or not, in the branch's block or an earlier one, with one or
  two users, a store between it and the branch; two `**` in a row (the iterator must
  step over the fresh call); a `**` used by a later block and by a branch; and an
  unsupported operator left for the fusion. About 876,000 states, one minute.
- **LazyScopeChain:** `Depth` 3 gives a chain of three saved scopes, so a scope is
  materialized at depth 1, 2 and 3, and an inner name can shadow a name two levels out.
  2 names (symmetric) let a function declare one, use the other, and name itself after
  either. About 186,000 states.

## Findings

1. **Lowering.cpp:84.** For a SwitchInst with an empty case list, the pass erases the
   default's phi entry for the switch block and then branches from that block to the
   default. Spec 4.1 and 8.2 promise phi equivalence for every switch. Nothing in the
   pass excludes this input.
2. **Lowering.cpp:677.** With `maxSize_ == 0`, the unsigned trim loop never ends
   properly. After `i = 0`, `i` wraps to UINT_MAX and the offset `ElementStartIdx + i`
   wraps to 0. That step stores the SizeHint operand as the array's element UINT_MAX and
   removes it. The next step reads offset -1, which is outside the operands. Spec 4.5 says
   the elements are trimmed to exactly M.
3. **BytecodeGenerator.cpp:187.** `bytecodeGenerationComplete` appends `jumpTable_` in
   host byte order through `reinterpret_cast`. `updateJumpTarget` writes operands
   little-endian "regardless of host byte order", and spec 6 and 8.8 require
   little-endian slots. On a big-endian host the slots decode to other values.
4. **ESTreeIRGen.cpp:680.** `emitDestructuringArray` reads `stepResult.value` for every
   element it steps, holes included. ES2015 12.14.5.3 evaluates an Elision with
   IteratorStep alone, so for `[, a] = it` a getter on the result's `value` runs once
   more than the language allows.

## Not modelled

- **The rest of AST to IR generation (ESTreeIRGen.cpp).** Beyond the lazy scope
  chain, the frontend is a recursive walk over AST nodes that builds IR, with no state of
  its own besides the name table; its results are the inputs every backend model here
  chooses in `Init`. Not modelled:
  - **The eval path of `doIt`** (161-191), whose chain is built by
    `resolveScopeIdentifiers` (719-734). That chain comes from the VM's `ScopeChain`,
    which is outside `src/`, so the model could not state what it holds. It keeps only
    each function's variables, with no `originalName` and no closure alias. If the VM
    lists only declared variables, an `eval` inside a named function expression will not
    find the function's own name. The model cannot tell whether that happens.
  - **The CommonJS wrapper.**
  - **Object destructuring.** `emitDestructuringObject` only reports an error.
  - **Nested patterns, rest elements and exceptions** inside array destructuring, and the
    binding kinds `emitLoad` and `emitStore` choose.
- **IteratorClose after array destructuring (ESTreeIRGen.cpp:709).** ES2015 12.14.5.2
  closes an iterator that destructuring left not done: `[a] = gen()` must run the
  generator's `finally`. The emitted code never calls `return()`. ArrayDestructuring's
  reference leaves IteratorClose out to state this difference, which no run checks.
- **IR dumper (Dumper.h).** The header declares the pretty-printer; its bodies are in
  Dumper.cpp, outside `src/`, and it formats debug output no property is about.
- **Repeated keys in an object literal emitted by the frontend (Lowering.cpp:529).**
  ObjectPacking takes distinct key texts as the frontend's contract; keys the
  numeric-property pass could merge are covered, what the frontend emits for
  `{a: 1, a: x}` is not.

## Plan

1. The FunctionSink emitter could be refined, and `generateBytecodeFunction`'s header
   and encoding-error check could join the orchestrator, with FunctionSink composed into
   ModuleGenerator's per-function step.
2. A violation run could check the missing IteratorClose, by adding it to `ESTrace`.
3. Nested array patterns could be added to ArrayDestructuring, with `emitDestructuring`
   recursing on an element whose target is itself a pattern.
