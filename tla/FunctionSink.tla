---------------------------- MODULE FunctionSink ----------------------------
(***************************************************************************)
(* The per-function bytecode sink BytecodeFunctionGenerator                *)
(* (src/lib/BCGen/HBC/BytecodeGenerator.cpp): addDebugSourceLocation,      *)
(* shrinkJump, updateJumpTarget, updateJumpTableOffset and                 *)
(* bytecodeGenerationComplete, driven by an instruction selector.          *)
(*                                                                         *)
(* The selector is outside src/ and is modelled from spec 4.7 and 5: it    *)
(* first emits instructions (a one-byte op, a long jump with a 4-byte      *)
(* operand, a SwitchImm with a 4-byte table offset and entries in the jump *)
(* table) and debug locations at the current address; then it resolves     *)
(* relocations in any order, shrinking long jumps whose target fits in a   *)
(* byte, adjusting its recorded offsets after every shrink, and rewriting  *)
(* operands; and it completes the sink once every operand was written      *)
(* after the last shrink.  Offsets are 0-based as in the code; opcodes is  *)
(* a TLA+ sequence, so offset o is opcodes[o + 1].                         *)
(***************************************************************************)
EXTENDS Integers, Sequences, SequencesExt

CONSTANTS
    MaxInsts,          \* instructions the selector emits
    MaxEntries,        \* jump-table entries of one SwitchImm
    MaxDebugCalls,     \* addDebugSourceLocation calls
    JumpVals,          \* jump distances the selector may write
    TableVals,         \* jump-table entry values
    Infos,             \* debug source locations (model values)
    HostLittleEndian   \* byte order of the host that runs the compiler

ASSUME MaxInsts \in Nat /\ MaxDebugCalls \in Nat /\ MaxEntries \in Nat \ {0} /\ HostLittleEndian \in BOOLEAN
ASSUME \A v \in JumpVals \cup TableVals : -(2^30) <= v /\ v < 2^30

(* Opcode bytes of the instructions the model emits.                       *)
Op == 1
LongJmp == 2
ShortJmp == 3
SwitchImm == 4
Byte == 0..255

VARIABLES
    opcodes,         \* opcodes_
    jumpTable,       \* jumpTable_
    debugLocations,  \* debugLocations_: <<address, info>> records
    complete,        \* complete_
    bytecodeSize,    \* bytecodeSize_
    jumps,           \* selector: [loc, width, val, fresh] per jump operand
    switches,        \* selector: [inst, loc, idx, n, fresh] per SwitchImm
    debugCalls,      \* history of addDebugSourceLocation arguments
    pc               \* selector phase: "emit", "relocate", "done"

vars == <<opcodes, jumpTable, debugLocations, complete, bytecodeSize,
          jumps, switches, debugCalls, pc>>

Init ==
    /\ opcodes = <<>>
    /\ jumpTable = <<>>
    /\ debugLocations = <<>>
    /\ complete = FALSE
    /\ bytecodeSize = 0
    /\ jumps = <<>>
    /\ switches = <<>>
    /\ debugCalls = <<>>
    /\ pc = "emit"

(* Mutant: the `(opcode_atom_t)` truncation is dropped.                    *)
RECURSIVE WriteUntruncated(_, _, _, _)
WriteUntruncated(ops, loc, newVal, bytes) ==
    IF bytes = 0 THEN ops
    ELSE WriteUntruncated([ops EXCEPT ![loc + 1] = newVal], loc + 1, newVal \div 256, bytes - 1)

(* Mutant: the most significant byte is written first (big-endian).       *)
WriteBigEndian(ops, loc, newVal, bytes) ==
    [k \in DOMAIN ops |->
       IF loc < k /\ k <= loc + bytes
         THEN (newVal \div 256^(loc + bytes - k)) % 256 ELSE ops[k]]

(* updateJumpTarget (lines 148-158): `bytes` bytes of newVal, least       *)
(* significant first, each the truncation of newVal, then `newVal >>= 8`, *)
(* an arithmetic shift (floor division) for a negative int.               *)
RECURSIVE UpdateJumpTarget(_, _, _, _)
UpdateJumpTarget(ops, loc, newVal, bytes) ==
    IF bytes = 0 THEN ops
    ELSE UpdateJumpTarget([ops EXCEPT ![loc + 1] = newVal % 256], loc + 1, newVal \div 256, bytes - 1)

(* Mutant: the offset is taken from the start of the stream, not from the *)
(* SwitchImm.                                                              *)
JumpTableOffsetFromStart(ops, jumpTableOffset, instLoc) ==
    Len(ops) + jumpTableOffset * 4

(* The value updateJumpTableOffset (lines 160-172) writes: the distance   *)
(* from the instruction to its table slot, assuming the opcodes end here. *)
JumpTableOffset(ops, jumpTableOffset, instLoc) ==
    Len(ops) + jumpTableOffset * 4 - instLoc

(* shrinkJump (lines 139-146): the 3 high operand bytes at loc+1..loc+3   *)
(* are erased and the opcode at loc-1 becomes the short jump.             *)
ShrinkJumpOps(ops, loc) ==
    [SubSeq(ops, 1, loc) EXCEPT ![loc] = ShortJmp] \o SubSeq(ops, loc + 4, Len(ops))

(* A uint32 as it lies in host memory.                                     *)
HostBytes(v) ==
    LET le == [k \in 1..4 |-> (v \div 256^(k - 1)) % 256]
    IN  IF HostLittleEndian THEN le ELSE Reverse(le)

AlignTo4(n) == ((n + 3) \div 4) * 4

(* Mutant: the jump table is appended without the alignment padding.      *)
CompleteUnaligned(ops, table) ==
    ops \o FlattenSeq([j \in DOMAIN table |-> HostBytes(table[j])])

(* bytecodeGenerationComplete (lines 174-190) on the opcodes: pad with 0  *)
(* to a multiple of 4 and append the bytes of jumpTable_ as they lie in   *)
(* memory (reinterpret_cast of the uint32 vector).                        *)
CompleteOps(ops, table) ==
    IF table = <<>> THEN ops
    ELSE ops \o [k \in 1..(AlignTo4(Len(ops)) - Len(ops)) |-> 0]
             \o FlattenSeq([j \in DOMAIN table |-> HostBytes(table[j])])

(* Mutant: every location is appended, even at a repeated address.        *)
AddDebugAlwaysPush(locs, info) == Append(locs, info)

(* addDebugSourceLocation (lines 75-86): a record at the address of the   *)
(* last one overwrites it, any other is appended.                         *)
AddDebugSourceLocation(locs, info) ==
    IF locs # <<>> /\ Last(locs)[1] = info[1]
      THEN [locs EXCEPT ![Len(locs)] = info]
      ELSE Append(locs, info)

-----------------------------------------------------------------------------
(* The instruction selector's calls.                                       *)

Emitting == pc = "emit" /\ ~complete /\ Len(jumps) + Len(switches) + Len(SelectSeq(opcodes, LAMBDA b : b = Op)) < MaxInsts

EmitOp ==
    /\ Emitting
    /\ opcodes' = Append(opcodes, Op)
    /\ UNCHANGED <<jumpTable, debugLocations, complete, bytecodeSize, jumps, switches, debugCalls, pc>>

(* A long jump: opcode and a 4-byte operand to be written later.          *)
EmitJump ==
    /\ Emitting
    /\ \E v \in JumpVals :
          jumps' = Append(jumps, [loc |-> Len(opcodes) + 1, width |-> 4, val |-> v, fresh |-> FALSE])
    /\ opcodes' = opcodes \o <<LongJmp, 0, 0, 0, 0>>
    /\ UNCHANGED <<jumpTable, debugLocations, complete, bytecodeSize, switches, debugCalls, pc>>

(* A SwitchImm: opcode, a 4-byte table offset, and n entries reserved at  *)
(* the end of jumpTable_.                                                  *)
EmitSwitch ==
    /\ Emitting
    /\ \E n \in 1..MaxEntries, es \in [1..MaxEntries -> TableVals] :
          /\ switches' = Append(switches, [inst |-> Len(opcodes), loc |-> Len(opcodes) + 1,
                                           idx |-> Len(jumpTable), n |-> n, fresh |-> FALSE])
          /\ jumpTable' = jumpTable \o [k \in 1..n |-> es[k]]
    /\ opcodes' = opcodes \o <<SwitchImm, 0, 0, 0, 0>>
    /\ UNCHANGED <<debugLocations, complete, bytecodeSize, jumps, debugCalls, pc>>

(* addDebugSourceLocation at the current address.                          *)
AddDebugLocation ==
    /\ pc = "emit" /\ ~complete
    /\ Len(debugCalls) < MaxDebugCalls
    /\ \E i \in Infos :
          /\ debugLocations' = AddDebugSourceLocation(debugLocations, <<Len(opcodes), i>>)
          /\ debugCalls' = Append(debugCalls, <<Len(opcodes), i>>)
    /\ UNCHANGED <<opcodes, jumpTable, complete, bytecodeSize, jumps, switches, pc>>

StartRelocation ==
    /\ pc = "emit"
    /\ pc' = "relocate"
    /\ UNCHANGED <<opcodes, jumpTable, debugLocations, complete, bytecodeSize, jumps, switches, debugCalls>>

(* Write jump j's operand with its current width.  Rewriting an operand  *)
(* that is up to date writes the same bytes, so only stale ones are.     *)
WriteJump ==
    /\ pc = "relocate"
    /\ \E j \in DOMAIN jumps :
          /\ ~jumps[j].fresh
          /\ opcodes' = UpdateJumpTarget(opcodes, jumps[j].loc, jumps[j].val, jumps[j].width)
          /\ jumps' = [jumps EXCEPT ![j].fresh = TRUE]
    /\ UNCHANGED <<jumpTable, debugLocations, complete, bytecodeSize, switches, debugCalls, pc>>

(* Shrink a long jump whose distance fits in a signed byte.  Every later  *)
(* recorded offset moves back by 3 (the caller's duty, spec 4.7); the     *)
(* shrunk operand and every table offset have to be written again.        *)
Shift(o, loc) == IF o > loc THEN o - 3 ELSE o

ShrinkJump ==
    /\ pc = "relocate"
    /\ \E j \in DOMAIN jumps :
          /\ jumps[j].width = 4
          /\ -128 <= jumps[j].val /\ jumps[j].val < 128
          /\ LET loc == jumps[j].loc
             IN  /\ opcodes' = ShrinkJumpOps(opcodes, loc)
                 /\ jumps' = [k \in DOMAIN jumps |->
                                IF k = j THEN [jumps[k] EXCEPT !.width = 1, !.fresh = FALSE]
                                ELSE [jumps[k] EXCEPT !.loc = Shift(@, loc)]]
                 /\ switches' = [k \in DOMAIN switches |->
                                   [switches[k] EXCEPT !.inst = Shift(@, loc), !.loc = Shift(@, loc),
                                                       !.fresh = FALSE]]
                 /\ debugLocations' = [k \in DOMAIN debugLocations |->
                                         <<Shift(debugLocations[k][1], loc), debugLocations[k][2]>>]
                 /\ debugCalls' = [k \in DOMAIN debugCalls |->
                                     <<Shift(debugCalls[k][1], loc), debugCalls[k][2]>>]
    /\ UNCHANGED <<jumpTable, complete, bytecodeSize, pc>>

(* updateJumpTableOffset for SwitchImm s; its assert is the guard.         *)
WriteSwitch ==
    /\ pc = "relocate"
    /\ \E s \in DOMAIN switches :
          /\ ~switches[s].fresh
          /\ Len(opcodes) > switches[s].inst
          /\ opcodes' = UpdateJumpTarget(opcodes, switches[s].loc,
                           JumpTableOffset(opcodes, switches[s].idx, switches[s].inst), 4)
          /\ switches' = [switches EXCEPT ![s].fresh = TRUE]
    /\ UNCHANGED <<jumpTable, debugLocations, complete, bytecodeSize, jumps, debugCalls, pc>>

(* bytecodeGenerationComplete, once every operand is up to date; its      *)
(* assert(!complete_) is the guard.                                        *)
BytecodeGenerationComplete ==
    /\ pc = "relocate"
    /\ ~complete
    /\ \A j \in DOMAIN jumps : jumps[j].fresh
    /\ \A s \in DOMAIN switches : switches[s].fresh
    /\ complete' = TRUE
    /\ bytecodeSize' = Len(opcodes)
    /\ opcodes' = CompleteOps(opcodes, jumpTable)
    /\ pc' = "done"
    /\ UNCHANGED <<jumpTable, debugLocations, jumps, switches, debugCalls>>

Terminating == pc = "done" /\ UNCHANGED vars

Next ==
    \/ EmitOp \/ EmitJump \/ EmitSwitch \/ AddDebugLocation \/ StartRelocation
    \/ WriteJump \/ ShrinkJump \/ WriteSwitch \/ BytecodeGenerationComplete
    \/ Terminating

Spec == Init /\ [][Next]_vars

-----------------------------------------------------------------------------
(* Reading the stream as the interpreter does.                             *)

(* The signed little-endian value of `n` bytes at offset loc.              *)
RECURSIVE DecodeLE(_, _, _)
DecodeLE(ops, loc, n) ==
    IF n = 1 THEN (IF ops[loc + 1] >= 128 THEN ops[loc + 1] - 256 ELSE ops[loc + 1])
    ELSE ops[loc + 1] + 256 * DecodeLE(ops, loc + 1, n - 1)

(* Properties.                                                             *)

TypeOK ==
    /\ opcodes \in Seq(Byte)
    /\ jumpTable \in Seq(TableVals)
    /\ complete \in BOOLEAN
    /\ bytecodeSize \in Nat
    /\ pc \in {"emit", "relocate", "done"}

(* Spec 6: every jump operand reads back, little-endian at its width,     *)
(* as the distance the selector wrote, and its opcode matches the width,  *)
(* even after other jumps were shrunk around it and for negative values.  *)
JumpOperandsReadBack ==
    pc = "done" =>
        \A j \in DOMAIN jumps :
            /\ opcodes[jumps[j].loc] = IF jumps[j].width = 4 THEN LongJmp ELSE ShortJmp
            /\ DecodeLE(opcodes, jumps[j].loc, jumps[j].width) = jumps[j].val

(* Spec 6 and 8.8: after completion the table starts at the first         *)
(* multiple of 4 at or after bytecodeSize_, bytecodeSize_ is the length   *)
(* before padding, and the SwitchImm at inst finds, at                    *)
(* align(inst + offset), its n entries, each reading back little-endian.  *)
JumpTableLayout ==
    pc = "done" /\ jumpTable # <<>> =>
        /\ Len(opcodes) = AlignTo4(bytecodeSize) + 4 * Len(jumpTable)
        /\ \A s \in DOMAIN switches :
              LET base == AlignTo4(switches[s].inst + DecodeLE(opcodes, switches[s].loc, 4))
              IN  /\ base = AlignTo4(bytecodeSize) + 4 * switches[s].idx
                  /\ \A k \in 1..switches[s].n :
                        DecodeLE(opcodes, base + 4 * (k - 1), 4) = jumpTable[switches[s].idx + k]

(* Spec 8.7: the records have strictly increasing addresses, one per      *)
(* address that was given, and each is the last one given there.         *)
DebugLocationsDeduped ==
    /\ \A k \in 1..(Len(debugLocations) - 1) : debugLocations[k][1] < debugLocations[k + 1][1]
    /\ {r[1] : r \in Range(debugLocations)} = {c[1] : c \in Range(debugCalls)}
    /\ \A r \in Range(debugLocations) :
          r = debugCalls[CHOOSE k \in DOMAIN debugCalls :
                           debugCalls[k][1] = r[1] /\ \A k2 \in DOMAIN debugCalls :
                              debugCalls[k2][1] = r[1] => k2 <= k]
=============================================================================
