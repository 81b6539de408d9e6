-------------------------- MODULE SourceReencoding --------------------------
(***************************************************************************)
(* addFunctionSource in BytecodeModuleGenerator::collectStrings and        *)
(* appendUnicodeToStorage (src/lib/BCGen/HBC/BytecodeGenerator.cpp): a    *)
(* function's source text, valid UTF-8, is added to the string table      *)
(* as it is if it is ASCII; otherwise it is walked byte by byte, ASCII     *)
(* bytes copied and every multi-byte character decoded and re-encoded,     *)
(* code points from 0x10000 on as a UTF-16 surrogate pair whose halves    *)
(* are UTF-8-encoded one by one.  hermes::encodeUTF8 and                  *)
(* _decodeUTF8SlowPath are outside src/ and are modelled from their        *)
(* contract (standard UTF-8).  Numbers are decimal: 65536 is 0x10000,     *)
(* 55296 is 0xD800, 56320 is 0xDC00, 1024 is 0x400.                       *)
(***************************************************************************)
EXTENDS Integers, Sequences, SequencesExt

CONSTANTS
    CodePoints,  \* code points the source text is made of
    MaxChars     \* length bound of the source text, in code points

ASSUME CodePoints \subseteq 0..1114111 /\ MaxChars \in Nat

(* encodeUTF8: the standard UTF-8 bytes of c.                             *)
EncodeUTF8(c) ==
    IF c < 128 THEN <<c>>
    ELSE IF c < 2048 THEN <<192 + c \div 64, 128 + (c % 64)>>
    ELSE IF c < 65536 THEN <<224 + c \div 4096, 128 + ((c \div 64) % 64), 128 + (c % 64)>>
    ELSE <<240 + c \div 262144, 128 + ((c \div 4096) % 64), 128 + ((c \div 64) % 64), 128 + (c % 64)>>

(* The source text as the function holds it.                               *)
UTF8Text(cps) == FlattenSeq([k \in DOMAIN cps |-> EncodeUTF8(cps[k])])

(* _decodeUTF8SlowPath at offset i (1-based) of a valid text: the code    *)
(* point and the number of bytes it takes.                                 *)
DecodeUTF8At(bs, i) ==
    LET b == bs[i]
        cont(k) == (bs[i + k] % 64)
    IN  IF b < 224 THEN <<(b % 32) * 64 + cont(1), 2>>
        ELSE IF b < 240 THEN <<(b % 16) * 4096 + cont(1) * 64 + cont(2), 3>>
        ELSE <<(b % 8) * 262144 + cont(1) * 4096 + cont(2) * 64 + cont(3), 4>>

IsUTF8Start(b) == b >= 192
IsAllASCII(bs) == \A k \in DOMAIN bs : bs[k] < 128

(* Mutant: the code point is pushed as a single char.                      *)
AppendUnicodeAsChar(cp) == <<cp>>

(* Mutant: 0x10000 is not subtracted before splitting.                     *)
AppendUnicodeNoOffset(cp) ==
    IF cp < 65536 THEN EncodeUTF8(cp)
    ELSE EncodeUTF8(55296 + ((cp \div 1024) % 1024)) \o EncodeUTF8(56320 + (cp % 1024))

(* appendUnicodeToStorage (lines 249-267): the bytes appended for cp.     *)
AppendUnicodeToStorage(cp) ==
    IF cp < 65536 THEN EncodeUTF8(cp)
    ELSE LET c == cp - 65536
         IN  EncodeUTF8(55296 + ((c \div 1024) % 1024)) \o EncodeUTF8(56320 + (c % 1024))

VARIABLES
    text,     \* the code points of the source (input, for the properties)
    str,      \* the source bytes
    cur,      \* the `cur` pointer of the loop (1-based)
    storage,  \* unicodeFunctionSources_[str]
    added,    \* the string passed to strings.addString
    pc

vars == <<text, str, cur, storage, added, pc>>

Init ==
    /\ text \in BoundedSeq(CodePoints, MaxChars)
    /\ str = UTF8Text(text)
    /\ cur = 1
    /\ storage = <<>>
    /\ added = <<>>
    /\ pc = "start"

(* Lines 300-302: an ASCII source is added as it is.                       *)
FastPath ==
    /\ pc = "start"
    /\ IsAllASCII(str)
    /\ added' = str
    /\ pc' = "done"
    /\ UNCHANGED <<text, str, cur, storage>>

SlowPath ==
    /\ pc = "start"
    /\ ~IsAllASCII(str)
    /\ pc' = "loop"
    /\ UNCHANGED <<text, str, cur, storage, added>>

(* One iteration of lines 307-320.                                         *)
CopyByte ==
    /\ pc = "loop"
    /\ cur <= Len(str)
    /\ ~IsUTF8Start(str[cur])
    /\ storage' = Append(storage, str[cur])
    /\ cur' = cur + 1
    /\ UNCHANGED <<text, str, added, pc>>

(* Mutant: the string is added inside the loop, after each character.    *)
ReencodeCharAddEach ==
    /\ pc = "loop"
    /\ cur <= Len(str)
    /\ IsUTF8Start(str[cur])
    /\ LET d == DecodeUTF8At(str, cur)
       IN  /\ storage' = storage \o AppendUnicodeToStorage(d[1])
           /\ cur' = cur + d[2]
           /\ added' = storage'
    /\ UNCHANGED <<text, str, pc>>

ReencodeChar ==
    /\ pc = "loop"
    /\ cur <= Len(str)
    /\ IsUTF8Start(str[cur])
    /\ LET d == DecodeUTF8At(str, cur)
       IN  /\ storage' = storage \o AppendUnicodeToStorage(d[1])
           /\ cur' = cur + d[2]
    /\ UNCHANGED <<text, str, added, pc>>

(* Lines 321-323: the re-encoded source is added.                          *)
AddReencoded ==
    /\ pc = "loop"
    /\ cur > Len(str)
    /\ added' = storage
    /\ pc' = "done"
    /\ UNCHANGED <<text, str, cur, storage>>

Terminating == pc = "done" /\ UNCHANGED vars

Next == FastPath \/ SlowPath \/ CopyByte \/ ReencodeChar \/ AddReencoded \/ Terminating

Spec == Init /\ [][Next]_vars

(* The loop runs on one thread to its end: weak fairness of Next.          *)
FairSpec == Spec /\ WF_vars(Next)

(* The refinement mapping: the abstract step is the addString call.       *)
Abs == INSTANCE AbstractReencoding WITH done <- (pc = "done")

-----------------------------------------------------------------------------
(* A reference reading of the string table's encoding: UTF-8 sequences of *)
(* at most 3 bytes give 16-bit units, and a high surrogate followed by a  *)
(* low one stands for the code point they split.                          *)

RECURSIVE Units(_)
Units(bs) ==
    IF bs = <<>> THEN <<>>
    ELSE LET b == Head(bs)
             n == IF b < 128 THEN 1 ELSE IF b < 224 THEN 2 ELSE 3
             u == IF n = 1 THEN b
                  ELSE IF n = 2 THEN (b % 32) * 64 + (bs[2] % 64)
                  ELSE (b % 16) * 4096 + (bs[2] % 64) * 64 + (bs[3] % 64)
         IN  <<u>> \o Units(SubSeq(bs, n + 1, Len(bs)))

RECURSIVE JoinSurrogates(_)
JoinSurrogates(us) ==
    IF us = <<>> THEN <<>>
    ELSE IF Len(us) >= 2 /\ us[1] \in 55296..56319 /\ us[2] \in 56320..57343
      THEN <<65536 + (us[1] - 55296) * 1024 + (us[2] - 56320)>> \o JoinSurrogates(Tail(Tail(us)))
      ELSE <<Head(us)>> \o JoinSurrogates(Tail(us))

(* Properties.                                                             *)

TypeOK ==
    /\ storage \in Seq(0..255)
    /\ added \in Seq(0..255)
    /\ cur \in 1..(Len(str) + 1)
    /\ pc \in {"start", "loop", "done"}

(* Spec 4.8 and 6: the string added for a source reads back, in the       *)
(* table's encoding, as exactly the code points of the source, and every  *)
(* UTF-8 sequence in it is at most 3 bytes long (no 4-byte sequence       *)
(* survives; text below 0x10000 is left byte for byte as it was).         *)
ReencodingRoundTrips ==
    pc = "done" =>
        /\ \A k \in DOMAIN added : added[k] < 240
        /\ JoinSurrogates(Units(added)) = text
        /\ (\A k \in DOMAIN text : text[k] < 65536) => added = str

(* The fast path and the byte loop together implement the one-step        *)
(* promise of AbstractReencoding: they always end, and the one string     *)
(* they add is the source in the table's encoding.                        *)
ImplementsAbstractReencoding == Abs!Spec
=============================================================================
