------------------------- MODULE AbstractReencoding -------------------------
(***************************************************************************)
(* What adding a function source to the string table promises (spec 4.8   *)
(* and 6): in one step, the string added is the source in the table's     *)
(* encoding: each code point as its UTF-16 code units, each unit encoded  *)
(* as UTF-8 on its own.  The step eventually happens.                     *)
(***************************************************************************)
EXTENDS Integers, Sequences, SequencesExt

CONSTANTS CodePoints, MaxChars

VARIABLES text, added, done

(* The UTF-16 code units of a code point.                                  *)
UTF16(cp) ==
    IF cp < 65536 THEN <<cp>>
    ELSE <<55296 + (cp - 65536) \div 1024, 56320 + ((cp - 65536) % 1024)>>

(* UTF-8 of a unit below 0x10000: the number of continuation bytes, then  *)
(* the lead byte's marker and the 6-bit groups from the most significant. *)
UnitBytes(u) ==
    LET n == IF u < 128 THEN 0 ELSE IF u < 2048 THEN 1 ELSE 2
        lead == <<0, 192, 224>>[n + 1]
        group(j) == (u \div (64 ^ j)) % 64
    IN  <<lead + u \div (64 ^ n)>> \o [j \in 1..n |-> 128 + group(n - j)]

TableEncoding(cps) ==
    FlattenSeq([k \in DOMAIN cps |->
                  FlattenSeq([j \in DOMAIN UTF16(cps[k]) |-> UnitBytes(UTF16(cps[k])[j])])])

Init ==
    /\ text \in BoundedSeq(CodePoints, MaxChars)
    /\ added = <<>>
    /\ done = FALSE

Add ==
    /\ ~done
    /\ added' = TableEncoding(text)
    /\ done' = TRUE
    /\ UNCHANGED text

Spec == Init /\ [][Add]_<<text, added, done>> /\ WF_<<text, added, done>>(Add)
=============================================================================
