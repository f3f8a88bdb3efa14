------------------------------ MODULE BitFile ------------------------------
(***************************************************************************)
(* software/src/bit_read.c: what the tools take from a configuration file  *)
(* of the FPGA.  The header is a list of keys with their texts, which is   *)
(* not parsed: the key 'e' is looked for, byte by byte, with four bytes of *)
(* a length and the first byte 0xff of the data behind it.                 *)
(***************************************************************************)
EXTENDS Integers, Sequences

CONSTANTS ByteBits,     \* bits of a byte
          HeaderSkip,   \* 30: bytes of the header that are not looked at
          StaleBytes    \* what a byte of the length may be that has not been read

ASSUME BitFileAssumption == ByteBits >= 3 /\ HeaderSkip \in Nat /\ StaleBytes \subseteq 0..(2 ^ ByteBits - 1)

HeadKey == 5            \* 0x65
FirstByte == 2 ^ ByteBits - 1
Zeros(n) == [i \in 1..n |-> 0]

(* Four bytes, the high one first.  Behind the end of the file fread leaves *)
(* its byte as it is.                                                       *)
LengthsAt(file, p) ==
    LET read(q) == IF q <= Len(file) THEN {file[q]} ELSE StaleBytes
    IN  {((a * 2 ^ ByteBits + b) * 2 ^ ByteBits + c) * 2 ^ ByteBits + d :
            a \in read(p), b \in read(p + 1), c \in read(p + 2), d \in read(p + 3)}

(* What bit_read may return; nothing if it does not return.  A text of the  *)
(* header may hold the key: it is taken for one unless the byte after the   *)
(* length is not the first byte of the data.  A key in that very place, or  *)
(* the end of the file, ends the search with the buffer as it was: no byte  *)
(* is read then, and the one read last is still the key.  A file without    *)
(* key is searched for ever, and data that are too short are only reported. *)
bit_read(file) ==
    LET scan[p \in (HeaderSkip + 1)..(HeaderSkip + Len(file) + 1)] ==
            LET after == IF p + 5 <= Len(file) THEN file[p + 5] ELSE HeadKey
                data(n) == [i \in 1..n |-> IF p + 4 + i <= Len(file) THEN file[p + 4 + i] ELSE 0]
            IN  CASE p > Len(file)        -> {}
                  [] p <= Len(file) /\ file[p] # HeadKey -> scan[p + 1]
                  [] OTHER -> CASE after = FirstByte -> {data(n) : n \in LengthsAt(file, p + 1)}
                                [] after = HeadKey   -> {Zeros(n) : n \in LengthsAt(file, p + 1)}
                                [] OTHER             -> scan[p + 6]
    IN  scan[HeaderSkip + 1]

(* What a program has of a file when bit_read is back; <<>> if it never is. *)
Readings(file) == IF bit_read(file) = {} THEN {<<>>} ELSE {<<data>> : data \in bit_read(file)}
=============================================================================
