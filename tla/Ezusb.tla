------------------------------- MODULE Ezusb --------------------------------
(***************************************************************************)
(* software/src/ezusb.c, ezusb_load_image: an Intel HEX file is read into  *)
(* blocks. Download has the writing of the blocks.                         *)
(***************************************************************************)
EXTENDS Integers, Sequences, FiniteSets, SequencesExt

CONSTANTS MergeMax       \* 512: a block that long is not appended to

(* A line of the file: data at an address, or another kind of line.  One    *)
(* that lacks data is "short"; a stub ends before its first byte and its    *)
(* checksum are whole, and says only where and how many bytes there were.   *)
Data(off, bytes) == [kind |-> "data", off |-> off, bytes |-> bytes]
Line(kind) == [kind |-> kind, off |-> 0, bytes |-> <<>>]
NoByte == 208                                \* what two characters give that have been cut off
Stub(off, n) == [kind |-> "stub", off |-> off, bytes |-> [i \in 1..n |-> NoByte]]
Refused == {"prefix", "type", "short"}       \* an error ends the reading

(* The buffer of the line is in one place for all lines: behind the end of  *)
(* a line and of its checksum it holds what longer lines before have left.  *)
Behind(buf, l) ==
    LET n == Len(l.bytes)
    IN  [i \in 1..(IF Len(buf) > n + 2 THEN Len(buf) ELSE n + 2) |->
            IF i <= n THEN l.bytes[i] ELSE IF i <= n + 2 THEN NoByte ELSE buf[i]]
Left(buf, n) == [i \in 1..n |-> IF i = 1 \/ i > Len(buf) THEN NoByte ELSE buf[i]]

(***************************************************************************)
(* ezusb_load_image: a line that follows on the last block is appended to  *)
(* it; another begins a new block, at the head of the list.  The length of *)
(* a stub less 11 wraps (size_t), so that it is taken for long enough.     *)
(***************************************************************************)
Loaded(ret, blocks) == [ret |-> ret, blocks |-> blocks]
AddLineAnywhere(blocks, l) ==                \* faulty: appends whatever the address
    IF blocks # <<>> /\ Len(blocks[1].bytes) < MergeMax
    THEN [blocks EXCEPT ![1].bytes = @ \o l.bytes]
    ELSE <<[off |-> l.off, bytes |-> l.bytes]>> \o blocks
AddLine(blocks, l) ==
    IF blocks # <<>> /\ l.off = blocks[1].off + Len(blocks[1].bytes) /\ Len(blocks[1].bytes) < MergeMax
    THEN [blocks EXCEPT ![1].bytes = @ \o l.bytes]
    ELSE <<[off |-> l.off, bytes |-> l.bytes]>> \o blocks
RECURSIVE LoadLines(_, _, _)
LoadLines(lines, blocks, buf) ==
    IF lines = <<>> THEN Loaded(0, blocks)        \* "unexpected EOF", and loaded all the same
    ELSE LET l == Head(lines)
             taken == [l EXCEPT !.bytes = Left(buf, Len(@))]
         IN  CASE l.kind = "eof"      -> Loaded(0, blocks)
               [] l.kind \in Refused  -> Loaded(1, blocks)
               [] l.kind = "comment"  -> LoadLines(Tail(lines), blocks, buf)
               [] l.kind = "stub"     -> LoadLines(Tail(lines), AddLine(blocks, taken), buf)
               [] l.kind = "data"     -> LoadLines(Tail(lines), AddLine(blocks, l), Behind(buf, l))
ezusb_load_image(files, name) ==
    IF name \notin DOMAIN files THEN Loaded(1, <<>>) ELSE LoadLines(files[name], <<>>, <<>>)

(* The byte a file gives an address: of two lines for one address, the list *)
(* being written from its head, the earlier.  A stub gives none.            *)
Naming(lines, a) ==
    {i \in DOMAIN lines : /\ lines[i].kind \in {"data", "stub"}
                          /\ a - lines[i].off \in 0..(Len(lines[i].bytes) - 1)
                          /\ \A j \in 1..i : lines[j].kind # "eof"}
First(lines, a) == {i \in Naming(lines, a) : \A j \in Naming(lines, a) : i <= j}
CutOff(lines, a) == \E i \in First(lines, a) : lines[i].kind = "stub"
Gives(lines, a) == {lines[i].bytes[a - lines[i].off + 1] : i \in First(lines, a)}
=============================================================================
