------------------------------ MODULE V4PciSpi ------------------------------
(***************************************************************************)
(* software/src/v4_pci_spi.c, the program for the second board: levels and *)
(* enables have a register each, and the bus is reset and left in another  *)
(* order; the rest is a copy of pci_spi.c.  And the system: one of the two *)
(* programs, the pins, the flash.                                          *)
(*                                                                         *)
(* A step is one register access.  Between any two the flash may end a     *)
(* write, and the program may be killed, in the middle of an instruction   *)
(* too and while the flash writes, and started again.                      *)
(***************************************************************************)
EXTENDS PciSpi

CONSTANTS Files,       \* the files there may be to write
          Tools,       \* which of the programs: "pci", "v4"
          Boards,      \* the device identities there may be
          Before,      \* what the flash may hold before
          OpSets,      \* the sets of options a run may have
          ReadLen,     \* option -l
          MaxKills     \* how often a program is killed

VARIABLES tool, board,         \* the program and the device
          ops,                 \* its options
          pc, body,            \* the next call, the accesses left of the current one
          reg, en,             \* the registers
          chip,                \* the flash
          bit_buf,             \* what bit_read takes from the file; <<>>: it does not return
          ready,               \* the flash did not write when the pins had been reset
          in,                  \* the byte spi_inb builds
          file,                \* the bytes read back
          kills
vars == <<tool, board, ops, pc, body, reg, en, chip, bit_buf, ready, in, file, kills>>

(***************************************************************************)
(* What differs in v4_pci_spi.c.                                           *)
(***************************************************************************)
v4_EnableBits == {"CLK_EN", "SEL_EN", "CMD_EN", "DAT_EN"}
v4_Driven(e, p) == (CASE p = "CLK" -> "CLK_EN" [] p = "SEL" -> "SEL_EN" [] p = "DO" -> "CMD_EN") \in e

v4_spi_enable == Enable("SEL_EN", 1) \o Enable("CLK_EN", 1) \o Enable("CMD_EN", 1)
                 \o Enable("DAT_EN", 0) \o Put("CLK", 0) \o Put("SEL", 1)
v4_spi_disable == Put("SEL", 0) \o Enable("SEL_EN", 0) \o Enable("CMD_EN", 0)
                  \o Enable("DAT_EN", 0) \o Enable("CLK_EN", 0)
v4_spi_sel == Put("SEL", 0)
v4_spi_unsel == Put("SEL", 1)
v4_spi_clearSCK == Put("CLK", 0)
v4_spi_setSCK == Put("CLK", 1)
v4_spi_bitMOSI(b) == Put("DO", b)
v4_spi_setMOSI == v4_spi_bitMOSI(1)
v4_spi_getMISO == <<[op |-> "get", pin |-> "DAT", val |-> 0]>>
v4_spi_reset == v4_spi_clearSCK \o v4_spi_setMOSI \o v4_spi_unsel \o v4_spi_unsel \o v4_spi_sel

(* Copies.                                                                  *)
v4_spi_sendDataBit(b) == v4_spi_clearSCK \o v4_spi_bitMOSI(b) \o v4_spi_setSCK \o v4_spi_clearSCK
v4_spi_RecDataBit == v4_spi_clearSCK \o v4_spi_setSCK \o v4_spi_getMISO \o v4_spi_clearSCK
v4_spi_outb(t) ==
    v4_spi_clearSCK \o FlattenSeq([i \in 1..W |-> v4_spi_sendDataBit(Bit(t, W - i))])
    \o v4_spi_setMOSI
v4_spi_inb ==
    v4_spi_clearSCK \o FlattenSeq([i \in 1..W |-> v4_spi_RecDataBit]) \o v4_spi_setMOSI
v4_spi_readID == spi_readID
v4_spi_ready == spi_ready
v4_spi_erase == Call("sel") \o Out(WREN) \o Call("unsel")
                \o Call("sel") \o Out(CHIPERASE) \o Call("unsel") \o v4_spi_ready
v4_WritePage(data, p) ==
    Call("sel") \o Out(WREN) \o Call("unsel")
    \o Call("sel") \o Out(PAGEPROG) \o Address(p * PAGESIZE)
    \o FlattenSeq([i \in 1..PageLen(data, p) |-> Out(data[p * PAGESIZE + i])])
    \o Call("unsel") \o v4_spi_ready
v4_spi_write(data) ==
    IF data = <<>> THEN Call("spin")
    ELSE FlattenSeq([p \in 1..Pages(data[1]) |-> v4_WritePage(data[1], p - 1)])
v4_spi_read(len) == spi_read(len)
v4_find_pci_device(id, b) == IF id = b THEN <<>> ELSE Call("spin")

(* It takes a board of either identity, but looks for the newer one first.  *)
v4_Options(o, len, data) ==
    (IF Ident \in o THEN v4_spi_readID ELSE <<>>) \o (IF Erase \in o THEN v4_spi_erase ELSE <<>>)
    \o (IF Write \in o THEN v4_spi_write(data) ELSE <<>>)
    \o (IF ReadBack \in o THEN v4_spi_read(len) ELSE <<>>)
v4_main(b, o, len, data) ==
    (IF Device \in o THEN <<>> ELSE v4_find_pci_device(9, b))
    \o (IF b \notin {3, 9} \/ o \subseteq {Device} THEN <<>>
        ELSE Watching(o) \o Call("enable") \o Call("reset") \o v4_Options(o, len, data)
             \o Call("disable"))

(***************************************************************************)
(* The system.                                                             *)
(***************************************************************************)
Program == IF tool = "pci" THEN main(board, ops, ReadLen, bit_buf)
           ELSE v4_main(board, ops, ReadLen, bit_buf)
Done == pc > Len(Program) /\ body = <<>>

Body(c) ==
    LET pci == tool = "pci"
    IN  CASE c.f = "sel"     -> IF pci THEN spi_sel ELSE v4_spi_sel
          [] c.f = "unsel"   -> IF pci THEN spi_unsel ELSE v4_spi_unsel
          [] c.f = "outb"    -> IF pci THEN spi_outb(c.b) ELSE v4_spi_outb(c.b)
          [] c.f \in {"inb", "fputc"} -> IF pci THEN spi_inb ELSE v4_spi_inb
          [] c.f = "enable"  -> IF pci THEN spi_enable ELSE v4_spi_enable
          [] c.f = "reset"   -> IF pci THEN spi_reset ELSE v4_spi_reset
          [] c.f = "disable" -> IF pci THEN spi_disable ELSE v4_spi_disable
          [] OTHER           -> <<>>

(* A line that is not driven floats high.                                   *)
Level(r, e, p) ==
    IF (IF tool = "pci" THEN Driven(e, p) ELSE v4_Driven(e, p)) THEN (IF p \in r THEN 1 ELSE 0)
    ELSE Floating

(* What the flash makes of a change of its lines.                           *)
Watch(r, e) ==
    LET was(p) == Level(reg, en, p)
        is(p)  == Level(r, e, p)
        c1 == CASE was("SEL") = 1 /\ is("SEL") = 0 -> CsLow(chip)
                [] was("SEL") = 0 /\ is("SEL") = 1 -> CsHigh(chip)
                [] OTHER                           -> chip
    IN  CASE was("CLK") = 0 /\ is("CLK") = 1 -> Rise(c1, is("DO"))
          [] was("CLK") = 1 /\ is("CLK") = 0 -> Fall(c1)
          [] OTHER                           -> c1

Init ==
    /\ tool \in Tools /\ board \in Boards /\ ops \in OpSets
    /\ pc = 1 /\ body = <<>> /\ reg \in {{}, {"SEL"}} /\ en = {}
    /\ \E before \in Before : chip = ChipAtRest(before)
    /\ \E f \in Files : bit_buf \in Readings(f)
    /\ ready = FALSE /\ in = 0 /\ file = <<>> /\ kills = 0

CallNextKeep ==                             \* faulty: spi_inb does not start from zero
    /\ body = <<>> /\ pc <= Len(Program)
    /\ LET c == Program[pc]
       IN  /\ c.f # "spin"
           /\ pc' = IF c.f = "whilebusy" /\ in % 2 = Busy THEN pc - c.b ELSE pc + 1
           /\ body' = Body(c)
    /\ UNCHANGED <<tool, board, bit_buf, ready, ops, reg, en, chip, in, file, kills>>
CallNext ==
    /\ body = <<>> /\ pc <= Len(Program)
    /\ LET c == Program[pc]
       IN  /\ c.f # "spin"
           /\ pc' = IF c.f = "whilebusy" /\ in % 2 = Busy THEN pc - c.b ELSE pc + 1
           /\ body' = Body(c)
           /\ in' = IF c.f \in {"inb", "fputc"} THEN 0 ELSE in
    /\ UNCHANGED <<tool, board, bit_buf, ready, ops, reg, en, chip, file, kills>>

With(S, p, v) == IF v = 1 THEN S \cup {p} ELSE S \ {p}

Access ==
    /\ body # <<>>
    /\ LET a == Head(body)
       IN  /\ reg' = IF a.op = "put" THEN With(reg, a.pin, a.val) ELSE reg
           /\ en' = IF a.op = "enable" THEN With(en, a.pin, a.val) ELSE en
           /\ in' = IF a.op = "get" THEN 2 * in + chip.q ELSE in
    /\ chip' = Watch(reg', en')
    /\ body' = Tail(body)
    /\ file' = IF body' = <<>> /\ Program[pc - 1].f = "fputc" THEN Append(file, in') ELSE file
    /\ ready' = IF body' = <<>> /\ Program[pc - 1].f = "reset" THEN ~chip'.busy ELSE ready
    /\ UNCHANGED <<tool, board, bit_buf, ops, pc, kills>>

WriteEnds ==
    /\ chip.busy /\ chip' = WriteDone(chip)
    /\ UNCHANGED <<tool, board, bit_buf, ready, ops, pc, body, reg, en, in, file, kills>>

(* The program is killed, wherever it is, and started again with options    *)
(* that may be others; the registers and the flash are as it left them.     *)
Kill ==
    /\ kills < MaxKills /\ ~Done
    /\ kills' = kills + 1 /\ ops' \in OpSets
    /\ pc' = 1 /\ body' = <<>> /\ ready' = FALSE /\ in' = 0 /\ file' = <<>>
    /\ UNCHANGED <<tool, board, bit_buf, reg, en, chip>>

Next == CallNext \/ Access \/ WriteEnds \/ Kill
Spec == Init /\ [][Next]_vars
FairSpec == Spec /\ WF_vars(CallNext) /\ WF_vars(Access) /\ WF_vars(WriteEnds)

-----------------------------------------------------------------------------
(***************************************************************************)
(* Properties.                                                             *)
(***************************************************************************)
TypeOK ==
    /\ tool \in {"pci", "v4"} /\ ops \subseteq Options /\ reg \subseteq Lines
    /\ en \subseteq (IF tool = "pci" THEN EnableBits ELSE v4_EnableBits)
    /\ pc \in 1..(Len(Program) + 1) /\ chip \in Chip
    /\ ready \in BOOLEAN /\ in \in Bytes /\ \A i \in DOMAIN file : file[i] \in Bytes

(* A program does something with the boards it knows only; it looks for one *)
(* of them, unless it is told where it is.                                  *)
Drives == board \in (IF tool = "pci" THEN {3} ELSE {3, 9})
(* And it ends, unless no key is in the file it is to write.                *)
Finds ==
    /\ Device \in ops \/ board = (IF tool = "pci" THEN 3 ELSE 9)
    /\ Drives => Sniffer \notin ops /\ (Write \in ops => bit_buf # <<>>)

Image == {Erase, Write} \subseteq ops /\ Drives =>
             \A a \in Cells : chip.mem[a] = IF a < Len(bit_buf[1]) THEN bit_buf[1][a + 1] ELSE Erased

(* A program that erases and writes leaves the configuration in the flash,  *)
(* every page of it and nothing after it, however long the flash takes for  *)
(* each write and whatever a program killed before had begun, half an       *)
(* instruction, a page, the erase: if that is over when the pins are reset. *)
ImageWritten == Done /\ ready => Image

(* The same of a program that comes while the flash still writes.  The wait *)
(* of pci_spi.c:486 is commented out: its erase is not heard, and this does *)
(* not hold.                                                                *)
ImageAlways == Done => Image

(* The flash hears every instruction: none is sent while it writes, when it *)
(* hears only the question for its status.                                  *)
HeardWhenReady == ready /\ chip.cs /\ chip.count > 0 => chip.cmd # NoCommand

(* So no step is lost on the way to the image, and none too many taken.     *)
WritesImage == TypeOK /\ HeardWhenReady /\ ImageWritten

(* What is read back is what the flash holds, bit for bit.                  *)
ReadsBack == ready => \A i \in DOMAIN file : file[i] = chip.mem[i - 1]

(* A program that finds its board and does not only watch the bus ends.     *)
Ends == Finds ~> (Done \/ ~Finds)
=============================================================================
