------------------------------- MODULE PciSpi -------------------------------
(***************************************************************************)
(* software/src/pci_spi.c: a program on the host writes the serial flash   *)
(* of the board through one register of the FPGA, a bit of it for each pin.*)
(*                                                                         *)
(* A function of the program is the sequence of accesses to the register   *)
(* it makes; a function that calls others is the sequence of its calls.    *)
(* This module is the functions; V4PciSpi has those of the other program   *)
(* and runs either of them against the flash.                              *)
(***************************************************************************)
EXTENDS SerialFlash, BitFile, SequencesExt

Ident == "ident"
Erase == "erase"
Write == "write"
ReadBack == "read"
Sniffer == "sniff"
Device == "device"           \* -d: the device is named, not looked for
Options == {Ident, Erase, Write, ReadBack, Sniffer, Device}

(***************************************************************************)
(* Accesses: a bit of the level register or of an enable is set or         *)
(* cleared, or the input bit is read.                                      *)
(***************************************************************************)
Lines == {"CLK", "SEL", "DO"}
Put(p, v) == <<[op |-> "put", pin |-> p, val |-> v]>>
Enable(p, v) == <<[op |-> "enable", pin |-> p, val |-> v]>>

EnableBits == {"EN", "DO_EN", "DI_EN"}
Driven(en, p) == "EN" \in en /\ (p = "DO" => "DO_EN" \in en)

spi_enable == Enable("EN", 1) \o Put("CLK", 1) \o Enable("DO_EN", 1) \o Put("DO", 0)
spi_disable == Enable("EN", 0) \o Enable("DO_EN", 0) \o Enable("DI_EN", 0)
spi_sel == Put("SEL", 0)
spi_unsel == Put("SEL", 1)
spi_clearSCK == Put("CLK", 0)
spi_setSCK == Put("CLK", 1)
spi_bitMOSI(b) == Put("DO", b)
spi_setMOSI == spi_bitMOSI(1)
spi_getMISO == <<[op |-> "get", pin |-> "DI", val |-> 0]>>
spi_reset == spi_clearSCK \o spi_setMOSI \o spi_unsel \o spi_sel \o spi_unsel

spi_sendDataBit(b) == spi_clearSCK \o spi_bitMOSI(b) \o spi_setSCK \o spi_clearSCK
spi_RecDataBit == spi_clearSCK \o spi_setSCK \o spi_getMISO \o spi_clearSCK

spi_outbLow(t) ==                           \* faulty: the low bit first
    spi_clearSCK \o FlattenSeq([i \in 1..W |-> spi_sendDataBit(Bit(t, i - 1))]) \o spi_setMOSI
spi_outb(t) ==
    spi_clearSCK \o FlattenSeq([i \in 1..W |-> spi_sendDataBit(Bit(t, W - i))]) \o spi_setMOSI
spi_inb == spi_clearSCK \o FlattenSeq([i \in 1..W |-> spi_RecDataBit]) \o spi_setMOSI

(***************************************************************************)
(* Calls.  "fputc" is spi_inb and the byte put into the file; "whilebusy"  *)
(* goes back as many calls as b says while the status read last says busy. *)
(***************************************************************************)
Call(f) == <<[f |-> f, b |-> 0]>>
Out(b)  == <<[f |-> "outb", b |-> b]>>
WhileBusy(n) == <<[f |-> "whilebusy", b |-> n]>>

Digit(a, k) == (a \div 2 ^ (W * k)) % 2 ^ W
Address(a) == Out(Digit(a, 2)) \o Out(Digit(a, 1)) \o Out(Digit(a, 0))

spi_readID == Call("sel") \o Out(RDID) \o Call("inb") \o Call("unsel")
spi_readyOnce == Call("sel") \o Out(RDSR) \o Call("inb") \o Call("unsel")    \* faulty: no wait
spi_readyUnselected ==                      \* faulty: asks again without a new selection
    Call("sel") \o Out(RDSR) \o Call("inb") \o Call("unsel") \o WhileBusy(3)
spi_ready == Call("sel") \o Out(RDSR) \o Call("inb") \o Call("unsel") \o WhileBusy(4)
spi_erase == Call("sel") \o Out(WREN) \o Call("unsel")
             \o Call("sel") \o Out(CHIPERASE) \o Call("unsel") \o spi_ready

PageLen(data, p) == IF (p + 1) * PAGESIZE <= Len(data) THEN PAGESIZE ELSE Len(data) - p * PAGESIZE
WritePage(data, p) ==
    Call("sel") \o Out(WREN) \o Call("unsel")
    \o Call("sel") \o Out(PAGEPROG) \o Address(p * PAGESIZE)
    \o FlattenSeq([i \in 1..PageLen(data, p) |-> Out(data[p * PAGESIZE + i])])
    \o Call("unsel") \o spi_ready
PagesShort(data) == Len(data) \div PAGESIZE                     \* faulty: not rounded up
Pages(data) == (Len(data) + PAGESIZE - 1) \div PAGESIZE
spi_write_page(data) == FlattenSeq([p \in 1..Pages(data) |-> WritePage(data, p - 1)])
spi_write(data) == IF data = <<>> THEN Call("spin") ELSE spi_write_page(data[1])

spi_read(len) == Call("sel") \o Out(READ) \o Address(0)
                 \o FlattenSeq([i \in 1..len |-> Call("fputc")]) \o Call("unsel")

(***************************************************************************)
(* main.  find_pci_device reads the list of devices until it meets the one *)
(* it looks for: at the end of the list getline returns -1, which is not 0,*)
(* and it looks on for ever.                                               *)
(***************************************************************************)
find_pci_device(id, board) == IF id = board THEN <<>> ELSE Call("spin")

Options_main(ops, len, data) ==
    (IF Ident \in ops THEN spi_readID ELSE <<>>) \o (IF Erase \in ops THEN spi_erase ELSE <<>>)
    \o (IF Write \in ops THEN spi_write(data) ELSE <<>>)
    \o (IF ReadBack \in ops THEN spi_read(len) ELSE <<>>)
Watching(ops) == IF Sniffer \in ops THEN Call("disable") \o Call("spin") ELSE <<>>
main(board, ops, len, data) ==
    (IF Device \in ops THEN <<>> ELSE find_pci_device(3, board))
    \o (IF board # 3 \/ ops \subseteq {Device} THEN <<>>          \* an unknown device; the usage
        ELSE Watching(ops) \o Call("enable") \o Call("reset") \o Options_main(ops, len, data)
             \o Call("disable"))
=============================================================================
