----------------------------- MODULE SerialFlash ----------------------------
(***************************************************************************)
(* The serial flash of the board (an M25P part), as far as the programs    *)
(* that write it use it: software/src/spi.c through the USB firmware,      *)
(* pci_spi.c and v4_pci_spi.c through registers of the FPGA.  A chip is a  *)
(* record; the operators are what a change of one of its pins does to it.  *)
(* A byte has W bits, which leaves the commands their low three bits.      *)
(***************************************************************************)
EXTENDS Integers, Bitwise

CONSTANTS W,            \* bits of a byte
          FlashSize     \* bytes of the flash

ASSUME FlashAssumption == W >= 3 /\ FlashSize % 2 ^ W = 0

Bytes == 0..(2 ^ W - 1)
Erased == 2 ^ W - 1
PAGESIZE == 2 ^ W       \* 256: the last byte of an address counts inside a page
Cells == 0..(FlashSize - 1)

RDID == 1
PAGEPROG == 2
READ == 3
RDSR == 5
WREN == 6
CHIPERASE == 7
Id == 4                 \* what RDID answers
Busy == 1
Wel == 2     \* status bits
NoCommand == -1

(* Bit i of a byte, and a line nobody drives.                               *)
Bit(b, i) == (b \div 2 ^ i) % 2
Floating == 1

Chip == [cs : BOOLEAN, n : 0..(W - 1), sh : Bytes, q : {0, 1}, count : 0..(5 + PAGESIZE),
         cmd : Bytes \cup {NoCommand}, addr : Cells, reply : Bytes,
         latch : [0..(PAGESIZE - 1) -> Bytes], wel : BOOLEAN, busy : BOOLEAN,
         mem : [Cells -> Bytes]]

Unlatched == [i \in 0..(PAGESIZE - 1) |-> Erased]
ChipAtRest(mem) ==
    [cs |-> FALSE, n |-> 0, sh |-> 0, q |-> Floating, count |-> 0, cmd |-> NoCommand, addr |-> 0,
     reply |-> Erased, latch |-> Unlatched, wel |-> FALSE, busy |-> FALSE, mem |-> mem]

Status(c) == (IF c.busy THEN Busy ELSE 0) + (IF c.wel THEN Wel ELSE 0)
PageOf(a) == a \div PAGESIZE

(* Chip select falls: a new instruction.                                    *)
CsLow(c) ==
    IF c.cs THEN c
    ELSE [c EXCEPT !.cs = TRUE, !.n = 0, !.sh = 0, !.count = 0, !.cmd = NoCommand, !.addr = 0,
                   !.reply = Erased, !.latch = Unlatched]

(* A whole byte is in.  A busy chip hears RDSR only.                        *)
Command(c, b) ==
    LET cmd == IF c.busy /\ b # RDSR THEN NoCommand ELSE b
    IN  [c EXCEPT !.cmd = cmd,
                  !.reply = CASE cmd = RDSR -> Status(c) [] cmd = RDID -> Id [] OTHER -> Erased]
AddressByte(c, b) ==
    LET a == (c.addr * 2 ^ W + b) % FlashSize
    IN  [c EXCEPT !.addr = a, !.reply = IF c.cmd = READ /\ c.count = 3 THEN c.mem[a] ELSE @]
DataByte(c, b) ==
    LET next == (c.addr + 1) % FlashSize
    IN  CASE c.cmd = READ     -> [c EXCEPT !.addr = next, !.reply = c.mem[next]]
          [] c.cmd = PAGEPROG -> [c EXCEPT !.latch[c.addr % PAGESIZE] = b,
                                           !.addr = PageOf(@) * PAGESIZE + (next % PAGESIZE)]
          [] OTHER            -> c
ByteIn(c, b) ==
    LET d == CASE c.count = 0                              -> Command(c, b)
               [] c.cmd = RDSR                             -> [c EXCEPT !.reply = Status(c)]
               [] c.cmd \in {READ, PAGEPROG} /\ c.count < 4 -> AddressByte(c, b)
               [] OTHER                                    -> DataByte(c, b)
    IN  [d EXCEPT !.count = IF @ < 5 + PAGESIZE THEN @ + 1 ELSE @]

(* The clock rises: the chip takes a bit; it falls: the chip shows one.     *)
Rise(c, b) ==
    LET sh == (2 * c.sh + b) % 2 ^ W
        d  == [c EXCEPT !.sh = sh, !.n = (@ + 1) % W]
    IN  IF ~c.cs THEN c ELSE IF d.n = 0 THEN ByteIn(d, sh) ELSE d
Fall(c) == [c EXCEPT !.q = IF c.cs THEN Bit(c.reply, W - 1 - c.n) ELSE Floating]

(* Chip select rises: instructions that write take effect, at the end of a  *)
(* byte and when they are allowed.                                          *)
Programmed(c) ==
    [a \in Cells |-> IF PageOf(a) = PageOf(c.addr)
                     THEN c.mem[a] & c.latch[a % PAGESIZE] ELSE c.mem[a]]
CsHigh(c) ==
    LET d == [c EXCEPT !.cs = FALSE, !.cmd = NoCommand]
    IN  CASE ~c.cs \/ c.n # 0                       -> d
          [] c.cmd = WREN /\ c.count = 1            -> [d EXCEPT !.wel = TRUE]
          [] c.cmd = PAGEPROG /\ c.count > 4 /\ c.wel
               -> [d EXCEPT !.mem = Programmed(c), !.busy = TRUE]
          [] c.cmd = CHIPERASE /\ c.count = 1 /\ c.wel
               -> [d EXCEPT !.mem = [a \in Cells |-> Erased], !.busy = TRUE]
          [] OTHER                                  -> d

(* The cycle of a write ends inside the chip.                               *)
WriteDone(c) == [c EXCEPT !.busy = FALSE, !.wel = FALSE]
=============================================================================
