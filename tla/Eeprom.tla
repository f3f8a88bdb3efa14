------------------------------- MODULE Eeprom -------------------------------
(***************************************************************************)
(* The EEPROM of the board and the I2C port of its USB controller, as      *)
(* 24xx.c uses them through the registers I2CS and I2DAT.  A byte is one   *)
(* of SerialFlash.  The chip hears nothing while it writes a byte it has   *)
(* been sent, and then answers no select: who sends does not see that here.*)
(***************************************************************************)
EXTENDS SerialFlash

CONSTANT EepromSize
ASSUME EepromAssumption == EepromSize \in 1..(2 ^ (2 * W))

I2cCells == 0..(EepromSize - 1)
I2START == "start"
I2STOP == "stop"

(* How a chip is addressed: in two bytes, or with the high bits in the      *)
(* control byte.                                                            *)
ADDR_2 == 2
ADDR_3 == 3

(* st: what the next byte is; dat: the register I2DAT.                      *)
I2c == [st : {"deaf", "start", "high", "low", "value", "written", "read"}, style : {ADDR_2, ADDR_3},
        addr : I2cCells, latch : Bytes, dat : Bytes, busy : BOOLEAN, mem : [I2cCells -> Bytes]]
I2cAtRest(mem, style) ==
    [st |-> "deaf", style |-> style, addr |-> 0, latch |-> 0, dat |-> 0, busy |-> FALSE, mem |-> mem]

(* A byte on the bus.  A control byte names the chip, a direction and, for  *)
(* ADDR_2, high bits of the address.                                        *)
Control(read, high) == [chip |-> TRUE, read |-> read, v |-> high]
DataOut(b) == [chip |-> FALSE, read |-> FALSE, v |-> b]

I2cControl(c, b) ==
    CASE c.busy \/ ~b.chip -> [c EXCEPT !.st = "deaf"]
      [] b.read            -> [c EXCEPT !.st = "read"]
      [] c.style = ADDR_2  -> [c EXCEPT !.st = "low", !.addr = (b.v * 2 ^ W) % EepromSize]
      [] OTHER             -> [c EXCEPT !.st = "high"]
I2cByte(c, b) ==
    CASE c.st = "high"  -> [c EXCEPT !.st = "low", !.addr = (b.v * 2 ^ W) % EepromSize]
      [] c.st = "low"   -> [c EXCEPT !.st = "value", !.addr = (@ + b.v) % EepromSize]
      [] c.st = "value" -> [c EXCEPT !.st = "written", !.latch = b.v]
      [] OTHER          -> c

(* The registers: a condition on the bus; a byte out; a byte in, which      *)
(* starts the next one.                                                     *)
WriteI2CS(c, v) ==
    CASE v = I2START         -> [c EXCEPT !.st = "start"]
      [] c.st = "written"    -> [c EXCEPT !.st = "deaf", !.mem[c.addr] = c.latch, !.busy = TRUE]
      [] OTHER               -> [c EXCEPT !.st = "deaf"]
WriteI2DAT(c, b) == IF c.st = "start" THEN I2cControl(c, b) ELSE I2cByte(c, b)
ReadI2DAT(c) ==
    IF c.st # "read" THEN [c EXCEPT !.dat = Erased]
    ELSE [c EXCEPT !.dat = c.mem[c.addr], !.addr = (@ + 1) % EepromSize]
I2cWritten(c) == [c EXCEPT !.busy = FALSE]
=============================================================================
