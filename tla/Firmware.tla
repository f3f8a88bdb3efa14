------------------------------ MODULE Firmware ------------------------------
(***************************************************************************)
(* software/fw/fpga_control_fw.c: the firmware of the board's USB          *)
(* controller.  The host writes commands to its OUT endpoints and takes    *)
(* answers from its IN endpoints; the firmware drives the pins of the FPGA *)
(* and of the serial flash.                                                *)
(*                                                                         *)
(* usb_isr serves one interrupt at a time, in a fixed order, and is not    *)
(* interrupted: one action for each branch of it.  The data for the FPGA   *)
(* (OUT 3) is copied by the main loop, which usb_isr interrupts anywhere:  *)
(* one action for each byte, through the one auto pointer.                 *)
(***************************************************************************)
EXTENDS Eeprom, Sequences, SequencesExt

CONSTANTS Bitstream,   \* the bits that configure the FPGA
          Group,       \* 8: bytes the main loop copies at a time
          LogPacket,   \* 62: log bytes of an answer of IN 2
          LogMax       \* how many bytes the FPGA logs

VARIABLES buf,         \* the endpoint buffers: a message, or armed (OUT), empty (IN)
          irq,         \* IN07IRQ and OUT07IRQ
          pending,     \* ep1in_pending .. ep6in_pending
          ep6in_len,
          out3data,    \* packets of OUT 3 the main loop has not begun
          copying, left, autoptr,  \* the main loop inside endpoint3_out
          oec, outc,   \* port C: bits driven, bits high
          status,      \* FPGA_STATUS
          flash, fpga, eeprom, \* the chips
          fault        \* what is wrong with the FPGA: "none", "init" or "done"
fwvars == <<buf, irq, pending, ep6in_len, out3data, copying, left, autoptr, oec, outc, status,
            flash, fpga, eeprom, fault>>

(***************************************************************************)
(* Names.                                                                  *)
(***************************************************************************)
IsrOrder == <<"out1", "in1", "out2", "in2", "out3", "out4", "in4", "in6", "out6">>
Endpoints == {IsrOrder[i] : i \in DOMAIN IsrOrder}
Ins == {"in1", "in2", "in4", "in6"}

(* Port C.  Bit 0 is the mode pin of the FPGA and the select of the flash.  *)
SPI_SEL == "bit0"
FPGA_PROG_M0 == "bit0"
FPGA_PROG_B == "bit4"
SELECT == "bit6_7"
PortC == {SPI_SEL, FPGA_PROG_B, SELECT}
ERR_INIT_B == "err_init_b"
ERR_DONE == "err_done"
FPGA_BOOT == "boot"

SPI_READ == "read"
SPI_WRITE == "write"
SPI_INIT == "init"
E_I2CS == "i2cs"
E_I2DAT == "i2dat"
E_READ == "read"
SPI_CS_SEL == "sel"
SPI_CS_REL == "rel"
SPI_BOOT_FPGA == "boot"

(***************************************************************************)
(* The chips at the pins.  The FPGA takes what it is clocked as its        *)
(* configuration until that is complete, a bit or a byte at a time as its  *)
(* mode pin was when PROG_B rose, and then as data.                        *)
(***************************************************************************)
Blank == [serial |-> TRUE, conf |-> <<>>, data |-> <<>>, log |-> <<>>, logged |-> 0]
Configured(g) == g.conf = Bitstream
ProgLow(o, v) == FPGA_PROG_B \in o /\ FPGA_PROG_B \notin v
SelLow(o, v) == SPI_SEL \in o /\ SPI_SEL \notin v

BitsOf(bytes) == FlattenSeq([i \in DOMAIN bytes |-> [k \in 1..W |-> Bit(bytes[i], W - k)]])
FirstOf(seq, n) == IF Len(seq) < n THEN seq ELSE SubSeq(seq, 1, n)

FlashAt(f, o, v) ==
    CASE SelLow(o, v) /\ ~f.cs -> CsLow(f)
      [] ~SelLow(o, v) /\ f.cs -> CsHigh(f)
      [] OTHER                 -> f
FpgaAt(g, o, v) == IF ProgLow(o, v) THEN [g EXCEPT !.conf = <<>>] ELSE g
Clock(g, bytes) ==
    CASE ProgLow(oec, outc) -> g
      [] Configured(g)      -> [g EXCEPT !.data = @ \o bytes]
      [] OTHER              -> [g EXCEPT !.conf = FirstOf(@ \o (IF g.serial THEN bytes ELSE BitsOf(bytes)),
                                                         Len(Bitstream))]

(* What the pins of port C say.                                             *)
INIT_B(o, v) == fault = "init" \/ ~ProgLow(o, v)
DONE(g) == fault = "done" \/ Configured(g)

(***************************************************************************)
(* Sending: a buffer the host has not taken yet is left alone and the      *)
(* answer becomes due at the interrupt that says it has been taken.        *)
(***************************************************************************)
Rearmed(b, e) == [b EXCEPT ![e] = <<>>]
Served(e) == irq' = irq \ {e}
Serving(e) ==
    /\ e \in irq
    /\ \A i, j \in DOMAIN IsrOrder : IsrOrder[j] = e /\ i < j => IsrOrder[i] \notin irq
Answer(b, due, e, m) ==
    IF b[e] # <<>> THEN buf' = b /\ pending' = due \cup {e}
    ELSE buf' = [b EXCEPT ![e] = <<m>>] /\ pending' = due

ep1_info(o, v, g, st) == [oec |-> o, outc |-> v, done |-> DONE(g), status |-> st]

(***************************************************************************)
(* Endpoint 1: the pins, and their state.                                  *)
(***************************************************************************)
endpoint1_outAlways ==          \* faulty: answers without being asked
    /\ Serving("out1") /\ Served("out1")
    /\ LET m == Head(buf["out1"])
       IN  /\ oec' = IF m.oec # <<>> THEN Head(m.oec) ELSE oec
           /\ outc' = IF m.outc # <<>> THEN Head(m.outc) ELSE outc
           /\ flash' = FlashAt(flash, oec', outc') /\ fpga' = FpgaAt(fpga, oec', outc')
           /\ IF m.tog = "no"
              THEN Answer(Rearmed(buf, "out1"), pending, "in1", ep1_info(oec', outc', fpga', status))
              ELSE buf' = Rearmed(buf, "out1") /\ pending' = pending
    /\ UNCHANGED <<ep6in_len, out3data, copying, left, autoptr, status, eeprom, fault>>

endpoint1_out ==
    /\ Serving("out1") /\ Served("out1")
    /\ LET m == Head(buf["out1"])
       IN  /\ oec' = IF m.oec # <<>> THEN Head(m.oec) ELSE oec
           /\ outc' = IF m.outc # <<>> THEN Head(m.outc) ELSE outc
           /\ flash' = FlashAt(flash, oec', outc') /\ fpga' = FpgaAt(fpga, oec', outc')
           /\ IF m.tog = "no" /\ m.info
              THEN Answer(Rearmed(buf, "out1"), pending, "in1", ep1_info(oec', outc', fpga', status))
              ELSE buf' = Rearmed(buf, "out1") /\ pending' = pending
    /\ UNCHANGED <<ep6in_len, out3data, copying, left, autoptr, status, eeprom, fault>>

endpoint1_in ==
    /\ Serving("in1") /\ Served("in1")
    /\ IF "in1" \in pending THEN Answer(buf, pending \ {"in1"}, "in1", ep1_info(oec, outc, fpga, status))
       ELSE UNCHANGED <<buf, pending>>
    /\ UNCHANGED <<ep6in_len, out3data, copying, left, autoptr, oec, outc, status, flash, fpga, eeprom, fault>>

(***************************************************************************)
(* Endpoint 2: the log of the FPGA.  A byte may come between the end of    *)
(* the loop and the look at the pin that says whether there is more.       *)
(***************************************************************************)
LogByte == IF fpga.logged < LogMax THEN {<<>>, <<fpga.logged + 1>>} ELSE {<<>>}
send_ep2_infoDrops(b) ==        \* faulty: what does not fit is dropped
    \E late \in LogByte :
        /\ buf' = [b EXCEPT !["in2"] = <<FirstOf(fpga.log, LogPacket)>>] /\ autoptr' = "in2"
        /\ fpga' = [fpga EXCEPT !.log = late, !.logged = @ + Len(late)]
        /\ pending' = IF late # <<>> THEN pending \cup {"in2"} ELSE pending \ {"in2"}

send_ep2_info(b) ==
    IF b["in2"] # <<>>
    THEN buf' = b /\ pending' = pending \cup {"in2"} /\ UNCHANGED <<autoptr, fpga>>
    ELSE \E late \in LogByte :
           LET n    == IF Len(fpga.log) < LogPacket THEN Len(fpga.log) ELSE LogPacket
               rest == SubSeq(fpga.log, n + 1, Len(fpga.log)) \o late
           IN  /\ buf' = [b EXCEPT !["in2"] = <<SubSeq(fpga.log, 1, n)>>]
               /\ fpga' = [fpga EXCEPT !.log = rest, !.logged = @ + Len(late)]
               /\ pending' = IF rest # <<>> THEN pending \cup {"in2"} ELSE pending \ {"in2"}
               /\ autoptr' = "in2"

endpoint2_out ==
    /\ Serving("out2") /\ Served("out2")
    /\ send_ep2_info(Rearmed(buf, "out2"))
    /\ UNCHANGED <<ep6in_len, out3data, copying, left, oec, outc, status, flash, eeprom, fault>>

endpoint2_in ==
    /\ Serving("in2") /\ Served("in2")
    /\ IF "in2" \in pending THEN send_ep2_info(buf) ELSE UNCHANGED <<buf, pending, autoptr, fpga>>
    /\ UNCHANGED <<ep6in_len, out3data, copying, left, oec, outc, status, flash, eeprom, fault>>

(***************************************************************************)
(* Endpoint 3: usb_isr counts the packet, the main loop copies it, in      *)
(* whole groups, and arms the endpoint again.                              *)
(***************************************************************************)
endpoint3_isrTwice ==           \* faulty: the request stays
    /\ Serving("out3") /\ irq' = irq
    /\ out3data' = out3data + 1
    /\ UNCHANGED <<buf, pending, ep6in_len, copying, left, autoptr, oec, outc, status, flash, fpga, eeprom, fault>>

endpoint3_isr ==
    /\ Serving("out3") /\ Served("out3")
    /\ out3data' = out3data + 1
    /\ UNCHANGED <<buf, pending, ep6in_len, copying, left, autoptr, oec, outc, status, flash, fpga, eeprom, fault>>

main_beginShort ==              \* faulty: one group too few of a long packet
    /\ ~copying /\ out3data > 0
    /\ out3data' = out3data - 1 /\ copying' = TRUE
    /\ left' = ((Len(Head(buf["out3"])) - 1) \div Group) * Group /\ autoptr' = "out3"
    /\ UNCHANGED <<buf, irq, pending, ep6in_len, oec, outc, status, flash, fpga, eeprom, fault>>

main_begin ==
    /\ ~copying /\ out3data > 0
    /\ out3data' = out3data - 1 /\ copying' = TRUE
    /\ left' = (Len(Head(buf["out3"])) \div Group) * Group /\ autoptr' = "out3"
    /\ UNCHANGED <<buf, irq, pending, ep6in_len, oec, outc, status, flash, fpga, eeprom, fault>>

(* Where the pointer is when usb_isr has had it meanwhile: behind the log   *)
(* bytes it has put into its own buffer.                                    *)
Junk == 0
main_copyBack ==                \* faulty: the last byte first
    /\ copying /\ left > 0
    /\ fpga' = Clock(fpga, <<Head(buf["out3"])[left]>>)
    /\ left' = left - 1
    /\ UNCHANGED <<buf, irq, pending, ep6in_len, out3data, copying, autoptr, oec, outc, status,
                   flash, eeprom, fault>>

main_copy ==
    /\ copying /\ left > 0
    /\ LET m  == Head(buf["out3"])
           at == (Len(m) \div Group) * Group - left + 1
       IN  fpga' = Clock(fpga, <<IF autoptr = "out3" THEN m[at] ELSE Junk>>)
    /\ left' = left - 1
    /\ UNCHANGED <<buf, irq, pending, ep6in_len, out3data, copying, autoptr, oec, outc, status,
                   flash, eeprom, fault>>

main_rearmNot ==                \* faulty: the endpoint is not armed again
    /\ copying /\ left = 0
    /\ copying' = FALSE /\ buf' = buf
    /\ UNCHANGED <<irq, pending, ep6in_len, out3data, left, autoptr, oec, outc, status, flash, fpga, eeprom, fault>>

main_rearm ==
    /\ copying /\ left = 0
    /\ copying' = FALSE /\ buf' = Rearmed(buf, "out3")
    /\ UNCHANGED <<irq, pending, ep6in_len, out3data, left, autoptr, oec, outc, status, flash, fpga, eeprom, fault>>

main == main_begin \/ main_copy \/ main_rearm

(***************************************************************************)
(* Endpoint 4: the I2C bus, one access to its registers at a time.  That   *)
(* nobody acknowledged a byte is in I2CS, and is not looked at.            *)
(***************************************************************************)
send_ep4_data(b, due, c, asked) ==
    IF asked THEN /\ Answer(b, due, "in4", <<c.dat>>)
                  /\ eeprom' = (IF b["in4"] # <<>> THEN c ELSE ReadI2DAT(c))
    ELSE buf' = b /\ pending' = due /\ eeprom' = c

endpoint4_out ==
    /\ Serving("out4") /\ Served("out4")
    /\ LET m  == Head(buf["out4"])
           c1 == IF E_I2CS \in m.control THEN WriteI2CS(eeprom, m.i2cs) ELSE eeprom
           c2 == IF E_I2DAT \in m.control THEN WriteI2DAT(c1, m.i2dat) ELSE c1
       IN  send_ep4_data(Rearmed(buf, "out4"), pending, c2, E_READ \in m.control)
    /\ UNCHANGED <<ep6in_len, out3data, copying, left, autoptr, oec, outc, status, flash, fpga, fault>>

endpoint4_in ==
    /\ Serving("in4") /\ Served("in4")
    /\ send_ep4_data(buf, pending \ {"in4"}, eeprom, "in4" \in pending)
    /\ UNCHANGED <<ep6in_len, out3data, copying, left, autoptr, oec, outc, status, flash, fpga, fault>>

(***************************************************************************)
(* Endpoint 6: the serial flash.  A byte goes out high bit first; the byte *)
(* that comes back meanwhile is the reply the flash had ready.             *)
(***************************************************************************)
Value(x, Op(_)) == CHOOSE y \in {Op(v) : v \in {x}} : TRUE     \* Op(x), with x evaluated once
spi_send_byte(f, t) == IF f.cs THEN ByteIn([f EXCEPT !.sh = t], t) ELSE f
spi_send(f, bytes) ==
    LET after[i \in 0..Len(bytes)] ==
            IF i = 0 THEN f ELSE Value(after[i - 1], LAMBDA g : spi_send_byte(g, bytes[i]))
    IN  after[Len(bytes)]
spi_recv_byte(f) == IF f.cs THEN f.reply ELSE Erased

(* n bytes received, with MOSI high.                                        *)
spi_recv(f, n) ==
    LET after[i \in 0..n] ==
            IF i = 0 THEN [f |-> f, got |-> <<>>]
            ELSE Value(after[i - 1], LAMBDA r : [f   |-> spi_send_byte(r.f, Erased),
                                                 got |-> Append(r.got, spi_recv_byte(r.f))])
    IN  after[n]

spi_reset(s) ==
    [s EXCEPT !.oec = @ \cup {SPI_SEL}, !.outc = @ \cup {SPI_SEL},
              !.flash = CsHigh(CsLow(IF s.flash.cs THEN CsHigh(s.flash) ELSE s.flash))]

(* spi_boot_fpga clears the configuration and looks whether the FPGA says   *)
(* so; if it does not, PROG_B stays low.                                    *)
spi_boot_fpgaHigh(s, serial) == \* faulty: PROG_B is never low
    LET r == spi_reset(s)
    IN  [r EXCEPT !.oec = @ \cup {FPGA_PROG_M0, FPGA_PROG_B}, !.outc = @ \cup {FPGA_PROG_B, FPGA_PROG_M0},
                  !.fpga.serial = serial, !.status = {}]

spi_boot_fpga(s, serial) ==
    LET r   == spi_reset(s)
        low == [r EXCEPT !.oec = @ \cup {FPGA_PROG_M0, FPGA_PROG_B}, !.outc = @ \ {FPGA_PROG_B},
                         !.fpga.conf = <<>>, !.status = {}]
    IN  CASE INIT_B(low.oec, low.outc) -> [low EXCEPT !.status = {ERR_INIT_B}]
          [] DONE(low.fpga)                      -> [low EXCEPT !.status = {ERR_DONE}]
          [] OTHER -> [low EXCEPT !.outc = @ \cup {FPGA_PROG_B, FPGA_PROG_M0},
                                         !.fpga.serial = serial,
                                         !.flash = IF serial THEN @ ELSE CsHigh(CsLow(@))]

(* The flash is read from its start, and the FPGA listens.  The flash stays *)
(* selected.                                                                *)
FromFlash(f, g) ==
    LET all == [i \in 1..FlashSize |-> IF f.cmd = READ THEN f.mem[(f.addr + i - 1) % FlashSize] ELSE Erased]
    IN  [g EXCEPT !.conf = FirstOf(BitsOf(all), Len(Bitstream))]
spi_read_flash(s) ==
    LET v == s.outc \ {FPGA_PROG_M0}
    IN  Value(spi_send(FlashAt(s.flash, s.oec, v), <<READ, 0, 0, 0>>), LAMBDA f :
        Value(IF ProgLow(s.oec, v) \/ Configured(s.fpga) THEN s.fpga ELSE FromFlash(f, s.fpga), LAMBDA g :
              [s EXCEPT !.outc = v, !.flash = f, !.fpga = g,
                        !.status = IF DONE(g) THEN @ \cup {FPGA_BOOT} ELSE @]))

Select(s, v) == [s EXCEPT !.outc = v, !.flash = FlashAt(@, s.oec, v)]

(* A command: boot, reset, select, send, receive if the buffer is free,     *)
(* release, each when it is asked for, in this order.                       *)
Booted(s, m) ==
    IF SPI_BOOT_FPGA \notin m.control THEN s
    ELSE Value(spi_boot_fpga(s, m.serial), LAMBDA b : IF m.din > 0 THEN spi_read_flash(b) ELSE b)
Initialised(s, m) == IF SPI_INIT \in m.control THEN spi_reset(s) ELSE s
Selected(s, m) == IF SPI_CS_SEL \in m.control THEN Select(s, s.outc \ {SPI_SEL}) ELSE s
Sent(s, m) == IF SPI_WRITE \in m.control THEN [s EXCEPT !.flash = spi_send(@, m.dout)] ELSE s
Released(s, m) == IF SPI_CS_REL \in m.control THEN Select(s, s.outc \cup {SPI_SEL}) ELSE s

endpoint6_out ==
    /\ Serving("out6") /\ Served("out6")
    /\ \E m \in {Head(buf["out6"])} :
       \E b \in {Booted([flash |-> flash, fpga |-> fpga, oec |-> oec, outc |-> outc, status |-> status], m)} :
       \E s \in {Sent(Selected(Initialised(b, m), m), m)} :
       \E r \in {spi_recv(s.flash, m.din)} :
       \E e \in {Released(IF SPI_READ \in m.control /\ buf["in6"] = <<>> THEN [s EXCEPT !.flash = r.f] ELSE s, m)} :
           /\ flash' = e.flash /\ fpga' = e.fpga /\ oec' = e.oec /\ outc' = e.outc
           /\ status' = e.status
           /\ ep6in_len' = IF SPI_READ \in m.control THEN m.din ELSE ep6in_len
           /\ IF SPI_READ \in m.control THEN Answer(Rearmed(buf, "out6"), pending, "in6", r.got)
              ELSE buf' = Rearmed(buf, "out6") /\ pending' = pending
           /\ autoptr' = IF SPI_BOOT_FPGA \in m.control /\ m.din > 0 THEN "flash" ELSE autoptr
    /\ UNCHANGED <<out3data, copying, left, eeprom, fault>>

endpoint6_in ==
    /\ Serving("in6") /\ Served("in6")
    /\ IF "in6" \in pending
       THEN LET r == spi_recv(flash, ep6in_len)
            IN  flash' = r.f /\ Answer(buf, pending \ {"in6"}, "in6", r.got)
       ELSE UNCHANGED <<buf, pending, flash>>
    /\ UNCHANGED <<ep6in_len, out3data, copying, left, autoptr, oec, outc, status, fpga, eeprom, fault>>

(***************************************************************************)
(* The firmware starts: it boots the FPGA from the flash.                  *)
(***************************************************************************)
PowerOn(mem, chip) ==
    LET off == [flash |-> ChipAtRest(mem), fpga |-> Blank, oec |-> {SELECT}, outc |-> {}, status |-> {}]
        on  == Value(spi_boot_fpga(off, TRUE), spi_read_flash)
    IN  /\ eeprom = chip /\ flash = on.flash /\ fpga = on.fpga /\ oec = on.oec /\ outc = on.outc /\ status = on.status
        /\ buf = [e \in Endpoints |-> <<>>] /\ irq = {} /\ pending = {} /\ ep6in_len = 0
        /\ out3data = 0 /\ copying = FALSE /\ left = 0 /\ autoptr = "flash"

usb_isr == endpoint1_out \/ endpoint1_in \/ endpoint2_out \/ endpoint2_in \/ endpoint3_isr
           \/ endpoint4_out \/ endpoint4_in \/ endpoint6_out \/ endpoint6_in

(* The chips on their own.                                                  *)
FlashWrites ==
    /\ flash.busy /\ flash' = WriteDone(flash)
    /\ UNCHANGED <<buf, irq, pending, ep6in_len, out3data, copying, left, autoptr, oec, outc, status,
                   fpga, eeprom, fault>>
EepromWrites ==
    /\ eeprom.busy /\ eeprom' = I2cWritten(eeprom)
    /\ UNCHANGED <<buf, irq, pending, ep6in_len, out3data, copying, left, autoptr, oec, outc, status,
                   flash, fpga, fault>>
FpgaLogs ==
    /\ Configured(fpga) /\ fpga.logged < LogMax
    /\ fpga' = [fpga EXCEPT !.log = Append(@, fpga.logged + 1), !.logged = @ + 1]
    /\ UNCHANGED <<buf, irq, pending, ep6in_len, out3data, copying, left, autoptr, oec, outc, status,
                   flash, eeprom, fault>>

Idle == irq = {} /\ out3data = 0 /\ ~copying
=============================================================================
