------------------------------ MODULE UsbTools ------------------------------
(***************************************************************************)
(* The programs on the host that talk to the firmware: software/src/spi.c  *)
(* (the serial flash), fw.c with fpga.c (the FPGA) and 24xx.c with i2c.c   *)
(* (the EEPROM), and the system of programs, firmware and chips.           *)
(*                                                                         *)
(* A program is the sequence of its USB transfers; a transfer is a step:   *)
(* an OUT waits until the firmware has armed the endpoint, an IN until     *)
(* there is an answer.  A session is programs one after the other; each    *)
(* may be killed.                                                          *)
(***************************************************************************)
EXTENDS Firmware, BitFile

CONSTANTS Scenarios,     \* [session : programs one after the other, file : the configuration file,
                         \*  flash : what it holds first, fault : what is wrong with the FPGA,
                         \*  style : of the EEPROM, quick : it has written a byte before it is
                         \*  sent the next one]
          SPI_MAX_SIZE,  \* 48: bytes of data in a command
          Packet,        \* 64: bytes of a packet of endpoint 3
          EepromFile,    \* the file 24xx writes
          EepromMem,     \* what the EEPROM holds at first
          FifoData,      \* what fw -w writes
          ReadLen,       \* bytes spi -R reads
          MaxRounds,     \* how often fw -P asks for the log
          MaxKills,      \* how many programs are killed
          Prompt         \* the controller serves each packet at once

VARIABLES quick,         \* of the scenario
          session,       \* the programs that have not ended
          bit_buf,       \* what bit_read returns; <<>>: it does not
          scripts,       \* their transfers
          pc,            \* the next transfer
          reply,         \* the last answer
          save,          \* ep_save.OUTC
          got,           \* the bytes the program has read: flash, or log
          part,          \* what the log read has taken so far
          lost,          \* what reads had taken that timed out or were killed
          says,          \* what it printed
          rounds, kills
hostvars == <<quick, session, bit_buf, scripts, pc, reply, save, got, part, lost, says, rounds, kills>>
vars == <<fwvars, hostvars>>

(***************************************************************************)
(* Transfers.                                                              *)
(***************************************************************************)
Transfer(k, ep, m) == <<[k |-> k, ep |-> ep, m |-> m]>>
Out(ep, m) == Transfer("out", ep, m)
In(ep) == Transfer("in", ep, <<>>)
Back(cond, n) == Transfer(cond, "none", n)
Do(p) == Transfer(p, "none", <<>>)

Ep1(info, tog) == [info |-> info, tog |-> tog, oec |-> <<>>, outc |-> <<>>]
TOG_INIT == Out("out1", Ep1(FALSE, "init"))
TOG_EXIT == Out("out1", Ep1(FALSE, "exit"))
Ep6(control, dout, din) ==
    Out("out6", [control |-> control, dout |-> dout, din |-> din, serial |-> TRUE])
Command1(dout, din) ==
    Ep6({SPI_WRITE, SPI_CS_SEL, SPI_CS_REL} \cup (IF din > 0 THEN {SPI_READ} ELSE {}), dout, din)
    \o (IF din > 0 THEN In("in6") ELSE <<>>)

Digit(a, k) == (a \div 2 ^ (W * k)) % 2 ^ W
AddressOf(a) == <<Digit(a, 2), Digit(a, 1), Digit(a, 0)>>
AtMost(a, b) == IF a < b THEN a ELSE b
(* A sequence in pieces of n.                                               *)
Pieces(seq, n) ==
    [i \in 1..((Len(seq) + n - 1) \div n) |-> SubSeq(seq, (i - 1) * n + 1, AtMost(i * n, Len(seq)))]

(***************************************************************************)
(* spi.c.                                                                  *)
(***************************************************************************)
spiInit == TOG_INIT \o Ep6({SPI_INIT}, <<>>, 0)
spiCleanUp == TOG_EXIT
spiBootFpga == Ep6({SPI_BOOT_FPGA}, <<>>, 1)
spiflashGetID == Command1(<<RDID>>, 1)
spi_statusOnce == Command1(<<RDSR>>, 1)             \* faulty: does not wait
spi_status == Command1(<<RDSR>>, 1) \o Back("whilebusy", 2)

spiflashReadHead(len) ==                            \* faulty: the address stays
    LET sizes == Pieces([i \in 1..len |-> i - 1], SPI_MAX_SIZE)
    IN  FlattenSeq([i \in DOMAIN sizes |->
            Command1(<<READ>> \o AddressOf(0), Len(sizes[i])) \o Transfer("memcpy", "none", <<>>)])

spiflashRead(len) ==
    LET sizes == Pieces([i \in 1..len |-> i - 1], SPI_MAX_SIZE)
    IN  FlattenSeq([i \in DOMAIN sizes |->
            Command1(<<READ>> \o AddressOf(Head(sizes[i])), Len(sizes[i])) \o Transfer("memcpy", "none", <<>>)])

WritePage(data, page) ==
    LET pagelen == AtMost(PAGESIZE, Len(data) - page * PAGESIZE)
        chunks  == Pieces(SubSeq(data, page * PAGESIZE + 1, page * PAGESIZE + pagelen), SPI_MAX_SIZE)
    IN  Command1(<<WREN>>, 0)
        \o Ep6({SPI_WRITE, SPI_CS_SEL}, <<PAGEPROG>> \o AddressOf(page * PAGESIZE), 0)
        \o FlattenSeq([i \in DOMAIN chunks |-> Ep6({SPI_WRITE}, chunks[i], 0)])
        \o Ep6({SPI_CS_REL}, <<>>, 0) \o spi_status
spiflashWrite(data) ==
    FlattenSeq([p \in 1..((Len(data) + PAGESIZE - 1) \div PAGESIZE) |-> WritePage(data, p - 1)])

spiflashChipErase == Command1(<<WREN>>, 0) \o Command1(<<CHIPERASE>>, 0) \o spi_status

(* main: the options are done as they are parsed, the comparison at the     *)
(* end; the option to boot the FPGA leaves at once.                         *)
Option(o, len, data) ==
    CASE o = "E" -> spiflashChipErase
      [] o = "R" -> spiflashRead(len)
      [] o = "W" -> IF data = <<>> THEN Do("spin") ELSE spiflashWrite(data[1])
      [] o = "B" -> spiBootFpga \o Do("exit")
      [] o = "C" -> <<>>
LenAt(opts, i, data) ==
    IF data # <<>> /\ \E j \in 1..(i - 1) : opts[j] = "W" THEN Len(data[1]) ELSE ReadLen
spi_main(opts, data) ==
    spiInit \o spiflashGetID \o spiInit \o Back("whilenoid", 6) \o spi_status
    \o FlattenSeq([i \in DOMAIN opts |-> Option(opts[i], LenAt(opts, i, data), data)])
    \o (CASE "C" \notin {opts[i] : i \in DOMAIN opts} -> <<>>
          [] data = <<>> -> Do("spin")
          [] OTHER -> Do("again") \o spiflashRead(Len(data[1])) \o Do("memcmp"))
    \o spiCleanUp

(***************************************************************************)
(* fpga.c.                                                                 *)
(***************************************************************************)
fpga_write_ep1(m) == Out("out1", m)
fpga_read_ep1 == In("in1")
bufcopy(src, serial) == IF serial THEN BitsOf(src) ELSE src
InPackets(bytes) ==
    FlattenSeq([i \in DOMAIN Pieces(bytes, Packet) |-> Out("out3", Pieces(bytes, Packet)[i])])
BootFpga(serial) == Out("out6", [control |-> {SPI_BOOT_FPGA}, dout |-> <<>>, din |-> 0, serial |-> serial])
Finished == fpga_write_ep1([Ep1(TRUE, "no") EXCEPT !.oec = <<{}>>]) \o fpga_read_ep1 \o Do("done?")

fpga_load_imageBlind(data, serial) ==               \* faulty: the status is not looked at
    IF data = <<>> THEN Do("spin")
    ELSE BootFpga(serial) \o InPackets(bufcopy(data[1], serial)) \o Finished

fpga_load_image(data, serial) ==
    IF data = <<>> THEN Do("spin")
    ELSE BootFpga(serial) \o fpga_write_ep1(Ep1(TRUE, "no")) \o fpga_read_ep1 \o Do("ifstatus")
         \o InPackets(bufcopy(data[1], serial)) \o Finished

(***************************************************************************)
(* fw.c.  Its options are a set of bits, looked at one after the other: -f *)
(* leaves, -E, -w, -r and -P are each done when they are there.  (-E and -P *)
(* clear the set first, so they do not come together.)  -P goes on after a *)
(* read that has failed, -r does not.  -E has one byte for the FPGA, which *)
(* makes no group.                                                         *)
(***************************************************************************)
WriteSave(bits) == Transfer("save", "out1", bits)
FromFifo(failed) == Out("out2", "from_fifo") \o Transfer("bulk", "in2", failed)
Exec == WriteSave({SELECT}) \o Out("out3", <<Junk>>)
WriteFifo == WriteSave({SELECT}) \o InPackets(FifoData)
ReadFifo == WriteSave({SELECT}) \o FromFifo("return")
LogFifo == FromFifo("continue") \o Back("whilerun", 2)

fw_main(op, data) ==
    LET When(o, transfers) == IF o \in op THEN transfers ELSE <<>>
    IN  TOG_INIT \o Out("out1", Ep1(TRUE, "no")) \o In("in1") \o Do("ep_save")
        \o (IF "E" \in op THEN <<>> ELSE WriteSave({SELECT}) \o WriteSave({}))
        \o (IF op \cap {"f0", "f1"} # {} THEN fpga_load_image(data, "f1" \in op)
            ELSE When("E", Exec) \o When("w", WriteFifo) \o When("r", ReadFifo) \o When("P", LogFifo))
        \o TOG_EXIT

(***************************************************************************)
(* i2c.c and 24xx.c.  i2cSendByte says that the byte was acknowledged,     *)
(* whatever became of it, so that a write is never waited for.             *)
(***************************************************************************)
Ep4(control, i2cs, i2dat) == Out("out4", [control |-> control, i2cs |-> i2cs, i2dat |-> i2dat])
i2cStart == Ep4({E_I2CS}, I2START, DataOut(0))
i2cStop == Ep4({E_I2CS}, I2STOP, DataOut(0))
i2cSendByte(b) == Ep4({E_I2DAT}, "no", b)
i2cReadByte == Ep4({E_READ}, "no", DataOut(0)) \o In("in4")

Filling == 2
devices == [c21 |-> [style |-> ADDR_2, preClock |-> TRUE], c64 |-> [style |-> ADDR_3, preClock |-> FALSE]]
preClock(d) == IF d.preClock THEN i2cSendByte(DataOut(0)) ELSE <<>>
(* The bits that go into the control byte are selected and shifted so that  *)
(* they land above its lowest bit.                                          *)
High(d, a) == IF d.style = ADDR_2 THEN Digit(a, 1) ELSE 0
SetAddressSwapped(d, a) ==                          \* faulty: the low byte first
    i2cStart \o i2cSendByte(Control(FALSE, High(d, a)))
    \o i2cSendByte(DataOut(Digit(a, 0)))
    \o (IF d.style = ADDR_3 THEN i2cSendByte(DataOut(Digit(a, 1))) ELSE <<>>)
SetAddress(d, a) ==
    i2cStart \o i2cSendByte(Control(FALSE, High(d, a)))
    \o (IF d.style = ADDR_3 THEN i2cSendByte(DataOut(Digit(a, 1))) ELSE <<>>) \o i2cSendByte(DataOut(Digit(a, 0)))

readRandomAll(d, a, len) ==                         \* faulty: the first byte is not skipped
    preClock(d) \o SetAddress(d, a) \o i2cStart \o i2cSendByte(Control(TRUE, High(d, a)))
    \o FlattenSeq([i \in 1..len |-> i2cReadByte \o Do("memcpy")]) \o i2cStop
readRandom(d, a, len) ==
    preClock(d) \o SetAddress(d, a) \o i2cStart \o i2cSendByte(Control(TRUE, High(d, a)))
    \o i2cReadByte
    \o FlattenSeq([i \in 1..len |-> i2cReadByte \o Do("memcpy")]) \o i2cStop
writeByte(d, a, value) ==
    preClock(d) \o SetAddress(d, a) \o i2cSendByte(DataOut(value)) \o i2cStop
    \o i2cStart \o i2cSendByte(Control(FALSE, High(d, a))) \o i2cStop
writeRandom(d, a, data) ==
    FlattenSeq([i \in DOMAIN data |-> writeByte(d, a + i - 1, data[i])]) \o writeByte(d, a, data[1])
dumpToFile(d) == Do("again") \o readRandom(d, 0, EepromSize)
fill(d, b) == FlattenSeq([i \in 1..EepromSize |-> writeByte(d, i - 1, b)])
programFromFile(d) == writeRandom(d, 0, EepromFile)

EepromCommand(c, d) ==
    CASE c = "f" -> fill(d, Filling)
      [] c = "w" -> programFromFile(d)
      [] c = "r" -> dumpToFile(d)
i2c_main(d, commands) ==
    TOG_INIT \o FlattenSeq([i \in DOMAIN commands |-> EepromCommand(commands[i], d)]) \o TOG_EXIT

(***************************************************************************)
(* The host.                                                               *)
(***************************************************************************)
Program(p) ==
    CASE p[1] = "spi" -> spi_main(p[2], bit_buf)
      [] p[1] = "fw"  -> fw_main(p[2], bit_buf)
      [] OTHER        -> i2c_main(devices[p[1]], p[2])
script == Head(scripts)
Ended == pc > Len(script)
Logs(p) == p[1] = "fw" /\ "P" \in p[2]
At(k) == ~Ended /\ script[pc].k = k
Next1 == pc' = pc + 1
GoTo(ok) == pc' = IF ok THEN pc - script[pc].m ELSE pc + 1

HostInit ==
    /\ pc = 1 /\ scripts = [i \in DOMAIN session |-> Program(session[i])]
    /\ reply = <<>> /\ save = {} /\ got = <<>> /\ part = <<>> /\ lost = {} /\ says = "nothing" /\ rounds = 0 /\ kills = 0

(* An interrupt is served before the host has the next packet on the bus:   *)
(* without Prompt two may be waiting, and are served in the order of        *)
(* usb_isr, not in theirs.                                                  *)
Selects(m) == "i2dat" \in DOMAIN m /\ m.i2cs = I2START
Write(ep, m) ==
    /\ Prompt => irq \subseteq Ins
    /\ quick /\ eeprom.busy => ~Selects(m)
    /\ buf[ep] = <<>> /\ buf' = [buf EXCEPT ![ep] = <<m>>] /\ irq' = irq \cup {ep}
    /\ UNCHANGED <<pending, ep6in_len, out3data, copying, left, autoptr, oec, outc, status, flash, fpga, eeprom, fault>>
Take(ep) ==
    /\ buf[ep] # <<>> /\ buf' = [buf EXCEPT ![ep] = <<>>] /\ irq' = irq \cup {ep}
    /\ UNCHANGED <<pending, ep6in_len, out3data, copying, left, autoptr, oec, outc, status, flash, fpga, eeprom, fault>>

usb_bulk_write ==
    /\ At("out") /\ Write(script[pc].ep, script[pc].m) /\ Next1
    /\ UNCHANGED <<quick, session, bit_buf, scripts, reply, save, got, part, lost, says, rounds, kills>>
write_save ==
    /\ At("save") /\ Next1
    /\ save' = (save \ {SELECT}) \cup script[pc].m
    /\ Write("out1", [Ep1(FALSE, "no") EXCEPT !.outc = <<save'>>])
    /\ UNCHANGED <<quick, session, bit_buf, scripts, reply, got, part, lost, says, rounds, kills>>
usb_bulk_read ==
    /\ At("in") /\ Take(script[pc].ep) /\ Next1
    /\ reply' = Head(buf[script[pc].ep])
    /\ UNCHANGED <<quick, session, bit_buf, scripts, save, got, part, lost, says, rounds, kills>>

(* A large read takes packets until a short one.  When the last one was     *)
(* full and the FPGA had no more, there is none: the read times out, and    *)
(* what it has taken is lost.                                               *)
read_log ==
    /\ At("bulk") /\ Take("in2")
    /\ LET m == Head(buf["in2"])
       IN  IF Len(m) = LogPacket THEN part' = part \o m /\ got' = got /\ pc' = pc
           ELSE part' = <<>> /\ got' = got \o part \o m /\ Next1
    /\ UNCHANGED <<quick, session, bit_buf, scripts, reply, save, lost, says, rounds, kills>>
read_timeout ==
    /\ At("bulk") /\ Idle /\ buf["in2"] = <<>>
    /\ part' = <<>> /\ lost' = lost \cup Range(part)
    /\ pc' = IF script[pc].m = "return" THEN Len(script) + 1 ELSE pc + 1
    /\ UNCHANGED <<fwvars, quick, session, bit_buf, scripts, reply, save, got, says, rounds, kills>>

(* Steps without a transfer.                                                *)
Local ==
    /\ \/ At("whilebusy") /\ GoTo(reply[1] % 2 = Busy) /\ UNCHANGED <<save, got, says, rounds>>
       \/ At("whilenoid") /\ GoTo(reply[1] # Id) /\ UNCHANGED <<save, got, says, rounds>>
       \/ At("whilerun") /\ UNCHANGED <<save, got, says>>
          /\ \E run \in BOOLEAN : (run => rounds < MaxRounds) /\ GoTo(run)
                                  /\ rounds' = IF run THEN rounds + 1 ELSE rounds
       \/ At("memcpy") /\ Next1 /\ got' = got \o reply /\ UNCHANGED <<save, says, rounds>>
       \/ At("again") /\ Next1 /\ got' = <<>> /\ UNCHANGED <<save, says, rounds>>
       \/ At("memcmp") /\ Next1 /\ says' = (IF got = bit_buf[1] THEN "same" ELSE "differs")
          /\ UNCHANGED <<save, got, rounds>>
       \/ At("exit") /\ pc' = Len(script) + 1 /\ UNCHANGED <<save, got, says, rounds>>
       \/ At("ep_save") /\ Next1 /\ save' = reply.outc /\ UNCHANGED <<got, says, rounds>>
       \/ At("ifstatus") /\ (IF reply.status = {} THEN Next1 /\ says' = says
                             ELSE pc' = Len(script) /\ says' = "status")
          /\ UNCHANGED <<save, got, rounds>>
       \/ At("done?") /\ Next1 /\ says' = (IF reply.done THEN "DONE" ELSE "FAILED")
          /\ UNCHANGED <<save, got, rounds>>
    /\ UNCHANGED <<fwvars, quick, session, bit_buf, scripts, reply, part, lost, kills>>

(* The next program, once the firmware has nothing left to do.  What two    *)
(* programs one after the other read of the log is looked at together.      *)
Reset(cut) ==
    LET goesOn == Logs(session[1]) /\ Logs(session[2])
    IN  /\ session' = Tail(session) /\ pc' = 1 /\ scripts' = Tail(scripts) /\ rounds' = 0
        /\ got' = (IF goesOn THEN got ELSE <<>>) /\ lost' = (IF goesOn THEN lost \cup Range(cut) ELSE {})
        /\ part' = <<>> /\ says' = "nothing"
        /\ UNCHANGED <<fwvars, quick, bit_buf, reply, save>>
NextProgram == Len(session) > 1 /\ Ended /\ Idle /\ Reset(<<>>) /\ kills' = kills

(* A program is killed between two exchanges, inside a read of the log, or  *)
(* while it looks for a key in its file for ever.                           *)
Kill ==
    /\ kills < MaxKills /\ Len(session) > 1 /\ ~Ended /\ Idle
    /\ script[pc].k \in {"out", "save", "bulk", "spin"}
    /\ kills' = kills + 1 /\ Reset(part)

(* 24xx is called with the type of the chip that is there.                  *)
Init ==
    \E c \in Scenarios :
        /\ session = c.session /\ quick = c.quick /\ fault = c.fault /\ bit_buf \in Readings(c.file)
        /\ PowerOn(c.flash, I2cAtRest(EepromMem, c.style)) /\ HostInit

Firm == (usb_isr \/ main) /\ UNCHANGED hostvars
Host == usb_bulk_write \/ write_save \/ usb_bulk_read \/ read_log \/ read_timeout \/ Local \/ NextProgram
Chips == (FlashWrites \/ EepromWrites \/ FpgaLogs) /\ UNCHANGED hostvars
Next == Firm \/ Host \/ Chips \/ Kill
Spec == Init /\ [][Next]_vars
FairSpec ==
    /\ Spec /\ WF_vars(usb_isr /\ UNCHANGED hostvars) /\ WF_vars(main /\ UNCHANGED hostvars)
    /\ WF_vars(Host) /\ WF_vars(FlashWrites /\ UNCHANGED hostvars)
    /\ WF_vars(EepromWrites /\ UNCHANGED hostvars)

-----------------------------------------------------------------------------
(***************************************************************************)
(* Properties.                                                             *)
(***************************************************************************)
Tool == Head(session)[1]
Ops == Head(session)[2]
AtEnd == Ended /\ Idle
Does(o) == Tool = "fw" /\ o \in Ops
Payload == IF bit_buf = <<>> THEN <<>> ELSE bit_buf[1]         \* what the file holds
HasPayload(mem) == \A a \in Cells : a < Len(Payload) => mem[a] = Payload[a + 1]
Boots(mem) == FirstOf(BitsOf([i \in 1..FlashSize |-> mem[i - 1]]), Len(Bitstream)) = Bitstream

TypeOK ==
    /\ irq \subseteq Endpoints /\ pending \subseteq Ins /\ out3data \in 0..1
    /\ oec \subseteq PortC /\ outc \subseteq PortC /\ status \subseteq {ERR_INIT_B, ERR_DONE, FPGA_BOOT}
    /\ flash \in Chip /\ eeprom \in I2c /\ Len(fpga.conf) <= Len(Bitstream)
    /\ \A e \in Endpoints : Len(buf[e]) <= 1
    /\ says \in {"nothing", "same", "differs", "status", "DONE", "FAILED"}

(* After spi -E -W the flash holds the configuration, every chunk of every  *)
(* page of it and nothing else, however long its writes take and whatever a *)
(* program killed before had begun, a page half sent or an erasure included.*)
FlashHolds ==
    AtEnd /\ Tool = "spi" /\ Len(Ops) >= 2 /\ Ops[1] = "E" /\ Ops[2] = "W" =>
        flash.mem = [a \in Cells |-> IF a < Len(Payload) THEN Payload[a + 1] ELSE Erased]

(* What spi -R reads is what the flash holds: no answer is another one's.   *)
ReadsBack ==
    AtEnd /\ Tool = "spi" /\ Ops[Len(Ops)] = "R" => \A i \in DOMAIN got : got[i] = flash.mem[i - 1]

(* spi -C says that the flash holds the file exactly when it does.          *)
ComparesTruly ==
    AtEnd /\ says \in {"same", "differs"} => (says = "same" <=> HasPayload(flash.mem))

(* fw -f says DONE only of an FPGA that has the whole configuration.        *)
DoneIsTrue == says = "DONE" => Configured(fpga)

(* Whatever it says, an FPGA that is not broken gets the whole of it in the *)
(* serial mode, where a packet is always whole groups of bytes.             *)
LoadsWhole == AtEnd /\ Does("f1") /\ fault = "none" => Configured(fpga)

(* spi -B: the FPGA boots from the flash when that holds its configuration. *)
BootsFromFlash ==
    AtEnd /\ Tool = "spi" /\ Ops = <<"B">> /\ fault = "none" => (Configured(fpga) <=> Boots(flash.mem))

(* What fw -w writes arrives once and in order, except the bytes of the     *)
(* last packet that make no whole group; the byte of -E never does.  When   *)
(* the same program goes on to read (-r, -P), the interrupt for that may    *)
(* take the auto pointer while the main loop still copies the last packet:  *)
(* then, and in that packet only, bytes are replaced from some byte on, and *)
(* none is left out or added.                                               *)
WholeGroups == SubSeq(FifoData, 1, (Len(FifoData) \div Group) * Group)
LastPacket == ((Len(FifoData) - 1) \div Packet) * Packet
FifoExact ==
    AtEnd /\ Does("w") /\ Configured(fpga) =>
        \E n \in 0..Len(WholeGroups) :
            /\ fpga.data = SubSeq(WholeGroups, 1, n) \o [i \in 1..(Len(WholeGroups) - n) |-> Junk]
            /\ n < Len(WholeGroups) => (Does("r") \/ Does("P")) /\ n >= LastPacket

(* All of it arrives, in a run that reads as well, as the usage has it ("-r *)
(* r.dat -w w.dat"), too.  This does not hold.                              *)
WrittenWhole == AtEnd /\ Does("w") /\ Configured(fpga) => fpga.data = WholeGroups

(* The log is read in order and nothing of it twice, by a program and by    *)
(* the one after it; and nothing is left out but what a read had taken that *)
(* timed out or was killed.                                                 *)
LogInOrder ==
    Does("P") =>
        /\ \A i, j \in DOMAIN got : i < j => got[i] < got[j]
        /\ got # <<>> => 1..got[Len(got)] = Range(got) \cup {n \in lost : n < got[Len(got)]}
        /\ Range(got) \cap lost = {}

(* 24xx: when the chip writes in time, it has what was written and what is  *)
(* read is what it has.                                                     *)
IsEeprom == Tool \in DOMAIN devices
After(c, i, old) ==
    CASE c = "f" -> Filling
      [] c = "w" -> IF i < Len(EepromFile) THEN EepromFile[i + 1] ELSE old
      [] OTHER   -> old
EepromTrue ==
    AtEnd /\ IsEeprom /\ quick =>
        /\ Ops[1] # "r" => \A i \in I2cCells : eeprom.mem[i] = After(Ops[1], i, eeprom.mem[i])
        /\ Ops[Len(Ops)] = "r" => got = [i \in 1..EepromSize |-> eeprom.mem[i - 1]]

(* However long the chip takes, a byte that is lost while it writes leaves  *)
(* its cell alone and never lands in another one.                           *)
EepromWhole ==
    IsEeprom => \A i \in I2cCells :
        eeprom.mem[i] \in {EepromMem[i]} \cup {After(c, i, EepromMem[i]) : c \in {"f", "w"}}

(* A program leaves no answer behind for the next one to take for its own.  *)
NothingLeft ==
    AtEnd => \A e \in {"in1", "in4", "in6"} : buf[e] = <<>> /\ e \notin pending

(* The properties above, by the chip they are about: flash and answers, the *)
(* FPGA's configuration, its data, the EEPROM.                              *)
ReadsTruly == ReadsBack /\ ComparesTruly /\ NothingLeft
LoadsTruly == DoneIsTrue /\ LoadsWhole /\ BootsFromFlash
StreamsTruly == TypeOK /\ FifoExact /\ LogInOrder
EepromTruly == EepromTrue /\ EepromWhole

(* Every program of the session ends, if a key is in the file.              *)
Ends == bit_buf # <<>> => <>(Len(session) = 1 /\ Ended)
=============================================================================
