------------------------------- MODULE Channel ------------------------------
(***************************************************************************)
(* The data path of one channel, rtl/verilog/ch.v with its two walkers     *)
(* (ss_sg.v) and its module (mod.v): memory -> source walker -> source     *)
(* FIFO -> module -> destination FIFO -> destination walker -> memory.     *)
(*                                                                         *)
(* One action is one clock.  The controller is reduced to the phases it    *)
(* takes a channel through for each job of a sequence: four beats of load, *)
(* the run until the destination walker is done, TR0, and the clock after  *)
(* it, in which m_reset is up.  The bus is reduced to what the two walkers see of it: *)
(* an owner, which only changes while it does not ask for the bus, and an  *)
(* answer to the owner (Engine and Arbiter model the two in full).         *)
(*                                                                         *)
(* Data is numbered: word i of job j is WordOf(j, i).  A list descriptor   *)
(* is at list address 2k, its second beat at 2k + 1.                       *)
(***************************************************************************)
EXTENDS Integers, Sequences, SsSg

CONSTANTS Depth,       \* places of a FIFO
          Bufs, Span,  \* bounds: a list has up to Bufs buffers, each shorter than Span words
          Lists,       \* the jobs: [kind : {"copy", "fill"}, src, dst : Seq(Nat \ {0})], the
                       \* module a job uses and the lengths of its buffers in words
          Waits,       \* the bus may insert wait states or answer with a retry
          BusErrors    \* the bus may answer with an error

(* 2^FIFO_WIDTH, with FIFO_WIDTH = 9 in ch.v: even, and not so small that a  *)
(* flag that is two clocks late matters.                                     *)
ASSUME ChannelDepth == Depth \in Nat /\ Depth >= 8 /\ Depth % 2 = 0

ASSUME MemoryAssumption == Bufs \in Nat \ {0} /\ Span \in 2..LenModulus

ASSUME ListsAssumption ==
    /\ Lists \in Seq([kind : {"copy", "fill"}, src : Seq(1..(Span - 1)), dst : Seq(1..(Span - 1))])
    /\ Lists # <<>>
    /\ \A j \in DOMAIN Lists : Len(Lists[j].src) \in 1..Bufs /\ Len(Lists[j].dst) \in 1..Bufs

VARIABLES srcf, dstf,        \* the FIFO controllers
          srcram, dstram,    \* their RAMs
          srcq, dstq,        \* the registered outputs src_do and dst_do
          walk,              \* the walkers
          mod,               \* the state of the module
          owner,             \* the walker that has the bus
          mem,               \* what has been written at the destination
          job, phase         \* the controller: the job, and where it is with it
vars == <<srcf, dstf, srcram, dstram, srcq, dstq, walk, mod, owner, mem, job, phase>>

S == INSTANCE FifoControl WITH f <- srcf
D == INSTANCE FifoControl WITH f <- dstf
KindOf(j) == IF j > Len(Lists) THEN "copy" ELSE Lists[j].kind
M == INSTANCE Mod WITH kind <- KindOf(job)

Walkers == {"src", "dst"}
NJobs == Len(Lists)
BeatOf == [beat0 |-> 0, beat1 |-> 1, beat2 |-> 2, beat3 |-> 3]
Phases == DOMAIN BeatOf \cup {"run", "done", "tr", "reset", "off"}

(***************************************************************************)
(* Memory.  Buffer k of a list is at BufBase(k), so buffers never touch.   *)
(***************************************************************************)
ListOf(w) == IF job > NJobs THEN <<>> ELSE IF w = "src" THEN Lists[job].src ELSE Lists[job].dst
BufBase(k) == Span * k
Addrs == Span..(Span * (Bufs + 1) - 1)

Before(l, k) == LET b[i \in 1..k] == IF i = 1 THEN 0 ELSE b[i - 1] + l[i - 1] IN b[k]
Total(l) == Before(l, Len(l) + 1)

ListBeat(w, a) ==
    LET k == (a \div 2) + 1
    IN  [last |-> k = Len(ListOf(w)), len |-> ListOf(w)[k], addr |-> BufBase(k), next |-> 2 * k]

(* The words of a list in order: address a is that of word WordAt(l, a);    *)
(* there is no word 0.                                                      *)
Within(l, k, a) == BufBase(k) <= a /\ a < BufBase(k) + l[k]
InBuffer(l, a) == \E k \in DOMAIN l : Within(l, k, a)
WordAt(l, a) == IF ~InBuffer(l, a) THEN 0
                ELSE LET k == CHOOSE b \in DOMAIN l : Within(l, b, a)
                     IN  Before(l, k) + a - BufBase(k) + 1
Place(l) == [i \in 1..Total(l) |-> CHOOSE a \in Addrs : InBuffer(l, a) /\ WordAt(l, a) = i]
DstPlace == [j \in 1..NJobs |-> Place(Lists[j].dst)]

WordOf(j, i) == Span * (Bufs + 1) * j + i
Blank == 0             \* RAM and memory that was never written
NoMem == [a \in Addrs |-> Blank]
Marker == -1           \* a word with bit 64 set
FillWord == 1          \* dc[23:16] repeated

(***************************************************************************)
(* The wires.                                                              *)
(***************************************************************************)
Requests(w) == owner = w /\ wbs_cyc(walk[w])
StartAnyTime(w) == IF w = "src" THEN ~S!almost_full_out   \* faulty: room is not waited for
                   ELSE D!half_full_out \/ (M!m_end(mod) /\ ~D!empty_out)
Start(w) == IF w = "src" THEN ~S!half_full_out
            ELSE D!half_full_out \/ (M!m_end(mod) /\ ~D!empty_out)
Stop(w)  == IF w = "src" THEN S!almost_full_out ELSE D!almost_empty_out
End(w)   == w = "dst" /\ dstq = Marker
Uses(w)  == w = "dst" \/ KindOf(job) = "copy"

Pins(w, answer) ==
    [we |-> phase \in DOMAIN BeatOf, beat |-> IF phase \in DOMAIN BeatOf THEN BeatOf[phase] ELSE 0,
     use |-> Uses(w), head |-> 0,
     ack |-> answer = "ack" /\ Requests(w), err |-> answer = "err",
     data |-> IF walk[w].state = "D_REQ" THEN ListBeat(w, walk[w].adr) ELSE <<>>,
     start |-> Start(w), stop |-> Stop(w), end |-> End(w), done |-> phase = "tr"]

ModPins == [enable |-> phase \in {"run", "done", "tr", "reset"}, last |-> srcq = Marker,
            empty |-> S!empty_out, almost_empty |-> S!almost_empty_out,
            full |-> D!full_out, almost_full |-> D!almost_full_out]

(* src_di: the word the bus delivers, or the marker that ends the list.     *)
SrcIn == IF ss_last(walk["src"]) THEN Marker
         ELSE WordOf(job, WordAt(ListOf("src"), walk["src"].adr))
DstIn == IF KindOf(job) = "fill" THEN FillWord ELSE srcq

(***************************************************************************)
(* One clock of the channel.                                               *)
(***************************************************************************)
Init ==
    /\ srcf = S!Cleared /\ dstf = D!Cleared
    /\ srcram = [a \in S!Ptr |-> Blank] /\ dstram = [a \in D!Ptr |-> Blank]
    /\ srcq = Blank /\ dstq = Blank
    /\ walk = [w \in Walkers |-> SgReset] /\ mod = "IDLE"
    /\ owner = "src" /\ mem = NoMem
    /\ job = 1 /\ phase = "beat0"

(* m_reset rises behind the edge that ends TR0 and stays up for the clock    *)
(* after it: FIFOs and module are cleared at once, the RAMs keep what they   *)
(* hold.                                                                     *)
Resets == phase \in {"tr", "reset"}

SrcControl(wen, ren) == IF Resets THEN S!Clear ELSE S!Edge(TRUE, TRUE, wen, ren)
DstControlKeeps(wen, ren) == D!Edge(TRUE, TRUE, wen, ren)   \* faulty: is not reset
DstControl(wen, ren) == IF Resets THEN D!Clear ELSE D!Edge(TRUE, TRUE, wen, ren)

(* tpram.v: the output register reads what was stored before this edge.     *)
SrcSide(answer) ==
    LET wen == ss_xfer(walk["src"], Pins("src", answer))
        ren == M!m_src_get(mod)
    IN  /\ SrcControl(wen, ren)
        /\ srcram' = IF S!wallow(wen) THEN [srcram EXCEPT ![srcf.wptr] = SrcIn] ELSE srcram
        /\ srcq' = srcram[IF S!rallow(ren) THEN S!Inc(srcf.rptr) ELSE srcf.rptr]

DstSide(answer) ==
    LET wen == M!m_dst_put(mod)
        ren == ss_xfer(walk["dst"], Pins("dst", answer)) /\ ~End("dst")
    IN  /\ DstControl(wen, ren)
        /\ dstram' = IF D!wallow(wen) THEN [dstram EXCEPT ![dstf.wptr] = DstIn] ELSE dstram
        /\ dstq' = dstram[IF D!rallow(ren) THEN D!Inc(dstf.rptr) ELSE dstf.rptr]

ModSide == mod' = IF Resets THEN "IDLE" ELSE M!ModClock(mod, ModPins)

WalkersClock(answer) ==
    walk' = [w \in Walkers |-> SgClock(w, walk[w], Pins(w, answer))]

MemClock(answer) ==
    mem' = IF Moves(walk["dst"], Pins("dst", answer))
           THEN [mem EXCEPT ![walk["dst"].adr] = dstq] ELSE mem

Arbiter == owner' = owner \/ (~wbs_cyc(walk[owner]) /\ owner' \in {w \in Walkers : wbs_cyc(walk[w])})

(* The controller leaves the channel a clock after the destination walker   *)
(* has ended, when c_done shows it (ctrl.v, S_WAIT0).  A job that writes no *)
(* result, and a host that is there when TR0 waits for it.                  *)
NextPhase ==
    CASE phase = "beat0" -> "beat1"
      [] phase = "beat1" -> "beat2"
      [] phase = "beat2" -> "beat3"
      [] phase = "beat3" -> "run"
      [] phase = "run"   -> IF walk["dst"].state = "END" THEN "done" ELSE "run"
      [] phase = "done"  -> "tr"
      [] phase = "tr"    -> "reset"
      [] phase = "reset" -> IF job < NJobs THEN "beat0" ELSE "off"
      [] OTHER           -> "off"

Clock(answer) ==
    /\ phase # "off"
    /\ SrcSide(answer) /\ DstSide(answer) /\ ModSide
    /\ WalkersClock(answer) /\ Arbiter
    /\ IF phase = "reset" THEN mem' = NoMem ELSE MemClock(answer)
    /\ phase' = NextPhase
    /\ job' = IF phase = "reset" THEN job + 1 ELSE job

Busy == \E w \in Walkers : Requests(w)
AckClock  == Busy /\ Clock("ack")
WaitClock == (~Busy \/ Waits) /\ Clock("none")
ErrClock  == Busy /\ BusErrors /\ Clock("err")

Next == AckClock \/ WaitClock \/ ErrClock
Spec == Init /\ [][Next]_vars

(* The clock runs, and a bus that is asked again and again answers.         *)
FairSpec == Spec /\ WF_vars(Next) /\ SF_vars(AckClock)

-----------------------------------------------------------------------------
(***************************************************************************)
(* Properties.                                                             *)
(***************************************************************************)
(* Copy moves a word only when one is really there and a place is really    *)
(* free, although it tests neither flag in the cycle it moves the word      *)
(* (copy.v, S_RUN): the almost flags of the cycle before stop it in time.   *)
CopyInStep ==
    KindOf(job) = "copy" /\ mod = "RUN" => ~S!empty_out /\ ~D!full_out

(* A walker only takes from the bus what its FIFO has room for, and only    *)
(* gives the bus words that its FIFO holds: the stop flag ends a burst in   *)
(* time (ss_sg.v, S_B_REQ; ch.v, src_stop and dst_stop), and the marker     *)
(* that ends a source list, written without a look at the FIFO (S_NEXT),    *)
(* finds a place.                                                           *)
MarkerTaken == ss_last(walk["src"]) => ~S!full_out
BurstsFit ==
    /\ Moves(walk["src"], Pins("src", "ack")) => ~S!full_out
    /\ Moves(walk["dst"], Pins("dst", "ack")) => ~D!empty_out
    /\ MarkerTaken

(* Nothing is written outside the buffers of the destination list.          *)
InsideBuffers ==
    \A a \in DOMAIN mem : mem[a] # Blank => InBuffer(ListOf("dst"), a)

(* The words a job is asked for, and how many of them are in place.         *)
Wanted(j) ==
    IF KindOf(j) = "fill" THEN Total(Lists[j].dst) ELSE Total(Lists[j].src)
WantedWord(j, i) == IF KindOf(j) = "fill" THEN FillWord ELSE WordOf(j, i)
InPlace == {i \in 1..Wanted(job) : mem[DstPlace[job][i]] = WantedWord(job, i)}
Delivered == IF job > NJobs THEN 0
             ELSE CHOOSE n \in 0..Wanted(job) :
                      /\ 1..n \subseteq InPlace
                      /\ n < Wanted(job) => (n + 1) \notin InPlace

(* The memory of the destination is always what the words of the job leave  *)
(* there when they are written one after the other, each to its place and   *)
(* none twice, whatever ends, refuses or cuts short the bursts (ss_sg.v,    *)
(* S_B_REQ; ch.v; tpram.v).  One word may follow the last one: the data     *)
(* lines of the marker, which the walker only knows by its tag when it is   *)
(* acknowledged.                                                            *)
DstWord == [j \in 1..NJobs |-> [a \in Addrs |-> WordAt(Lists[j].dst, a)]]
Arrives(j, i) == IF i <= Wanted(j) THEN WantedWord(j, i) ELSE Marker
WrittenInOrder ==
    phase # "off" => \E n \in 0..(Wanted(job) + 1) : \A a \in Addrs :
        mem[a] = IF DstWord[job][a] \in 1..n THEN Arrives(job, DstWord[job][a]) ELSE Blank

(* Every job delivers all its words, in order, one by one, and only then    *)
(* ends: bursts, wait states and FIFO flags lose, repeat or reorder nothing. *)
T == INSTANCE Transfer WITH Jobs <- NJobs, Size <- Wanted, job <- job, delivered <- Delivered
Transfers == T!Spec

(* The jobs for which that is so, whatever the bus does.  The destination   *)
(* has room for what the source holds; and no job that copies moves on over *)
(* the place in the ring where an older one left its marker: it has no more *)
(* words than that one has left over on its last turn, or that one filled   *)
(* the ring to its end (512 words are one page of 4 kB).                    *)
Roomy == \A j \in 1..NJobs : Wanted(j) <= Total(Lists[j].dst)
MarkerPlace(j) == Total(Lists[j].src) % Depth
MarkersAhead ==
    \A i, j \in 1..NJobs :
        i < j /\ KindOf(i) = "copy" /\ KindOf(j) = "copy" =>
            MarkerPlace(i) = 0 \/ Wanted(j) <= MarkerPlace(i)

(* Every job ends, unless a bus error has stopped a walker for good.        *)
JobsEnd == <>(phase = "off" \/ \E w \in Walkers : walk[w].state = "PANIC")
=============================================================================
