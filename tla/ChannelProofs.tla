---------------------------- MODULE ChannelProofs ---------------------------
(***************************************************************************)
(* The data path of a channel for FIFOs of every depth and jobs with every *)
(* list of buffers: the module and the two walkers move a word only when   *)
(* there is one and there is room for it, and nothing is written outside   *)
(* the buffers of the destination list.                                    *)
(***************************************************************************)
EXTENDS Channel, TLAPS

(***************************************************************************)
(* The FIFO controller with both its clocks the same.  A record r of its   *)
(* registers goes round the ring in a fixed order, and each copy of a      *)
(* pointer is one clock behind the one it copies: at most one place.       *)
(***************************************************************************)
Ptrs == 0..(Depth - 1)
Up(p) == IF p = Depth - 1 THEN 0 ELSE p + 1
Gap(p, q) == IF p <= q THEN q - p ELSE Depth + q - p
Half == Depth \div 2

Seen(r)  == Gap(r.rptr, r.wview)   \* the words its reader may take
Taken(r) == Gap(r.rview, r.wptr)   \* the places its writer takes for used
Count(r) == Gap(r.rptr, r.wptr)    \* the words it holds

Ring(r) ==
    /\ r \in [wptr : Ptrs, rptr : Ptrs, rsync : Ptrs, rview : Ptrs, wsync : Ptrs, wview : Ptrs]
    /\ Gap(r.wview, r.wsync) <= 1 /\ Gap(r.wsync, r.wptr) <= 1
    /\ Gap(r.rview, r.rsync) <= 1 /\ Gap(r.rsync, r.rptr) <= 1
    /\ Gap(r.rview, r.rsync) + Gap(r.rsync, r.rptr) + Gap(r.rptr, r.wview)
         + Gap(r.wview, r.wsync) + Gap(r.wsync, r.wptr) <= Depth - 1

LEMMA HalfDepth == Half \in Nat /\ Half >= 4 /\ Depth = 2 * Half
  BY ChannelDepth DEF Half

LEMMA UpPtrs == \A p \in Ptrs : Up(p) \in Ptrs
  BY ChannelDepth DEF Ptrs, Up

LEMMA GapRange == \A p, q \in Ptrs : Gap(p, q) \in 0..(Depth - 1)
  BY ChannelDepth DEF Ptrs, Gap

LEMMA GapUp ==
  ASSUME NEW p \in Ptrs, NEW q \in Ptrs
  PROVE  /\ Gap(p, q) < Depth - 1 => Gap(p, Up(q)) = Gap(p, q) + 1
         /\ p # q => Gap(Up(p), q) = Gap(p, q) - 1
         /\ Gap(p, p) = 0
         /\ Gap(p, q) = 0 <=> p = q
         /\ Gap(p, q) = 1 <=> Up(p) = q
         /\ Gap(p, q) = Depth - 1 <=> Up(q) = p
         /\ Gap(p, q) = Depth - 2 <=> Up(Up(q)) = p
  BY ChannelDepth DEF Ptrs, Gap, Up

(* If the gaps of three pointers add up to less than a turn, the outer gap  *)
(* is their sum.                                                            *)
LEMMA GapSum ==
  ASSUME NEW p \in Ptrs, NEW q \in Ptrs, NEW r \in Ptrs, Gap(p, q) + Gap(q, r) <= Depth - 1
  PROVE  Gap(p, r) = Gap(p, q) + Gap(q, r)
  BY ChannelDepth DEF Ptrs, Gap

(* The gaps of a ring, by name.                                             *)
LEMMA RingGaps ==
  ASSUME NEW r, Ring(r)
  PROVE  \E a, b, c, d, e \in Nat :
            /\ a = Gap(r.rptr, r.wview) /\ b = Gap(r.wview, r.wsync) /\ c = Gap(r.wsync, r.wptr)
            /\ d = Gap(r.rview, r.rsync) /\ e = Gap(r.rsync, r.rptr)
            /\ b <= 1 /\ c <= 1 /\ d <= 1 /\ e <= 1 /\ a + b + c + d + e <= Depth - 1
            /\ Seen(r) = a /\ Count(r) = a + b + c /\ Taken(r) = a + b + c + d + e
            /\ Gap(r.rptr, r.wsync) = a + b
  <1>1. /\ r.wptr \in Ptrs /\ r.rptr \in Ptrs /\ r.rsync \in Ptrs /\ r.rview \in Ptrs
        /\ r.wsync \in Ptrs /\ r.wview \in Ptrs
    BY DEF Ring
  <1>2. PICK a \in Nat : a = Gap(r.rptr, r.wview)
    BY <1>1, GapRange
  <1>3. PICK b \in Nat : b = Gap(r.wview, r.wsync)
    BY <1>1, GapRange
  <1>4. PICK c \in Nat : c = Gap(r.wsync, r.wptr)
    BY <1>1, GapRange
  <1>5. PICK d \in Nat : d = Gap(r.rview, r.rsync)
    BY <1>1, GapRange
  <1>6. PICK e \in Nat : e = Gap(r.rsync, r.rptr)
    BY <1>1, GapRange
  <1>7. b <= 1 /\ c <= 1 /\ d <= 1 /\ e <= 1 /\ a + b + c + d + e <= Depth - 1 /\ Depth \in Nat
    BY <1>2, <1>3, <1>4, <1>5, <1>6, ChannelDepth DEF Ring
  <1>8. Gap(r.rptr, r.wsync) = a + b
    BY <1>1, <1>2, <1>3, <1>7, GapSum
  <1>9. Gap(r.rptr, r.wptr) = a + b + c
    BY <1>1, <1>4, <1>7, <1>8, GapSum
  <1>10. Gap(r.rview, r.rptr) = d + e
    BY <1>1, <1>5, <1>6, <1>7, GapSum
  <1>11. Gap(r.rview, r.wptr) = a + b + c + d + e
    BY <1>1, <1>7, <1>9, <1>10, GapSum
  <1>12. QED
    BY <1>2, <1>3, <1>4, <1>5, <1>6, <1>7, <1>8, <1>9, <1>11 DEF Seen, Count, Taken

LEMMA TakenGaps ==
  ASSUME NEW r, Ring(r)
  PROVE  /\ Seen(r) = Gap(r.rptr, r.wview)
         /\ Taken(r) = Gap(r.rptr, r.wview) + Gap(r.wview, r.wsync) + Gap(r.wsync, r.wptr)
                        + Gap(r.rview, r.rsync) + Gap(r.rsync, r.rptr)
  BY RingGaps

(* What an edge of both clocks does to a ring whose writer heeds the full   *)
(* flag and whose reader the empty flag.                                    *)
LEMMA RingClock ==
  ASSUME NEW r, Ring(r), NEW put \in BOOLEAN, NEW get \in BOOLEAN,
         put => Taken(r) # Depth - 1, get => Seen(r) # 0,
         NEW s,
         s = [wptr  |-> IF put THEN Up(r.wptr) ELSE r.wptr,
              rsync |-> r.rptr, rview |-> r.rsync,
              rptr  |-> IF get THEN Up(r.rptr) ELSE r.rptr,
              wsync |-> r.wptr, wview |-> r.wsync]
  PROVE  /\ Ring(s) /\ Taken(s) \in Nat /\ Seen(s) \in Nat /\ Taken(r) \in Nat /\ Seen(r) \in Nat
         /\ Taken(s) <= Taken(r) + (IF put THEN 1 ELSE 0)
         /\ Seen(s) >= Seen(r) - (IF get THEN 1 ELSE 0)
         /\ ~put => Taken(s) <= Count(r) + 1
         /\ ~get => Seen(s) >= Count(r) - 1
  <1>1. /\ r.wptr \in Ptrs /\ r.rptr \in Ptrs /\ r.rsync \in Ptrs /\ r.rview \in Ptrs
        /\ r.wsync \in Ptrs /\ r.wview \in Ptrs
    BY DEF Ring
  <1>2. PICK a, b, c, d, e \in Nat :
            /\ a = Gap(r.rptr, r.wview) /\ b = Gap(r.wview, r.wsync) /\ c = Gap(r.wsync, r.wptr)
            /\ d = Gap(r.rview, r.rsync) /\ e = Gap(r.rsync, r.rptr)
            /\ b <= 1 /\ c <= 1 /\ d <= 1 /\ e <= 1 /\ a + b + c + d + e <= Depth - 1
            /\ Seen(r) = a /\ Count(r) = a + b + c /\ Taken(r) = a + b + c + d + e
            /\ Gap(r.rptr, r.wsync) = a + b
    BY RingGaps
  <1> DEFINE w == IF put THEN 1 ELSE 0
             g == IF get THEN 1 ELSE 0
  <1>3. w \in {0, 1} /\ g \in {0, 1} /\ w + a + b + c + d + e <= Depth - 1 /\ g <= a /\ Depth \in Nat
    BY <1>2, ChannelDepth
  <1>4. /\ s \in [wptr : Ptrs, rptr : Ptrs, rsync : Ptrs, rview : Ptrs, wsync : Ptrs, wview : Ptrs]
        /\ s.wsync = r.wptr /\ s.wview = r.wsync /\ s.rsync = r.rptr /\ s.rview = r.rsync
        /\ s.wptr = IF put THEN Up(r.wptr) ELSE r.wptr
        /\ s.rptr = IF get THEN Up(r.rptr) ELSE r.rptr
    BY <1>1, UpPtrs
  <1>5. Gap(s.rptr, s.wview) = a + b - g
    BY <1>1, <1>2, <1>3, <1>4, GapUp
  <1>6. Gap(s.wview, s.wsync) = c /\ Gap(s.rview, s.rsync) = e
    BY <1>2, <1>4
  <1>7. Gap(s.wsync, s.wptr) = w /\ Gap(s.rsync, s.rptr) = g
    BY <1>1, <1>4, GapUp, ChannelDepth
  <1> HIDE DEF w, g
  <1>8. Ring(s)
    BY <1>2, <1>3, <1>4, <1>5, <1>6, <1>7 DEF Ring
  <1>9. Seen(s) = a + b - g /\ Taken(s) = (a + b - g) + c + w + e + g
    <2>1. /\ Seen(s) = Gap(s.rptr, s.wview)
          /\ Taken(s) = Gap(s.rptr, s.wview) + Gap(s.wview, s.wsync) + Gap(s.wsync, s.wptr)
                         + Gap(s.rview, s.rsync) + Gap(s.rsync, s.rptr)
      BY <1>8, TakenGaps
    <2>2. QED
      BY <2>1, <1>2, <1>3, <1>5, <1>6, <1>7
  <1>10. QED
    BY <1>2, <1>3, <1>8, <1>9 DEF w, g

(* The flags, as the controller reads them off the registers.               *)
LEMMA RingFlags ==
  ASSUME NEW r, Ring(r)
  PROVE  /\ Up(r.wptr) = r.rview <=> Taken(r) = Depth - 1
         /\ Up(Up(r.wptr)) = r.rview <=> Taken(r) = Depth - 2
         /\ r.rptr = r.wview <=> Seen(r) = 0
         /\ Up(r.rptr) = r.wview <=> Seen(r) = 1
         /\ (Count(r) \div Half) % 2 = 1 <=> Count(r) >= Half
         /\ Count(r) \in 0..(Depth - 1) /\ Taken(r) \in 0..(Depth - 1) /\ Seen(r) \in 0..(Depth - 1)
  <1>1. r.wptr \in Ptrs /\ r.rptr \in Ptrs /\ r.rview \in Ptrs /\ r.wview \in Ptrs
    BY DEF Ring
  <1>2. Count(r) \in 0..(Depth - 1) /\ Taken(r) \in 0..(Depth - 1) /\ Seen(r) \in 0..(Depth - 1)
    BY <1>1, GapRange DEF Count, Taken, Seen
  <1>3. \A m \in 0..(Depth - 1) : (m \div Half) % 2 = 1 <=> m >= Half
    <2>1. TAKE m \in 0..(Depth - 1)
    <2>2. CASE m < Half
      <3>1. m \div Half = 0
        BY <2>2, HalfDepth
      <3>2. QED
        BY <2>2, <3>1, HalfDepth
    <2>3. CASE m >= Half
      <3>1. m \div Half = 1
        BY <2>3, HalfDepth
      <3>2. QED
        BY <2>3, <3>1, HalfDepth
    <2>4. QED
      BY <2>2, <2>3, HalfDepth
  <1>4. QED
    BY <1>1, <1>2, <1>3, GapUp DEF Taken, Seen

(***************************************************************************)
(* The invariant.                                                          *)
(***************************************************************************)
(* A walker g is at a descriptor, inside a buffer or between two buffers of *)
(* the list l, with what it has left of the buffer.                         *)
AtDescriptor(g, l, k) ==
    IF g.cnt = 0 THEN g.adr = 2 * (k - 1)
    ELSE /\ g.adr = 2 * (k - 1) + 1
         /\ g.addr = BufBase(k) /\ g.len = l[k] /\ (g.last <=> k = Len(l))

InsideBuffer(g, l, k) ==
    /\ BufBase(k) <= g.addr /\ g.len >= 1 /\ g.addr + g.len = BufBase(k) + l[k]
    /\ (g.last <=> k = Len(l)) /\ g.next = 2 * k

BehindBuffer(g, l, k) == (g.last <=> k = Len(l)) /\ g.next = 2 * k

OnList(g, l) ==
    /\ g.state = "D_REQ" => \E k \in 1..Len(l) : AtDescriptor(g, l, k)
    /\ g.state \in {"B_REQ", "B_WAIT"} => \E k \in 1..Len(l) : InsideBuffer(g, l, k)
    /\ g.state = "B_REQ" => g.adr = g.addr
    /\ g.state = "NEXT" => \E k \in 0..Len(l) : BehindBuffer(g, l, k)

(* Where the walkers are in each phase, and that a job that fills leaves    *)
(* the source walker alone.                                                 *)
PhaseInv ==
    /\ job \in 1..(NJobs + 1) /\ phase \in Phases /\ (phase # "off" => job <= NJobs)
    /\ walk \in [Walkers -> SgType]
    /\ phase \in {"beat0", "reset"} => \A w \in Walkers : walk[w].state = "IDLE"
    /\ phase \in {"beat1", "beat2", "beat3"} => \A w \in Walkers : walk[w].state = "CMD"
    /\ phase = "beat3" => walk["src"].next = 0
    /\ KindOf(job) = "fill" => walk["src"].state \notin {"D_REQ", "B_REQ", "B_WAIT", "NEXT"}

ListInv == \A w \in Walkers : OnList(walk[w], ListOf(w))

RingsInv == Ring(srcf) /\ Ring(dstf)

(* A module that runs has a word and room for it; a walker in a burst, too. *)
CopyInv == KindOf(job) = "copy" /\ mod = "RUN" => Seen(srcf) >= 1 /\ Taken(dstf) <= Depth - 2
BurstInv ==
    /\ walk["src"].state = "B_REQ" => Taken(srcf) <= Depth - 2
    /\ walk["dst"].state = "B_REQ" => Seen(dstf) >= 1

ChannelInv == PhaseInv /\ ListInv /\ RingsInv /\ CopyInv /\ BurstInv

(* What a short last buffer adds: the burst that ends it leaves a place for *)
(* the marker.                                                              *)
ShortLast ==
    \A j \in DOMAIN Lists : Lists[j].kind = "copy" =>
        Lists[j].src[Len(Lists[j].src)] <= Half - 2

MarkerInv ==
    LET g == walk["src"] IN
    /\ g.state = "B_REQ" /\ g.last => Taken(srcf) + g.len <= Depth - 2
    /\ g.state = "NEXT" /\ g.last => Taken(srcf) <= Depth - 2

(* Memory is written inside the buffers only.                               *)
WriteInv == mem = [a \in Addrs |-> mem[a]] /\ InsideBuffers

(***************************************************************************)
(* The two FIFOs in one clock of the channel.                              *)
(***************************************************************************)
LEMMA RingCleared ==
  ASSUME NEW s, s = [wptr |-> 0, rptr |-> 0, rsync |-> 0, rview |-> 0, wsync |-> 0, wview |-> 0]
  PROVE  Ring(s) /\ Taken(s) = 0 /\ Seen(s) = 0
  BY ChannelDepth DEF Ring, Taken, Seen, Gap, Ptrs

LEMMA SrcFlags ==
  ASSUME Ring(srcf)
  PROVE  /\ S!full_out <=> Taken(srcf) = Depth - 1
         /\ S!almost_full_out <=> Taken(srcf) = Depth - 2
         /\ S!empty_out <=> Seen(srcf) = 0
         /\ S!almost_empty_out <=> Seen(srcf) = 1
         /\ S!half_full_out <=> Count(srcf) >= Half
         /\ Count(srcf) \in Nat /\ Taken(srcf) \in 0..(Depth - 1) /\ Seen(srcf) \in 0..(Depth - 1)
  <1>1. /\ S!full_out <=> Up(srcf.wptr) = srcf.rview
        /\ S!almost_full_out <=> Up(Up(srcf.wptr)) = srcf.rview
        /\ S!empty_out <=> srcf.rptr = srcf.wview
        /\ S!almost_empty_out <=> Up(srcf.rptr) = srcf.wview
        /\ S!half_full_out <=> (Count(srcf) \div Half) % 2 = 1
    BY DEF S!full_out, S!almost_full_out, S!empty_out, S!almost_empty_out, S!half_full_out,
           S!Inc, S!Dist, Up, Gap, Count, Half
  <1>2. QED
    BY <1>1, RingFlags

LEMMA DstFlags ==
  ASSUME Ring(dstf)
  PROVE  /\ D!full_out <=> Taken(dstf) = Depth - 1
         /\ D!almost_full_out <=> Taken(dstf) = Depth - 2
         /\ D!empty_out <=> Seen(dstf) = 0
         /\ D!almost_empty_out <=> Seen(dstf) = 1
         /\ D!half_full_out <=> Count(dstf) >= Half
         /\ Count(dstf) \in Nat /\ Taken(dstf) \in 0..(Depth - 1) /\ Seen(dstf) \in 0..(Depth - 1)
  <1>1. /\ D!full_out <=> Up(dstf.wptr) = dstf.rview
        /\ D!almost_full_out <=> Up(Up(dstf.wptr)) = dstf.rview
        /\ D!empty_out <=> dstf.rptr = dstf.wview
        /\ D!almost_empty_out <=> Up(dstf.rptr) = dstf.wview
        /\ D!half_full_out <=> (Count(dstf) \div Half) % 2 = 1
    BY DEF D!full_out, D!almost_full_out, D!empty_out, D!almost_empty_out, D!half_full_out,
           D!Inc, D!Dist, Up, Gap, Count, Half
  <1>2. QED
    BY <1>1, RingFlags

(* An edge writes at most the word it is offered and reads at most the word *)
(* it is asked for; what the other side has done shows a clock later.       *)
LEMMA SrcEdge ==
  ASSUME Ring(srcf), NEW wen \in BOOLEAN, NEW ren \in BOOLEAN, SrcControl(wen, ren)
  PROVE  /\ Ring(srcf') /\ Taken(srcf') \in Nat /\ Seen(srcf') \in Nat
         /\ Taken(srcf') <= Taken(srcf) + (IF wen THEN 1 ELSE 0)
         /\ ~wen => Taken(srcf') <= Count(srcf) + 1
         /\ ~Resets => Seen(srcf') >= Seen(srcf) - (IF ren THEN 1 ELSE 0)
         /\ ~Resets /\ ~ren => Seen(srcf') >= Count(srcf) - 1
  <1>1. /\ Taken(srcf) \in Nat /\ Count(srcf) \in Nat
    BY SrcFlags, ChannelDepth
  <1>2. CASE Resets
    <2>1. Ring(srcf') /\ Taken(srcf') = 0 /\ Seen(srcf') = 0
      BY <1>2, RingCleared DEF SrcControl, S!Clear, S!Cleared
    <2>2. QED
      BY <2>1, <1>1, <1>2
  <1>3. CASE ~Resets
    <2> DEFINE put == wen /\ ~S!full_out
               get == ren /\ ~S!empty_out
    <2>1. srcf' = [wptr  |-> IF put THEN Up(srcf.wptr) ELSE srcf.wptr,
                   rsync |-> srcf.rptr, rview |-> srcf.rsync,
                   rptr  |-> IF get THEN Up(srcf.rptr) ELSE srcf.rptr,
                   wsync |-> srcf.wptr, wview |-> srcf.wsync]
      BY <1>3 DEF SrcControl, S!Edge, S!wallow, S!rallow, S!Inc, Up
    <2>2. /\ put => Taken(srcf) # Depth - 1
          /\ get => Seen(srcf) # 0
          /\ put \in BOOLEAN /\ get \in BOOLEAN /\ (put => wen) /\ (get => ren)
      BY SrcFlags
    <2> HIDE DEF put, get
    <2>3. /\ Ring(srcf') /\ Taken(srcf') \in Nat /\ Seen(srcf') \in Nat /\ Seen(srcf) \in Nat
          /\ Taken(srcf') <= Taken(srcf) + (IF put THEN 1 ELSE 0)
          /\ Seen(srcf') >= Seen(srcf) - (IF get THEN 1 ELSE 0)
          /\ ~put => Taken(srcf') <= Count(srcf) + 1
          /\ ~get => Seen(srcf') >= Count(srcf) - 1
      BY <2>1, <2>2, RingClock
    <2>4. QED
      BY <2>2, <2>3, <1>1
  <1>4. QED
    BY <1>2, <1>3

LEMMA DstEdge ==
  ASSUME Ring(dstf), NEW wen \in BOOLEAN, NEW ren \in BOOLEAN, DstControl(wen, ren)
  PROVE  /\ Ring(dstf') /\ Taken(dstf') \in Nat /\ Seen(dstf') \in Nat
         /\ Taken(dstf') <= Taken(dstf) + (IF wen THEN 1 ELSE 0)
         /\ ~wen => Taken(dstf') <= Count(dstf) + 1
         /\ ~Resets => Seen(dstf') >= Seen(dstf) - (IF ren THEN 1 ELSE 0)
         /\ ~Resets /\ ~ren => Seen(dstf') >= Count(dstf) - 1
  <1>1. /\ Taken(dstf) \in Nat /\ Count(dstf) \in Nat
    BY DstFlags, ChannelDepth
  <1>2. CASE Resets
    <2>1. Ring(dstf') /\ Taken(dstf') = 0 /\ Seen(dstf') = 0
      BY <1>2, RingCleared DEF DstControl, D!Clear, D!Cleared
    <2>2. QED
      BY <2>1, <1>1, <1>2
  <1>3. CASE ~Resets
    <2> DEFINE put == wen /\ ~D!full_out
               get == ren /\ ~D!empty_out
    <2>1. dstf' = [wptr  |-> IF put THEN Up(dstf.wptr) ELSE dstf.wptr,
                   rsync |-> dstf.rptr, rview |-> dstf.rsync,
                   rptr  |-> IF get THEN Up(dstf.rptr) ELSE dstf.rptr,
                   wsync |-> dstf.wptr, wview |-> dstf.wsync]
      BY <1>3 DEF DstControl, D!Edge, D!wallow, D!rallow, D!Inc, Up
    <2>2. /\ put => Taken(dstf) # Depth - 1
          /\ get => Seen(dstf) # 0
          /\ put \in BOOLEAN /\ get \in BOOLEAN /\ (put => wen) /\ (get => ren)
      BY DstFlags
    <2> HIDE DEF put, get
    <2>3. /\ Ring(dstf') /\ Taken(dstf') \in Nat /\ Seen(dstf') \in Nat /\ Seen(dstf) \in Nat
          /\ Taken(dstf') <= Taken(dstf) + (IF put THEN 1 ELSE 0)
          /\ Seen(dstf') >= Seen(dstf) - (IF get THEN 1 ELSE 0)
          /\ ~put => Taken(dstf') <= Count(dstf) + 1
          /\ ~get => Seen(dstf') >= Count(dstf) - 1
      BY <2>1, <2>2, RingClock
    <2>4. QED
      BY <2>2, <2>3, <1>1
  <1>4. QED
    BY <1>2, <1>3

(***************************************************************************)
(* A walker in one clock of the channel.                                   *)
(***************************************************************************)
LEMMA SeqShape ==
  ASSUME NEW R, NEW l \in Seq(R)
  PROVE  DOMAIN l = 1..Len(l) /\ Len(l) \in Nat
  OBVIOUS

LEMMA SeqItem ==
  ASSUME NEW R, NEW l \in Seq(R), NEW k \in 1..Len(l)
  PROVE  l[k] \in R
  OBVIOUS

LEMMA JobList ==
  ASSUME job \in 1..NJobs, NEW w \in Walkers
  PROVE  /\ Len(ListOf(w)) \in 1..Bufs /\ DOMAIN ListOf(w) = 1..Len(ListOf(w))
         /\ \A k \in 1..Len(ListOf(w)) : ListOf(w)[k] \in 1..(Span - 1)
  <1> DEFINE J == [kind : {"copy", "fill"}, src : Seq(1..(Span - 1)), dst : Seq(1..(Span - 1))]
  <1>1. Lists \in Seq(J)
    BY ListsAssumption
  <1> HIDE DEF J
  <1>2. Len(Lists) \in Nat /\ DOMAIN Lists = 1..Len(Lists)
    BY <1>1
  <1>3. job \in DOMAIN Lists /\ ~(job > NJobs) /\ job \in Nat
    BY <1>2 DEF NJobs
  <1>4. Lists[job] \in J
    BY <1>1, <1>2, <1>3
  <1>5. Lists[job].src \in Seq(1..(Span - 1)) /\ Lists[job].dst \in Seq(1..(Span - 1))
    BY <1>4 DEF J
  <1>6. Len(Lists[job].src) \in 1..Bufs /\ Len(Lists[job].dst) \in 1..Bufs
    BY <1>3, ListsAssumption
  <1>7. ListOf(w) = Lists[job].src \/ ListOf(w) = Lists[job].dst
    BY <1>3 DEF ListOf
  <1>8. QED
    BY <1>5, <1>6, <1>7, SeqShape, SeqItem

LEMMA ModulusNat == LenModulus \in Nat /\ LenModulus >= 2
  BY DEF LenModulus

LEMMA KindOfJob ==
  ASSUME job \in 1..NJobs
  PROVE  /\ job \in DOMAIN Lists /\ ~(job > NJobs)
         /\ KindOf(job) = Lists[job].kind /\ KindOf(job) \in {"copy", "fill"}
  <1> DEFINE J == [kind : {"copy", "fill"}, src : Seq(1..(Span - 1)), dst : Seq(1..(Span - 1))]
  <1>1. Lists \in Seq(J)
    BY ListsAssumption
  <1> HIDE DEF J
  <1>2. Len(Lists) \in Nat /\ DOMAIN Lists = 1..Len(Lists)
    BY <1>1
  <1>3. job \in DOMAIN Lists /\ ~(job > NJobs) /\ ~(job > Len(Lists))
    BY <1>2 DEF NJobs
  <1>4. Lists[job] \in J
    BY <1>1, <1>2, <1>3
  <1>5. Lists[job].kind \in {"copy", "fill"}
    BY <1>4 DEF J
  <1>6. QED
    BY <1>3, <1>5 DEF KindOf

LEMMA ShortBuffer == \A m \in 1..(Span - 1) : m \in 1..(LenModulus - 1)
  BY MemoryAssumption, ModulusNat

LEMMA BaseNat == \A k \in Nat : BufBase(k) \in Nat
  BY MemoryAssumption DEF BufBase

(* The registers a walker changes together.                                 *)
LEMMA SgLoad ==
  ASSUME NEW g \in SgType, NEW x \in Nat
  PROVE  [g EXCEPT !.next = x] \in SgType
  BY DEF SgType

LEMMA SgStart ==
  ASSUME NEW g \in SgType, NEW st \in SgStates
  PROVE  [g EXCEPT !.last = FALSE, !.state = st] \in SgType
  BY DEF SgType

LEMMA OneTurn ==
  ASSUME NEW x \in Nat, NEW n \in Nat, x >= n, x < 2 * n
  PROVE  x % n = x - n
  BY SMT

LEMMA LastOne == \A m \in 1..(LenModulus - 1) : (m + LenModulus - 1) % LenModulus = m - 1
  <1>1. TAKE m \in 1..(LenModulus - 1)
  <1>2. m \in Nat /\ m >= 1 /\ m < LenModulus /\ LenModulus \in Nat
    BY ModulusNat
  <1>3. /\ m + LenModulus - 1 \in Nat
        /\ m + LenModulus - 1 >= LenModulus /\ m + LenModulus - 1 < 2 * LenModulus
    BY <1>2
  <1>4. (m + LenModulus - 1) % LenModulus = (m + LenModulus - 1) - LenModulus
    BY <1>2, <1>3, OneTurn
  <1>5. QED
    BY <1>2, <1>4

LEMMA BeatHalf == \A k \in Nat : (2 * k) \div 2 = k
  OBVIOUS

LEMMA WalkerStep ==
  ASSUME PhaseInv, phase # "off", NEW w \in Walkers, OnList(walk[w], ListOf(w)), NEW answer
  PROVE  /\ SgClock(w, walk[w], Pins(w, answer)) \in SgType
         /\ OnList(SgClock(w, walk[w], Pins(w, answer)), ListOf(w))
  <1> DEFINE g == walk[w]
             l == ListOf(w)
             p == Pins(w, answer)
             Good(x) == x \in SgType /\ OnList(x, l)
  <1>a. job \in 1..NJobs /\ Len(l) \in 1..Bufs
    BY JobList DEF PhaseInv, NJobs
  <1>b. \A k \in 1..Len(l) : l[k] \in 1..(Span - 1)
    BY <1>a, JobList
  <1>1. /\ Len(l) \in Nat /\ Len(l) >= 1
        /\ \A k \in 1..Len(l) : l[k] \in 1..(LenModulus - 1) /\ BufBase(k) \in Nat
    <2>1. Bufs \in Nat /\ Span \in Nat /\ Span <= LenModulus /\ LenModulus \in Nat
      BY MemoryAssumption DEF LenModulus
    <2>2. Len(l) \in Nat /\ Len(l) >= 1
      BY <1>a, <2>1
    <2>3. ASSUME NEW k \in 1..Len(l) PROVE l[k] \in 1..(LenModulus - 1) /\ BufBase(k) \in Nat
      <3>1. l[k] \in 1..(Span - 1)
        BY <1>b
      <3>2. k \in Nat
        BY <2>2
      <3>3. QED
        BY <3>1, <3>2, BaseNat, ShortBuffer
    <2>4. QED
      BY <2>2, <2>3
  <1>t. g \in SgType
    BY DEF PhaseInv
  <1>2. Good(g)
    BY <1>t
  <1>p. p.err \in BOOLEAN /\ p.ack \in BOOLEAN
    BY DEF Pins
  <1>c. p.head = 0 /\ (p.we /\ p.beat = 3 => phase = "beat3")
    BY DEF Pins, BeatOf
  <1>d. phase = "beat3" /\ w = "src" => g.next = 0
    BY DEF PhaseInv
  <1>e. ASSUME g.state = "D_REQ", NEW k \in 1..Len(l), g.adr \div 2 = k - 1
        PROVE  p.data = [last |-> k = Len(l), len |-> l[k], addr |-> BufBase(k), next |-> 2 * k]
    <2>1. p.data = ListBeat(w, g.adr)
      BY <1>e DEF Pins
    <2>2. (g.adr \div 2) + 1 = k
      BY <1>e, <1>a
    <2>3. QED
      BY <2>1, <2>2 DEF ListBeat
  <1>f. w = "src" \/ w = "dst"
    BY DEF Walkers
  <1>g. /\ SgClock(w, walk[w], Pins(w, answer)) = SgClock(w, g, p)
        /\ OnList(SgClock(w, walk[w], Pins(w, answer)), ListOf(w)) <=> OnList(SgClock(w, g, p), l)
    OBVIOUS
  <1> HIDE DEF g, l, p
  <1>3. ASSUME NEW x, Good(x) PROVE Good([x EXCEPT !.state = "IDLE"])
    BY <1>3 DEF SgType, SgStates, OnList
  <1>4. ASSUME g.state = "IDLE" PROVE Good(Idle(g, p))
    <2>1. Idle(g, p) \in SgType /\ Idle(g, p).state \in {"IDLE", "CMD"}
      BY <1>2 DEF Idle, SgType, SgStates
    <2>2. QED
      BY <2>1 DEF OnList
  <1>5. ASSUME g.state = "CMD" PROVE Good(Cmd(w, g, p))
    <2>1. p.head = 0 /\ (p.we /\ p.beat = 3 => phase = "beat3")
      BY <1>c
    <2>2. CASE p.we /\ p.beat = 3
      <3>a. PICK st \in {"NEXT", "END"} : st = IF p.use THEN "NEXT" ELSE "END"
        OBVIOUS
      <3>b. st \in SgStates
        BY DEF SgStates
      <3>c. PICK h : h = IF p.beat = (IF w = "src" THEN 2 ELSE 3) THEN [g EXCEPT !.next = 0] ELSE g
        OBVIOUS
      <3>d. Cmd(w, g, p) = [h EXCEPT !.last = FALSE, !.state = st]
        BY <2>1, <2>2, <3>a, <3>c DEF Cmd
      <3>e. h \in SgType
        BY <1>t, <3>c, SgLoad
      <3>1. Cmd(w, g, p) \in SgType
        BY <3>b, <3>d, <3>e, SgStart
      <3>2. Cmd(w, g, p).last = FALSE /\ Cmd(w, g, p).next = 0 /\ Cmd(w, g, p).state \in {"NEXT", "END"}
        BY <1>t, <1>c, <1>d, <1>f, <2>1, <2>2 DEF Cmd, SgType
      <3>3. BehindBuffer(Cmd(w, g, p), l, 0)
        BY <1>1, <3>2 DEF BehindBuffer
      <3>4. QED
        BY <1>1, <3>1, <3>2, <3>3 DEF OnList
    <2>3. CASE ~(p.we /\ p.beat = 3)
      <3>1. Cmd(w, g, p) \in SgType /\ Cmd(w, g, p).state = "CMD"
        BY <1>t, <1>5, <2>1, <2>3 DEF Cmd, SgType, SgStates
      <3>2. QED
        BY <3>1 DEF OnList
    <2>4. QED
      BY <2>2, <2>3
  <1>6. ASSUME g.state = "D_REQ" PROVE Good(DReq(g, p))
    <2>1. PICK k \in 1..Len(l) : AtDescriptor(g, l, k)
      BY <1>2, <1>6 DEF OnList
    <2>2. CASE p.err
      <3>1. DReq(g, p) \in SgType /\ DReq(g, p).state = "PANIC"
        BY <1>t, <2>2 DEF DReq, SgType, SgStates
      <3>2. QED
        BY <3>1 DEF OnList
    <2>3. CASE ~p.err /\ ~p.ack
      BY <1>2, <2>3 DEF DReq
    <2>4. CASE ~p.err /\ p.ack /\ g.cnt = 0
      <3>1. g.adr = 2 * (k - 1)
        BY <2>1, <2>4 DEF AtDescriptor
      <3>2. g.adr \div 2 = k - 1
        BY <1>1, <3>1, BeatHalf
      <3>3. p.data = [last |-> k = Len(l), len |-> l[k], addr |-> BufBase(k), next |-> 2 * k]
        BY <1>6, <1>e, <3>2
      <3>4. DReq(g, p) = [g EXCEPT !.last = (k = Len(l)), !.len = l[k], !.addr = BufBase(k),
                                   !.cnt = 1, !.adr = @ + 1]
        BY <2>4, <3>3 DEF DReq
      <3>5. PICK b \in BOOLEAN : b = (k = Len(l))
        OBVIOUS
      <3>6. DReq(g, p) \in SgType
        <4>1. PICK m \in 0..(LenModulus - 1) : m = l[k]
          BY <1>1
        <4>2. PICK x \in Nat : x = BufBase(k)
          BY <1>1
        <4>3. PICK a \in Nat : a = g.adr + 1
          BY <1>t DEF SgType
        <4>4. PICK c \in 0..1 : c = 1
          OBVIOUS
        <4>5. DReq(g, p) = [g EXCEPT !.last = b, !.len = m, !.addr = x, !.cnt = c, !.adr = a]
          BY <3>4, <3>5, <4>1, <4>2, <4>3, <4>4
        <4>6. QED
          BY <1>t, <4>5 DEF SgType
      <3>7. AtDescriptor(DReq(g, p), l, k) /\ DReq(g, p).state = "D_REQ"
        <4>1. /\ DReq(g, p).state = "D_REQ" /\ DReq(g, p).cnt = 1 /\ DReq(g, p).adr = g.adr + 1
              /\ DReq(g, p).addr = BufBase(k) /\ DReq(g, p).len = l[k] /\ DReq(g, p).last = b
          BY <1>t, <1>6, <3>4, <3>5 DEF SgType
        <4>2. DReq(g, p).cnt # 0 /\ DReq(g, p).adr = 2 * (k - 1) + 1
          BY <3>1, <4>1
        <4>3. DReq(g, p).last <=> k = Len(l)
          BY <3>5, <4>1
        <4>4. QED
          BY <4>1, <4>2, <4>3 DEF AtDescriptor
      <3>8. QED
        BY <3>6, <3>7 DEF OnList
    <2>5. CASE ~p.err /\ p.ack /\ g.cnt # 0
      <3>1. /\ g.adr = 2 * (k - 1) + 1
            /\ g.addr = BufBase(k) /\ g.len = l[k] /\ (g.last <=> k = Len(l))
        BY <2>1, <2>5 DEF AtDescriptor
      <3>2. g.adr \div 2 = k - 1
        BY <1>1, <3>1
      <3>3. p.data = [last |-> k = Len(l), len |-> l[k], addr |-> BufBase(k), next |-> 2 * k]
        BY <1>6, <1>e, <3>2
      <3>4. DReq(g, p) = [g EXCEPT !.next = 2 * k, !.adr = @ + 1, !.state = "B_WAIT"]
        BY <2>5, <3>3 DEF DReq
      <3>5. DReq(g, p) \in SgType /\ DReq(g, p).state = "B_WAIT"
        <4>1. PICK x \in Nat : x = 2 * k
          BY <1>1
        <4>2. PICK a \in Nat : a = g.adr + 1
          BY <1>t DEF SgType
        <4>3. DReq(g, p) = [g EXCEPT !.next = x, !.adr = a, !.state = "B_WAIT"]
          BY <3>4, <4>1, <4>2
        <4>4. QED
          BY <1>t, <4>3 DEF SgType, SgStates
      <3>6. InsideBuffer(DReq(g, p), l, k)
        BY <1>1, <1>t, <3>1, <3>4 DEF SgType, InsideBuffer
      <3>7. QED
        BY <3>5, <3>6 DEF OnList
    <2>6. QED
      BY <1>p, <2>2, <2>3, <2>4, <2>5
  <1>7. ASSUME g.state = "B_REQ" PROVE Good(BReq(g, p))
    <2>1. PICK k \in 1..Len(l) : InsideBuffer(g, l, k)
      BY <1>2, <1>7 DEF OnList
    <2>2. CASE p.err
      <3>1. BReq(g, p) \in SgType /\ BReq(g, p).state = "PANIC"
        BY <1>t, <2>2 DEF BReq, SgType, SgStates
      <3>2. QED
        BY <3>1 DEF OnList
    <2>3. CASE ~p.err /\ p.ack
      <3>1. (g.len + LenModulus - 1) % LenModulus = g.len - 1
        BY <1>t, <2>1, LastOne DEF SgType, InsideBuffer
      <3>2. PICK st \in {"NEXT", "B_WAIT", "B_REQ"} :
                /\ st = IF g.len = 1 THEN "NEXT" ELSE IF p.stop \/ p.end THEN "B_WAIT" ELSE "B_REQ"
                /\ st = "NEXT" <=> g.len = 1
        OBVIOUS
      <3>3. BReq(g, p) = [g EXCEPT !.adr = @ + 1, !.addr = @ + 1, !.io = TRUE, !.len = g.len - 1,
                                   !.state = st]
        BY <2>3, <3>1, <3>2 DEF BReq
      <3>4. BReq(g, p) \in SgType
        <4>1. PICK m \in 0..(LenModulus - 1) : m = g.len - 1
          <5>1. g.len \in 1..(LenModulus - 1)
            BY <1>t, <2>1, ModulusNat DEF SgType, InsideBuffer
          <5>2. QED
            BY <5>1, ModulusNat
        <4>2. PICK a \in Nat : a = g.adr + 1
          BY <1>t DEF SgType
        <4>3. PICK x \in Nat : x = g.addr + 1
          BY <1>t DEF SgType
        <4>4. BReq(g, p) = [g EXCEPT !.adr = a, !.addr = x, !.io = TRUE, !.len = m, !.state = st]
          BY <3>3, <4>1, <4>2, <4>3
        <4>5. QED
          BY <1>t, <4>4 DEF SgType, SgStates
      <3>5. BehindBuffer(BReq(g, p), l, k)
        BY <1>t, <2>1, <3>3 DEF SgType, InsideBuffer, BehindBuffer
      <3>6. st # "NEXT" => InsideBuffer(BReq(g, p), l, k)
        BY <1>1, <1>t, <2>1, <3>2, <3>3 DEF SgType, InsideBuffer
      <3>7. g.adr = g.addr
        BY <1>2, <1>7 DEF OnList
      <3>8. BReq(g, p).adr = BReq(g, p).addr /\ BReq(g, p).state = st
        BY <1>t, <3>3, <3>7 DEF SgType
      <3>9. QED
        BY <1>1, <3>2, <3>4, <3>5, <3>6, <3>8 DEF OnList
    <2>4. CASE ~p.err /\ ~p.ack
      <3>1. BReq(g, p) = g \/ BReq(g, p) = [g EXCEPT !.state = "B_WAIT"]
        BY <2>4 DEF BReq
      <3>2. ASSUME BReq(g, p) = [g EXCEPT !.state = "B_WAIT"] PROVE Good(BReq(g, p))
        <4>1. BReq(g, p) \in SgType /\ BReq(g, p).state = "B_WAIT"
          BY <1>t, <3>2 DEF SgType, SgStates
        <4>2. InsideBuffer(BReq(g, p), l, k)
          BY <1>t, <2>1, <3>2 DEF SgType, InsideBuffer
        <4>3. QED
          BY <4>1, <4>2 DEF OnList
      <3>3. QED
        BY <1>2, <3>1, <3>2
    <2>5. QED
      BY <1>p, <2>2, <2>3, <2>4
  <1>8. ASSUME g.state = "B_WAIT" PROVE Good(BWait(g, p))
    <2>1. PICK k \in 1..Len(l) : InsideBuffer(g, l, k)
      BY <1>2, <1>8 DEF OnList
    <2>2. \/ BWait(g, p) = g
          \/ BWait(g, p) = [g EXCEPT !.state = "END"]
          \/ BWait(g, p) = [g EXCEPT !.adr = g.addr, !.io = FALSE, !.state = "B_REQ"]
      BY DEF BWait
    <2>3. BWait(g, p) \in SgType
      BY <1>t, <2>2 DEF SgType, SgStates
    <2>4. ASSUME BWait(g, p) = [g EXCEPT !.state = "END"] PROVE Good(BWait(g, p))
      <3>1. BWait(g, p).state = "END"
        BY <1>t, <2>4 DEF SgType
      <3>2. QED
        BY <2>3, <3>1 DEF OnList
    <2>5. ASSUME BWait(g, p) = [g EXCEPT !.adr = g.addr, !.io = FALSE, !.state = "B_REQ"]
          PROVE  Good(BWait(g, p))
      <3>1. BWait(g, p).state = "B_REQ" /\ BWait(g, p).adr = BWait(g, p).addr
        BY <1>t, <2>5 DEF SgType
      <3>2. InsideBuffer(BWait(g, p), l, k)
        BY <1>t, <2>1, <2>5 DEF SgType, InsideBuffer
      <3>3. QED
        BY <2>3, <3>1, <3>2 DEF OnList
    <2>6. QED
      BY <1>2, <2>2, <2>4, <2>5
  <1>9. ASSUME g.state = "NEXT" PROVE Good(NextBuffer(g))
    <2>1. PICK k \in 0..Len(l) : BehindBuffer(g, l, k)
      BY <1>2, <1>9 DEF OnList
    <2>2. CASE g.last
      <3>1. NextBuffer(g) \in SgType /\ NextBuffer(g).state = "END"
        BY <1>t, <2>2 DEF NextBuffer, SgType, SgStates
      <3>2. QED
        BY <3>1 DEF OnList
    <2>3. CASE ~g.last
      <3>1. k + 1 \in 1..Len(l) /\ g.next = 2 * ((k + 1) - 1)
        BY <1>1, <2>1, <2>3 DEF BehindBuffer
      <3>2. NextBuffer(g) \in SgType /\ NextBuffer(g).state = "D_REQ"
        <4>1. PICK c \in 0..1 : c = 0
          OBVIOUS
        <4>2. NextBuffer(g) = [g EXCEPT !.adr = g.next, !.cnt = c, !.state = "D_REQ"]
          BY <2>3, <4>1 DEF NextBuffer
        <4>3. QED
          BY <1>t, <4>2 DEF SgType, SgStates
      <3>3. AtDescriptor(NextBuffer(g), l, k + 1)
        BY <1>t, <2>3, <3>1 DEF NextBuffer, AtDescriptor, SgType
      <3>4. QED
        BY <3>1, <3>2, <3>3 DEF OnList
    <2>4. QED
      BY <2>2, <2>3
  <1> DEFINE n == CASE g.state = "IDLE"   -> Idle(g, p)
                    [] g.state = "CMD"    -> Cmd(w, g, p)
                    [] g.state = "D_REQ"  -> DReq(g, p)
                    [] g.state = "B_REQ"  -> BReq(g, p)
                    [] g.state = "B_WAIT" -> BWait(g, p)
                    [] g.state = "NEXT"   -> NextBuffer(g)
                    [] OTHER              -> g
  <1> HIDE DEF Good
  <1>10. Good(n)
    BY <1>2, <1>4, <1>5, <1>6, <1>7, <1>8, <1>9
  <1>11. SgClock(w, g, p) = IF p.done THEN [n EXCEPT !.state = "IDLE"] ELSE n
    BY DEF SgClock
  <1>12. Good(SgClock(w, g, p))
    <2> HIDE DEF n
    <2>1. QED
      BY <1>3, <1>10, <1>11
  <1>13. QED
    BY <1>12, <1>g DEF Good

(* Where a walker goes in the phases around a job, and that a walker that   *)
(* is not used for the job stays out of the way.                            *)
LEMMA WalkerPhase ==
  ASSUME NEW w \in Walkers, NEW g \in SgType, NEW answer
  PROVE  LET p == Pins(w, answer)
             n == SgClock(w, g, p)
         IN  /\ phase = "tr" => n.state = "IDLE"
             /\ phase = "reset" /\ g.state = "IDLE" => n.state = "IDLE"
             /\ phase = "beat0" /\ g.state = "IDLE" => n.state = "CMD"
             /\ phase \in {"beat1", "beat2"} /\ g.state = "CMD" => n.state = "CMD"
             /\ phase = "beat2" /\ g.state = "CMD" /\ w = "src" => n.next = 0
             /\ ~Uses(w) /\ g.state \in {"IDLE", "CMD", "END", "PANIC"}
                    => n.state \in {"IDLE", "CMD", "END", "PANIC"}
  <1> DEFINE p == Pins(w, answer)
             n0 == CASE g.state = "IDLE"   -> Idle(g, p)
                     [] g.state = "CMD"    -> Cmd(w, g, p)
                     [] g.state = "D_REQ"  -> DReq(g, p)
                     [] g.state = "B_REQ"  -> BReq(g, p)
                     [] g.state = "B_WAIT" -> BWait(g, p)
                     [] g.state = "NEXT"   -> NextBuffer(g)
                     [] OTHER              -> g
             n == SgClock(w, g, p)
  <1>1. /\ p.we <=> phase \in {"beat0", "beat1", "beat2", "beat3"}
        /\ p.done <=> phase = "tr"
        /\ p.head = 0 /\ (p.use <=> Uses(w))
        /\ phase = "beat1" => p.beat = 1
        /\ phase = "beat2" => p.beat = 2
    <2>1. p.we = (phase \in {"beat0", "beat1", "beat2", "beat3"}) /\ p.done = (phase = "tr")
      BY DEF Pins, BeatOf
    <2>2. p.head = 0 /\ p.use = Uses(w)
      BY DEF Pins
    <2>3. (phase = "beat1" => p.beat = 1) /\ (phase = "beat2" => p.beat = 2)
      BY DEF Pins, BeatOf
    <2>4. QED
      BY <2>1, <2>2, <2>3
  <1>2. n = IF p.done THEN [n0 EXCEPT !.state = "IDLE"] ELSE n0
    BY DEF SgClock
  <1> HIDE DEF p, n, n0
  <1>3. g.state = "IDLE" => n0 = Idle(g, p)
    BY DEF n0
  <1>4. g.state = "CMD" => n0 = Cmd(w, g, p)
    BY DEF n0
  <1>5. g.state \in {"END", "PANIC"} => n0 = g
    BY DEF n0
  <1>6. /\ Idle(g, p).state = IF p.we THEN "CMD" ELSE "IDLE"
        /\ "state" \in DOMAIN Idle(g, p)
    BY DEF Idle, SgType
  <1>7. g.state = "CMD" /\ ~(p.we /\ p.beat = 3) => Cmd(w, g, p).state = "CMD"
    BY DEF Cmd, SgType
  <1>8. g.state = "CMD" /\ p.we /\ p.beat = 3 => Cmd(w, g, p).state = IF p.use THEN "NEXT" ELSE "END"
    BY DEF Cmd, SgType
  <1>9. g.state = "CMD" /\ p.we /\ p.beat = 2 /\ w = "src" => Cmd(w, g, p).next = 0
    BY <1>1 DEF Cmd, SgType
  <1>10. "state" \in DOMAIN n0
    <2>1. "state" \in DOMAIN g
      BY DEF SgType
    <2>2. QED
      BY <2>1 DEF n0, Idle, Cmd, DReq, BReq, BWait, NextBuffer
  <1>11. phase = "tr" => n.state = "IDLE"
    BY <1>1, <1>2, <1>10
  <1>12. phase # "tr" => n = n0
    BY <1>1, <1>2
  <1>13. phase = "reset" /\ g.state = "IDLE" => n.state = "IDLE"
    BY <1>1, <1>3, <1>6, <1>12
  <1>14. phase = "beat0" /\ g.state = "IDLE" => n.state = "CMD"
    BY <1>1, <1>3, <1>6, <1>12
  <1>15. phase \in {"beat1", "beat2"} /\ g.state = "CMD" => n.state = "CMD"
    BY <1>1, <1>4, <1>7, <1>12
  <1>16. phase = "beat2" /\ g.state = "CMD" /\ w = "src" => n.next = 0
    BY <1>1, <1>4, <1>9, <1>12
  <1>17. ASSUME ~Uses(w), g.state \in {"IDLE", "CMD", "END", "PANIC"}
         PROVE  n.state \in {"IDLE", "CMD", "END", "PANIC"}
    <2>1. n0.state \in {"IDLE", "CMD", "END", "PANIC"}
      BY <1>1, <1>3, <1>4, <1>5, <1>6, <1>7, <1>8, <1>17
    <2>2. QED
      BY <2>1, <1>11, <1>12
  <1>18. QED
    BY <1>11, <1>13, <1>14, <1>15, <1>16, <1>17 DEF n, p

LEMMA PhaseStep ==
  ASSUME PhaseInv, ListInv, NEW answer, Clock(answer)
  PROVE  PhaseInv' /\ ListInv'
  <1>1. /\ phase # "off" /\ phase' = NextPhase
        /\ job' = IF phase = "reset" THEN job + 1 ELSE job
        /\ walk' = [w \in Walkers |-> SgClock(w, walk[w], Pins(w, answer))]
    BY DEF Clock, WalkersClock
  <1>2. NJobs \in Nat /\ job \in 1..NJobs
    BY <1>1, ListsAssumption DEF PhaseInv, NJobs
  <1>3. /\ job' \in 1..(NJobs + 1) /\ phase' \in Phases /\ (phase' # "off" => job' <= NJobs)
    BY <1>1, <1>2 DEF NextPhase, Phases, BeatOf, PhaseInv
  <1>4. \A w \in Walkers : walk'[w] \in SgType /\ OnList(walk'[w], ListOf(w))
    <2>1. TAKE w \in Walkers
    <2>2. walk'[w] = SgClock(w, walk[w], Pins(w, answer))
      BY <1>1
    <2>3. QED
      BY <1>1, <2>2, WalkerStep DEF ListInv
  <1>5. walk' \in [Walkers -> SgType]
    <2>1. walk' = [w \in Walkers |-> walk'[w]]
      BY <1>1
    <2>2. QED
      BY <1>4, <2>1
  <1>6. \A w \in Walkers : walk[w] \in SgType
    BY DEF PhaseInv
  <1>7. phase' \in {"beat0", "reset"} => \A w \in Walkers : walk'[w].state = "IDLE"
    <2>1. phase' \in {"beat0", "reset"} => phase \in {"tr", "reset"}
      BY <1>1 DEF NextPhase, PhaseInv, Phases, BeatOf
    <2>2. QED
      BY <1>1, <1>6, <2>1, WalkerPhase DEF PhaseInv
  <1>8. phase' \in {"beat1", "beat2", "beat3"} => \A w \in Walkers : walk'[w].state = "CMD"
    <2>1. phase' \in {"beat1", "beat2", "beat3"} => phase \in {"beat0", "beat1", "beat2"}
      BY <1>1 DEF NextPhase, PhaseInv, Phases, BeatOf
    <2>2. QED
      BY <1>1, <1>6, <2>1, WalkerPhase DEF PhaseInv
  <1>9. phase' = "beat3" => walk'["src"].next = 0
    <2>1. phase' = "beat3" => phase = "beat2"
      BY <1>1 DEF NextPhase, PhaseInv, Phases, BeatOf
    <2>2. "src" \in Walkers
      BY DEF Walkers
    <2>3. QED
      BY <1>1, <1>6, <2>1, <2>2, WalkerPhase DEF PhaseInv
  <1>10. CASE phase = "reset"
    <2>1. \A w \in Walkers : walk'[w].state = "IDLE"
      BY <1>1, <1>6, <1>10, WalkerPhase DEF PhaseInv
    <2>2. KindOf(job)' = "fill" => walk'["src"].state \notin {"D_REQ", "B_REQ", "B_WAIT", "NEXT"}
      BY <2>1 DEF Walkers
    <2>3. ListInv'
      BY <2>1 DEF ListInv, OnList
    <2>4. QED
      BY <1>3, <1>5, <1>7, <1>8, <1>9, <2>2, <2>3 DEF PhaseInv
  <1>11. CASE phase # "reset"
    <2>1. job' = job
      BY <1>1, <1>11
    <2>2. KindOf(job)' = KindOf(job) /\ \A w \in Walkers : ListOf(w)' = ListOf(w)
      BY <2>1 DEF KindOf, ListOf
    <2>3. KindOf(job) = "fill" => walk'["src"].state \notin {"D_REQ", "B_REQ", "B_WAIT", "NEXT"}
      <3>1. SUFFICES ASSUME KindOf(job) = "fill"
                     PROVE  walk'["src"].state \notin {"D_REQ", "B_REQ", "B_WAIT", "NEXT"}
        OBVIOUS
      <3>2. "src" \in Walkers /\ ~Uses("src")
        BY <3>1 DEF Walkers, Uses
      <3>3. walk["src"] \in SgType /\ walk["src"].state \in {"IDLE", "CMD", "END", "PANIC"}
        BY <1>6, <3>1, <3>2 DEF PhaseInv, SgType, SgStates
      <3>4. walk'["src"].state \in {"IDLE", "CMD", "END", "PANIC"}
        BY <1>1, <3>2, <3>3, WalkerPhase
      <3>5. QED
        BY <3>4
    <2>4. ListInv'
      BY <1>4, <2>2 DEF ListInv
    <2>5. QED
      BY <1>3, <1>5, <1>7, <1>8, <1>9, <2>2, <2>3, <2>4 DEF PhaseInv
  <1>12. QED
    BY <1>10, <1>11

(***************************************************************************)
(* The bursts.                                                             *)
(***************************************************************************)
(* How a walker gets into a burst or stays in it, and how it comes to the   *)
(* end of a list.                                                           *)
LEMMA BurstMoves ==
  ASSUME NEW w \in Walkers, NEW g \in SgType, NEW answer
  PROVE  LET p == Pins(w, answer)
             n == SgClock(w, g, p)
         IN  /\ n.state = "B_REQ" =>
                   /\ n.last = g.last /\ ~p.done
                   /\ \/ g.state = "B_WAIT" /\ p.start /\ n.len = g.len
                      \/ g.state = "B_REQ" /\ ~p.ack /\ n.len = g.len
                      \/ /\ g.state = "B_REQ" /\ p.ack /\ ~p.stop /\ g.len # 1
                         /\ n.len = (g.len + LenModulus - 1) % LenModulus
             /\ n.state = "NEXT" /\ n.last => g.state = "B_REQ" /\ p.ack /\ g.len = 1 /\ g.last
  <1> DEFINE p == Pins(w, answer)
             n0 == CASE g.state = "IDLE"   -> Idle(g, p)
                     [] g.state = "CMD"    -> Cmd(w, g, p)
                     [] g.state = "D_REQ"  -> DReq(g, p)
                     [] g.state = "B_REQ"  -> BReq(g, p)
                     [] g.state = "B_WAIT" -> BWait(g, p)
                     [] g.state = "NEXT"   -> NextBuffer(g)
                     [] OTHER              -> g
             n == SgClock(w, g, p)
             In(x) == /\ x.last = g.last
                      /\ \/ g.state = "B_WAIT" /\ p.start /\ x.len = g.len
                         \/ g.state = "B_REQ" /\ ~p.ack /\ x.len = g.len
                         \/ /\ g.state = "B_REQ" /\ p.ack /\ ~p.stop /\ g.len # 1
                            /\ x.len = (g.len + LenModulus - 1) % LenModulus
             Out == g.state = "B_REQ" /\ p.ack /\ g.len = 1 /\ g.last
             Fine(x) == (x.state = "B_REQ" => In(x)) /\ (x.state = "NEXT" /\ x.last => Out)
  <1>1. n = IF p.done THEN [n0 EXCEPT !.state = "IDLE"] ELSE n0
    BY DEF SgClock
  <1>2. "state" \in DOMAIN n0
    <2>1. "state" \in DOMAIN g
      BY DEF SgType
    <2>2. QED
      BY <2>1 DEF n0, Idle, Cmd, DReq, BReq, BWait, NextBuffer
  <1> HIDE DEF p, n
  <1>3. ASSUME g.state = "IDLE" PROVE Fine(Idle(g, p))
    BY DEF Idle, SgType
  <1>4. ASSUME g.state = "CMD" PROVE Fine(Cmd(w, g, p))
    BY <1>4 DEF Cmd, SgType
  <1>5. ASSUME g.state = "D_REQ" PROVE Fine(DReq(g, p))
    BY <1>5 DEF DReq, SgType
  <1>6. ASSUME g.state = "B_REQ" PROVE Fine(BReq(g, p))
    BY <1>6 DEF BReq, SgType
  <1>7. ASSUME g.state = "B_WAIT" PROVE Fine(BWait(g, p))
    BY <1>7 DEF BWait, SgType
  <1>8. ASSUME g.state = "NEXT" PROVE Fine(NextBuffer(g))
    BY <1>8 DEF NextBuffer, SgType
  <1>9. ASSUME g.state \in {"END", "PANIC"} PROVE Fine(g)
    BY <1>9
  <1>10. g.state \in SgStates
    BY DEF SgType
  <1> HIDE DEF Fine
  <1>11. Fine(n0)
    BY <1>3, <1>4, <1>5, <1>6, <1>7, <1>8, <1>9, <1>10 DEF SgStates
  <1> HIDE DEF n0
  <1>12. p.done => n.state = "IDLE"
    BY <1>1, <1>2
  <1>13. ~p.done => Fine(n)
    BY <1>1, <1>11
  <1>14. (n.state = "B_REQ" => In(n) /\ ~p.done) /\ (n.state = "NEXT" /\ n.last => Out)
    BY <1>12, <1>13 DEF Fine
  <1>15. QED
    BY <1>14 DEF n, p

LEMMA SrcSideClock ==
  ASSUME Ring(srcf), NEW answer, Clock(answer)
  PROVE  LET xfer == ss_xfer(walk["src"], Pins("src", answer)) IN
         /\ Ring(srcf') /\ Taken(srcf') \in Nat /\ Seen(srcf') \in Nat
         /\ Taken(srcf') <= Taken(srcf) + (IF xfer THEN 1 ELSE 0)
         /\ ~xfer => Taken(srcf') <= Count(srcf) + 1
         /\ ~Resets => Seen(srcf') >= Seen(srcf) - (IF M!m_src_get(mod) THEN 1 ELSE 0)
  <1>1. PICK wen \in BOOLEAN : wen = ss_xfer(walk["src"], Pins("src", answer))
    BY DEF ss_xfer
  <1>2. PICK ren \in BOOLEAN : ren = M!m_src_get(mod)
    BY DEF M!m_src_get
  <1>3. SrcControl(wen, ren)
    BY <1>1, <1>2 DEF Clock, SrcSide
  <1>4. QED
    BY <1>1, <1>2, <1>3, SrcEdge

LEMMA DstSideClock ==
  ASSUME Ring(dstf), NEW answer, Clock(answer)
  PROVE  LET xfer == ss_xfer(walk["dst"], Pins("dst", answer)) IN
         /\ Ring(dstf') /\ Taken(dstf') \in Nat /\ Seen(dstf') \in Nat
         /\ Taken(dstf') <= Taken(dstf) + (IF M!m_dst_put(mod) THEN 1 ELSE 0)
         /\ ~Resets => Seen(dstf') >= Seen(dstf) - (IF xfer THEN 1 ELSE 0)
         /\ ~Resets /\ ~xfer => Seen(dstf') >= Count(dstf) - 1
  <1>1. PICK ren \in BOOLEAN : ren = (ss_xfer(walk["dst"], Pins("dst", answer)) /\ ~End("dst"))
    OBVIOUS
  <1>2. PICK wen \in BOOLEAN : wen = M!m_dst_put(mod)
    BY DEF M!m_dst_put
  <1>3. DstControl(wen, ren)
    BY <1>1, <1>2 DEF Clock, DstSide
  <1>4. /\ Ring(dstf') /\ Taken(dstf') \in Nat /\ Seen(dstf') \in Nat
        /\ Taken(dstf') <= Taken(dstf) + (IF wen THEN 1 ELSE 0)
        /\ ~Resets => Seen(dstf') >= Seen(dstf) - (IF ren THEN 1 ELSE 0)
        /\ ~Resets /\ ~ren => Seen(dstf') >= Count(dstf) - 1
    BY <1>3, DstEdge
  <1>5. Seen(dstf) \in Nat
    BY DstFlags, ChannelDepth
  <1>6. ren => ss_xfer(walk["dst"], Pins("dst", answer))
    BY <1>1
  <1> HIDE DEF ss_xfer
  <1>7. QED
    BY <1>2, <1>4, <1>5, <1>6

LEMMA CopyStep ==
  ASSUME PhaseInv, RingsInv, CopyInv, NEW answer, Clock(answer)
  PROVE  CopyInv'
  <1>1. SUFFICES ASSUME KindOf(job)' = "copy", mod' = "RUN"
                 PROVE  Seen(srcf') >= 1 /\ Taken(dstf') <= Depth - 2
    BY DEF CopyInv
  <1>2. ~Resets /\ mod' = M!ModClock(mod, ModPins)
    BY <1>1 DEF Clock, ModSide
  <1>3. job' = job /\ KindOf(job) = "copy"
    BY <1>1, <1>2 DEF Clock, Resets, KindOf
  <1>4. mod' = M!CopyClock(mod, ModPins)
    BY <1>2, <1>3 DEF M!ModClock
  <1>5. /\ Seen(srcf') \in Nat /\ Taken(dstf') \in Nat
        /\ Seen(srcf') >= Seen(srcf) - (IF M!m_src_get(mod) THEN 1 ELSE 0)
        /\ Taken(dstf') <= Taken(dstf) + (IF M!m_dst_put(mod) THEN 1 ELSE 0)
    BY <1>2, SrcSideClock, DstSideClock DEF RingsInv
  <1>6. Seen(srcf) \in 0..(Depth - 1) /\ Taken(dstf) \in 0..(Depth - 1)
    BY SrcFlags, DstFlags DEF RingsInv
  <1>7. /\ ModPins.empty <=> Seen(srcf) = 0
        /\ ModPins.almost_empty <=> Seen(srcf) = 1
        /\ ModPins.full <=> Taken(dstf) = Depth - 1
        /\ ModPins.almost_full <=> Taken(dstf) = Depth - 2
    BY SrcFlags, DstFlags DEF RingsInv, ModPins
  <1>8. \/ mod \in {"IDLE", "WAIT"} /\ ~ModPins.full /\ ~ModPins.empty
        \/ /\ mod = "RUN" /\ ~ModPins.full /\ ~ModPins.empty
           /\ ~ModPins.almost_full /\ ~ModPins.almost_empty
    BY <1>1, <1>4 DEF M!CopyClock
  <1>9. CASE mod \in {"IDLE", "WAIT"} /\ ~ModPins.full /\ ~ModPins.empty
    <2>1. ~M!m_src_get(mod) /\ ~M!m_dst_put(mod)
      BY <1>3, <1>9 DEF M!m_src_get, M!m_dst_put
    <2>2. QED
      BY <2>1, <1>5, <1>6, <1>7, <1>9, ChannelDepth
  <1>10. CASE /\ mod = "RUN" /\ ~ModPins.full /\ ~ModPins.empty
              /\ ~ModPins.almost_full /\ ~ModPins.almost_empty
    <2>1. /\ Seen(srcf') >= Seen(srcf) - 1
          /\ Taken(dstf') <= Taken(dstf) + 1
      BY <1>5, <1>6, ChannelDepth
    <2>2. QED
      BY <2>1, <1>5, <1>6, <1>7, <1>10, ChannelDepth
  <1>11. QED
    BY <1>8, <1>9, <1>10

LEMMA BurstStep ==
  ASSUME PhaseInv, RingsInv, BurstInv, NEW answer, Clock(answer)
  PROVE  BurstInv'
  <1>1. \A w \in Walkers : walk'[w] = SgClock(w, walk[w], Pins(w, answer)) /\ walk[w] \in SgType
    BY DEF Clock, WalkersClock, PhaseInv
  <1>2. ASSUME walk'["src"].state = "B_REQ" PROVE Taken(srcf') <= Depth - 2
    <2> DEFINE g == walk["src"]
               p == Pins("src", answer)
    <2>1. \/ g.state = "B_WAIT" /\ p.start
          \/ g.state = "B_REQ" /\ ~p.ack
          \/ g.state = "B_REQ" /\ p.ack /\ ~p.stop
      BY <1>1, <1>2, BurstMoves DEF Walkers
    <2>2. /\ p.start <=> Count(srcf) < Half
          /\ p.stop <=> Taken(srcf) = Depth - 2
          /\ Taken(srcf) \in 0..(Depth - 1) /\ Count(srcf) \in Nat
      <3>1. p.start = ~S!half_full_out /\ p.stop = S!almost_full_out
        BY DEF Pins, Start, Stop
      <3>2. /\ S!half_full_out <=> Count(srcf) >= Half
            /\ S!almost_full_out <=> Taken(srcf) = Depth - 2
            /\ Count(srcf) \in Nat /\ Taken(srcf) \in 0..(Depth - 1)
        BY SrcFlags DEF RingsInv
      <3>3. Count(srcf) < Half <=> ~(Count(srcf) >= Half)
        BY <3>2, HalfDepth
      <3>4. QED
        BY <3>1, <3>2, <3>3
    <2>3. /\ Taken(srcf') \in Nat
          /\ Taken(srcf') <= Taken(srcf) + (IF ss_xfer(g, p) THEN 1 ELSE 0)
          /\ ~ss_xfer(g, p) => Taken(srcf') <= Count(srcf) + 1
      BY SrcSideClock DEF RingsInv
    <2>4. g.state = "B_REQ" => Taken(srcf) <= Depth - 2
      BY DEF BurstInv
    <2>5. CASE g.state = "B_WAIT" /\ p.start
      <3>1. ~ss_xfer(g, p)
        BY <2>5 DEF ss_xfer, Moves, ss_last
      <3>2. QED
        BY <2>2, <2>3, <2>5, <3>1, HalfDepth
    <2>6. CASE g.state = "B_REQ" /\ ~p.ack
      <3>1. ~ss_xfer(g, p)
        BY <2>6 DEF ss_xfer, Moves, ss_last
      <3>2. QED
        BY <2>2, <2>3, <2>4, <2>6, <3>1, ChannelDepth
    <2>7. CASE g.state = "B_REQ" /\ p.ack /\ ~p.stop
      <3>1. Taken(srcf') <= Taken(srcf) + 1
        BY <2>2, <2>3, ChannelDepth
      <3>2. QED
        BY <2>2, <2>3, <2>4, <2>7, <3>1, ChannelDepth
    <2>8. QED
      BY <2>1, <2>5, <2>6, <2>7
  <1>3. ASSUME walk'["dst"].state = "B_REQ" PROVE Seen(dstf') >= 1
    <2> DEFINE g == walk["dst"]
               p == Pins("dst", answer)
    <2>1. /\ ~p.done
          /\ \/ g.state = "B_WAIT" /\ p.start
             \/ g.state = "B_REQ" /\ ~p.ack
             \/ g.state = "B_REQ" /\ p.ack /\ ~p.stop
      BY <1>1, <1>3, BurstMoves DEF Walkers
    <2>2. ~Resets
      <3>1. phase # "tr"
        BY <2>1 DEF Pins
      <3>2. phase # "reset"
        BY <2>1 DEF PhaseInv, Walkers
      <3>3. QED
        BY <3>1, <3>2 DEF Resets
    <2>3. /\ p.start => Count(dstf) >= Half \/ Seen(dstf) # 0
          /\ p.stop <=> Seen(dstf) = 1
          /\ Seen(dstf) \in 0..(Depth - 1) /\ Count(dstf) \in Nat
      <3>1. p.start = (D!half_full_out \/ (M!m_end(mod) /\ ~D!empty_out)) /\ p.stop = D!almost_empty_out
        BY DEF Pins, Start, Stop
      <3>2. QED
        BY <3>1, DstFlags DEF RingsInv
    <2>4. /\ Seen(dstf') \in Nat
          /\ Seen(dstf') >= Seen(dstf) - (IF ss_xfer(g, p) THEN 1 ELSE 0)
          /\ ~ss_xfer(g, p) => Seen(dstf') >= Count(dstf) - 1
      BY <2>2, DstSideClock DEF RingsInv
    <2>5. g.state = "B_REQ" => Seen(dstf) >= 1
      BY DEF BurstInv
    <2>6. CASE g.state = "B_WAIT" /\ p.start
      <3>1. ~ss_xfer(g, p)
        BY <2>6 DEF ss_xfer, Moves, ss_last
      <3>2. QED
        BY <2>3, <2>4, <2>6, <3>1, HalfDepth
    <2>7. CASE g.state = "B_REQ" /\ ~p.ack
      <3>1. ~ss_xfer(g, p)
        BY <2>7 DEF ss_xfer, Moves, ss_last
      <3>2. QED
        BY <2>3, <2>4, <2>5, <2>7, <3>1, ChannelDepth
    <2>8. CASE g.state = "B_REQ" /\ p.ack /\ ~p.stop
      <3>1. Seen(dstf') >= Seen(dstf) - 1
        BY <2>3, <2>4, ChannelDepth
      <3>2. QED
        BY <2>3, <2>4, <2>5, <2>8, <3>1, ChannelDepth
    <2>9. QED
      BY <2>1, <2>6, <2>7, <2>8
  <1>4. QED
    BY <1>2, <1>3 DEF BurstInv

LEMMA MarkerStep ==
  ASSUME ShortLast, PhaseInv, ListInv, RingsInv, MarkerInv, NEW answer, Clock(answer)
  PROVE  MarkerInv'
  <1> DEFINE g == walk["src"]
             l == ListOf("src")
             p == Pins("src", answer)
             n == walk'["src"]
  <1>1. n = SgClock("src", g, p) /\ g \in SgType
    BY DEF Clock, WalkersClock, PhaseInv, Walkers
  <1>2. /\ n.state = "B_REQ" =>
              /\ n.last = g.last
              /\ \/ g.state = "B_WAIT" /\ p.start /\ n.len = g.len
                 \/ g.state = "B_REQ" /\ ~p.ack /\ n.len = g.len
                 \/ /\ g.state = "B_REQ" /\ p.ack /\ g.len # 1
                    /\ n.len = (g.len + LenModulus - 1) % LenModulus
        /\ n.state = "NEXT" /\ n.last => g.state = "B_REQ" /\ p.ack /\ g.len = 1 /\ g.last
    BY <1>1, BurstMoves DEF Walkers
  <1>3. ASSUME g.state \in {"B_REQ", "B_WAIT"}, g.last
        PROVE  g.len \in 1..(LenModulus - 1) /\ g.len <= Half - 2
    <2>1. PICK k \in 1..Len(l) : InsideBuffer(g, l, k)
      BY <1>3 DEF ListInv, OnList, Walkers
    <2>2. job \in 1..NJobs /\ KindOf(job) = "copy"
      <3>1. phase # "off" /\ NJobs \in Nat
        BY ListsAssumption DEF Clock, NJobs
      <3>2. job \in 1..NJobs
        BY <3>1 DEF PhaseInv
      <3>3. KindOf(job) \in {"copy", "fill"}
        BY <3>2, KindOfJob
      <3>4. KindOf(job) # "fill"
        BY <1>3 DEF PhaseInv
      <3>5. QED
        BY <3>2, <3>3, <3>4
    <2>3. l = Lists[job].src /\ Lists[job].kind = "copy" /\ job \in DOMAIN Lists
      BY <2>2, KindOfJob DEF ListOf
    <2>4. l[Len(l)] <= Half - 2
      BY <2>3 DEF ShortLast
    <2>5. /\ Len(l) \in 1..Bufs /\ \A i \in 1..Len(l) : l[i] \in 1..(Span - 1)
      BY <2>2, JobList DEF Walkers
    <2>6. k = Len(l) /\ l[k] \in Nat /\ BufBase(k) \in Nat
      <3>1. k = Len(l)
        BY <1>3, <2>1 DEF InsideBuffer
      <3>2. k \in 1..Len(l) /\ k \in Nat
        BY <2>5, MemoryAssumption
      <3>3. QED
        BY <3>1, <3>2, <2>5, BaseNat
    <2>7. g.len \in 0..(LenModulus - 1) /\ g.addr \in Nat
      BY <1>1 DEF SgType
    <2>8. BufBase(k) <= g.addr /\ g.len >= 1 /\ g.addr + g.len = BufBase(k) + l[k]
      BY <2>1 DEF InsideBuffer
    <2>9. g.len <= l[k]
      BY <2>6, <2>7, <2>8, ModulusNat
    <2>10. QED
      BY <2>4, <2>6, <2>7, <2>8, <2>9, ModulusNat, HalfDepth
  <1>4. /\ Taken(srcf') \in Nat
        /\ Taken(srcf') <= Taken(srcf) + (IF ss_xfer(g, p) THEN 1 ELSE 0)
        /\ ~ss_xfer(g, p) => Taken(srcf') <= Count(srcf) + 1
    BY SrcSideClock DEF RingsInv
  <1>5. /\ S!half_full_out <=> Count(srcf) >= Half
        /\ Count(srcf) \in Nat /\ Taken(srcf) \in 0..(Depth - 1)
    BY SrcFlags DEF RingsInv
  <1>6. p.start => Count(srcf) < Half
    <2>1. p.start = ~S!half_full_out
      BY DEF Pins, Start
    <2>2. Count(srcf) < Half <=> ~(Count(srcf) >= Half)
      BY <1>5, HalfDepth
    <2>3. QED
      BY <1>5, <2>1, <2>2
  <1>7. g.state = "B_REQ" /\ g.last => Taken(srcf) + g.len <= Depth - 2
    BY DEF MarkerInv
  <1>8. g.state \in {"B_REQ", "B_WAIT"} /\ ~(g.state = "B_REQ" /\ p.ack) => ~ss_xfer(g, p)
    BY DEF ss_xfer, Moves, ss_last
  <1> HIDE DEF g, l, p, n
  <1>9. ASSUME n.state = "B_REQ", n.last PROVE Taken(srcf') + n.len <= Depth - 2
    <2>1. CASE g.state = "B_WAIT" /\ p.start /\ n.len = g.len
      <3>1. g.len \in Nat /\ g.len <= Half - 2
        <4>1. g.last
          BY <1>2, <1>9
        <4>2. g.len \in 1..(LenModulus - 1) /\ g.len <= Half - 2
          BY <1>3, <2>1, <4>1
        <4>3. QED
          BY <4>2, ModulusNat
      <3>2. Taken(srcf') <= Count(srcf) + 1 /\ Count(srcf) < Half
        BY <1>4, <1>6, <1>8, <2>1
      <3>3. QED
        BY <1>4, <1>5, <2>1, <3>1, <3>2, HalfDepth
    <2>2. CASE g.state = "B_REQ" /\ ~p.ack /\ n.len = g.len
      <3>1. g.len \in Nat /\ Taken(srcf) + g.len <= Depth - 2
        <4>1. g.last
          BY <1>2, <1>9
        <4>2. g.len \in 1..(LenModulus - 1) /\ Taken(srcf) + g.len <= Depth - 2
          BY <1>3, <1>7, <2>2, <4>1
        <4>3. QED
          BY <4>2, ModulusNat
      <3>2. Taken(srcf') <= Taken(srcf)
        BY <1>4, <1>5, <1>8, <2>2, ChannelDepth
      <3>3. QED
        BY <1>4, <1>5, <2>2, <3>1, <3>2, ChannelDepth
    <2>3. CASE /\ g.state = "B_REQ" /\ p.ack /\ g.len # 1
               /\ n.len = (g.len + LenModulus - 1) % LenModulus
      <3>1. g.len \in 1..(LenModulus - 1) /\ Taken(srcf) + g.len <= Depth - 2
        BY <1>2, <1>3, <1>7, <1>9, <2>3
      <3>2. n.len = g.len - 1
        BY <2>3, <3>1, LastOne
      <3>3. Taken(srcf') <= Taken(srcf) + 1
        BY <1>4, <1>5, ChannelDepth
      <3>4. QED
        BY <1>4, <1>5, <3>1, <3>2, <3>3, ChannelDepth, ModulusNat
    <2>4. QED
      BY <1>2, <1>9, <2>1, <2>2, <2>3
  <1>10. ASSUME n.state = "NEXT", n.last PROVE Taken(srcf') <= Depth - 2
    <2>1. g.state = "B_REQ" /\ g.last /\ g.len = 1
      BY <1>2, <1>10
    <2>2. Taken(srcf) + 1 <= Depth - 2 /\ Taken(srcf') <= Taken(srcf) + 1
      BY <1>4, <1>5, <1>7, <2>1, ChannelDepth
    <2>3. QED
      BY <1>4, <1>5, <2>2, ChannelDepth
  <1>11. QED
    BY <1>9, <1>10 DEF MarkerInv, n

(***************************************************************************)
(* Memory.                                                                 *)
(***************************************************************************)
LEMMA BufferAddrs ==
  ASSUME NEW k \in 1..Bufs, NEW i \in 0..(Span - 1)
  PROVE  BufBase(k) + i \in Addrs
  <1>1. Span \in Nat /\ Bufs \in Nat /\ k \in Nat /\ i \in Nat /\ k >= 1 /\ k <= Bufs /\ i < Span
    BY MemoryAssumption
  <1>2. Span * k >= Span /\ Span * k \in Nat
    BY <1>1
  <1>3. Span * (Bufs + 1) = Span * k + Span * (Bufs - k) + Span /\ Span * (Bufs - k) \in Nat
    BY <1>1
  <1>4. Span * k + i >= Span /\ Span * k + i <= Span * (Bufs + 1) - 1 /\ Span * k + i \in Int
    BY <1>1, <1>2, <1>3
  <1>5. Span * (Bufs + 1) - 1 \in Int
    BY <1>1
  <1>6. QED
    BY <1>1, <1>4, <1>5 DEF BufBase, Addrs

LEMMA WriteStep ==
  ASSUME PhaseInv, ListInv, WriteInv, NEW answer, Clock(answer)
  PROVE  WriteInv'
  <1>1. CASE phase = "reset"
    <2>1. mem' = [a \in Addrs |-> Blank]
      BY <1>1 DEF Clock, NoMem
    <2>2. QED
      BY <2>1 DEF WriteInv, InsideBuffers
  <1>2. CASE phase # "reset"
    <2> DEFINE g == walk["dst"]
               l == ListOf("dst")
               p == Pins("dst", answer)
    <2>1. job' = job /\ mem' = IF Moves(g, p) THEN [mem EXCEPT ![g.adr] = dstq] ELSE mem
      BY <1>2 DEF Clock, MemClock
    <2>2. /\ mem = [a \in Addrs |-> mem[a]]
          /\ \A a \in Addrs : mem[a] # Blank => InBuffer(l, a)
      BY DEF WriteInv, InsideBuffers
    <2>3. l' = l
      BY <2>1 DEF ListOf
    <2>4. CASE ~Moves(g, p)
      <3>1. mem' = mem
        BY <2>1, <2>4
      <3>2. QED
        BY <2>2, <2>3, <3>1 DEF WriteInv, InsideBuffers, InBuffer, Within
    <2>5. CASE Moves(g, p)
      <3>1. g.state = "B_REQ"
        BY <2>5 DEF Moves
      <3>2. PICK k \in 1..Len(l) : InsideBuffer(g, l, k)
        BY <3>1 DEF ListInv, OnList, Walkers
      <3>3. g.adr = g.addr
        BY <3>1 DEF ListInv, OnList, Walkers
      <3>4. job \in 1..NJobs
        <4>1. phase # "off" /\ NJobs \in Nat
          BY ListsAssumption DEF Clock, NJobs
        <4>2. QED
          BY <4>1 DEF PhaseInv
      <3>5. /\ Len(l) \in 1..Bufs /\ DOMAIN l = 1..Len(l) /\ l[k] \in 1..(Span - 1)
        BY <3>4, JobList DEF Walkers
      <3>6. g.len \in 0..(LenModulus - 1) /\ g.addr \in Nat
        BY DEF PhaseInv, SgType, Walkers
      <3>7. BufBase(k) <= g.addr /\ g.len >= 1 /\ g.addr + g.len = BufBase(k) + l[k]
        BY <3>2 DEF InsideBuffer
      <3>8. k \in 1..Bufs /\ k \in Nat /\ BufBase(k) \in Nat
        BY <3>5, MemoryAssumption, BaseNat
      <3>9. Within(l, k, g.adr)
        BY <3>3, <3>5, <3>6, <3>7, <3>8, MemoryAssumption, ModulusNat DEF Within
      <3>10. g.adr \in Addrs
        <4>1. PICK i \in 0..(Span - 1) : g.adr = BufBase(k) + i
          <5>1. g.addr - BufBase(k) \in 0..(Span - 1) /\ g.addr = BufBase(k) + (g.addr - BufBase(k))
            <6>1. PICK m \in 1..(Span - 1) : m = l[k]
              BY <3>5
            <6>2. PICK h \in 0..(LenModulus - 1) : h = g.len
              BY <3>6
            <6>3. PICK b \in Nat : b = BufBase(k)
              BY <3>8
            <6>4. PICK a \in Nat : a = g.addr
              BY <3>6
            <6>5. b <= a /\ h >= 1 /\ a + h = b + m
              BY <3>7, <6>1, <6>2, <6>3, <6>4
            <6>6. a - b \in 0..(Span - 1) /\ a = b + (a - b)
              BY <6>5, MemoryAssumption, ModulusNat
            <6>7. QED
              BY <6>3, <6>4, <6>6
          <5>2. QED
            BY <3>3, <5>1
        <4>2. QED
          BY <3>8, <4>1, BufferAddrs
      <3>11. InBuffer(l, g.adr)
        BY <3>5, <3>9 DEF InBuffer
      <3> HIDE DEF g, l, p
      <3>12. /\ mem' = [a \in Addrs |-> mem'[a]]
             /\ \A a \in Addrs : mem'[a] # Blank => InBuffer(l, a)
        BY <2>1, <2>2, <2>5, <3>10, <3>11
      <3>13. \A a \in DOMAIN mem' : mem'[a] # Blank => InBuffer(l', a)
        BY <2>3, <3>12
      <3>14. QED
        BY <3>12, <3>13 DEF WriteInv, InsideBuffers, InBuffer, Within, l
    <2>6. QED
      BY <2>4, <2>5
  <1>3. QED
    BY <1>1, <1>2

(***************************************************************************)
(* The theorems.                                                           *)
(***************************************************************************)
LEMMA ChannelInit == Init => ChannelInv /\ MarkerInv /\ WriteInv
  <1> SUFFICES ASSUME Init PROVE ChannelInv /\ MarkerInv /\ WriteInv
    OBVIOUS
  <1>1. \A w \in Walkers : walk[w] = SgReset
    BY DEF Init
  <1>2. SgReset \in SgType
    <2>1. PICK m \in 0..(LenModulus - 1) : m = 0
      BY ModulusNat
    <2>2. PICK c \in 0..1 : c = 0
      OBVIOUS
    <2>3. SgReset = [state |-> "IDLE", cnt |-> c, io |-> FALSE, last |-> FALSE,
                     len |-> m, addr |-> 0, next |-> 0, adr |-> 0]
      BY <2>1, <2>2 DEF SgReset
    <2>4. QED
      BY <2>3 DEF SgType, SgStates
  <1>3. \A w \in Walkers : walk[w].state = "IDLE"
    BY <1>1 DEF SgReset
  <1>4. walk \in [Walkers -> SgType]
    BY <1>1, <1>2 DEF Init
  <1>5. NJobs \in Nat /\ NJobs >= 1
    BY ListsAssumption DEF NJobs
  <1>6. PhaseInv
    BY <1>3, <1>4, <1>5 DEF PhaseInv, Init, Phases, BeatOf, Walkers
  <1>7. ListInv
    BY <1>3 DEF ListInv, OnList
  <1>8. RingsInv
    <2>1. /\ srcf = [wptr |-> 0, rptr |-> 0, rsync |-> 0, rview |-> 0, wsync |-> 0, wview |-> 0]
          /\ dstf = [wptr |-> 0, rptr |-> 0, rsync |-> 0, rview |-> 0, wsync |-> 0, wview |-> 0]
      BY DEF Init, S!Cleared, D!Cleared
    <2>2. QED
      BY <2>1, RingCleared DEF RingsInv
  <1>9. CopyInv
    BY DEF CopyInv, Init
  <1>10. BurstInv /\ MarkerInv
    BY <1>3 DEF BurstInv, MarkerInv, Walkers
  <1>11. WriteInv
    BY DEF WriteInv, InsideBuffers, Init, NoMem
  <1>12. QED
    BY <1>6, <1>7, <1>8, <1>9, <1>10, <1>11 DEF ChannelInv

LEMMA ChannelStep == ChannelInv /\ [Next]_vars => ChannelInv'
  <1>1. ASSUME ChannelInv, NEW answer, Clock(answer) PROVE ChannelInv'
    <2>1. PhaseInv' /\ ListInv'
      BY <1>1, PhaseStep DEF ChannelInv
    <2>2. RingsInv'
      BY <1>1, SrcSideClock, DstSideClock DEF ChannelInv, RingsInv
    <2>3. CopyInv'
      BY <1>1, CopyStep DEF ChannelInv
    <2>4. BurstInv'
      BY <1>1, BurstStep DEF ChannelInv
    <2>5. QED
      BY <2>1, <2>2, <2>3, <2>4 DEF ChannelInv
  <1>2. ASSUME ChannelInv, UNCHANGED vars PROVE ChannelInv'
    <2>1. PhaseInv'
      BY <1>2 DEF ChannelInv, vars, PhaseInv, KindOf
    <2>2. ListInv'
      BY <1>2 DEF ChannelInv, vars, ListInv, ListOf
    <2>3. RingsInv' /\ CopyInv' /\ BurstInv'
      BY <1>2 DEF ChannelInv, vars, RingsInv, CopyInv, BurstInv, KindOf
    <2>4. QED
      BY <2>1, <2>2, <2>3 DEF ChannelInv
  <1>3. QED
    BY <1>1, <1>2 DEF Next, AckClock, WaitClock, ErrClock

LEMMA ChannelInvariant == Spec => []ChannelInv
  <1>1. Init => ChannelInv
    BY ChannelInit
  <1>2. QED
    BY <1>1, ChannelStep, PTL DEF Spec

LEMMA MarkerInvStep == ShortLast /\ ChannelInv /\ MarkerInv /\ [Next]_vars => MarkerInv'
  <1>1. ASSUME ShortLast, ChannelInv, MarkerInv, NEW answer, Clock(answer) PROVE MarkerInv'
    BY <1>1, MarkerStep DEF ChannelInv
  <1>2. ASSUME MarkerInv, UNCHANGED vars PROVE MarkerInv'
    BY <1>2 DEF MarkerInv, vars
  <1>3. QED
    BY <1>1, <1>2 DEF Next, AckClock, WaitClock, ErrClock

LEMMA WriteInvStep == ChannelInv /\ WriteInv /\ [Next]_vars => WriteInv'
  <1>1. ASSUME ChannelInv, WriteInv, NEW answer, Clock(answer) PROVE WriteInv'
    BY <1>1, WriteStep DEF ChannelInv
  <1>2. ASSUME WriteInv, UNCHANGED vars PROVE WriteInv'
    BY <1>2 DEF WriteInv, vars, InsideBuffers, InBuffer, Within, ListOf
  <1>3. QED
    BY <1>1, <1>2 DEF Next, AckClock, WaitClock, ErrClock

(* For FIFOs of every depth and every list of jobs: copy, which looks at no *)
(* flag in the clock in which it moves a word, never moves one that is not  *)
(* there or for which there is no room (copy.v, S_RUN).                     *)
THEOREM CopyMoves == Spec => []CopyInStep
  <1>1. ChannelInv => CopyInStep
    <2>1. SUFFICES ASSUME ChannelInv, KindOf(job) = "copy", mod = "RUN"
                   PROVE  ~S!empty_out /\ ~D!full_out
      BY DEF CopyInStep
    <2>2. Seen(srcf) >= 1 /\ Taken(dstf) <= Depth - 2
      BY <2>1 DEF ChannelInv, CopyInv
    <2>3. (S!empty_out <=> Seen(srcf) = 0) /\ (D!full_out <=> Taken(dstf) = Depth - 1)
      BY <2>1, SrcFlags, DstFlags DEF ChannelInv, RingsInv
    <2>4. QED
      BY <2>2, <2>3, ChannelDepth
  <1>2. QED
    BY <1>1, ChannelInvariant, PTL

(* The bursts of both walkers, for FIFOs of every depth and every list of   *)
(* jobs: no word is taken from the bus that the source FIFO has no place    *)
(* for, and none given to it that the destination FIFO does not have.  The  *)
(* stop flag ends a burst in time (ss_sg.v, S_B_REQ).                       *)
BurstWords ==
    /\ Moves(walk["src"], Pins("src", "ack")) => ~S!full_out
    /\ Moves(walk["dst"], Pins("dst", "ack")) => ~D!empty_out

THEOREM BurstsStop == Spec => []BurstWords
  <1>1. ChannelInv => BurstWords
    <2>1. SUFFICES ASSUME ChannelInv PROVE BurstWords
      OBVIOUS
    <2>2. /\ S!full_out <=> Taken(srcf) = Depth - 1
          /\ D!empty_out <=> Seen(dstf) = 0
      BY <2>1, SrcFlags, DstFlags DEF ChannelInv, RingsInv
    <2>3. /\ walk["src"].state = "B_REQ" => Taken(srcf) <= Depth - 2
          /\ walk["dst"].state = "B_REQ" => Seen(dstf) >= 1
      BY <2>1 DEF ChannelInv, BurstInv
    <2>4. QED
      BY <2>2, <2>3, ChannelDepth DEF BurstWords, Moves
  <1>2. QED
    BY <1>1, ChannelInvariant, PTL

(* When the last buffer of each source list is short enough, the marker     *)
(* behind the last word finds a place as well (ss_sg.v, S_NEXT); with a     *)
(* longer one it need not.                                                  *)
THEOREM BurstsAndMarkerFit == ShortLast => (Spec => []BurstsFit)
  <1>1. ChannelInv /\ BurstWords /\ MarkerInv => BurstsFit
    <2>1. SUFFICES ASSUME ChannelInv, BurstWords, MarkerInv, ss_last(walk["src"])
                   PROVE  ~S!full_out
      BY DEF BurstsFit, BurstWords, MarkerTaken
    <2>2. Taken(srcf) <= Depth - 2
      BY <2>1 DEF ss_last, MarkerInv
    <2>3. S!full_out <=> Taken(srcf) = Depth - 1
      BY <2>1, SrcFlags DEF ChannelInv, RingsInv
    <2>4. QED
      BY <2>2, <2>3, ChannelDepth
  <1>2. Init => MarkerInv
    BY ChannelInit
  <1>3. ASSUME ShortLast PROVE Spec => []BurstsFit
    <2>1. ChannelInv /\ MarkerInv /\ [Next]_vars => MarkerInv'
      BY <1>3, MarkerInvStep
    <2>2. QED
      BY <1>1, <1>2, <2>1, ChannelInvariant, BurstsStop, PTL DEF Spec
  <1>4. QED
    BY <1>3

(* For every list of jobs, whatever bursts are cut short, repeated or end   *)
(* in an error: nothing is written outside the buffers of the destination   *)
(* list (ss_sg.v, S_D_REQ to S_NEXT).                                       *)
THEOREM WritesInside == Spec => []InsideBuffers
  <1>1. Init => WriteInv
    BY ChannelInit
  <1>2. WriteInv => InsideBuffers
    BY DEF WriteInv
  <1>3. QED
    BY <1>1, <1>2, ChannelInvariant, WriteInvStep, PTL DEF Spec
=============================================================================
