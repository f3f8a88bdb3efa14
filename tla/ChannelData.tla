----------------------------- MODULE ChannelData ----------------------------
(***************************************************************************)
(* The words a channel carries, for FIFOs of every depth and jobs with     *)
(* every list of buffers: what reaches the destination is what the source  *)
(* holds, in its order, each word once and at its place.                   *)
(*                                                                         *)
(* The proof numbers the words of a job.  A word has gone into the source  *)
(* FIFO, out of it into the destination FIFO, and out of that into memory; *)
(* three numbers say how far, and the contents of the two RAMs, the        *)
(* registers of both walkers and the memory follow from them.              *)
(***************************************************************************)
EXTENDS ChannelProofs, FiniteSetTheorems

(***************************************************************************)
(* Induction.  The step from n to n + 1 maps what is left of A below n     *)
(* into itself less 0, which no injection does.                            *)
(***************************************************************************)
LEMMA NatSet ==
  ASSUME NEW A \in SUBSET Nat, 0 \in A, \A x \in A : x + 1 \in A
  PROVE  A = Nat
  <1> SUFFICES ASSUME NEW n \in Nat, n \notin A PROVE FALSE
    OBVIOUS
  <1> DEFINE B == {x \in 0..n : x \in A}
             C == B \ {0}
             f == [x \in B |-> x + 1]
  <1>1. IsFiniteSet(B) /\ IsFiniteSet(C) /\ Cardinality(C) < Cardinality(B)
    <2>1. IsFiniteSet(0..n)
      BY FS_Interval
    <2>2. IsFiniteSet(B)
      BY <2>1, FS_Subset
    <2>3. 0 \in B
      OBVIOUS
    <2> HIDE DEF B
    <2>4. IsFiniteSet(C) /\ Cardinality(C) = Cardinality(B) - 1
      BY <2>2, <2>3, FS_RemoveElement
    <2>5. Cardinality(B) \in Nat
      BY <2>2, FS_CardinalityType
    <2>6. QED
      BY <2>2, <2>4, <2>5
  <1>2. f \in [B -> C]
    OBVIOUS
  <1>3. \A x, y \in B : x # y => f[x] # f[y]
    OBVIOUS
  <1> HIDE DEF B, C, f
  <1>4. QED
    BY <1>1, <1>2, <1>3, FS_PigeonHole

(***************************************************************************)
(* The words in front of a buffer.  Sums says that b is the function which *)
(* Before defines by recursion; there is one, and it extends to any length.*)
(***************************************************************************)
Sums(b, l, k) == b = [i \in 1..k |-> IF i = 1 THEN 0 ELSE b[i - 1] + l[i - 1]]

LEMMA SumsExist ==
  ASSUME NEW l, NEW k \in Nat
  PROVE  \E b : Sums(b, l, k)
  <1> DEFINE A == {n \in Nat : \E b : Sums(b, l, n)}
  <1>1. 0 \in A
    <2>1. Sums(<<>>, l, 0)
      BY DEF Sums
    <2>2. QED
      BY <2>1
  <1>2. \A n \in A : n + 1 \in A
    <2> SUFFICES ASSUME NEW n \in A PROVE n + 1 \in A
      OBVIOUS
    <2>1. PICK b : Sums(b, l, n)
      OBVIOUS
    <2> DEFINE c == [i \in 1..(n + 1) |->
                       IF i <= n THEN b[i] ELSE IF i = 1 THEN 0 ELSE b[i - 1] + l[i - 1]]
    <2>2. \A i \in 1..n : b[i] = IF i = 1 THEN 0 ELSE b[i - 1] + l[i - 1]
      BY <2>1 DEF Sums
    <2>3. \A i \in 1..(n + 1) : c[i] = IF i = 1 THEN 0 ELSE c[i - 1] + l[i - 1]
      BY <2>2
    <2>4. c = [i \in 1..(n + 1) |-> c[i]]
      OBVIOUS
    <2> HIDE DEF c
    <2>5. Sums(c, l, n + 1)
      BY <2>3, <2>4 DEF Sums
    <2>6. QED
      BY <2>5
  <1> HIDE DEF A
  <1>3. A \in SUBSET Nat
    BY DEF A
  <1>4. k \in A
    BY <1>1, <1>2, <1>3, NatSet
  <1>5. QED
    BY <1>4 DEF A

LEMMA SumsAgree ==
  ASSUME NEW l, NEW k \in Nat, NEW m \in Nat, NEW b, NEW c, Sums(b, l, k), Sums(c, l, m), k <= m
  PROVE  \A i \in 1..k : b[i] = c[i]
  <1> DEFINE A == {n \in Nat : n + 1 \in 1..k => b[n + 1] = c[n + 1]}
  <1>1. \A i \in 1..k : b[i] = IF i = 1 THEN 0 ELSE b[i - 1] + l[i - 1]
    BY DEF Sums
  <1>2. \A i \in 1..m : c[i] = IF i = 1 THEN 0 ELSE c[i - 1] + l[i - 1]
    BY DEF Sums
  <1>3. 0 \in A
    BY <1>1, <1>2
  <1>4. \A n \in A : n + 1 \in A
    <2> SUFFICES ASSUME NEW n \in A, n + 2 \in 1..k PROVE b[n + 2] = c[n + 2]
      OBVIOUS
    <2>1. b[n + 2] = b[n + 1] + l[n + 1] /\ c[n + 2] = c[n + 1] + l[n + 1] /\ b[n + 1] = c[n + 1]
      BY <1>1, <1>2
    <2>2. QED
      BY <2>1
  <1> HIDE DEF A
  <1>5. A \in SUBSET Nat
    BY DEF A
  <1>6. A = Nat
    BY <1>3, <1>4, <1>5, NatSet
  <1>7. QED
    <2> SUFFICES ASSUME NEW i \in 1..k PROVE b[i] = c[i]
      OBVIOUS
    <2>1. i - 1 \in A /\ (i - 1) + 1 = i
      BY <1>6
    <2>2. QED
      BY <2>1 DEF A

LEMMA BeforeSums ==
  ASSUME NEW l, NEW k \in Nat
  PROVE  \E b : Sums(b, l, k) /\ Before(l, k) = b[k]
  BY SumsExist DEF Sums, Before

LEMMA BeforeNext ==
  ASSUME NEW l, NEW k \in Nat \ {0}
  PROVE  Before(l, 1) = 0 /\ Before(l, k + 1) = Before(l, k) + l[k]
  <1>1. PICK b : Sums(b, l, k) /\ Before(l, k) = b[k]
    BY BeforeSums
  <1>2. PICK c : Sums(c, l, k + 1) /\ Before(l, k + 1) = c[k + 1]
    BY BeforeSums
  <1>3. b[k] = c[k]
    BY <1>1, <1>2, SumsAgree
  <1>4. c[k + 1] = c[k] + l[k]
    BY <1>2 DEF Sums
  <1>5. PICK d : Sums(d, l, 1) /\ Before(l, 1) = d[1]
    BY BeforeSums
  <1>6. d[1] = 0
    BY <1>5 DEF Sums
  <1>7. QED
    BY <1>1, <1>2, <1>3, <1>4, <1>5, <1>6

(* A list of buffers, as JobList gives it.                                  *)
IsList(l) ==
    /\ Len(l) \in Nat /\ Len(l) >= 1 /\ DOMAIN l = 1..Len(l)
    /\ \A k \in 1..Len(l) : l[k] \in Nat /\ l[k] >= 1 /\ l[k] < Span

LEMMA BeforeNat ==
  ASSUME NEW l, IsList(l)
  PROVE  \A k \in 1..(Len(l) + 1) : Before(l, k) \in Nat
  <1> DEFINE F == [n \in Nat |-> Before(l, n + 1)]
             A == {n \in Nat : n <= Len(l) => F[n] \in Nat}
  <1>1. F[0] = 0
    BY BeforeNext
  <1>2. ASSUME NEW n \in Nat, n + 1 <= Len(l), F[n] \in Nat
        PROVE  F[n + 1] \in Nat
    <2>1. F[n + 1] = F[n] + l[n + 1]
      BY BeforeNext
    <2>2. n + 1 \in 1..Len(l)
      BY <1>2 DEF IsList
    <2>3. l[n + 1] \in Nat
      BY <2>2 DEF IsList
    <2> HIDE DEF F
    <2>4. QED
      BY <1>2, <2>1, <2>3
  <1>3. \A k \in 1..(Len(l) + 1) : k - 1 \in Nat /\ F[k - 1] = Before(l, k)
    BY DEF IsList
  <1> HIDE DEF F
  <1>4. 0 \in A /\ \A n \in A : n + 1 \in A
    BY <1>1, <1>2 DEF IsList
  <1>5. A = Nat
    BY <1>4, NatSet
  <1>6. QED
    <2> SUFFICES ASSUME NEW k \in 1..(Len(l) + 1) PROVE Before(l, k) \in Nat
      OBVIOUS
    <2>1. k - 1 \in A /\ k - 1 <= Len(l)
      BY <1>3, <1>5 DEF IsList
    <2>2. QED
      BY <1>3, <2>1

LEMMA BeforeMono ==
  ASSUME NEW l, IsList(l), NEW i \in 1..(Len(l) + 1), NEW k \in 1..(Len(l) + 1), i <= k
  PROVE  Before(l, i) <= Before(l, k)
  <1> DEFINE A == {n \in Nat : i + n <= Len(l) + 1 => Before(l, i) <= Before(l, i + n)}
  <1>0. i \in Nat /\ k \in Nat /\ i >= 1 /\ Len(l) \in Nat /\ Before(l, i) \in Nat
    BY BeforeNat DEF IsList
  <1>1. 0 \in A
    <2>1. i + 0 = i
      BY <1>0
    <2>2. QED
      BY <1>0, <2>1
  <1>2. \A n \in A : n + 1 \in A
    <2> SUFFICES ASSUME NEW n \in A, i + (n + 1) <= Len(l) + 1
                 PROVE  Before(l, i) <= Before(l, i + (n + 1))
      OBVIOUS
    <2>1. Before(l, (i + n) + 1) = Before(l, i + n) + l[i + n]
      BY <1>0, BeforeNext
    <2>2. i + n \in 1..Len(l) /\ i + n \in 1..(Len(l) + 1) /\ i + (n + 1) = (i + n) + 1
      BY <1>0
    <2>3. l[i + n] \in Nat /\ Before(l, i + n) \in Nat
      BY <2>2, BeforeNat DEF IsList
    <2>4. Before(l, i) <= Before(l, i + n)
      BY <1>0
    <2>5. QED
      BY <1>0, <2>1, <2>2, <2>3, <2>4
  <1> HIDE DEF A
  <1>3. A \in SUBSET Nat
    BY DEF A
  <1>4. A = Nat
    BY <1>1, <1>2, <1>3, NatSet
  <1>5. k - i \in A /\ i + (k - i) = k /\ k <= Len(l) + 1
    BY <1>0, <1>4
  <1>6. QED
    BY <1>5 DEF A

(* Buffers do not touch, so an address is in one buffer at most and WordAt  *)
(* counts from the start of that one.                                       *)
LEMMA SpanNat == Span \in Nat /\ Span >= 2 /\ \A k \in Nat : BufBase(k) \in Nat
  BY MemoryAssumption, BaseNat

LEMMA BasesApart ==
  ASSUME NEW i \in Nat, NEW k \in Nat, i < k
  PROVE  BufBase(i) + Span <= BufBase(k)
  <1>1. PICK d \in Nat : d >= 1 /\ k = i + d
    <2>1. k - i \in Nat /\ k - i >= 1 /\ k = i + (k - i)
      OBVIOUS
    <2>2. QED
      BY <2>1
  <1>2. PICK e \in Nat : d = e + 1
    <2>1. d - 1 \in Nat /\ d = (d - 1) + 1
      BY <1>1
    <2>2. QED
      BY <2>1
  <1>3. PICK s \in Nat : s = Span
    BY SpanNat
  <1>4. s * k = s * i + s * e + s /\ s * e \in Nat /\ s * i \in Nat
    BY <1>1, <1>2
  <1>5. QED
    BY <1>3, <1>4 DEF BufBase

LEMMA OneBuffer ==
  ASSUME NEW l, IsList(l), NEW a \in Nat,
         NEW i \in 1..Len(l), Within(l, i, a), NEW k \in 1..Len(l), Within(l, k, a)
  PROVE  i = k
  <1>1. /\ i \in Nat /\ k \in Nat /\ BufBase(i) \in Nat /\ BufBase(k) \in Nat /\ Span \in Nat
        /\ l[i] \in Nat /\ l[k] \in Nat /\ l[i] < Span /\ l[k] < Span
    BY SpanNat DEF IsList
  <1>2. /\ BufBase(i) <= a /\ a < BufBase(i) + l[i]
        /\ BufBase(k) <= a /\ a < BufBase(k) + l[k]
    BY DEF Within
  <1>3. ~(i < k)
    <2> SUFFICES ASSUME i < k PROVE FALSE
      OBVIOUS
    <2>1. BufBase(i) + Span <= BufBase(k)
      BY <1>1, BasesApart
    <2>2. QED
      BY <1>1, <1>2, <2>1
  <1>4. ~(k < i)
    <2> SUFFICES ASSUME k < i PROVE FALSE
      OBVIOUS
    <2>1. BufBase(k) + Span <= BufBase(i)
      BY <1>1, BasesApart
    <2>2. QED
      BY <1>1, <1>2, <2>1
  <1>5. QED
    BY <1>1, <1>3, <1>4

LEMMA WordInBuffer ==
  ASSUME NEW l, IsList(l), NEW a \in Nat, NEW k \in 1..Len(l), Within(l, k, a)
  PROVE  /\ InBuffer(l, a) /\ WordAt(l, a) = Before(l, k) + a - BufBase(k) + 1
         /\ WordAt(l, a) \in Nat /\ Before(l, k) < WordAt(l, a)
         /\ WordAt(l, a) <= Before(l, k + 1) /\ WordAt(l, a) <= Total(l)
  <1>1. DOMAIN l = 1..Len(l)
    BY DEF IsList
  <1>2. InBuffer(l, a)
    BY <1>1 DEF InBuffer
  <1>3. (CHOOSE b \in DOMAIN l : Within(l, b, a)) = k
    BY <1>1, OneBuffer
  <1>4. WordAt(l, a) = Before(l, k) + a - BufBase(k) + 1
    BY <1>2, <1>3 DEF WordAt
  <1>5. /\ k \in Nat \ {0} /\ k \in 1..(Len(l) + 1) /\ k + 1 \in 1..(Len(l) + 1)
        /\ Len(l) + 1 \in 1..(Len(l) + 1) /\ k + 1 <= Len(l) + 1
    BY DEF IsList
  <1>6. Before(l, k) \in Nat /\ Before(l, k + 1) \in Nat /\ Before(l, Len(l) + 1) \in Nat
    BY <1>5, BeforeNat
  <1>7. Before(l, k + 1) = Before(l, k) + l[k] /\ l[k] \in Nat
    BY <1>5, BeforeNext DEF IsList
  <1>8. Before(l, k + 1) <= Before(l, Len(l) + 1)
    BY <1>5, BeforeMono
  <1>9. BufBase(k) \in Nat /\ BufBase(k) <= a /\ a < BufBase(k) + l[k]
    BY <1>5, SpanNat DEF Within
  <1>10. QED
    BY <1>2, <1>4, <1>6, <1>7, <1>8, <1>9 DEF Total

(* Two addresses do not hold the same word.                                 *)
LEMMA OnePlace ==
  ASSUME NEW l, IsList(l), NEW a \in Nat, NEW x \in Nat, InBuffer(l, a), InBuffer(l, x),
         WordAt(l, a) = WordAt(l, x)
  PROVE  a = x
  <1>1. PICK i \in 1..Len(l) : Within(l, i, a)
    BY DEF InBuffer, IsList
  <1>2. PICK k \in 1..Len(l) : Within(l, k, x)
    BY DEF InBuffer, IsList
  <1>3. /\ WordAt(l, a) = Before(l, i) + a - BufBase(i) + 1 /\ WordAt(l, a) \in Nat
        /\ Before(l, i) < WordAt(l, a) /\ WordAt(l, a) <= Before(l, i + 1)
    BY <1>1, WordInBuffer
  <1>4. /\ WordAt(l, x) = Before(l, k) + x - BufBase(k) + 1
        /\ Before(l, k) < WordAt(l, x) /\ WordAt(l, x) <= Before(l, k + 1)
    BY <1>2, WordInBuffer
  <1>5. /\ i \in 1..(Len(l) + 1) /\ k \in 1..(Len(l) + 1) /\ i + 1 \in 1..(Len(l) + 1)
        /\ k + 1 \in 1..(Len(l) + 1) /\ i \in Nat /\ k \in Nat
    BY DEF IsList
  <1>6. /\ Before(l, i) \in Nat /\ Before(l, i + 1) \in Nat
        /\ Before(l, k) \in Nat /\ Before(l, k + 1) \in Nat
        /\ BufBase(i) \in Nat /\ BufBase(k) \in Nat
    BY <1>5, BeforeNat, SpanNat
  <1>7. ~(i < k)
    <2> SUFFICES ASSUME i < k PROVE FALSE
      OBVIOUS
    <2>1. Before(l, i + 1) <= Before(l, k)
      BY <1>5, BeforeMono
    <2>2. QED
      BY <1>3, <1>4, <1>6, <2>1
  <1>8. ~(k < i)
    <2> SUFFICES ASSUME k < i PROVE FALSE
      OBVIOUS
    <2>1. Before(l, k + 1) <= Before(l, i)
      BY <1>5, BeforeMono
    <2>2. QED
      BY <1>3, <1>4, <1>6, <2>1
  <1>9. i = k
    BY <1>5, <1>7, <1>8
  <1>10. Before(l, i) + a - BufBase(i) + 1 = Before(l, i) + x - BufBase(i) + 1
    BY <1>3, <1>4, <1>9
  <1>11. QED
    <2>1. PICK m \in Nat : m = Before(l, i)
      BY <1>6
    <2>2. PICK n \in Nat : n = BufBase(i)
      BY <1>6
    <2>3. m + a - n + 1 = m + x - n + 1
      BY <1>10, <2>1, <2>2
    <2>4. QED
      BY <2>3

(***************************************************************************)
(* What a FIFO holds.  Behind b words that were taken out of it, the RAM   *)
(* holds the next ones, from the read pointer on, and the output register  *)
(* shows the first of them once the reader may see it (tpram.v).           *)
(***************************************************************************)
Holds(r, ram, q, b, items) ==
    /\ ram = [x \in Ptrs |-> ram[x]]
    /\ \A x \in Ptrs : Gap(r.rptr, x) < Count(r) => ram[x] = items[b + 1 + Gap(r.rptr, x)]
    /\ Seen(r) >= 1 => q = items[b + 1]

LEMMA GapBehind ==
  ASSUME NEW p \in Ptrs, NEW x \in Ptrs, NEW n \in Nat, n <= Depth - 1
  PROVE  /\ Gap(Up(p), x) < n - 1 => Gap(p, x) = Gap(Up(p), x) + 1
         /\ \A q \in Ptrs : Gap(p, x) = Gap(p, q) => x = q
         /\ Gap(p, Up(p)) = 1
  BY ChannelDepth DEF Ptrs, Gap, Up

(* An edge of both clocks: put writes the next word, v, and get reads one.  *)
FifoClock(r, s, ram, ram2, q, q2, put, get, v, b, g, items) ==
    /\ Ring(r) /\ Holds(r, ram, q, b, items)
    /\ b \in Nat /\ g \in Nat /\ put \in BOOLEAN /\ get \in BOOLEAN
    /\ put => Taken(r) # Depth - 1 /\ v = items[b + 1 + Count(r)]
    /\ get => Seen(r) # 0
    /\ g = (IF get THEN 1 ELSE 0)
    /\ s = [wptr  |-> IF put THEN Up(r.wptr) ELSE r.wptr,
            rsync |-> r.rptr, rview |-> r.rsync,
            rptr  |-> IF get THEN Up(r.rptr) ELSE r.rptr,
            wsync |-> r.wptr, wview |-> r.wsync]
    /\ ram2 = IF put THEN [ram EXCEPT ![r.wptr] = v] ELSE ram
    /\ q2 = ram[IF get THEN Up(r.rptr) ELSE r.rptr]

LEMMA HoldsClock ==
  ASSUME NEW r, NEW s, NEW ram, NEW ram2, NEW q, NEW q2, NEW put, NEW get, NEW v, NEW b, NEW g,
         NEW items, FifoClock(r, s, ram, ram2, q, q2, put, get, v, b, g, items)
  PROVE  /\ Holds(s, ram2, q2, b + g, items)
         /\ Count(s) \in Nat /\ Count(r) \in Nat
         /\ (b + g) + Count(s) = b + Count(r) + (IF put THEN 1 ELSE 0)
  <1>a. /\ Ring(r) /\ Holds(r, ram, q, b, items)
        /\ b \in Nat /\ g \in Nat /\ put \in BOOLEAN /\ get \in BOOLEAN
        /\ put => Taken(r) # Depth - 1 /\ v = items[b + 1 + Count(r)]
        /\ get => Seen(r) # 0
        /\ g = (IF get THEN 1 ELSE 0)
    BY DEF FifoClock
  <1>0. /\ s = [wptr  |-> IF put THEN Up(r.wptr) ELSE r.wptr,
                rsync |-> r.rptr, rview |-> r.rsync,
                rptr  |-> IF get THEN Up(r.rptr) ELSE r.rptr,
                wsync |-> r.wptr, wview |-> r.wsync]
        /\ ram2 = IF put THEN [ram EXCEPT ![r.wptr] = v] ELSE ram
        /\ q2 = ram[IF get THEN Up(r.rptr) ELSE r.rptr]
    BY DEF FifoClock
  <1>1. /\ r.wptr \in Ptrs /\ r.rptr \in Ptrs /\ r.rsync \in Ptrs /\ r.rview \in Ptrs
        /\ r.wsync \in Ptrs /\ r.wview \in Ptrs
    BY <1>a DEF Ring
  <1>2. PICK a, e, c, d, f \in Nat :
            /\ a = Gap(r.rptr, r.wview) /\ e = Gap(r.wview, r.wsync) /\ c = Gap(r.wsync, r.wptr)
            /\ d = Gap(r.rview, r.rsync) /\ f = Gap(r.rsync, r.rptr)
            /\ e <= 1 /\ c <= 1 /\ d <= 1 /\ f <= 1 /\ a + e + c + d + f <= Depth - 1
            /\ Seen(r) = a /\ Count(r) = a + e + c /\ Taken(r) = a + e + c + d + f
            /\ Gap(r.rptr, r.wsync) = a + e
    BY <1>a, RingGaps
  <1> DEFINE w == IF put THEN 1 ELSE 0
  <1>3. /\ w \in {0, 1} /\ g \in {0, 1} /\ w + a + e + c + d + f <= Depth - 1 /\ g <= a
        /\ Depth \in Nat /\ Depth >= 8
    BY <1>a, <1>2, ChannelDepth
  <1>4. /\ s.wsync = r.wptr /\ s.wview = r.wsync
        /\ s.wptr = IF put THEN Up(r.wptr) ELSE r.wptr
        /\ s.rptr = IF get THEN Up(r.rptr) ELSE r.rptr
        /\ s.wptr \in Ptrs /\ s.rptr \in Ptrs
    BY <1>0, <1>1, UpPtrs
  <1>5. Gap(s.rptr, s.wview) = a + e - g
    BY <1>a, <1>1, <1>2, <1>3, <1>4, GapUp
  <1>6. Gap(s.wview, s.wsync) = c /\ Gap(s.wsync, s.wptr) = w
    BY <1>1, <1>2, <1>4, GapUp, ChannelDepth
  <1>7. Count(s) = a + e - g + c + w /\ Seen(s) = a + e - g
    <2>1. Gap(s.rptr, s.wsync) = a + e - g + c
      BY <1>1, <1>2, <1>3, <1>4, <1>5, <1>6, GapSum
    <2>2. Gap(s.rptr, s.wptr) = a + e - g + c + w
      BY <1>1, <1>2, <1>3, <1>4, <1>6, <2>1, GapSum
    <2>3. QED
      BY <1>5, <2>2 DEF Count, Seen
  <1> HIDE DEF w
  <1>8. ram2 = [x \in Ptrs |-> ram2[x]]
    BY <1>0, <1>1, <1>a DEF Holds
  <1>9. \A x \in Ptrs : Gap(r.rptr, x) < Count(r) => ram2[x] = items[b + 1 + Gap(r.rptr, x)]
    <2>1. Gap(r.rptr, r.wptr) = Count(r) /\ Count(r) \in Nat
      BY <1>2 DEF Count
    <2>2. SUFFICES ASSUME NEW x \in Ptrs, Gap(r.rptr, x) < Count(r)
                   PROVE  ram2[x] = items[b + 1 + Gap(r.rptr, x)]
      OBVIOUS
    <2>3. x # r.wptr
      BY <2>1, <2>2
    <2>4. ram2[x] = ram[x]
      BY <1>0, <1>1, <1>a, <2>3 DEF Holds
    <2>5. QED
      BY <1>a, <2>2, <2>4 DEF Holds
  <1>10. put => ram2[r.wptr] = items[b + 1 + Count(r)]
    BY <1>0, <1>1, <1>a DEF Holds
  <1>11. ASSUME NEW x \in Ptrs, Gap(s.rptr, x) < Count(s)
         PROVE  ram2[x] = items[(b + g) + 1 + Gap(s.rptr, x)]
    <2>1. Gap(s.rptr, x) \in Nat /\ Gap(r.rptr, x) \in Nat
      BY <1>1, <1>4, GapRange, ChannelDepth
    <2>2. Gap(r.rptr, x) = Gap(s.rptr, x) + g
      <3>1. CASE get
        <4>1. s.rptr = Up(r.rptr) /\ g = 1
          BY <1>a, <3>1, <1>4
        <4>2. PICK n \in Nat : n = a + e + c + w
          BY <1>3
        <4>3. n <= Depth - 1 /\ Gap(Up(r.rptr), x) < n - 1
          BY <1>2, <1>3, <1>7, <1>11, <2>1, <4>1, <4>2
        <4>4. QED
          BY <1>1, <4>1, <4>3, GapBehind
      <3>2. CASE ~get
        BY <1>a, <3>2, <1>4, <2>1
      <3>3. QED
        BY <3>1, <3>2
    <2>3. CASE Gap(r.rptr, x) < Count(r)
      <3>1. b + 1 + Gap(r.rptr, x) = (b + g) + 1 + Gap(s.rptr, x)
        BY <1>a, <2>1, <2>2
      <3>2. QED
        BY <1>9, <2>3, <3>1
    <2>4. CASE ~(Gap(r.rptr, x) < Count(r))
      <3>1. Gap(r.rptr, x) = Count(r) /\ w = 1
        BY <1>2, <1>3, <1>7, <1>11, <2>1, <2>2, <2>4
      <3>2. put /\ Gap(r.rptr, r.wptr) = Count(r)
        BY <3>1 DEF w, Count
      <3>3. x = r.wptr
        BY <1>1, <3>1, <3>2, GapBehind, ChannelDepth
      <3>4. b + 1 + Count(r) = (b + g) + 1 + Gap(s.rptr, x)
        BY <1>a, <2>1, <2>2, <3>1
      <3>5. QED
        BY <1>10, <3>2, <3>3, <3>4
    <2>5. QED
      BY <2>3, <2>4
  <1>12. ASSUME Seen(s) >= 1 PROVE q2 = items[(b + g) + 1]
    <2>1. s.rptr \in Ptrs /\ q2 = ram[s.rptr]
      BY <1>0, <1>4
    <2>2. Gap(r.rptr, s.rptr) = g
      BY <1>a, <1>1, <1>4, GapBehind, GapUp
    <2>3. g < Count(r)
      BY <1>2, <1>3, <1>7, <1>12
    <2>4. ram[s.rptr] = items[b + 1 + g]
      BY <1>a, <2>1, <2>2, <2>3 DEF Holds
    <2>5. b + 1 + g = (b + g) + 1
      BY <1>a
    <2>6. QED
      BY <2>1, <2>4, <2>5
  <1>13. Holds(s, ram2, q2, b + g, items)
    BY <1>8, <1>11, <1>12 DEF Holds
  <1>14. QED
    BY <1>a, <1>2, <1>3, <1>7, <1>13 DEF w

(* A reader sees at most the words that are there, and a writer takes at    *)
(* most two more for there.                                                 *)
LEMMA RingCounts ==
  ASSUME NEW r, Ring(r)
  PROVE  /\ Seen(r) \in Nat /\ Count(r) \in Nat /\ Taken(r) \in Nat
         /\ Seen(r) <= Count(r) /\ Count(r) <= Depth - 1 /\ Taken(r) <= Count(r) + 2
         /\ Gap(r.rptr, r.wsync) <= Count(r)
  <1>1. PICK a, b, c, d, e \in Nat :
            /\ a = Gap(r.rptr, r.wview) /\ b = Gap(r.wview, r.wsync) /\ c = Gap(r.wsync, r.wptr)
            /\ d = Gap(r.rview, r.rsync) /\ e = Gap(r.rsync, r.rptr)
            /\ b <= 1 /\ c <= 1 /\ d <= 1 /\ e <= 1 /\ a + b + c + d + e <= Depth - 1
            /\ Seen(r) = a /\ Count(r) = a + b + c /\ Taken(r) = a + b + c + d + e
            /\ Gap(r.rptr, r.wsync) = a + b
    BY RingGaps
  <1>2. QED
    BY <1>1, ChannelDepth

(***************************************************************************)
(* How far a walker g has come on its list l: n words are behind it.       *)
(***************************************************************************)
Walked(g, l, n) ==
    /\ n \in Nat /\ n <= Total(l)
    /\ g.state \in {"IDLE", "CMD"} => n = 0
    /\ g.state = "D_REQ" => \E k \in 1..Len(l) : AtDescriptor(g, l, k) /\ n = Before(l, k)
    /\ g.state \in {"B_REQ", "B_WAIT"} =>
          \E k \in 1..Len(l) : InsideBuffer(g, l, k) /\ n = Before(l, k) + g.addr - BufBase(k)
    /\ g.state = "B_REQ" => g.adr = g.addr
    /\ g.state = "NEXT" => \E k \in 0..Len(l) : BehindBuffer(g, l, k) /\ n = Before(l, k + 1)

LEMMA JobIsList ==
  ASSUME job \in 1..NJobs, NEW w \in Walkers
  PROVE  IsList(ListOf(w)) /\ Len(ListOf(w)) \in 1..Bufs
  <1>1. /\ Len(ListOf(w)) \in 1..Bufs /\ DOMAIN ListOf(w) = 1..Len(ListOf(w))
        /\ \A k \in 1..Len(ListOf(w)) : ListOf(w)[k] \in 1..(Span - 1)
    BY JobList
  <1>2. QED
    BY <1>1, MemoryAssumption DEF IsList

LEMMA JobOn ==
  ASSUME PhaseInv, phase # "off"
  PROVE  job \in 1..NJobs
  <1>1. NJobs \in Nat
    BY ListsAssumption DEF NJobs
  <1>2. QED
    BY <1>1 DEF PhaseInv

LEMMA TotalNat ==
  ASSUME NEW l, IsList(l)
  PROVE  /\ Total(l) \in Nat /\ Total(l) >= 1
         /\ \A k \in 1..(Len(l) + 1) : Before(l, k) \in Nat /\ Before(l, k) <= Total(l)
  <1>1. /\ Len(l) + 1 \in 1..(Len(l) + 1) /\ Len(l) \in Nat /\ 2 \in 1..(Len(l) + 1)
        /\ \A k \in 1..(Len(l) + 1) : k <= Len(l) + 1
    BY DEF IsList
  <1>2. \A k \in 1..(Len(l) + 1) : Before(l, k) \in Nat /\ Before(l, k) <= Total(l)
    BY <1>1, BeforeNat, BeforeMono DEF Total
  <1>3. Before(l, 1 + 1) = Before(l, 1) + l[1] /\ Before(l, 1) = 0
    BY BeforeNext
  <1>4. l[1] \in Nat /\ l[1] >= 1 /\ 1 + 1 = 2
    BY DEF IsList
  <1>5. Before(l, 2) >= 1
    BY <1>3, <1>4
  <1>6. QED
    BY <1>1, <1>2, <1>5 DEF Total

(* A walker in a burst is at the word behind the last one it moved.         *)
LEMMA WalkedWord ==
  ASSUME PhaseInv, phase # "off", NEW w \in Walkers, walk[w].state = "B_REQ",
         NEW n, Walked(walk[w], ListOf(w), n)
  PROVE  /\ walk[w].adr \in Addrs /\ walk[w].adr \in Nat /\ InBuffer(ListOf(w), walk[w].adr)
         /\ WordAt(ListOf(w), walk[w].adr) = n + 1 /\ n + 1 <= Total(ListOf(w))
  <1> DEFINE g == walk[w]
             l == ListOf(w)
  <1>1. IsList(l) /\ Len(l) \in 1..Bufs /\ n \in Nat
    BY JobOn, JobIsList DEF Walked
  <1>2. PICK k \in 1..Len(l) : InsideBuffer(g, l, k) /\ n = Before(l, k) + g.addr - BufBase(k)
    BY DEF Walked
  <1>3. g.adr = g.addr /\ g.addr \in Nat /\ g.len \in Nat
    <2>1. g.len \in 0..(LenModulus - 1) /\ g.addr \in Nat
      BY DEF PhaseInv, SgType
    <2>2. QED
      BY <2>1, ModulusNat DEF Walked
  <1>4. /\ k \in Nat /\ k \in 1..Bufs /\ BufBase(k) \in Nat /\ l[k] \in Nat /\ l[k] < Span
        /\ Span \in Nat
    BY <1>1, MemoryAssumption, SpanNat DEF IsList
  <1>5. BufBase(k) <= g.addr /\ g.addr < BufBase(k) + l[k]
    <2>1. PICK m, b, a, h \in Nat : m = l[k] /\ b = BufBase(k) /\ a = g.addr /\ h = g.len
      BY <1>3, <1>4
    <2>2. b <= a /\ h >= 1 /\ a + h = b + m
      BY <1>2, <2>1 DEF InsideBuffer
    <2>3. QED
      BY <2>1, <2>2
  <1>6. Within(l, k, g.adr)
    BY <1>3, <1>5 DEF Within
  <1>7. /\ InBuffer(l, g.adr) /\ WordAt(l, g.adr) = Before(l, k) + g.adr - BufBase(k) + 1
        /\ WordAt(l, g.adr) <= Total(l)
    BY <1>1, <1>3, <1>6, WordInBuffer
  <1>8. g.adr \in Addrs
    <2>1. PICK i \in 0..(Span - 1) : g.adr = BufBase(k) + i
      <3>1. PICK m, b, a, z \in Nat : m = l[k] /\ b = BufBase(k) /\ a = g.addr /\ z = Span
        BY <1>3, <1>4
      <3>2. a - b \in 0..(z - 1) /\ a = b + (a - b)
        BY <1>4, <1>5, <3>1
      <3>3. QED
        BY <1>3, <3>1, <3>2
    <2>2. QED
      BY <1>4, <2>1, BufferAddrs
  <1>9. WordAt(l, g.adr) = n + 1
    BY <1>2, <1>3, <1>7
  <1>10. QED
    BY <1>3, <1>7, <1>8, <1>9

(* One clock takes a walker as many words on as it moves.                   *)
LEMMA WalkedStep ==
  ASSUME PhaseInv, phase \notin {"off", "tr"}, NEW w \in Walkers, NEW answer,
         NEW n, Walked(walk[w], ListOf(w), n),
         NEW m \in Nat, m = n + (IF Moves(walk[w], Pins(w, answer)) THEN 1 ELSE 0)
  PROVE  Walked(SgClock(w, walk[w], Pins(w, answer)), ListOf(w), m)
  <1> DEFINE g == walk[w]
             l == ListOf(w)
             p == Pins(w, answer)
  <1>1. IsList(l) /\ n \in Nat /\ g \in SgType
    BY JobOn, JobIsList DEF Walked, PhaseInv
  <1>2. /\ p.done = FALSE /\ p.ack \in BOOLEAN /\ p.err \in BOOLEAN
        /\ p.head = 0 /\ (p.we /\ p.beat = 3 => phase = "beat3")
    <2>1. p.done = FALSE /\ p.head = 0
      BY DEF Pins
    <2>2. p.ack \in BOOLEAN /\ p.err \in BOOLEAN
      BY DEF Pins
    <2>3. p.we /\ p.beat = 3 => phase = "beat3"
      BY DEF Pins, BeatOf
    <2>4. QED
      BY <2>1, <2>2, <2>3
  <1>3. phase = "beat3" /\ w = "src" => g.next = 0
    BY DEF PhaseInv
  <1>4. p.ack => ~p.err
    BY DEF Pins
  <1>5. ASSUME g.state = "D_REQ", NEW k \in 1..Len(l), g.adr \div 2 = k - 1
        PROVE  p.data = [last |-> k = Len(l), len |-> l[k], addr |-> BufBase(k), next |-> 2 * k]
    <2>1. p.data = ListBeat(w, g.adr)
      BY <1>5 DEF Pins
    <2>2. (g.adr \div 2) + 1 = k
      BY <1>1, <1>5 DEF IsList
    <2>3. QED
      BY <2>1, <2>2 DEF ListBeat
  <1>6. m = n + (IF g.state = "B_REQ" /\ p.ack THEN 1 ELSE 0)
    BY DEF Moves
  <1>7. g.state = "B_REQ" => n + 1 <= Total(l)
    BY WalkedWord
  <1>8. /\ Total(l) \in Nat /\ Len(l) \in Nat /\ Len(l) >= 1 /\ Before(l, 1) = 0
        /\ \A k \in 1..(Len(l) + 1) : Before(l, k) \in Nat /\ Before(l, k) <= Total(l)
    BY <1>1, TotalNat, BeforeNext DEF IsList
  <1>9. \A k \in 1..Len(l) : /\ k \in Nat /\ BufBase(k) \in Nat /\ l[k] \in Nat
                             /\ Before(l, k) \in Nat /\ Before(l, k + 1) = Before(l, k) + l[k]
    <2>1. TAKE k \in 1..Len(l)
    <2>2. k \in Nat \ {0} /\ k \in Nat /\ k \in 1..(Len(l) + 1)
      BY <1>8
    <2>3. l[k] \in Nat /\ BufBase(k) \in Nat /\ Before(l, k) \in Nat
      BY <1>1, <1>8, <2>2, SpanNat DEF IsList
    <2>4. Before(l, k + 1) = Before(l, k) + l[k]
      BY <2>2, BeforeNext
    <2>5. QED
      BY <2>2, <2>3, <2>4
  <1>w. Walked(g, l, n) /\ (w = "src" \/ w = "dst")
    BY DEF Walkers
  <1>g. /\ g.adr \in Nat /\ g.addr \in Nat /\ g.next \in Nat /\ g.len \in 0..(LenModulus - 1)
        /\ DOMAIN g = {"state", "cnt", "io", "last", "len", "addr", "next", "adr"}
    BY <1>1 DEF SgType
  <1> SUFFICES Walked(SgClock(w, g, p), l, m)
    OBVIOUS
  <1> HIDE DEF g, l, p
  <1>10. ASSUME g.state = "IDLE" PROVE Walked(Idle(g, p), l, m)
    <2>1. Idle(g, p).state \in {"IDLE", "CMD"} /\ m = 0
      BY <1>6, <1>10, <1>g, <1>w DEF Idle, Walked
    <2>2. QED
      BY <2>1, <1>8 DEF Walked
  <1>11. ASSUME g.state = "CMD" PROVE Walked(Cmd(w, g, p), l, m)
    <2>1. m = 0
      BY <1>6, <1>11, <1>w DEF Walked
    <2>2. CASE p.we /\ p.beat = 3
      <3>1. /\ Cmd(w, g, p).last = FALSE /\ Cmd(w, g, p).next = 0
            /\ Cmd(w, g, p).state \in {"NEXT", "END"}
        BY <1>1, <1>w, <1>2, <1>3, <2>2 DEF Cmd, SgType
      <3>2. BehindBuffer(Cmd(w, g, p), l, 0) /\ 0 \in 0..Len(l) /\ 0 + 1 = 1
        BY <1>8, <3>1 DEF BehindBuffer
      <3>3. QED
        BY <1>8, <2>1, <3>1, <3>2 DEF Walked
    <2>3. CASE ~(p.we /\ p.beat = 3)
      <3>1. Cmd(w, g, p).state = "CMD"
        BY <1>1, <1>11, <2>3 DEF Cmd, SgType
      <3>2. QED
        BY <1>8, <2>1, <3>1 DEF Walked
    <2>4. QED
      BY <2>2, <2>3
  <1>12. ASSUME g.state = "D_REQ" PROVE Walked(DReq(g, p), l, m)
    <2>1. PICK k \in 1..Len(l) : AtDescriptor(g, l, k) /\ n = Before(l, k)
      BY <1>w, <1>12 DEF Walked
    <2>2. m = n /\ n <= Total(l)
      BY <1>1, <1>6, <1>12, <1>w DEF Walked
    <2>3. CASE p.err
      <3>1. DReq(g, p).state = "PANIC"
        BY <1>1, <2>3 DEF DReq, SgType
      <3>2. QED
        BY <1>1, <2>2, <3>1 DEF Walked
    <2>4. CASE ~p.err /\ ~p.ack
      <3>1. DReq(g, p) = g
        BY <2>4 DEF DReq
      <3>2. QED
        BY <1>w, <2>2, <3>1
    <2>5. CASE ~p.err /\ p.ack /\ g.cnt = 0
      <3>1. g.adr = 2 * (k - 1)
        BY <2>1, <2>5 DEF AtDescriptor
      <3>2. g.adr \div 2 = k - 1
        BY <1>8, <3>1, BeatHalf
      <3>3. p.data = [last |-> k = Len(l), len |-> l[k], addr |-> BufBase(k), next |-> 2 * k]
        BY <1>12, <1>5, <3>2
      <3>4. PICK b \in BOOLEAN : b = (k = Len(l))
        OBVIOUS
      <3>5. DReq(g, p) = [g EXCEPT !.last = b, !.len = l[k], !.addr = BufBase(k),
                                   !.cnt = 1, !.adr = @ + 1]
        BY <2>5, <3>3, <3>4 DEF DReq
      <3>6. /\ DReq(g, p).state = "D_REQ" /\ DReq(g, p).cnt = 1 /\ DReq(g, p).adr = g.adr + 1
            /\ DReq(g, p).addr = BufBase(k) /\ DReq(g, p).len = l[k] /\ DReq(g, p).last = b
        BY <1>g, <1>12, <3>5
      <3>7. AtDescriptor(DReq(g, p), l, k)
        <4>1. DReq(g, p).cnt # 0 /\ DReq(g, p).adr = 2 * (k - 1) + 1
          BY <3>1, <3>6
        <4>2. DReq(g, p).last <=> k = Len(l)
          BY <3>4, <3>6
        <4>3. QED
          BY <3>6, <4>1, <4>2 DEF AtDescriptor
      <3>8. QED
        BY <1>1, <2>1, <2>2, <3>6, <3>7 DEF Walked
    <2>6. CASE ~p.err /\ p.ack /\ g.cnt # 0
      <3>1. /\ g.adr = 2 * (k - 1) + 1
            /\ g.addr = BufBase(k) /\ g.len = l[k] /\ (g.last <=> k = Len(l))
        BY <2>1, <2>6 DEF AtDescriptor
      <3>2. g.adr \div 2 = k - 1
        BY <1>8, <3>1
      <3>3. p.data = [last |-> k = Len(l), len |-> l[k], addr |-> BufBase(k), next |-> 2 * k]
        BY <1>12, <1>5, <3>2
      <3>4. DReq(g, p) = [g EXCEPT !.next = 2 * k, !.adr = @ + 1, !.state = "B_WAIT"]
        BY <2>6, <3>3 DEF DReq
      <3>5. /\ DReq(g, p).state = "B_WAIT" /\ DReq(g, p).addr = g.addr /\ DReq(g, p).len = g.len
            /\ DReq(g, p).last = g.last /\ DReq(g, p).next = 2 * k
        BY <1>g, <3>4
      <3>6. InsideBuffer(DReq(g, p), l, k)
        <4>1. l[k] >= 1 /\ l[k] \in Nat /\ BufBase(k) \in Nat
          BY <1>1, <1>9 DEF IsList
        <4>2. QED
          BY <3>1, <3>5, <4>1 DEF InsideBuffer
      <3>7. n = Before(l, k) + DReq(g, p).addr - BufBase(k)
        BY <1>1, <1>9, <2>1, <3>1, <3>5
      <3>8. QED
        BY <1>1, <2>2, <3>5, <3>6, <3>7 DEF Walked
    <2>7. QED
      BY <1>2, <2>3, <2>4, <2>5, <2>6
  <1>13. ASSUME g.state = "B_REQ" PROVE Walked(BReq(g, p), l, m)
    <2>1. PICK k \in 1..Len(l) : InsideBuffer(g, l, k) /\ n = Before(l, k) + g.addr - BufBase(k)
      BY <1>w, <1>13 DEF Walked
    <2>2. PICK bs, bf, lk \in Nat : bs = BufBase(k) /\ bf = Before(l, k) /\ lk = l[k]
      BY <1>9
    <2>3. /\ bs <= g.addr /\ g.len >= 1 /\ g.addr + g.len = bs + lk
          /\ (g.last <=> k = Len(l)) /\ g.next = 2 * k /\ n = bf + g.addr - bs
      BY <2>1, <2>2 DEF InsideBuffer
    <2>4. g.adr = g.addr
      BY <1>w, <1>13 DEF Walked
    <2>5. CASE p.err
      <3>1. BReq(g, p).state = "PANIC" /\ m = n
        BY <1>1, <1>4, <1>6, <1>g, <2>5 DEF BReq
      <3>2. QED
        BY <1>w, <3>1 DEF Walked
    <2>6. CASE ~p.err /\ p.ack
      <3>1. g.len \in 1..(LenModulus - 1)
        BY <1>g, <2>3, ModulusNat
      <3>2. (g.len + LenModulus - 1) % LenModulus = g.len - 1 /\ g.len \in Nat
        <4>1. (g.len + LenModulus - 1) % LenModulus = g.len - 1
          BY <3>1, LastOne
        <4>2. g.len \in Nat
          BY <3>1, ModulusNat
        <4>3. QED
          BY <4>1, <4>2
      <3>3. PICK st \in {"NEXT", "B_WAIT", "B_REQ"} :
                /\ st = IF g.len = 1 THEN "NEXT" ELSE IF p.stop \/ p.end THEN "B_WAIT" ELSE "B_REQ"
                /\ st = "NEXT" <=> g.len = 1
        OBVIOUS
      <3>4. BReq(g, p) = [g EXCEPT !.adr = @ + 1, !.addr = @ + 1, !.io = TRUE, !.len = g.len - 1,
                                   !.state = st]
        BY <2>6, <3>2, <3>3 DEF BReq
      <3>5. /\ BReq(g, p).state = st /\ BReq(g, p).addr = g.addr + 1 /\ BReq(g, p).adr = g.adr + 1
            /\ BReq(g, p).len = g.len - 1 /\ BReq(g, p).last = g.last /\ BReq(g, p).next = g.next
        BY <1>g, <3>4
      <3>6. m = n + 1 /\ m <= Total(l)
        BY <1>1, <1>6, <1>7, <1>13, <2>6
      <3>7. CASE st = "NEXT"
        <4>1. g.len = 1 /\ m = bf + lk
          BY <1>g, <2>3, <3>3, <3>6, <3>7
        <4>2. m = Before(l, k + 1)
          BY <1>9, <2>2, <4>1
        <4>3. BehindBuffer(BReq(g, p), l, k)
          BY <2>3, <3>5 DEF BehindBuffer
        <4>4. k \in 0..Len(l)
          BY <1>8
        <4>5. QED
          BY <3>5, <3>6, <3>7, <4>2, <4>3, <4>4 DEF Walked
      <3>8. CASE st # "NEXT"
        <4>1. g.len # 1
          BY <3>3, <3>8
        <4>2. /\ bs <= BReq(g, p).addr /\ BReq(g, p).len >= 1
              /\ BReq(g, p).addr + BReq(g, p).len = bs + lk
              /\ m = bf + BReq(g, p).addr - bs
          BY <1>g, <2>3, <3>2, <3>5, <3>6, <4>1
        <4>3. InsideBuffer(BReq(g, p), l, k)
          BY <2>2, <2>3, <3>5, <4>2 DEF InsideBuffer
        <4>4. QED
          BY <2>2, <2>4, <3>3, <3>5, <3>6, <3>8, <4>2, <4>3 DEF Walked
      <3>9. QED
        BY <3>7, <3>8
    <2>7. CASE ~p.err /\ ~p.ack
      <3>1. m = n
        BY <1>1, <1>6, <2>7
      <3>2. BReq(g, p) = g \/ BReq(g, p) = [g EXCEPT !.state = "B_WAIT"]
        BY <2>7 DEF BReq
      <3>3. ASSUME BReq(g, p) = [g EXCEPT !.state = "B_WAIT"] PROVE Walked(BReq(g, p), l, m)
        <4>1. /\ BReq(g, p).state = "B_WAIT" /\ BReq(g, p).addr = g.addr /\ BReq(g, p).len = g.len
              /\ BReq(g, p).last = g.last /\ BReq(g, p).next = g.next
          BY <1>g, <3>3
        <4>2. InsideBuffer(BReq(g, p), l, k)
          BY <2>1, <4>1 DEF InsideBuffer
        <4>3. n <= Total(l)
          BY <1>w DEF Walked
        <4>4. QED
          BY <2>1, <3>1, <4>1, <4>2, <4>3 DEF Walked
      <3>4. QED
        BY <1>w, <3>1, <3>2, <3>3
    <2>8. QED
      BY <1>2, <2>5, <2>6, <2>7
  <1>14. ASSUME g.state = "B_WAIT" PROVE Walked(BWait(g, p), l, m)
    <2>1. PICK k \in 1..Len(l) : InsideBuffer(g, l, k) /\ n = Before(l, k) + g.addr - BufBase(k)
      BY <1>w, <1>14 DEF Walked
    <2>2. m = n /\ n <= Total(l)
      BY <1>1, <1>6, <1>14, <1>w DEF Walked
    <2>3. \/ BWait(g, p) = g
          \/ BWait(g, p) = [g EXCEPT !.state = "END"]
          \/ BWait(g, p) = [g EXCEPT !.adr = g.addr, !.io = FALSE, !.state = "B_REQ"]
      BY DEF BWait
    <2>4. ASSUME BWait(g, p) = [g EXCEPT !.state = "END"] PROVE Walked(BWait(g, p), l, m)
      <3>1. BWait(g, p).state = "END"
        BY <1>g, <2>4
      <3>2. QED
        BY <2>2, <3>1 DEF Walked
    <2>5. ASSUME BWait(g, p) = [g EXCEPT !.adr = g.addr, !.io = FALSE, !.state = "B_REQ"]
          PROVE  Walked(BWait(g, p), l, m)
      <3>1. /\ BWait(g, p).state = "B_REQ" /\ BWait(g, p).adr = BWait(g, p).addr
            /\ BWait(g, p).addr = g.addr /\ BWait(g, p).len = g.len
            /\ BWait(g, p).last = g.last /\ BWait(g, p).next = g.next
        BY <1>g, <2>5
      <3>2. InsideBuffer(BWait(g, p), l, k)
        BY <2>1, <3>1 DEF InsideBuffer
      <3>3. QED
        BY <2>1, <2>2, <3>1, <3>2 DEF Walked
    <2>6. QED
      BY <1>w, <2>2, <2>3, <2>4, <2>5
  <1>15. ASSUME g.state = "NEXT" PROVE Walked(NextBuffer(g), l, m)
    <2>1. PICK k \in 0..Len(l) : BehindBuffer(g, l, k) /\ n = Before(l, k + 1)
      BY <1>w, <1>15 DEF Walked
    <2>2. m = n /\ n <= Total(l)
      BY <1>1, <1>6, <1>15, <1>w DEF Walked
    <2>3. CASE g.last
      <3>1. NextBuffer(g).state = "END"
        BY <1>g, <2>3 DEF NextBuffer
      <3>2. QED
        BY <2>2, <3>1 DEF Walked
    <2>4. CASE ~g.last
      <3>1. k + 1 \in 1..Len(l) /\ g.next = 2 * ((k + 1) - 1)
        BY <1>8, <2>1, <2>4 DEF BehindBuffer
      <3>2. NextBuffer(g).state = "D_REQ" /\ AtDescriptor(NextBuffer(g), l, k + 1)
        BY <1>g, <2>4, <3>1 DEF NextBuffer, AtDescriptor
      <3>3. QED
        BY <2>1, <2>2, <3>1, <3>2 DEF Walked
    <2>5. QED
      BY <2>3, <2>4
  <1>16. ASSUME g.state \in {"END", "PANIC"} PROVE Walked(g, l, m)
    BY <1>1, <1>6, <1>16, <1>w DEF Walked
  <1>17. g.state \in SgStates
    BY <1>1 DEF SgType
  <1>18. SgClock(w, g, p) = CASE g.state = "IDLE"   -> Idle(g, p)
                              [] g.state = "CMD"    -> Cmd(w, g, p)
                              [] g.state = "D_REQ"  -> DReq(g, p)
                              [] g.state = "B_REQ"  -> BReq(g, p)
                              [] g.state = "B_WAIT" -> BWait(g, p)
                              [] g.state = "NEXT"   -> NextBuffer(g)
                              [] OTHER              -> g
    BY <1>2 DEF SgClock
  <1> HIDE DEF Walked
  <1>19. QED
    BY <1>10, <1>11, <1>12, <1>13, <1>14, <1>15, <1>16, <1>17, <1>18 DEF SgStates

(***************************************************************************)
(* The invariant.  c words have left the destination FIFO and n are in     *)
(* memory; the contents of the FIFOs say how many have come into them.     *)
(***************************************************************************)
SrcWords == Total(ListOf("src"))

Items == [i \in Nat |-> IF KindOf(job) = "fill" THEN FillWord
                        ELSE IF i <= SrcWords THEN WordOf(job, i) ELSE Marker]

(* The source side of a copy job, b words on: the walker has fetched what   *)
(* went into the FIFO, but for the marker, which comes last or is lost.     *)
SrcFlow(b) ==
    /\ Holds(srcf, srcram, srcq, b, Items)
    /\ \/ Walked(walk["src"], ListOf("src"), b + Count(srcf))
       \/ walk["src"].state = "END" /\ b + Count(srcf) = SrcWords + 1

(* The walker has written the marker, which is still in the FIFO, as a word *)
(* behind the data; it will not start another burst.                        *)
WroteMarker(c, n) ==
    /\ KindOf(job) = "copy" /\ n = SrcWords + 1 /\ c = SrcWords /\ Seen(dstf) >= 1
    /\ walk["dst"].state # "B_REQ" /\ walk["dst"].io

DstFlow(c, n) ==
    /\ Holds(dstf, dstram, dstq, c, Items)
    /\ walk["dst"].state \in {"IDLE", "CMD"} => c = 0
    /\ phase # "reset" => Walked(walk["dst"], ListOf("dst"), n)
    /\ walk["dst"].state \in {"D_REQ", "B_REQ", "B_WAIT", "NEXT"} => n = c \/ WroteMarker(c, n)

Written(n) ==
    /\ n <= Total(ListOf("dst")) /\ (KindOf(job) = "copy" => n <= SrcWords + 1)
    /\ mem = [a \in Addrs |-> IF InBuffer(ListOf("dst"), a) /\ WordAt(ListOf("dst"), a) <= n
                             THEN Items[WordAt(ListOf("dst"), a)] ELSE Blank]

Flow(c, n) ==
    /\ KindOf(job) = "copy" => SrcFlow(c + Count(dstf))
    /\ DstFlow(c, n) /\ Written(n)

RamsInv == srcram = [x \in Ptrs |-> srcram[x]] /\ dstram = [x \in Ptrs |-> dstram[x]]

DataInv == RamsInv /\ (phase # "off" => \E c, n \in Nat : Flow(c, n))

LEMMA ItemsOf ==
  ASSUME job \in 1..NJobs, NEW i \in Nat
  PROVE  /\ KindOf(job) = "fill" => Items[i] = FillWord /\ Items[i] # Marker
         /\ KindOf(job) = "copy" /\ i <= SrcWords => Items[i] = WordOf(job, i) /\ Items[i] # Marker
         /\ KindOf(job) = "copy" /\ ~(i <= SrcWords) => Items[i] = Marker
  <1>1. WordOf(job, i) # Marker
    <2>1. Span \in Nat /\ Bufs + 1 \in Nat /\ job \in Nat
      BY MemoryAssumption
    <2>2. PICK s, b, j \in Nat : s = Span /\ b = Bufs + 1 /\ j = job
      BY <2>1
    <2>3. s * b \in Nat
      BY <2>2
    <2>4. s * b * j \in Nat
      BY <2>2, <2>3
    <2>5. WordOf(job, i) = s * b * j + i
      BY <2>2 DEF WordOf
    <2>6. QED
      BY <2>4, <2>5 DEF Marker
  <1>2. FillWord # Marker
    BY DEF FillWord, Marker
  <1>3. Items[i] = IF KindOf(job) = "fill" THEN FillWord
                   ELSE IF i <= SrcWords THEN WordOf(job, i) ELSE Marker
    BY DEF Items
  <1>4. QED
    BY <1>1, <1>2, <1>3

LEMMA HoldsCleared ==
  ASSUME NEW s, s = [wptr |-> 0, rptr |-> 0, rsync |-> 0, rview |-> 0, wsync |-> 0, wview |-> 0],
         NEW ram, ram = [x \in Ptrs |-> ram[x]], NEW q, NEW b, NEW items
  PROVE  Holds(s, ram, q, b, items) /\ Count(s) = 0
  <1>1. Count(s) = 0 /\ Seen(s) = 0
    BY ChannelDepth DEF Count, Seen, Gap
  <1>2. \A x \in Ptrs : ~(Gap(0, x) < 0)
    <2>1. 0 \in Ptrs /\ Depth \in Nat
      BY ChannelDepth DEF Ptrs
    <2>2. \A x \in Ptrs : Gap(0, x) \in 0..(Depth - 1)
      BY <2>1, GapRange
    <2>3. QED
      BY <2>1, <2>2
  <1>3. s.rptr = 0
    OBVIOUS
  <1>4. QED
    BY <1>1, <1>2, <1>3 DEF Holds

(* A word that the source side fetches is the next one of its list, and the *)
(* marker comes behind the last.                                            *)
LEMMA SrcWord ==
  ASSUME ChannelInv, phase # "off", KindOf(job) = "copy", NEW a \in Nat,
         Walked(walk["src"], ListOf("src"), a), NEW answer, ss_xfer(walk["src"], Pins("src", answer))
  PROVE  /\ SrcIn = Items[a + 1]
         /\ ss_last(walk["src"]) => a = SrcWords
  <1>1. job \in 1..NJobs /\ "src" \in Walkers /\ PhaseInv
    BY JobOn DEF ChannelInv, Walkers
  <1>2. CASE ss_last(walk["src"])
    <2>1. PICK k \in 0..Len(ListOf("src")) :
              BehindBuffer(walk["src"], ListOf("src"), k) /\ a = Before(ListOf("src"), k + 1)
      BY <1>2 DEF ss_last, Walked
    <2>2. k = Len(ListOf("src"))
      BY <1>2, <2>1 DEF ss_last, BehindBuffer
    <2>3. a = SrcWords
      BY <2>1, <2>2 DEF SrcWords, Total
    <2>4. ~(a + 1 <= SrcWords)
      BY <2>3
    <2>5. Items[a + 1] = Marker
      BY <1>1, <2>4, ItemsOf
    <2>6. QED
      BY <1>2, <2>3, <2>5 DEF SrcIn
  <1>3. CASE ~ss_last(walk["src"])
    <2>1. walk["src"].state = "B_REQ"
      BY <1>3 DEF ss_xfer, Moves
    <2>2. WordAt(ListOf("src"), walk["src"].adr) = a + 1 /\ a + 1 <= SrcWords
      BY <1>1, <2>1, WalkedWord DEF SrcWords
    <2>3. Items[a + 1] = WordOf(job, a + 1)
      BY <1>1, <2>2, ItemsOf
    <2>4. QED
      BY <1>3, <2>2, <2>3 DEF SrcIn
  <1>4. QED
    BY <1>2, <1>3

(* In every clock of a job but the last two, the source FIFO takes what the *)
(* walker fetches and gives the module what comes next.                     *)
LEMMA SrcFlowStep ==
  ASSUME ChannelInv, phase \notin {"off", "tr", "reset"}, KindOf(job) = "copy",
         NEW b \in Nat, SrcFlow(b), NEW answer, Clock(answer),
         NEW e \in Nat, e = (IF mod = "RUN" THEN 1 ELSE 0)
  PROVE  SrcFlow(b + e)'
  <1> DEFINE g == walk["src"]
             p == Pins("src", answer)
             l == ListOf("src")
             a == b + Count(srcf)
             wen == ss_xfer(g, p)
             put == wen /\ ~S!full_out
             get == mod = "RUN"
  <1>1. job \in 1..NJobs /\ "src" \in Walkers /\ PhaseInv /\ Ring(srcf)
    BY JobOn DEF ChannelInv, RingsInv, Walkers
  <1>2. /\ S!full_out <=> Taken(srcf) = Depth - 1
        /\ S!empty_out <=> Seen(srcf) = 0
        /\ Count(srcf) \in Nat /\ Taken(srcf) \in 0..(Depth - 1)
    BY <1>1, SrcFlags
  <1>3. mod = "RUN" => Seen(srcf) # 0
    BY DEF ChannelInv, CopyInv
  <1>4. Moves(g, p) => put
    <2>1. g.state = "B_REQ" => Taken(srcf) <= Depth - 2
      BY DEF ChannelInv, BurstInv
    <2>2. QED
      BY <1>2, <2>1, ChannelDepth DEF ss_xfer, Moves
  <1>5. /\ srcf' = [wptr  |-> IF put THEN Up(srcf.wptr) ELSE srcf.wptr,
                    rsync |-> srcf.rptr, rview |-> srcf.rsync,
                    rptr  |-> IF get THEN Up(srcf.rptr) ELSE srcf.rptr,
                    wsync |-> srcf.wptr, wview |-> srcf.wsync]
        /\ srcram' = IF put THEN [srcram EXCEPT ![srcf.wptr] = SrcIn] ELSE srcram
        /\ srcq' = srcram[IF get THEN Up(srcf.rptr) ELSE srcf.rptr]
    <2>1. M!m_src_get(mod) = (mod = "RUN") /\ ~Resets /\ SrcSide(answer)
      BY DEF M!m_src_get, Resets, Clock
    <2>2. S!rallow(M!m_src_get(mod)) <=> get
      BY <1>2, <1>3, <2>1 DEF S!rallow
    <2>3. S!wallow(wen) <=> put
      BY DEF S!wallow
    <2>4. \A x : S!Inc(x) = Up(x)
      BY DEF S!Inc, Up
    <2>5. SrcControl(wen, M!m_src_get(mod))
      BY <2>1 DEF SrcSide
    <2>6. srcf' = [wptr  |-> IF S!wallow(wen) THEN S!Inc(srcf.wptr) ELSE srcf.wptr,
                   rsync |-> srcf.rptr, rview |-> srcf.rsync,
                   rptr  |-> IF S!rallow(M!m_src_get(mod)) THEN S!Inc(srcf.rptr) ELSE srcf.rptr,
                   wsync |-> srcf.wptr, wview |-> srcf.wsync]
      BY <2>1, <2>5 DEF SrcControl, S!Edge
    <2>7. /\ srcram' = IF S!wallow(wen) THEN [srcram EXCEPT ![srcf.wptr] = SrcIn] ELSE srcram
          /\ srcq' = srcram[IF S!rallow(M!m_src_get(mod)) THEN S!Inc(srcf.rptr) ELSE srcf.rptr]
      BY <2>1 DEF SrcSide
    <2> HIDE DEF put, get, wen
    <2>8. QED
      BY <2>2, <2>3, <2>4, <2>6, <2>7
  <1>6. job' = job /\ KindOf(job)' = KindOf(job) /\ Items' = Items /\ SrcWords' = SrcWords /\ l' = l
    <2>1. job' = job
      BY DEF Clock
    <2>2. QED
      BY <2>1 DEF KindOf, Items, SrcWords, ListOf
  <1>7. walk'["src"] = SgClock("src", g, p)
    BY <1>1 DEF Clock, WalkersClock
  <1>8. put /\ Walked(g, l, a) => SrcIn = Items[b + 1 + Count(srcf)]
    <2>1. a + 1 = b + 1 + Count(srcf) /\ a \in Nat
      BY <1>2
    <2>2. put => ss_xfer(walk["src"], Pins("src", answer))
      OBVIOUS
    <2> HIDE DEF put, wen, a
    <2>3. QED
      BY <2>1, <2>2, SrcWord DEF g, l
  <1>9. g.state = "END" => ~wen /\ ~Moves(g, p)
    BY DEF ss_xfer, Moves, ss_last
  <1>10. Walked(g, l, a) \/ (g.state = "END" /\ a = SrcWords + 1)
    BY DEF SrcFlow
  <1>11. put => SrcIn = Items[b + 1 + Count(srcf)]
    BY <1>8, <1>9, <1>10
  <1>12. Holds(srcf, srcram, srcq, b, Items) /\ put \in BOOLEAN /\ get \in BOOLEAN
    BY DEF SrcFlow
  <1>13. (put => Taken(srcf) # Depth - 1) /\ (get => Seen(srcf) # 0)
    BY <1>2, <1>3
  <1>14. /\ Holds(srcf', srcram', srcq', b + e, Items)
         /\ (b + e) + Count(srcf') = a + (IF put THEN 1 ELSE 0)
    <2>1. FifoClock(srcf, srcf', srcram, srcram', srcq, srcq', put, get, SrcIn, b, e, Items)
      <3>1. e = (IF get THEN 1 ELSE 0)
        OBVIOUS
      <3> HIDE DEF put, get
      <3>2. QED
        BY <1>1, <1>5, <1>11, <1>12, <1>13, <3>1 DEF FifoClock
    <2> HIDE DEF put, get
    <2>2. QED
      BY <2>1, HoldsClock
  <1>15. \/ Walked(walk'["src"], l, (b + e) + Count(srcf'))
         \/ walk'["src"].state = "END" /\ (b + e) + Count(srcf') = SrcWords + 1
    <2>1. CASE Walked(g, l, a)
      <3>1. PICK m \in Nat : m = a + (IF Moves(g, p) THEN 1 ELSE 0)
        BY <1>2
      <3>2. Walked(walk'["src"], l, m)
        BY <1>1, <1>7, <2>1, <3>1, WalkedStep
      <3>3. CASE Moves(g, p) \/ ~put
        <4>1. (b + e) + Count(srcf') = m
          BY <1>4, <1>14, <3>1, <3>3
        <4>2. QED
          BY <3>2, <4>1
      <3>4. CASE ~Moves(g, p) /\ put
        <4>1. ss_last(g) /\ wen
          BY <3>4 DEF ss_xfer
        <4>2. a = SrcWords
          BY <1>2, <2>1, <4>1, SrcWord
        <4>3. walk'["src"].state = "END"
          <5>1. p.done = FALSE
            BY DEF Pins
          <5>2. SgClock("src", g, p) = NextBuffer(g) /\ g.last
            BY <4>1, <5>1 DEF SgClock, ss_last
          <5>3. g \in SgType
            BY <1>1 DEF PhaseInv
          <5>4. NextBuffer(g).state = "END"
            BY <5>2, <5>3 DEF NextBuffer, SgType
          <5>5. QED
            BY <1>7, <5>2, <5>4
        <4>4. QED
          BY <1>14, <3>4, <4>2, <4>3
      <3>5. QED
        BY <3>3, <3>4
    <2>2. CASE g.state = "END" /\ a = SrcWords + 1
      <3>1. SgClock("src", g, p) = g
        <4>1. p.done = FALSE
          BY DEF Pins
        <4>2. QED
          BY <2>2, <4>1 DEF SgClock
      <3>2. QED
        <4>1. SrcWords \in Nat
          BY <1>1, JobIsList, TotalNat DEF SrcWords
        <4>2. (b + e) + Count(srcf') = SrcWords + 1
          BY <1>9, <1>14, <2>2, <4>1
        <4>3. QED
          BY <1>7, <2>2, <3>1, <4>2
    <2>3. QED
      BY <1>10, <2>1, <2>2
  <1> HIDE DEF put, get, wen, a, l, g, p
  <1>16. QED
    BY <1>6, <1>14, <1>15 DEF SrcFlow, l

(* What the source side holds bounds what the job can still move.           *)
LEMMA FlowBound ==
  ASSUME ChannelInv, phase # "off", KindOf(job) = "copy", NEW c \in Nat, NEW n \in Nat, Flow(c, n)
  PROVE  c + Count(dstf) <= SrcWords + 1 /\ SrcWords \in Nat /\ Count(dstf) \in Nat
  <1>1. job \in 1..NJobs /\ Ring(srcf) /\ Ring(dstf) /\ "src" \in Walkers
    BY JobOn DEF ChannelInv, RingsInv, Walkers
  <1>2. Count(srcf) \in Nat /\ Count(dstf) \in Nat /\ SrcWords \in Nat
    BY <1>1, SrcFlags, DstFlags, JobIsList, TotalNat DEF SrcWords
  <1>3. SrcFlow(c + Count(dstf))
    BY DEF Flow
  <1>4. \/ (c + Count(dstf)) + Count(srcf) <= SrcWords
        \/ (c + Count(dstf)) + Count(srcf) = SrcWords + 1
    BY <1>3 DEF SrcFlow, Walked, SrcWords
  <1>5. QED
    BY <1>2, <1>4

(* The word that the destination walker writes is the next one, and so is   *)
(* the place it writes it to.                                               *)
LEMMA DstMove ==
  ASSUME ChannelInv, phase \notin {"off", "reset"}, NEW c \in Nat, NEW n \in Nat, Flow(c, n),
         walk["dst"].state = "B_REQ"
  PROVE  /\ n = c /\ Seen(dstf) >= 1 /\ dstq = Items[n + 1]
         /\ KindOf(job) = "copy" => n <= SrcWords
         /\ walk["dst"].adr \in Addrs /\ walk["dst"].adr \in Nat
         /\ InBuffer(ListOf("dst"), walk["dst"].adr)
         /\ WordAt(ListOf("dst"), walk["dst"].adr) = n + 1 /\ n + 1 <= Total(ListOf("dst"))
  <1>1. "dst" \in Walkers /\ PhaseInv /\ Ring(dstf) /\ Walked(walk["dst"], ListOf("dst"), n)
    BY DEF ChannelInv, RingsInv, Walkers, Flow, DstFlow
  <1>2. n = c
    BY DEF Flow, DstFlow, WroteMarker
  <1>3. Seen(dstf) >= 1
    BY DEF ChannelInv, BurstInv
  <1>4. dstq = Items[n + 1]
    BY <1>2, <1>3 DEF Flow, DstFlow, Holds
  <1>5. Count(dstf) >= 1
    <2>1. Seen(dstf) \in Nat /\ Count(dstf) \in Nat /\ Seen(dstf) <= Count(dstf)
      BY <1>1, RingCounts
    <2>2. QED
      BY <1>3, <2>1
  <1>6. KindOf(job) = "copy" => n <= SrcWords
    <2>1. SUFFICES ASSUME KindOf(job) = "copy" PROVE n <= SrcWords
      OBVIOUS
    <2>2. c + Count(dstf) <= SrcWords + 1 /\ SrcWords \in Nat /\ Count(dstf) \in Nat
      BY <2>1, FlowBound
    <2>3. QED
      BY <1>2, <1>5, <2>2
  <1>7. QED
    BY <1>1, <1>2, <1>3, <1>4, <1>6, WalkedWord

LEMMA SameJob ==
  ASSUME phase # "reset", NEW answer, Clock(answer)
  PROVE  /\ job' = job /\ KindOf(job)' = KindOf(job) /\ Items' = Items /\ SrcWords' = SrcWords
         /\ \A w : ListOf(w)' = ListOf(w)
  <1>1. job' = job
    BY DEF Clock
  <1>2. QED
    BY <1>1 DEF KindOf, Items, SrcWords, ListOf

LEMMA WrittenStep ==
  ASSUME ChannelInv, phase \notin {"off", "reset"}, NEW c \in Nat, NEW n \in Nat, Flow(c, n),
         NEW answer, Clock(answer),
         NEW m \in Nat, m = n + (IF Moves(walk["dst"], Pins("dst", answer)) THEN 1 ELSE 0)
  PROVE  Written(m)'
  <1> DEFINE l == ListOf("dst")
             g == walk["dst"]
             In(a, k) == InBuffer(l, a) /\ WordAt(l, a) <= k
             Cell(a, k) == IF In(a, k) THEN Items[WordAt(l, a)] ELSE Blank
  <1>1. Items' = Items /\ l' = l /\ KindOf(job)' = KindOf(job) /\ SrcWords' = SrcWords
    BY SameJob
  <1>2. mem' = IF Moves(g, Pins("dst", answer)) THEN [mem EXCEPT ![g.adr] = dstq] ELSE mem
    BY DEF Clock, MemClock
  <1>3. /\ n <= Total(l) /\ (KindOf(job) = "copy" => n <= SrcWords + 1)
        /\ mem = [a \in Addrs |-> Cell(a, n)]
    BY DEF Flow, Written
  <1>4. /\ m <= Total(l) /\ (KindOf(job) = "copy" => m <= SrcWords + 1)
        /\ mem' = [a \in Addrs |-> Cell(a, m)]
    <2>1. CASE ~Moves(g, Pins("dst", answer))
      BY <1>2, <1>3, <2>1
    <2>2. CASE Moves(g, Pins("dst", answer))
      <3>1. g.state = "B_REQ"
        BY <2>2 DEF Moves
      <3>2. /\ dstq = Items[n + 1] /\ (KindOf(job) = "copy" => n <= SrcWords)
            /\ g.adr \in Addrs /\ g.adr \in Nat /\ InBuffer(l, g.adr)
            /\ WordAt(l, g.adr) = n + 1 /\ n + 1 <= Total(l)
        BY <3>1, DstMove
      <3>3. m = n + 1
        BY <2>2
      <3>4. IsList(l)
        <4>1. "dst" \in Walkers
          BY DEF Walkers
        <4>2. QED
          BY <4>1, JobOn, JobIsList DEF ChannelInv
      <3>5. Cell(g.adr, m) = dstq
        BY <3>2, <3>3
      <3>6. ASSUME NEW a \in Addrs, a # g.adr PROVE Cell(a, m) = Cell(a, n)
        <4>1. a \in Nat
          BY MemoryAssumption DEF Addrs
        <4>2. ASSUME InBuffer(l, a) PROVE WordAt(l, a) \in Nat /\ WordAt(l, a) # n + 1
          <5>1. PICK k \in 1..Len(l) : Within(l, k, a)
            BY <4>2, <3>4 DEF InBuffer, IsList
          <5>2. WordAt(l, a) \in Nat
            BY <3>4, <4>1, <5>1, WordInBuffer
          <5>3. WordAt(l, a) # WordAt(l, g.adr)
            BY <3>2, <3>4, <3>6, <4>1, <4>2, OnePlace
          <5>4. QED
            BY <3>2, <5>2, <5>3
        <4>3. In(a, m) <=> In(a, n)
          <5>1. CASE InBuffer(l, a)
            <6>1. WordAt(l, a) <= n + 1 <=> WordAt(l, a) <= n
              BY <4>2, <5>1
            <6>2. QED
              BY <3>3, <6>1
          <5>2. QED
            BY <5>1
        <4> HIDE DEF In
        <4>4. QED
          BY <4>3
      <3> HIDE DEF Cell
      <3>7. mem' = [mem EXCEPT ![g.adr] = dstq]
        BY <1>2, <2>2
      <3>8. mem' = [a \in Addrs |-> Cell(a, m)]
        BY <1>3, <3>2, <3>5, <3>6, <3>7
      <3>9. SrcWords \in Nat => (KindOf(job) = "copy" => m <= SrcWords + 1)
        BY <3>2, <3>3
      <3>10. SrcWords \in Nat
        <4>1. "src" \in Walkers
          BY DEF Walkers
        <4>2. QED
          BY <4>1, JobOn, JobIsList, TotalNat DEF ChannelInv, SrcWords
      <3>11. QED
        BY <3>2, <3>3, <3>8, <3>9, <3>10
    <2>3. QED
      BY <2>1, <2>2
  <1> HIDE DEF l
  <1>5. /\ m <= Total(l') /\ (KindOf(job)' = "copy" => m <= SrcWords' + 1)
        /\ mem' = [a \in Addrs |-> IF InBuffer(l', a) /\ WordAt(l', a) <= m
                                  THEN Items'[WordAt(l', a)] ELSE Blank]
    BY <1>1, <1>4
  <1>6. QED
    BY <1>5 DEF Written, l

(* The destination FIFO takes what the module moves or fills with, and the  *)
(* walker takes what it writes out of it, but for the marker.               *)
Takes(answer) == ss_xfer(walk["dst"], Pins("dst", answer)) /\ ~End("dst")
Puts          == mod = "RUN" /\ ~D!full_out
Gets(answer)  == Takes(answer) /\ ~D!empty_out

LEMMA DstClock ==
  ASSUME NEW answer, Clock(answer)
  PROVE  /\ ~Resets => dstf' = [wptr  |-> IF Puts THEN Up(dstf.wptr) ELSE dstf.wptr,
                               rsync |-> dstf.rptr, rview |-> dstf.rsync,
                               rptr  |-> IF Gets(answer) THEN Up(dstf.rptr) ELSE dstf.rptr,
                               wsync |-> dstf.wptr, wview |-> dstf.wsync]
         /\ dstram' = IF Puts THEN [dstram EXCEPT ![dstf.wptr] = DstIn] ELSE dstram
         /\ dstq' = dstram[IF Gets(answer) THEN Up(dstf.rptr) ELSE dstf.rptr]
  <1>1. M!m_dst_put(mod) = (mod = "RUN") /\ DstSide(answer)
    BY DEF M!m_dst_put, Clock
  <1>2. D!rallow(Takes(answer)) <=> Gets(answer)
    BY DEF D!rallow, Gets
  <1>3. D!wallow(M!m_dst_put(mod)) <=> Puts
    BY <1>1 DEF D!wallow, Puts
  <1>4. \A x : D!Inc(x) = Up(x)
    BY DEF D!Inc, Up
  <1>5. DstControl(M!m_dst_put(mod), Takes(answer))
    BY <1>1 DEF DstSide, Takes
  <1>6. ~Resets =>
          dstf' = [wptr  |-> IF D!wallow(M!m_dst_put(mod)) THEN D!Inc(dstf.wptr) ELSE dstf.wptr,
                   rsync |-> dstf.rptr, rview |-> dstf.rsync,
                   rptr  |-> IF D!rallow(Takes(answer)) THEN D!Inc(dstf.rptr) ELSE dstf.rptr,
                   wsync |-> dstf.wptr, wview |-> dstf.wsync]
    BY <1>5 DEF DstControl, D!Edge
  <1>7. /\ dstram' = IF D!wallow(M!m_dst_put(mod)) THEN [dstram EXCEPT ![dstf.wptr] = DstIn]
                                                 ELSE dstram
        /\ dstq' = dstram[IF D!rallow(Takes(answer)) THEN D!Inc(dstf.rptr) ELSE dstf.rptr]
    BY <1>1 DEF DstSide, Takes
  <1>8. QED
    BY <1>2, <1>3, <1>4, <1>6, <1>7

(* The word a running module puts is the next one, and the marker the last. *)
LEMMA DstWordIn ==
  ASSUME ChannelInv, phase # "off", NEW c \in Nat, NEW n \in Nat, Flow(c, n), mod = "RUN",
         NEW i \in Nat, i = c + Count(dstf)
  PROVE  /\ DstIn = Items[i + 1]
         /\ KindOf(job) = "copy" => i <= SrcWords
         /\ DstIn = Marker => KindOf(job) = "copy" /\ i = SrcWords
  <1>1. job \in 1..NJobs /\ Ring(srcf) /\ KindOf(job) \in {"copy", "fill"} /\ "src" \in Walkers
    BY JobOn, KindOfJob DEF ChannelInv, RingsInv, Walkers
  <1>2. ASSUME KindOf(job) = "copy"
        PROVE  DstIn = Items[i + 1] /\ i <= SrcWords /\ SrcWords \in Nat
    <2>1. SrcFlow(i)
      BY <1>2 DEF Flow
    <2>2. Seen(srcf) >= 1
      BY <1>2 DEF ChannelInv, CopyInv
    <2>3. srcq = Items[i + 1]
      BY <2>1, <2>2 DEF SrcFlow, Holds
    <2>4. i + Count(srcf) <= SrcWords \/ i + Count(srcf) = SrcWords + 1
      BY <2>1 DEF SrcFlow, Walked, SrcWords
    <2>5. Count(srcf) \in Nat /\ Count(srcf) >= 1
      <3>1. Seen(srcf) \in Nat /\ Count(srcf) \in Nat /\ Seen(srcf) <= Count(srcf)
        BY <1>1, RingCounts
      <3>2. QED
        BY <2>2, <3>1
    <2>6. SrcWords \in Nat
      BY <1>1, JobIsList, TotalNat DEF SrcWords
    <2>7. i <= SrcWords
      BY <2>4, <2>5, <2>6
    <2>8. QED
      BY <1>2, <2>3, <2>6, <2>7 DEF DstIn
  <1>3. ASSUME KindOf(job) = "fill" PROVE DstIn = Items[i + 1] /\ DstIn # Marker
    <2>1. i + 1 \in Nat
      OBVIOUS
    <2>2. Items[i + 1] = FillWord /\ Items[i + 1] # Marker
      BY <1>1, <1>3, <2>1, ItemsOf
    <2>3. QED
      BY <1>3, <2>2 DEF DstIn
  <1>4. ASSUME DstIn = Marker, KindOf(job) = "copy" PROVE i = SrcWords
    <2>1. PICK j \in Nat : j = i + 1
      OBVIOUS
    <2>2. Items[j] = Marker
      BY <1>2, <1>4, <2>1
    <2>3. ~(j <= SrcWords)
      BY <1>1, <1>4, <2>2, ItemsOf
    <2>4. QED
      BY <1>2, <1>4, <2>1, <2>3
  <1>5. QED
    BY <1>1, <1>2, <1>3, <1>4

LEMMA DstHoldsStep ==
  ASSUME ChannelInv, phase \notin {"off", "tr", "reset"}, NEW c \in Nat, NEW n \in Nat, Flow(c, n),
         NEW answer, Clock(answer)
  PROVE  \E g, e \in Nat :
            /\ g = (IF Gets(answer) THEN 1 ELSE 0)
            /\ g = (IF Takes(answer) /\ Seen(dstf) # 0 THEN 1 ELSE 0)
            /\ e = (IF Puts THEN 1 ELSE 0)
            /\ KindOf(job) = "copy" => e = (IF mod = "RUN" THEN 1 ELSE 0)
            /\ Holds(dstf', dstram', dstq', c + g, Items)
            /\ (c + g) + Count(dstf') = (c + Count(dstf)) + e
            /\ Seen(dstf') \in Nat /\ Seen(dstf') >= Seen(dstf) - (IF Takes(answer) THEN 1 ELSE 0)
  <1>1. job \in 1..NJobs /\ Ring(dstf) /\ Ring(srcf) /\ ~Resets
    BY JobOn DEF ChannelInv, RingsInv, Resets
  <1>2. /\ D!full_out <=> Taken(dstf) = Depth - 1
        /\ D!empty_out <=> Seen(dstf) = 0
        /\ Count(dstf) \in Nat /\ Taken(dstf) \in 0..(Depth - 1)
    BY <1>1, DstFlags
  <1>3. /\ dstf' = [wptr  |-> IF Puts THEN Up(dstf.wptr) ELSE dstf.wptr,
                    rsync |-> dstf.rptr, rview |-> dstf.rsync,
                    rptr  |-> IF Gets(answer) THEN Up(dstf.rptr) ELSE dstf.rptr,
                    wsync |-> dstf.wptr, wview |-> dstf.wsync]
        /\ dstram' = IF Puts THEN [dstram EXCEPT ![dstf.wptr] = DstIn] ELSE dstram
        /\ dstq' = dstram[IF Gets(answer) THEN Up(dstf.rptr) ELSE dstf.rptr]
    BY <1>1, DstClock
  <1>5. mod = "RUN" => DstIn = Items[c + 1 + Count(dstf)]
    <2>1. SUFFICES ASSUME mod = "RUN" PROVE DstIn = Items[c + 1 + Count(dstf)]
      OBVIOUS
    <2>2. PICK i \in Nat : i = c + Count(dstf)
      BY <1>2
    <2>3. c + 1 + Count(dstf) = i + 1
      BY <1>2, <2>2
    <2>4. DstIn = Items[i + 1]
      BY <2>1, <2>2, DstWordIn
    <2>5. QED
      BY <2>3, <2>4
  <1>6. PICK g \in Nat : g = (IF Gets(answer) THEN 1 ELSE 0)
    OBVIOUS
  <1>7. PICK e \in Nat : e = (IF Puts THEN 1 ELSE 0)
    OBVIOUS
  <1>8. FifoClock(dstf, dstf', dstram, dstram', dstq, dstq', Puts, Gets(answer), DstIn, c, g, Items)
    <2>1. Puts \in BOOLEAN /\ Gets(answer) \in BOOLEAN
      BY DEF Puts, Gets
    <2>2. Holds(dstf, dstram, dstq, c, Items)
      BY DEF Flow, DstFlow
    <2>3. /\ Puts => Taken(dstf) # Depth - 1 /\ DstIn = Items[c + 1 + Count(dstf)]
          /\ Gets(answer) => Seen(dstf) # 0
      BY <1>2, <1>5 DEF Puts, Gets
    <2>4. QED
      BY <1>1, <1>3, <1>6, <2>1, <2>2, <2>3 DEF FifoClock
  <1>9. g = (IF Takes(answer) /\ Seen(dstf) # 0 THEN 1 ELSE 0)
    BY <1>2, <1>6 DEF Gets
  <1>10. KindOf(job) = "copy" => e = (IF mod = "RUN" THEN 1 ELSE 0)
    <2>1. KindOf(job) = "copy" /\ mod = "RUN" => Taken(dstf) <= Depth - 2
      BY DEF ChannelInv, CopyInv
    <2>2. KindOf(job) = "copy" /\ mod = "RUN" => ~D!full_out
      BY <1>2, <2>1, ChannelDepth
    <2>3. QED
      BY <1>7, <2>2 DEF Puts
  <1>11. /\ Holds(dstf', dstram', dstq', c + g, Items)
         /\ (c + g) + Count(dstf') = c + Count(dstf) + e
    BY <1>7, <1>8, HoldsClock
  <1>12. Seen(dstf') \in Nat /\ Seen(dstf') >= Seen(dstf) - (IF Takes(answer) THEN 1 ELSE 0)
    <2>1. PICK ren \in BOOLEAN : ren = Takes(answer)
      BY DEF Takes
    <2>2. PICK wen \in BOOLEAN : wen = M!m_dst_put(mod)
      BY DEF M!m_dst_put
    <2>3. DstControl(wen, ren)
      BY <2>1, <2>2 DEF Clock, DstSide, Takes
    <2>4. Seen(dstf') \in Nat /\ Seen(dstf') >= Seen(dstf) - (IF ren THEN 1 ELSE 0)
      BY <1>1, <2>3, DstEdge
    <2>5. QED
      BY <2>1, <2>4
  <1>13. QED
    BY <1>6, <1>7, <1>9, <1>10, <1>11, <1>12

(* How a clock takes the destination walker to where it goes on.            *)
LEMMA DstNext ==
  ASSUME NEW g \in SgType, NEW answer, phase # "tr"
  PROVE  LET p == Pins("dst", answer)
             x == SgClock("dst", g, p)
         IN  /\ x.state \in {"IDLE", "CMD"} => g.state \in {"IDLE", "CMD"}
             /\ x.state \in {"D_REQ", "B_REQ", "B_WAIT", "NEXT"} =>
                   \/ g.state = "CMD" /\ x.state = "NEXT"
                   \/ g.state = "D_REQ" /\ x.state \in {"D_REQ", "B_WAIT"} /\ x.io = g.io
                   \/ g.state = "B_REQ" /\ p.ack /\ ~p.err /\ x.io
                         /\ (x.state = "B_REQ" => ~p.end)
                   \/ g.state = "B_REQ" /\ ~p.ack
                   \/ g.state = "B_WAIT" /\ x.state = "B_REQ" /\ ~(p.end /\ g.io)
                   \/ g.state = "B_WAIT" /\ x.state = "B_WAIT" /\ ~(p.end /\ g.io)
                   \/ g.state = "NEXT" /\ ~g.last /\ x.state = "D_REQ" /\ x.io = g.io
  <1> DEFINE p == Pins("dst", answer)
             x == SgClock("dst", g, p)
  <1>1. p.done = FALSE /\ p.ack \in BOOLEAN
    BY DEF Pins
  <1>2. DOMAIN g = {"state", "cnt", "io", "last", "len", "addr", "next", "adr"} /\ g.state \in SgStates
    BY DEF SgType
  <1> SUFFICES /\ x.state \in {"IDLE", "CMD"} => g.state \in {"IDLE", "CMD"}
               /\ x.state \in {"D_REQ", "B_REQ", "B_WAIT", "NEXT"} =>
                     \/ g.state = "CMD" /\ x.state = "NEXT"
                     \/ g.state = "D_REQ" /\ x.state \in {"D_REQ", "B_WAIT"} /\ x.io = g.io
                     \/ g.state = "B_REQ" /\ p.ack /\ ~p.err /\ x.io
                           /\ (x.state = "B_REQ" => ~p.end)
                     \/ g.state = "B_REQ" /\ ~p.ack
                     \/ g.state = "B_WAIT" /\ x.state = "B_REQ" /\ ~(p.end /\ g.io)
                     \/ g.state = "B_WAIT" /\ x.state = "B_WAIT" /\ ~(p.end /\ g.io)
                     \/ g.state = "NEXT" /\ ~g.last /\ x.state = "D_REQ" /\ x.io = g.io
    OBVIOUS
  <1> HIDE DEF p
  <1>3. CASE g.state = "IDLE"
    <2>1. x = Idle(g, p)
      BY <1>1, <1>3 DEF SgClock
    <2>2. x.state \in {"IDLE", "CMD"}
      BY <1>2, <2>1 DEF Idle
    <2>3. QED
      BY <1>3, <2>2
  <1>4. CASE g.state = "CMD"
    <2>1. x = Cmd("dst", g, p)
      BY <1>1, <1>4 DEF SgClock
    <2>2. x.state \in {"CMD", "NEXT", "END"}
      BY <1>2, <1>4, <2>1 DEF Cmd
    <2>3. QED
      BY <1>4, <2>2
  <1>5. CASE g.state = "D_REQ"
    <2>1. x = DReq(g, p)
      BY <1>1, <1>5 DEF SgClock
    <2>2. x.state \in {"D_REQ", "B_WAIT", "PANIC"} /\ x.io = g.io
      BY <1>2, <1>5, <2>1 DEF DReq
    <2>3. QED
      BY <1>5, <2>2
  <1>6. CASE g.state = "B_REQ"
    <2>1. x = BReq(g, p)
      BY <1>1, <1>6 DEF SgClock
    <2>2. x.state \in {"B_REQ", "B_WAIT", "NEXT", "PANIC"}
      BY <1>2, <1>6, <2>1 DEF BReq
    <2>3. p.err => x.state = "PANIC"
      BY <1>2, <2>1 DEF BReq
    <2>4. p.ack /\ ~p.err => x.io /\ (x.state = "B_REQ" => ~p.end)
      BY <1>2, <2>1 DEF BReq
    <2>5. QED
      BY <1>6, <2>2, <2>3, <2>4
  <1>7. CASE g.state = "B_WAIT"
    <2>1. x = BWait(g, p)
      BY <1>1, <1>7 DEF SgClock
    <2>2. x.state \in {"B_REQ", "B_WAIT", "END"} /\ (p.end /\ g.io => x.state = "END")
      BY <1>2, <1>7, <2>1 DEF BWait
    <2>3. QED
      BY <1>7, <2>2
  <1>8. CASE g.state = "NEXT"
    <2>1. x = NextBuffer(g)
      BY <1>1, <1>8 DEF SgClock
    <2>2. g.last => x.state = "END"
      BY <1>2, <2>1 DEF NextBuffer
    <2>3. ~g.last => x.state = "D_REQ" /\ x.io = g.io
      BY <1>2, <2>1 DEF NextBuffer
    <2>4. QED
      BY <1>8, <2>2, <2>3
  <1>9. CASE g.state \in {"END", "PANIC"}
    <2>1. x = g
      BY <1>1, <1>9 DEF SgClock
    <2>2. QED
      BY <1>9, <2>1
  <1>10. QED
    BY <1>2, <1>3, <1>4, <1>5, <1>6, <1>7, <1>8, <1>9 DEF SgStates

LEMMA DstFlowStep ==
  ASSUME ChannelInv, phase \notin {"off", "tr", "reset"}, NEW c \in Nat, NEW n \in Nat, Flow(c, n),
         NEW answer, Clock(answer),
         NEW m \in Nat, m = n + (IF Moves(walk["dst"], Pins("dst", answer)) THEN 1 ELSE 0),
         NEW g \in Nat, g = (IF Takes(answer) /\ Seen(dstf) # 0 THEN 1 ELSE 0),
         Holds(dstf', dstram', dstq', c + g, Items),
         Seen(dstf') \in Nat, Seen(dstf') >= Seen(dstf) - (IF Takes(answer) THEN 1 ELSE 0)
  PROVE  DstFlow(c + g, m)'
  <1> DEFINE k == walk["dst"]
             p == Pins("dst", answer)
             x == SgClock("dst", k, p)
             l == ListOf("dst")
  <1>1. /\ "dst" \in Walkers /\ PhaseInv /\ Ring(dstf) /\ k \in SgType /\ job \in 1..NJobs
        /\ KindOf(job) \in {"copy", "fill"}
    BY JobOn, KindOfJob DEF ChannelInv, RingsInv, Walkers, PhaseInv
  <1>2. /\ Items' = Items /\ l' = l /\ KindOf(job)' = KindOf(job) /\ SrcWords' = SrcWords
        /\ walk'["dst"] = x
    BY <1>1, SameJob DEF Clock, WalkersClock
  <1>3. Walked(k, l, n) /\ (k.state \in {"IDLE", "CMD"} => c = 0 /\ n = 0)
    BY DEF Flow, DstFlow, Walked
  <1>4. Walked(x, l, m)
    BY <1>1, <1>3, WalkedStep
  <1>5. Seen(dstf) \in Nat
    BY <1>1, DstFlags, ChannelDepth
  <1>6. k.state # "B_REQ" => ~Moves(k, p) /\ m = n
    BY DEF Moves
  <1>7. k.state \notin {"B_REQ", "NEXT"} \/ (k.state = "NEXT" /\ ~k.last) => ~Takes(answer) /\ g = 0
    BY DEF Takes, ss_xfer, Moves, ss_last
  <1>8. x.state \in {"IDLE", "CMD"} => c + g = 0
    <2>1. x.state \in {"IDLE", "CMD"} => k.state \in {"IDLE", "CMD"}
      BY <1>1, DstNext
    <2>2. QED
      BY <1>3, <1>7, <2>1
  <1>9. k.state \in {"D_REQ", "B_REQ", "B_WAIT", "NEXT"} => n = c \/ WroteMarker(c, n)
    BY DEF Flow, DstFlow
  <1>10. p.end = End("dst")
    BY DEF Pins
  <1> DEFINE Marked == /\ KindOf(job) = "copy" /\ m = SrcWords + 1 /\ c + g = SrcWords
                       /\ Seen(dstf') >= 1 /\ x.state # "B_REQ" /\ x.io
  <1>11. ASSUME WroteMarker(c, n), ~Takes(answer), g = 0, m = n, x.state # "B_REQ", x.io = k.io
         PROVE  Marked
    <2> HIDE DEF x
    <2>1. c + g = c
      BY <1>11
    <2>2. /\ KindOf(job) = "copy" /\ n = SrcWords + 1 /\ c = SrcWords
          /\ Seen(dstf) >= 1 /\ k.io
      BY <1>11 DEF WroteMarker
    <2>3. Seen(dstf') >= 1
      BY <1>5, <1>11, <2>2
    <2>4. QED
      BY <1>11, <2>1, <2>2, <2>3
  <1>12. ASSUME x.state \in {"D_REQ", "B_REQ", "B_WAIT", "NEXT"} PROVE m = c + g \/ Marked
    <2>1. CASE k.state = "CMD" /\ x.state = "NEXT"
      <3>1. c = 0 /\ n = 0 /\ m = n /\ g = 0
        BY <1>3, <1>6, <1>7, <2>1
      <3>2. QED
        BY <3>1
    <2>2. CASE \/ k.state = "D_REQ" /\ x.state \in {"D_REQ", "B_WAIT"} /\ x.io = k.io
               \/ k.state = "NEXT" /\ ~k.last /\ x.state = "D_REQ" /\ x.io = k.io
      <3>1. ~Takes(answer) /\ g = 0 /\ m = n /\ x.state # "B_REQ" /\ x.io = k.io
        BY <1>6, <1>7, <2>2
      <3>2. n = c \/ WroteMarker(c, n)
        BY <1>9, <2>2
      <3> HIDE DEF Marked
      <3>3. QED
        BY <1>11, <3>1, <3>2
    <2>3. CASE k.state = "B_REQ" /\ p.ack /\ ~p.err /\ x.io /\ (x.state = "B_REQ" => ~p.end)
      <3>1. /\ n = c /\ Seen(dstf) >= 1 /\ dstq = Items[n + 1]
            /\ KindOf(job) = "copy" => n <= SrcWords
        BY <2>3, DstMove
      <3>2. Moves(k, p) /\ ss_xfer(k, p) /\ m = n + 1
        BY <2>3 DEF Moves, ss_xfer
      <3>3. CASE End("dst")
        <4>1. dstq = Marker
          BY <3>3 DEF End
        <4>2. KindOf(job) = "copy" /\ ~(n + 1 <= SrcWords)
          <5>1. PICK i \in Nat : i = n + 1
            OBVIOUS
          <5>2. Items[i] = Marker
            BY <3>1, <4>1, <5>1
          <5>3. KindOf(job) = "copy" /\ ~(i <= SrcWords)
            BY <1>1, <5>2, ItemsOf
          <5>4. QED
            BY <5>1, <5>3
        <4>3. SrcWords \in Nat
          <5>1. "src" \in Walkers
            BY DEF Walkers
          <5>2. QED
            BY <1>1, <5>1, JobIsList, TotalNat DEF SrcWords
        <4>4. n = SrcWords
          BY <3>1, <4>2, <4>3
        <4>5. ~Takes(answer) /\ g = 0
          BY <3>3 DEF Takes
        <4>6. Seen(dstf') >= 1
          BY <1>5, <3>1, <4>5
        <4>7. x.state # "B_REQ"
          BY <1>10, <2>3, <3>3
        <4>8. Marked
          BY <2>3, <3>1, <3>2, <4>2, <4>4, <4>5, <4>6, <4>7
        <4>9. QED
          BY <4>8
      <3>4. CASE ~End("dst")
        <4>1. g = 1
          BY <3>1, <3>2, <3>4 DEF Takes
        <4>2. QED
          BY <3>1, <3>2, <4>1
      <3>5. QED
        BY <3>3, <3>4
    <2>4. CASE k.state = "B_REQ" /\ ~p.ack
      <3>1. n = c
        BY <2>4, DstMove
      <3>2. ~Moves(k, p) /\ ~Takes(answer) /\ m = n /\ g = 0
        BY <2>4 DEF Moves, Takes, ss_xfer, ss_last
      <3>3. QED
        BY <3>1, <3>2
    <2>5. CASE k.state = "B_WAIT" /\ ~(p.end /\ k.io)
      <3>1. n = c
        <4>1. SUFFICES ASSUME WroteMarker(c, n) PROVE FALSE
          BY <1>9, <2>5
        <4>2. dstq = Items[c + 1]
          BY <4>1 DEF WroteMarker, Flow, DstFlow, Holds
        <4>3. KindOf(job) = "copy" /\ ~(c + 1 <= SrcWords)
          BY <4>1 DEF WroteMarker
        <4>4. dstq = Marker
          BY <1>1, <4>2, <4>3, ItemsOf
        <4>5. p.end /\ k.io
          BY <1>10, <4>1, <4>4 DEF End, WroteMarker
        <4>6. QED
          BY <2>5, <4>5
      <3>2. m = n /\ g = 0
        BY <1>6, <1>7, <2>5
      <3>3. QED
        BY <3>1, <3>2
    <2> HIDE DEF Marked, x, k, p
    <2>6. \/ k.state = "CMD" /\ x.state = "NEXT"
          \/ k.state = "D_REQ" /\ x.state \in {"D_REQ", "B_WAIT"} /\ x.io = k.io
          \/ k.state = "B_REQ" /\ p.ack /\ ~p.err /\ x.io /\ (x.state = "B_REQ" => ~p.end)
          \/ k.state = "B_REQ" /\ ~p.ack
          \/ k.state = "B_WAIT" /\ x.state = "B_REQ" /\ ~(p.end /\ k.io)
          \/ k.state = "B_WAIT" /\ x.state = "B_WAIT" /\ ~(p.end /\ k.io)
          \/ k.state = "NEXT" /\ ~k.last /\ x.state = "D_REQ" /\ x.io = k.io
      BY <1>1, <1>12, DstNext DEF x, k, p
    <2>7. QED
      BY <2>1, <2>2, <2>3, <2>4, <2>5, <2>6
  <1>13. /\ Holds(dstf', dstram', dstq', c + g, Items')
         /\ walk'["dst"].state \in {"IDLE", "CMD"} => c + g = 0
         /\ Walked(walk'["dst"], l', m)
         /\ walk'["dst"].state \in {"D_REQ", "B_REQ", "B_WAIT", "NEXT"} =>
               \/ m = c + g
               \/ /\ KindOf(job)' = "copy" /\ m = SrcWords' + 1 /\ c + g = SrcWords'
                  /\ Seen(dstf') >= 1 /\ walk'["dst"].state # "B_REQ" /\ walk'["dst"].io
    BY <1>2, <1>4, <1>8, <1>12
  <1> HIDE DEF l
  <1>14. QED
    BY <1>13 DEF DstFlow, WroteMarker, l

(***************************************************************************)
(* The invariant is kept.                                                  *)
(***************************************************************************)
(* A clock: m words are in memory then, g words were taken out of the FIFO, *)
(* and e were put into it.                                                  *)
Moved(answer, c, n, g, e, m) ==
    /\ m = n + (IF Moves(walk["dst"], Pins("dst", answer)) THEN 1 ELSE 0)
    /\ g = (IF Gets(answer) THEN 1 ELSE 0) /\ e = (IF Puts THEN 1 ELSE 0)
    /\ (c + g) + Count(dstf') = (c + Count(dstf)) + e

LEMMA FlowStep ==
  ASSUME ChannelInv, phase \notin {"off", "tr", "reset"}, NEW c \in Nat, NEW n \in Nat, Flow(c, n),
         NEW answer, Clock(answer)
  PROVE  \E g, e, m \in Nat : Moved(answer, c, n, g, e, m) /\ c + g \in Nat /\ Flow(c + g, m)'
  <1>1. PICK m \in Nat : m = n + (IF Moves(walk["dst"], Pins("dst", answer)) THEN 1 ELSE 0)
    OBVIOUS
  <1>2. PICK g, e \in Nat :
            /\ g = (IF Gets(answer) THEN 1 ELSE 0)
            /\ g = (IF Takes(answer) /\ Seen(dstf) # 0 THEN 1 ELSE 0)
            /\ e = (IF Puts THEN 1 ELSE 0)
            /\ KindOf(job) = "copy" => e = (IF mod = "RUN" THEN 1 ELSE 0)
            /\ Holds(dstf', dstram', dstq', c + g, Items)
            /\ (c + g) + Count(dstf') = (c + Count(dstf)) + e
            /\ Seen(dstf') \in Nat /\ Seen(dstf') >= Seen(dstf) - (IF Takes(answer) THEN 1 ELSE 0)
    BY DstHoldsStep
  <1>3. Written(m)'
    BY <1>1, WrittenStep
  <1>4. DstFlow(c + g, m)'
    BY <1>1, <1>2, DstFlowStep
  <1>5. KindOf(job)' = KindOf(job)
    BY SameJob
  <1>6. KindOf(job) = "copy" => SrcFlow((c + g) + Count(dstf))'
    <2>1. SUFFICES ASSUME KindOf(job) = "copy" PROVE SrcFlow((c + g) + Count(dstf))'
      OBVIOUS
    <2>2. PICK b \in Nat : b = c + Count(dstf)
      <3>1. Count(dstf) \in Nat
        BY DstFlags DEF ChannelInv, RingsInv
      <3>2. QED
        BY <3>1
    <2>3. SrcFlow(b)
      BY <2>1, <2>2 DEF Flow
    <2>4. SrcFlow(b + e)'
      BY <1>2, <2>1, <2>3, SrcFlowStep
    <2>5. (c + g) + Count(dstf') = b + e
      BY <1>2, <2>2
    <2>6. QED
      BY <2>4, <2>5 DEF SrcFlow
  <1>7. Flow(c + g, m)'
    BY <1>3, <1>4, <1>5, <1>6 DEF Flow
  <1>8. c + g \in Nat
    OBVIOUS
  <1>9. Moved(answer, c, n, g, e, m)
    BY <1>1, <1>2 DEF Moved
  <1>10. QED
    BY <1>7, <1>8, <1>9

(* Between two jobs the FIFOs are empty and the walkers idle.               *)
LEMMA FlowIdle ==
  ASSUME NEW n \in Nat, RamsInv, Written(n),
         srcf = S!Cleared, dstf = D!Cleared, \A w \in Walkers : walk[w].state = "IDLE",
         job \in 1..NJobs, phase # "reset" => n = 0
  PROVE  Flow(0, n)
  <1>1. /\ srcf = [wptr |-> 0, rptr |-> 0, rsync |-> 0, rview |-> 0, wsync |-> 0, wview |-> 0]
        /\ dstf = [wptr |-> 0, rptr |-> 0, rsync |-> 0, rview |-> 0, wsync |-> 0, wview |-> 0]
    BY DEF S!Cleared, D!Cleared
  <1>2. /\ Holds(srcf, srcram, srcq, 0, Items) /\ Count(srcf) = 0
        /\ Holds(dstf, dstram, dstq, 0, Items) /\ Count(dstf) = 0
    BY <1>1, HoldsCleared DEF RamsInv
  <1>3. ASSUME NEW w \in Walkers PROVE Walked(walk[w], ListOf(w), 0)
    <2>1. Total(ListOf(w)) \in Nat
      BY JobIsList, TotalNat
    <2>2. QED
      BY <2>1 DEF Walked
  <1>4. SrcFlow(0 + Count(dstf))
    <2>1. "src" \in Walkers
      BY DEF Walkers
    <2>2. 0 + Count(dstf) = 0 /\ 0 + Count(srcf) = 0
      BY <1>2
    <2>3. QED
      BY <1>2, <1>3, <2>1, <2>2 DEF SrcFlow
  <1>5. DstFlow(0, n)
    <2>1. "dst" \in Walkers
      BY DEF Walkers
    <2>2. QED
      BY <1>2, <1>3, <2>1 DEF DstFlow
  <1>6. QED
    BY <1>4, <1>5 DEF Flow

(* The same of the state behind a step.                                     *)
IdleFlow ==
    \A n \in Nat :
        /\ RamsInv /\ Written(n)
        /\ srcf = S!Cleared /\ dstf = D!Cleared /\ (\A w \in Walkers : walk[w].state = "IDLE")
        /\ job \in 1..NJobs /\ (phase # "reset" => n = 0)
        => Flow(0, n)

LEMMA FlowIdleNext == IdleFlow'
  <1>1. IdleFlow
    BY FlowIdle DEF IdleFlow
  <1>2. QED
    BY <1>1, PTL

LEMMA RamsStep ==
  ASSUME RamsInv, RingsInv, NEW answer, Clock(answer)
  PROVE  RamsInv'
  <1>1. srcf.wptr \in Ptrs /\ dstf.wptr \in Ptrs
    BY DEF RingsInv, Ring
  <1>2. \/ srcram' = srcram
        \/ srcram' = [srcram EXCEPT ![srcf.wptr] = SrcIn]
    BY DEF Clock, SrcSide
  <1>3. \/ dstram' = dstram
        \/ dstram' = [dstram EXCEPT ![dstf.wptr] = DstIn]
    BY DEF Clock, DstSide
  <1>4. srcram' = [x \in Ptrs |-> srcram'[x]]
    BY <1>1, <1>2 DEF RamsInv
  <1>5. dstram' = [x \in Ptrs |-> dstram'[x]]
    BY <1>1, <1>3 DEF RamsInv
  <1>6. QED
    BY <1>4, <1>5 DEF RamsInv

(* No word is in a memory that was cleared.                                 *)
LEMMA NothingWritten ==
  ASSUME job \in 1..NJobs, mem = NoMem
  PROVE  Written(0)
  <1> DEFINE l == ListOf("dst")
  <1>1. "dst" \in Walkers /\ "src" \in Walkers
    BY DEF Walkers
  <1>2. IsList(l) /\ Total(l) \in Nat /\ SrcWords \in Nat
    BY <1>1, JobIsList, TotalNat DEF SrcWords
  <1>3. ASSUME NEW a \in Addrs PROVE ~(InBuffer(l, a) /\ WordAt(l, a) <= 0)
    <2>1. SUFFICES ASSUME InBuffer(l, a) PROVE ~(WordAt(l, a) <= 0)
      OBVIOUS
    <2>2. PICK k \in 1..Len(l) : Within(l, k, a)
      BY <2>1, <1>2 DEF InBuffer, IsList
    <2>3. a \in Nat
      BY MemoryAssumption DEF Addrs
    <2>4. WordAt(l, a) \in Nat /\ WordAt(l, a) >= 1
      <3>1. k \in 1..(Len(l) + 1)
        BY <1>2 DEF IsList
      <3>2. Before(l, k) \in Nat
        BY <1>2, <3>1, TotalNat
      <3>3. WordAt(l, a) \in Nat /\ Before(l, k) < WordAt(l, a)
        BY <1>2, <2>2, <2>3, WordInBuffer
      <3>4. QED
        BY <3>2, <3>3
    <2>5. QED
      BY <2>4
  <1>4. 0 <= Total(l) /\ 0 <= SrcWords + 1
    BY <1>2
  <1> HIDE DEF l
  <1>5. mem = [a \in Addrs |-> IF InBuffer(l, a) /\ WordAt(l, a) <= 0
                              THEN Items[WordAt(l, a)] ELSE Blank]
    BY <1>3 DEF NoMem
  <1>6. QED
    BY <1>4, <1>5 DEF Written, l

NoneWritten == job \in 1..NJobs /\ mem = NoMem => Written(0)

LEMMA NothingWrittenNext == NoneWritten'
  <1>1. NoneWritten
    BY NothingWritten DEF NoneWritten
  <1>2. QED
    BY <1>1, PTL

LEMMA DataInit == Init => DataInv
  <1> SUFFICES ASSUME Init PROVE DataInv
    OBVIOUS
  <1>1. RamsInv
    BY DEF Init, RamsInv, S!Ptr, D!Ptr, Ptrs
  <1>2. job \in 1..NJobs
    <2>1. NJobs \in Nat /\ NJobs >= 1
      BY ListsAssumption DEF NJobs
    <2>2. QED
      BY <2>1 DEF Init
  <1>3. Written(0)
    BY <1>2, NothingWritten DEF Init
  <1>4. /\ \A w \in Walkers : walk[w].state = "IDLE"
        /\ srcf = S!Cleared /\ dstf = D!Cleared
    BY DEF Init, SgReset
  <1>5. Flow(0, 0)
    BY <1>1, <1>2, <1>3, <1>4, FlowIdle
  <1>6. 0 \in Nat
    OBVIOUS
  <1>7. QED
    BY <1>1, <1>5, <1>6 DEF DataInv

(* What the two clocks of a reset leave: each of them idle and empty.       *)
LEMMA ResetClock ==
  ASSUME PhaseInv, phase \in {"tr", "reset"}, NEW answer, Clock(answer)
  PROVE  /\ srcf' = S!Cleared /\ dstf' = D!Cleared /\ mod' = "IDLE"
         /\ \A w \in Walkers : walk'[w].state = "IDLE"
  <1>1. srcf' = S!Cleared /\ dstf' = D!Cleared
    BY DEF Clock, SrcSide, DstSide, SrcControl, DstControl, Resets, S!Clear, D!Clear
  <1>2. mod' = "IDLE"
    BY DEF Clock, ModSide, Resets
  <1>3. \A w \in Walkers : walk'[w].state = "IDLE"
    <2>1. TAKE w \in Walkers
    <2>2. walk'[w] = SgClock(w, walk[w], Pins(w, answer)) /\ walk[w] \in SgType
      BY DEF Clock, WalkersClock, PhaseInv
    <2>3. phase = "reset" => walk[w].state = "IDLE"
      BY DEF PhaseInv
    <2>4. QED
      BY <2>2, <2>3, WalkerPhase
  <1>4. QED
    BY <1>1, <1>2, <1>3

(* The two clocks of the reset clear the FIFOs, stop the walkers and, for   *)
(* the next job, forget what was written.                                   *)
LEMMA FlowReset ==
  ASSUME ChannelInv, DataInv, phase \in {"tr", "reset"}, NEW answer, Clock(answer), phase' # "off"
  PROVE  \E n \in Nat : Flow(0, n)'
  <1>1. /\ PhaseInv /\ RingsInv /\ RamsInv /\ RamsInv' /\ PhaseInv'
    BY RamsStep, PhaseStep DEF ChannelInv, DataInv
  <1>2. /\ srcf' = S!Cleared /\ dstf' = D!Cleared
        /\ \A w \in Walkers : walk'[w].state = "IDLE"
    BY <1>1, ResetClock
  <1>4. job' \in 1..NJobs
    <2>1. NJobs \in Nat
      BY ListsAssumption DEF NJobs
    <2>2. QED
      BY <1>1, <2>1 DEF PhaseInv
  <1>5. S!Cleared' = S!Cleared /\ D!Cleared' = D!Cleared /\ NJobs' = NJobs /\ Walkers' = Walkers
    BY DEF S!Cleared, D!Cleared
  <1>6. \E n \in Nat : Written(n)' /\ (phase' # "reset" => n = 0)
    <2>1. CASE phase = "tr"
      <3>1. PICK c \in Nat, n \in Nat : Flow(c, n)
        BY <2>1 DEF DataInv
      <3>2. PICK m \in Nat : m = n + (IF Moves(walk["dst"], Pins("dst", answer)) THEN 1 ELSE 0)
        OBVIOUS
      <3>3. Written(m)'
        BY <2>1, <3>1, <3>2, WrittenStep
      <3>4. phase' = "reset"
        BY <2>1 DEF Clock, NextPhase
      <3>5. QED
        BY <3>3, <3>4
    <2>2. CASE phase = "reset"
      <3>1. mem' = NoMem
        BY <2>2 DEF Clock
      <3>2. Written(0)'
        BY <1>4, <3>1, NothingWrittenNext DEF NoneWritten
      <3>3. QED
        BY <3>2
    <2>3. QED
      BY <2>1, <2>2
  <1>7. QED
    BY <1>1, <1>2, <1>4, <1>5, <1>6, FlowIdleNext DEF IdleFlow

LEMMA DataStep == ChannelInv /\ DataInv /\ [Next]_vars => DataInv'
  <1>1. ASSUME ChannelInv, DataInv, NEW answer, Clock(answer) PROVE DataInv'
    <2>1. RamsInv'
      BY <1>1, RamsStep DEF ChannelInv, DataInv
    <2>2. ASSUME phase' # "off" PROVE \E c, n \in Nat : Flow(c, n)'
      <3>1. CASE phase \in {"tr", "reset"}
        <4>1. \E n \in Nat : Flow(0, n)'
          BY <1>1, <2>2, <3>1, FlowReset
        <4>2. QED
          BY <4>1
      <3>2. CASE phase \notin {"tr", "reset"}
        <4>1. phase \notin {"off", "tr", "reset"}
          BY <1>1, <3>2 DEF Clock
        <4>2. PICK c \in Nat, n \in Nat : Flow(c, n)
          BY <1>1, <4>1 DEF DataInv
        <4>3. QED
          BY <1>1, <4>1, <4>2, FlowStep
      <3>3. QED
        BY <3>1, <3>2
    <2>3. QED
      BY <2>1, <2>2 DEF DataInv
  <1>2. ASSUME DataInv, UNCHANGED vars PROVE DataInv'
    <2>1. RamsInv'
      BY <1>2 DEF DataInv, RamsInv, vars
    <2>2. /\ Items' = Items /\ SrcWords' = SrcWords /\ KindOf(job)' = KindOf(job)
          /\ \A w : ListOf(w)' = ListOf(w)
      BY <1>2 DEF vars, Items, SrcWords, KindOf, ListOf
    <2>3. ASSUME NEW c \in Nat, NEW n \in Nat, Flow(c, n) PROVE Flow(c, n)'
      <3>1. SrcFlow(c + Count(dstf)) => SrcFlow(c + Count(dstf))'
        BY <1>2, <2>2 DEF vars, SrcFlow
      <3>2. DstFlow(c, n) => DstFlow(c, n)'
        BY <1>2, <2>2 DEF vars, DstFlow, WroteMarker
      <3>3. Written(n) => Written(n)'
        BY <1>2, <2>2 DEF vars, Written
      <3>4. QED
        BY <2>2, <2>3, <3>1, <3>2, <3>3 DEF Flow
    <2>4. QED
      BY <1>2, <2>1, <2>3 DEF DataInv, vars
  <1>3. QED
    BY <1>1, <1>2 DEF Next, AckClock, WaitClock, ErrClock

LEMMA DataInvariant == Spec => []DataInv
  BY DataInit, DataStep, ChannelInvariant, PTL DEF Spec

LEMMA WrittenMeans == ChannelInv /\ DataInv => WrittenInOrder
  <1> SUFFICES ASSUME ChannelInv, DataInv, phase # "off"
               PROVE  \E n \in 0..(Wanted(job) + 1) : \A a \in Addrs :
                         mem[a] = IF DstWord[job][a] \in 1..n THEN Arrives(job, DstWord[job][a])
                                  ELSE Blank
    BY DEF WrittenInOrder
  <1> DEFINE l == ListOf("dst")
  <1>1. job \in 1..NJobs /\ KindOf(job) \in {"copy", "fill"} /\ "dst" \in Walkers /\ "src" \in Walkers
    BY JobOn, KindOfJob DEF ChannelInv, Walkers
  <1>2. IsList(l) /\ Total(l) \in Nat /\ SrcWords \in Nat
    BY <1>1, JobIsList, TotalNat DEF SrcWords
  <1>3. /\ l = Lists[job].dst /\ ListOf("src") = Lists[job].src
        /\ Wanted(job) = IF KindOf(job) = "fill" THEN Total(l) ELSE SrcWords
    <2>1. ~(job > NJobs)
      <3>1. NJobs \in Nat
        BY ListsAssumption DEF NJobs
      <3>2. QED
        BY <1>1, <3>1
    <2>2. l = Lists[job].dst /\ ListOf("src") = Lists[job].src
      BY <2>1 DEF ListOf
    <2>3. QED
      BY <2>2 DEF Wanted, SrcWords
  <1>4. \A a \in Addrs : DstWord[job][a] = WordAt(l, a)
    BY <1>1, <1>3 DEF DstWord
  <1>5. PICK c \in Nat, n \in Nat : Flow(c, n)
    BY DEF DataInv
  <1>6. /\ n <= Total(l) /\ (KindOf(job) = "copy" => n <= SrcWords + 1)
        /\ mem = [a \in Addrs |-> IF InBuffer(l, a) /\ WordAt(l, a) <= n
                                 THEN Items[WordAt(l, a)] ELSE Blank]
    BY <1>5 DEF Flow, Written
  <1>7. n \in 0..(Wanted(job) + 1)
    BY <1>1, <1>2, <1>3, <1>6
  <1>8. ASSUME NEW i \in 1..n PROVE Items[i] = Arrives(job, i)
    <2>1. i \in Nat /\ i <= n
      OBVIOUS
    <2>2. Items[i] = IF KindOf(job) = "fill" THEN FillWord
                     ELSE IF i <= SrcWords THEN WordOf(job, i) ELSE Marker
      BY <2>1 DEF Items
    <2>3. KindOf(job) = "fill" => i <= Wanted(job)
      BY <1>2, <1>3, <1>6, <2>1
    <2>4. Arrives(job, i) = IF i <= Wanted(job)
                            THEN (IF KindOf(job) = "fill" THEN FillWord ELSE WordOf(job, i))
                            ELSE Marker
      BY DEF Arrives, WantedWord
    <2>5. QED
      BY <1>3, <2>2, <2>3, <2>4
  <1> HIDE DEF l
  <1>9. ASSUME NEW a \in Addrs
        PROVE  mem[a] = IF DstWord[job][a] \in 1..n THEN Arrives(job, DstWord[job][a]) ELSE Blank
    <2>1. CASE InBuffer(l, a)
      <3>1. PICK k \in 1..Len(l) : Within(l, k, a)
        BY <1>2, <2>1 DEF InBuffer, IsList
      <3>2. a \in Nat /\ k \in 1..(Len(l) + 1)
        BY <1>2, MemoryAssumption DEF Addrs, IsList
      <3>3. Before(l, k) \in Nat
        BY <1>2, <3>2, TotalNat
      <3>4. WordAt(l, a) \in Nat /\ Before(l, k) < WordAt(l, a)
        BY <1>2, <3>1, <3>2, WordInBuffer
      <3>5. WordAt(l, a) \in 1..n <=> WordAt(l, a) <= n
        BY <3>3, <3>4
      <3>6. QED
        BY <1>4, <1>6, <1>8, <2>1, <3>5
    <2>2. CASE ~InBuffer(l, a)
      <3>1. WordAt(l, a) = 0
        BY <2>2 DEF WordAt
      <3>2. QED
        BY <1>4, <1>6, <2>2, <3>1
    <2>3. QED
      BY <2>1, <2>2
  <1>10. QED
    BY <1>7, <1>9

(* For FIFOs of every depth and every list of jobs: whatever bursts are cut *)
(* short, refused or repeated, memory holds the words of the job from the   *)
(* first one on, each in its place, and nothing else but the data lines of  *)
(* the marker behind the last (ss_sg.v, ch.v, tpram.v, copy.v).             *)
THEOREM DeliversInOrder == Spec => []WrittenInOrder
  BY ChannelInvariant, DataInvariant, WrittenMeans, PTL

(***************************************************************************)
(* No job ends before it is complete.  What could end one early is the     *)
(* marker of a job before it: a reset clears the FIFO but not its RAM, and *)
(* an empty FIFO shows what the RAM holds.  The marker of a job is where   *)
(* MarkerPlace says, and a later job runs into it only if it moves on over *)
(* that place and finds the FIFO empty there, which MarkersAhead excludes. *)
(***************************************************************************)
LEMMA DepthNat == Depth \in Nat /\ Depth >= 8
  BY ChannelDepth

LEMMA LapPlace ==
  ASSUME NEW a \in Nat, NEW x \in Ptrs
  PROVE  a % Depth = x <=> \E t \in Nat : a = Depth * t + x
  <1>1. a % Depth \in 0..(Depth - 1) /\ a \div Depth \in Nat /\ a = Depth * (a \div Depth) + (a % Depth)
    BY DepthNat
  <1>2. x \in Nat /\ x < Depth
    BY DepthNat DEF Ptrs
  <1>3. ASSUME NEW t \in Nat, NEW u \in Nat, NEW y \in 0..(Depth - 1),
               Depth * t + x = Depth * u + y
        PROVE  y = x
    <2>1. ~(t < u)
      <3> SUFFICES ASSUME t < u PROVE FALSE
        OBVIOUS
      <3>1. Depth * u = Depth * t + Depth + Depth * (u - t - 1) /\ Depth * (u - t - 1) >= 0
        BY DepthNat
      <3>2. QED
        BY <1>2, <1>3, <3>1, DepthNat
    <2>2. ~(u < t)
      <3> SUFFICES ASSUME u < t PROVE FALSE
        OBVIOUS
      <3>1. Depth * t = Depth * u + Depth + Depth * (t - u - 1) /\ Depth * (t - u - 1) >= 0
        BY DepthNat
      <3>2. QED
        BY <1>2, <1>3, <3>1, DepthNat
    <2>3. t = u
      BY <2>1, <2>2
    <2>4. QED
      BY <1>2, <1>3, <2>3, DepthNat
  <1>4. QED
    BY <1>1, <1>3

(* Of two numbers at one place of the ring, the one that is less than a     *)
(* turn ahead is not ahead.                                                 *)
LEMMA LapOrder ==
  ASSUME NEW t \in Nat, NEW u \in Nat, Depth * t < Depth * u + Depth
  PROVE  Depth * t <= Depth * u /\ Depth * t \in Nat /\ Depth * u \in Nat
  <1>1. ~(u < t)
    <2> SUFFICES ASSUME u < t PROVE FALSE
      OBVIOUS
    <2>1. Depth * t = Depth * u + Depth + Depth * (t - u - 1) /\ Depth * (t - u - 1) >= 0
      BY DepthNat
    <2>2. QED
      BY <2>1, DepthNat
  <1>2. Depth * u = Depth * t + Depth * (u - t) /\ Depth * (u - t) >= 0
    BY <1>1, DepthNat
  <1>3. QED
    BY <1>2, DepthNat

(* c words on, the read pointer is at place c of the ring.                  *)
Laps(r, c) == \E t \in Nat : c = Depth * t + r.rptr

LEMMA LapsStep ==
  ASSUME NEW r, Ring(r), NEW c \in Nat, Laps(r, c), NEW get \in BOOLEAN,
         NEW s, s.rptr = IF get THEN Up(r.rptr) ELSE r.rptr,
         NEW g \in Nat, g = (IF get THEN 1 ELSE 0)
  PROVE  Laps(s, c + g)
  <1>1. PICK t \in Nat : c = Depth * t + r.rptr
    BY DEF Laps
  <1>2. r.rptr \in Ptrs
    BY DEF Ring
  <1>3. CASE ~get
    BY <1>1, <1>3 DEF Laps
  <1>4. CASE get /\ r.rptr # Depth - 1
    <2>1. c + g = Depth * t + s.rptr
      BY <1>1, <1>2, <1>4, DepthNat DEF Ptrs, Up
    <2>2. QED
      BY <2>1 DEF Laps
  <1>5. CASE get /\ r.rptr = Depth - 1
    <2>1. Depth * (t + 1) = Depth * t + Depth /\ t + 1 \in Nat
      BY DepthNat
    <2>2. c + g = Depth * (t + 1) + s.rptr
      BY <1>1, <1>5, <2>1, DepthNat DEF Up
    <2>3. QED
      BY <2>1, <2>2 DEF Laps
  <1>6. QED
    BY <1>3, <1>4, <1>5

(* The write pointer is as far ahead as the FIFO holds words.               *)
LEMMA LapsWrite ==
  ASSUME NEW r, Ring(r), NEW c \in Nat, Laps(r, c)
  PROVE  \E u \in Nat : c + Count(r) = Depth * u + r.wptr
  <1>1. PICK t \in Nat : c = Depth * t + r.rptr
    BY DEF Laps
  <1>2. r.rptr \in Ptrs /\ r.wptr \in Ptrs
    BY DEF Ring
  <1>3. CASE r.rptr <= r.wptr
    <2>1. c + Count(r) = Depth * t + r.wptr
      BY <1>1, <1>2, <1>3, DepthNat DEF Count, Gap, Ptrs
    <2>2. QED
      BY <2>1
  <1>4. CASE ~(r.rptr <= r.wptr)
    <2>1. Depth * (t + 1) = Depth * t + Depth /\ t + 1 \in Nat
      BY DepthNat
    <2>2. c + Count(r) = Depth * (t + 1) + r.wptr
      BY <1>1, <1>2, <1>4, <2>1, DepthNat DEF Count, Gap, Ptrs
    <2>3. QED
      BY <2>1, <2>2
  <1>5. QED
    BY <1>3, <1>4

(* A number that is less than a turn is its own place.                      *)
LEMMA LapsFirst ==
  ASSUME NEW u \in Nat, NEW x \in Ptrs, NEW a \in Nat, a = Depth * u + x, a < Depth
  PROVE  a = x
  <1>1. u = 0
    <2> SUFFICES ASSUME u # 0 PROVE FALSE
      OBVIOUS
    <2>1. Depth * u = Depth + Depth * (u - 1) /\ Depth * (u - 1) >= 0
      BY DepthNat
    <2>2. QED
      BY <2>1, DepthNat DEF Ptrs
  <1>2. QED
    BY <1>1, DepthNat DEF Ptrs

(* Where the RAM of the destination FIFO may hold a marker: the one of this *)
(* job at its place, the ones of older jobs ahead of all that was put.      *)
OldMarker(x) ==
    \E i \in 1..NJobs : /\ IF phase = "reset" THEN i <= job ELSE i < job
                        /\ KindOf(i) = "copy" /\ MarkerPlace(i) = x

Stale(c) ==
    \A x \in Ptrs : dstram[x] = Marker =>
        \/ KindOf(job) = "copy" /\ c + Count(dstf) = SrcWords + 1 /\ MarkerPlace(job) = x
        \/ OldMarker(x) /\ c + Count(dstf) <= x

(* The output register shows a marker only before the first word and behind *)
(* the last.                                                                *)
Shown(c) == dstq = Marker => c = 0 \/ (KindOf(job) = "copy" /\ SrcWords <= c)

(* A module that fills is ahead of the walker: the FIFO is not empty again  *)
(* before the job is over.                                                  *)
FillInv(c) ==
    KindOf(job) = "fill" =>
        /\ mod \in {"IDLE", "RUN", "WAIT"}
        /\ mod = "IDLE" => Count(dstf) = 0
        /\ mod = "WAIT" => Count(dstf) >= 4
        /\ Seen(dstf) >= 1 \/ c >= 1 => Count(dstf) >= 2

(* A walker that has moved a word in a burst has moved a word.              *)
Moving(n) ==
    walk["dst"].state \in {"CMD", "D_REQ", "B_REQ", "B_WAIT", "NEXT"} /\ walk["dst"].io => n >= 1

(* A walker that has ended is through.                                      *)
Ended(n) ==
    /\ walk["dst"].state = "END" \/ phase = "reset" => n >= Wanted(job)
    /\ phase \in {"done", "tr"} => walk["dst"].state = "END"
    /\ phase = "reset" => mod = "IDLE" /\ dstf = D!Cleared

Whole(c, n) == Laps(dstf, c) /\ Stale(c) /\ Shown(c) /\ FillInv(c) /\ Moving(n) /\ Ended(n)

LEMMA JobWords ==
  ASSUME job \in 1..NJobs
  PROVE  /\ MarkerPlace(job) = SrcWords % Depth /\ SrcWords \in Nat
         /\ Wanted(job) = (IF KindOf(job) = "fill" THEN Total(ListOf("dst")) ELSE SrcWords)
         /\ ListOf("dst") = Lists[job].dst /\ IsList(ListOf("dst")) /\ Total(ListOf("dst")) \in Nat
         /\ Wanted(job) \in Nat /\ Wanted(job) >= 1
         /\ Roomy => Wanted(job) <= Total(ListOf("dst"))
  <1>1. ListOf("src") = Lists[job].src /\ ListOf("dst") = Lists[job].dst
    <2>1. NJobs \in Nat
      BY ListsAssumption DEF NJobs
    <2>2. ~(job > NJobs)
      BY <2>1
    <2>3. QED
      BY <2>2 DEF ListOf
  <1>2. "src" \in Walkers /\ "dst" \in Walkers
    BY DEF Walkers
  <1>3. IsList(ListOf("src")) /\ IsList(ListOf("dst"))
    BY <1>2, JobIsList
  <1>4. /\ Total(ListOf("src")) \in Nat /\ Total(ListOf("src")) >= 1
        /\ Total(ListOf("dst")) \in Nat /\ Total(ListOf("dst")) >= 1
    BY <1>3, TotalNat
  <1>5. /\ MarkerPlace(job) = SrcWords % Depth /\ SrcWords \in Nat /\ SrcWords >= 1
        /\ Wanted(job) = (IF KindOf(job) = "fill" THEN Total(ListOf("dst")) ELSE SrcWords)
    BY <1>1, <1>4 DEF MarkerPlace, SrcWords, Wanted
  <1>6. Roomy => Wanted(job) <= Total(ListOf("dst"))
    BY <1>1 DEF Roomy
  <1>7. QED
    BY <1>1, <1>3, <1>4, <1>5, <1>6

(* The marker is put behind the last word, at the place it has in the ring. *)
LEMMA MarkerPut ==
  ASSUME ChannelInv, phase # "off", NEW c \in Nat, NEW n \in Nat, Flow(c, n), Laps(dstf, c),
         mod = "RUN", DstIn = Marker
  PROVE  KindOf(job) = "copy" /\ c + Count(dstf) = SrcWords /\ MarkerPlace(job) = dstf.wptr
  <1>1. job \in 1..NJobs /\ Ring(dstf) /\ dstf.wptr \in Ptrs /\ Count(dstf) \in Nat
    BY JobOn, RingCounts DEF ChannelInv, RingsInv, Ring
  <1>2. PICK i \in Nat : i = c + Count(dstf)
    BY <1>1
  <1>3. KindOf(job) = "copy" /\ i = SrcWords
    BY <1>2, DstWordIn
  <1>4. \E u \in Nat : i = Depth * u + dstf.wptr
    BY <1>1, <1>2, LapsWrite
  <1>5. i % Depth = dstf.wptr
    BY <1>1, <1>4, LapPlace
  <1>6. QED
    BY <1>1, <1>2, <1>3, <1>5, JobWords

LEMMA StaleStep ==
  ASSUME ChannelInv, phase \notin {"off", "tr", "reset"}, NEW c \in Nat, NEW n \in Nat, Flow(c, n),
         NEW answer, Clock(answer), NEW g \in Nat, NEW e \in Nat, NEW m \in Nat,
         Moved(answer, c, n, g, e, m), RamsInv, Laps(dstf, c), Stale(c)
  PROVE  Stale(c + g)'
  <1>1. job \in 1..NJobs /\ Ring(dstf) /\ dstf.wptr \in Ptrs /\ Count(dstf) \in Nat
    BY JobOn, RingCounts DEF ChannelInv, RingsInv, Ring
  <1>2. /\ job' = job /\ KindOf(job)' = KindOf(job) /\ SrcWords' = SrcWords
        /\ phase' # "reset"
    <2>1. phase' # "reset"
      BY DEF Clock, NextPhase
    <2>2. QED
      BY <2>1, SameJob
  <1>3. dstram' = IF Puts THEN [dstram EXCEPT ![dstf.wptr] = DstIn] ELSE dstram
    BY DstClock
  <1>4. /\ e = (IF Puts THEN 1 ELSE 0)
        /\ (c + g) + Count(dstf') = (c + Count(dstf)) + e
    BY DEF Moved
  <1>5. \A x : OldMarker(x) <=> OldMarker(x)'
    BY <1>2 DEF OldMarker, KindOf, MarkerPlace
  <1>6. MarkerPlace(job)' = MarkerPlace(job)
    BY <1>2 DEF MarkerPlace
  <1>7. ASSUME NEW x \in Ptrs, dstram'[x] = Marker
        PROVE  \/ /\ KindOf(job) = "copy" /\ (c + g) + Count(dstf') = SrcWords + 1
                  /\ MarkerPlace(job) = x
               \/ OldMarker(x) /\ (c + g) + Count(dstf') <= x
    <2>1. CASE Puts /\ x = dstf.wptr
      <3>1. DstIn = Marker /\ mod = "RUN"
        BY <1>1, <1>3, <1>7, <2>1 DEF RamsInv, Puts
      <3>2. KindOf(job) = "copy" /\ c + Count(dstf) = SrcWords /\ MarkerPlace(job) = dstf.wptr
        BY <3>1, MarkerPut
      <3>3. QED
        BY <1>4, <2>1, <3>2
    <2>2. CASE ~(Puts /\ x = dstf.wptr)
      <3>1. dstram[x] = Marker
        BY <1>3, <1>7, <2>2 DEF RamsInv
      <3>2. CASE KindOf(job) = "copy" /\ c + Count(dstf) = SrcWords + 1 /\ MarkerPlace(job) = x
        <4>1. mod # "RUN"
          <5>1. SUFFICES ASSUME mod = "RUN" PROVE FALSE
            OBVIOUS
          <5>2. PICK i \in Nat : i = c + Count(dstf)
            BY <1>1
          <5>3. i <= SrcWords
            BY <3>2, <5>1, <5>2, DstWordIn
          <5>4. SrcWords \in Nat
            BY <1>1, JobWords
          <5>5. QED
            BY <3>2, <5>2, <5>3, <5>4
        <4>2. e = 0
          BY <1>4, <4>1 DEF Puts
        <4>3. (c + g) + Count(dstf') = c + Count(dstf)
          BY <1>1, <1>4, <4>2
        <4>4. QED
          BY <3>2, <4>3
      <3>3. CASE OldMarker(x) /\ c + Count(dstf) <= x
        <4>1. CASE ~Puts
          <5>1. (c + g) + Count(dstf') = c + Count(dstf)
            BY <1>1, <1>4, <4>1
          <5>2. QED
            BY <3>3, <5>1
        <4>2. CASE Puts
          <5>1. PICK i \in Nat : i = c + Count(dstf)
            BY <1>1
          <5>2. PICK u \in Nat : i = Depth * u + dstf.wptr
            BY <1>1, <5>1, LapsWrite
          <5>3. x \in Nat /\ x < Depth /\ i <= x
            BY <3>3, <5>1, DepthNat DEF Ptrs
          <5>4. i = dstf.wptr
            <6>1. i < Depth
              BY <5>3, DepthNat
            <6>2. QED
              BY <1>1, <5>2, <6>1, LapsFirst
          <5>5. i # x
            BY <2>2, <4>2, <5>4
          <5>6. i + 1 <= x
            BY <5>3, <5>5
          <5>7. (c + g) + Count(dstf') = i + 1
            BY <1>4, <4>2, <5>1
          <5>8. QED
            BY <3>3, <5>6, <5>7
        <4>3. QED
          BY <4>1, <4>2
      <3>4. QED
        BY <3>1, <3>2, <3>3 DEF Stale
    <2>3. QED
      BY <2>1, <2>2
  <1>8. QED
    BY <1>2, <1>5, <1>6, <1>7 DEF Stale

(* The walker sees the marker of its job behind the last word, and that of  *)
(* an older one, if at all, with the FIFO empty before the first.           *)
LEMMA ShownStep ==
  ASSUME ChannelInv, phase \notin {"off", "tr", "reset"}, NEW c \in Nat, NEW n \in Nat, Flow(c, n),
         NEW answer, Clock(answer), NEW g \in Nat, NEW e \in Nat, NEW m \in Nat,
         Moved(answer, c, n, g, e, m), Laps(dstf, c), Stale(c), FillInv(c), MarkersAhead
  PROVE  Shown(c + g)'
  <1>1. /\ job \in 1..NJobs /\ Ring(dstf) /\ dstf.rptr \in Ptrs
        /\ KindOf(job) \in {"copy", "fill"} /\ NJobs \in Nat
    BY JobOn, KindOfJob, ListsAssumption DEF ChannelInv, RingsInv, Ring, NJobs
  <1>2. /\ Seen(dstf) \in Nat /\ Count(dstf) \in Nat /\ Seen(dstf) <= Count(dstf)
        /\ Count(dstf) <= Depth - 1
    BY <1>1, RingCounts
  <1>3. KindOf(job)' = KindOf(job) /\ SrcWords' = SrcWords
    BY SameJob
  <1> DEFINE x == IF Gets(answer) THEN Up(dstf.rptr) ELSE dstf.rptr
  <1>4. x \in Ptrs /\ x \in Nat /\ x < Depth
    BY <1>1, UpPtrs, DepthNat DEF Ptrs
  <1>5. dstq' = dstram[x]
    BY DstClock
  <1>6. g = (IF Gets(answer) THEN 1 ELSE 0) /\ (Gets(answer) => Seen(dstf) >= 1)
    <2>1. D!empty_out <=> Seen(dstf) = 0
      BY <1>1, DstFlags
    <2>2. QED
      BY <1>2, <2>1 DEF Moved, Gets
  <1>7. PICK s \in Nat : c + g = Depth * s + x
    <2>1. PICK r : r = [rptr |-> x]
      OBVIOUS
    <2>2. Gets(answer) \in BOOLEAN
      BY DEF Gets
    <2>3. Laps(r, c + g)
      BY <1>1, <1>6, <2>1, <2>2, LapsStep
    <2>4. QED
      BY <2>1, <2>3 DEF Laps
  <1>8. c + g <= c + Count(dstf)
    BY <1>2, <1>6
  <1> HIDE DEF x
  <1>9. ASSUME dstram[x] = Marker
        PROVE  c + g = 0 \/ (KindOf(job) = "copy" /\ SrcWords <= c + g)
    <2>1. CASE KindOf(job) = "copy" /\ c + Count(dstf) = SrcWords + 1 /\ MarkerPlace(job) = x
      <3>1. SrcWords \in Nat /\ SrcWords % Depth = x
        BY <1>1, <2>1, JobWords
      <3>2. PICK t \in Nat : SrcWords = Depth * t + x
        BY <1>4, <3>1, LapPlace
      <3>3. SrcWords < (c + g) + Depth
        BY <1>2, <2>1, <3>1, DepthNat
      <3>4. Depth * t \in Nat /\ Depth * s \in Nat
        BY DepthNat
      <3>5. Depth * t < Depth * s + Depth
        BY <1>4, <1>7, <3>2, <3>3, <3>4, DepthNat
      <3>6. Depth * t <= Depth * s
        BY <3>5, LapOrder
      <3>7. SrcWords <= c + g
        BY <1>4, <1>7, <3>2, <3>4, <3>6
      <3>8. QED
        BY <2>1, <3>7
    <2>2. CASE OldMarker(x) /\ c + Count(dstf) <= x
      <3>1. c + g < Depth
        BY <1>2, <1>4, <1>8, <2>2, DepthNat
      <3>2. PICK d \in Nat : d = c + g
        OBVIOUS
      <3>3. d = x
        BY <1>4, <1>7, <3>1, <3>2, LapsFirst
      <3>4. c + Count(dstf) = c + g
        BY <1>2, <1>8, <2>2, <3>2, <3>3
      <3>5. CASE KindOf(job) = "fill"
        <4>1. Seen(dstf) >= 1 \/ c >= 1 => Count(dstf) >= 2
          BY <3>5 DEF FillInv
        <4>2. Count(dstf) = g
          <5>1. PICK k \in Nat : k = Count(dstf)
            BY <1>2
          <5>2. c + k = c + g
            BY <3>4, <5>1
          <5>3. QED
            BY <5>1, <5>2
        <4>3. ~(Seen(dstf) >= 1 \/ c >= 1)
          BY <1>6, <4>1, <4>2
        <4>4. QED
          BY <1>2, <1>6, <4>3
      <3>6. CASE KindOf(job) = "copy"
        <4>1. PICK i \in 1..NJobs : i < job /\ KindOf(i) = "copy" /\ MarkerPlace(i) = x
          BY <2>2 DEF OldMarker
        <4>2. x = 0 \/ Wanted(job) <= x
          BY <1>1, <3>6, <4>1 DEF MarkersAhead
        <4>3. Wanted(job) = SrcWords
          BY <1>1, <3>6, JobWords
        <4>4. QED
          BY <3>2, <3>3, <3>6, <4>2, <4>3
      <3>7. QED
        BY <1>1, <3>5, <3>6
    <2>3. QED
      BY <1>4, <1>9, <2>1, <2>2 DEF Stale
  <1>10. QED
    BY <1>3, <1>5, <1>9 DEF Shown

LEMMA FillStep ==
  ASSUME ChannelInv, phase \notin {"off", "tr", "reset"}, NEW c \in Nat, NEW n \in Nat, Flow(c, n),
         NEW answer, Clock(answer), NEW g \in Nat, NEW e \in Nat, NEW m \in Nat,
         Moved(answer, c, n, g, e, m), FillInv(c)
  PROVE  FillInv(c + g)'
  <1>1. job \in 1..NJobs /\ Ring(dstf) /\ ~Resets /\ Ring(dstf')
    BY JobOn, DstSideClock DEF ChannelInv, RingsInv, Resets
  <1> DEFINE k == Count(dstf)
             q == Count(dstf')
  <1>2. /\ Seen(dstf) \in Nat /\ k \in Nat /\ Seen(dstf) <= k
        /\ Taken(dstf) <= k + 2 /\ Gap(dstf.rptr, dstf.wsync) <= k /\ Taken(dstf) \in Nat
        /\ Seen(dstf') \in Nat /\ q \in Nat
    BY <1>1, RingCounts
  <1>3. /\ D!full_out <=> Taken(dstf) = Depth - 1
        /\ D!empty_out <=> Seen(dstf) = 0
    BY <1>1, DstFlags
  <1>4. /\ g = (IF Gets(answer) THEN 1 ELSE 0) /\ e = (IF Puts THEN 1 ELSE 0)
        /\ (c + g) + q = (c + k) + e
    BY DEF Moved
  <1>5. q + g = k + e /\ (Gets(answer) => Seen(dstf) >= 1)
    <2>1. q + g = k + e
      BY <1>2, <1>4
    <2>2. QED
      BY <1>2, <1>3, <2>1 DEF Gets
  <1>6. ~Gets(answer) => Seen(dstf') <= k
    <2>1. ~Gets(answer) => Seen(dstf') = Gap(dstf.rptr, dstf.wsync)
      BY <1>1, DstClock DEF Seen
    <2>2. QED
      BY <1>2, <2>1
  <1>7. KindOf(job)' = KindOf(job)
    BY SameJob
  <1> HIDE DEF k, q
  <1>8. ASSUME KindOf(job) = "fill"
        PROVE  /\ mod' \in {"IDLE", "RUN", "WAIT"}
               /\ mod' = "IDLE" => q = 0
               /\ mod' = "WAIT" => q >= 4
               /\ Seen(dstf') >= 1 \/ c + g >= 1 => q >= 2
    <2>1. /\ mod \in {"IDLE", "RUN", "WAIT"}
          /\ mod = "IDLE" => k = 0
          /\ mod = "WAIT" => k >= 4
          /\ Seen(dstf) >= 1 \/ c >= 1 => k >= 2
      BY <1>8 DEF FillInv, k
    <2>2. mod' = M!FillClock(mod, ModPins) /\ ModPins.full = D!full_out
      BY <1>1, <1>8 DEF Clock, ModSide, M!ModClock, ModPins
    <2>3. D!full_out => k >= 5
      BY <1>2, <1>3, DepthNat
    <2>4. CASE mod = "IDLE"
      <3>1. mod' \in {"IDLE", "RUN"}
        BY <2>2, <2>4 DEF M!FillClock
      <3>2. ~Puts /\ k = 0 /\ c = 0
        BY <2>1, <2>4 DEF Puts
      <3>3. ~Gets(answer) /\ g = 0 /\ e = 0 /\ q = 0
        BY <1>2, <1>4, <1>5, <3>2
      <3>4. ~(Seen(dstf') >= 1)
        BY <1>2, <1>6, <3>2, <3>3
      <3>5. QED
        BY <3>1, <3>2, <3>3, <3>4
    <2>5. CASE mod = "RUN" /\ D!full_out
      <3>1. mod' = "WAIT"
        BY <2>2, <2>5 DEF M!FillClock
      <3>2. q >= 4
        BY <1>2, <1>4, <1>5, <2>3, <2>5
      <3>3. QED
        BY <1>2, <3>1, <3>2
    <2>6. CASE mod = "RUN" /\ ~D!full_out
      <3>1. mod' = "RUN"
        BY <2>2, <2>6 DEF M!FillClock
      <3>2. e = 1
        BY <1>4, <2>6 DEF Puts
      <3>3. Seen(dstf') >= 1 \/ c + g >= 1 => q >= 2
        <4>1. CASE Gets(answer)
          BY <1>2, <1>4, <1>5, <2>1, <3>2, <4>1
        <4>2. CASE ~Gets(answer)
          <5>1. g = 0 /\ q = k + 1
            BY <1>2, <1>4, <1>5, <3>2, <4>2
          <5>2. QED
            BY <1>2, <1>6, <2>1, <4>2, <5>1
        <4>3. QED
          BY <4>1, <4>2
      <3>4. QED
        BY <3>1, <3>3
    <2>7. CASE mod = "WAIT"
      <3>1. mod' = (IF D!full_out THEN "WAIT" ELSE "RUN")
        BY <2>2, <2>7 DEF M!FillClock
      <3>2. q >= 3 /\ (D!full_out => q >= 4)
        BY <1>2, <1>4, <1>5, <2>1, <2>3, <2>7
      <3>3. QED
        BY <1>2, <3>1, <3>2
    <2>8. QED
      BY <2>1, <2>4, <2>5, <2>6, <2>7
  <1>9. QED
    BY <1>7, <1>8 DEF FillInv, q

(* What sets sg_io, and what takes the destination walker to its end.       *)
LEMMA DstEnds ==
  ASSUME NEW k \in SgType, NEW answer, phase # "tr"
  PROVE  LET p == Pins("dst", answer)
             x == SgClock("dst", k, p)
         IN  /\ x.state \in {"CMD", "D_REQ", "B_REQ", "B_WAIT", "NEXT"} /\ x.io =>
                   \/ Moves(k, p)
                   \/ k.state \in {"CMD", "D_REQ", "B_REQ", "B_WAIT", "NEXT"} /\ k.io
             /\ x.state = "END" => \/ k.state = "END"
                                   \/ k.state = "B_WAIT" /\ End("dst") /\ k.io
                                   \/ k.state = "NEXT" /\ k.last
             /\ k.state = "END" => x.state = "END"
  <1> DEFINE p == Pins("dst", answer)
             x == SgClock("dst", k, p)
  <1>1. p.done = FALSE /\ p.ack \in BOOLEAN /\ p.use = TRUE /\ p.end = End("dst")
    BY DEF Pins, Uses
  <1>2. DOMAIN k = {"state", "cnt", "io", "last", "len", "addr", "next", "adr"} /\ k.state \in SgStates
        /\ k.io \in BOOLEAN
    BY DEF SgType
  <1> SUFFICES /\ x.state \in {"CMD", "D_REQ", "B_REQ", "B_WAIT", "NEXT"} /\ x.io =>
                     \/ Moves(k, p)
                     \/ k.state \in {"CMD", "D_REQ", "B_REQ", "B_WAIT", "NEXT"} /\ k.io
               /\ x.state = "END" => \/ k.state = "END"
                                     \/ k.state = "B_WAIT" /\ End("dst") /\ k.io
                                     \/ k.state = "NEXT" /\ k.last
               /\ k.state = "END" => x.state = "END"
    OBVIOUS
  <1> HIDE DEF p
  <1>3. CASE k.state = "IDLE"
    <2>1. x = Idle(k, p)
      BY <1>1, <1>3 DEF SgClock
    <2>2. x.state \in {"IDLE", "CMD"} /\ ~x.io
      BY <1>2, <2>1 DEF Idle
    <2>3. QED
      BY <1>3, <2>2
  <1>4. CASE k.state = "CMD"
    <2>1. x = Cmd("dst", k, p)
      BY <1>1, <1>4 DEF SgClock
    <2>2. x.state \in {"CMD", "NEXT"} /\ x.io = k.io
      BY <1>1, <1>2, <1>4, <2>1 DEF Cmd
    <2>3. QED
      BY <1>4, <2>2
  <1>5. CASE k.state = "D_REQ"
    <2>1. x = DReq(k, p)
      BY <1>1, <1>5 DEF SgClock
    <2>2. x.state \in {"D_REQ", "B_WAIT", "PANIC"} /\ x.io = k.io
      BY <1>2, <1>5, <2>1 DEF DReq
    <2>3. QED
      BY <1>5, <2>2
  <1>6. CASE k.state = "B_REQ"
    <2>1. x = BReq(k, p)
      BY <1>1, <1>6 DEF SgClock
    <2>2. x.state \in {"B_REQ", "B_WAIT", "NEXT", "PANIC"}
      BY <1>2, <1>6, <2>1 DEF BReq
    <2>3. ~p.ack => x.io = k.io
      BY <1>2, <2>1 DEF BReq
    <2>4. p.ack => Moves(k, p)
      BY <1>6 DEF Moves
    <2>5. QED
      BY <1>6, <2>2, <2>3, <2>4
  <1>7. CASE k.state = "B_WAIT"
    <2>1. x = BWait(k, p)
      BY <1>1, <1>7 DEF SgClock
    <2>2. x.state \in {"B_REQ", "B_WAIT", "END"} /\ (x.state = "END" => p.end /\ k.io)
      BY <1>2, <1>7, <2>1 DEF BWait
    <2>3. x.io => k.io
      BY <1>2, <2>1 DEF BWait
    <2>4. QED
      BY <1>1, <1>7, <2>2, <2>3
  <1>8. CASE k.state = "NEXT"
    <2>1. x = NextBuffer(k)
      BY <1>1, <1>8 DEF SgClock
    <2>2. x.state \in {"END", "D_REQ"} /\ (x.state = "END" => k.last) /\ x.io = k.io
      BY <1>2, <2>1 DEF NextBuffer
    <2>3. QED
      BY <1>8, <2>2
  <1>9. CASE k.state \in {"END", "PANIC"}
    <2>1. x = k
      BY <1>1, <1>9 DEF SgClock
    <2>2. QED
      BY <1>9, <2>1
  <1>10. QED
    BY <1>2, <1>3, <1>4, <1>5, <1>6, <1>7, <1>8, <1>9 DEF SgStates

LEMMA EndedStep ==
  ASSUME ChannelInv, phase \notin {"off", "tr", "reset"}, NEW c \in Nat, NEW n \in Nat, Flow(c, n),
         NEW answer, Clock(answer), NEW g \in Nat, NEW e \in Nat, NEW m \in Nat,
         Moved(answer, c, n, g, e, m), Shown(c), Moving(n), Ended(n), Roomy
  PROVE  Moving(m)' /\ Ended(m)'
  <1> DEFINE k == walk["dst"]
             p == Pins("dst", answer)
             x == SgClock("dst", k, p)
             l == ListOf("dst")
  <1>1. /\ "dst" \in Walkers /\ PhaseInv /\ k \in SgType /\ job \in 1..NJobs
        /\ KindOf(job) \in {"copy", "fill"}
    BY JobOn, KindOfJob DEF ChannelInv, Walkers, PhaseInv
  <1>2. walk'["dst"] = x /\ job' = job /\ Wanted(job)' = Wanted(job) /\ phase' = NextPhase
    <2>1. job' = job
      BY SameJob
    <2>2. QED
      BY <1>1, <2>1 DEF Clock, WalkersClock, Wanted, KindOf
  <1>3. /\ m = n + (IF Moves(k, p) THEN 1 ELSE 0) /\ m >= n
        /\ Wanted(job) \in Nat /\ Wanted(job) <= Total(l) /\ IsList(l)
        /\ KindOf(job) = "copy" => Wanted(job) = SrcWords
    BY <1>1, JobWords DEF Moved
  <1>4. /\ x.state \in {"CMD", "D_REQ", "B_REQ", "B_WAIT", "NEXT"} /\ x.io =>
               \/ Moves(k, p)
               \/ k.state \in {"CMD", "D_REQ", "B_REQ", "B_WAIT", "NEXT"} /\ k.io
        /\ x.state = "END" => \/ k.state = "END"
                              \/ k.state = "B_WAIT" /\ End("dst") /\ k.io
                              \/ k.state = "NEXT" /\ k.last
        /\ k.state = "END" => x.state = "END"
    BY <1>1, DstEnds
  <1>5. x.state \in {"CMD", "D_REQ", "B_REQ", "B_WAIT", "NEXT"} /\ x.io => m >= 1
    BY <1>3, <1>4 DEF Moving
  <1>6. x.state = "END" => m >= Wanted(job)
    <2>1. CASE k.state = "END"
      <3>1. n >= Wanted(job)
        BY <2>1 DEF Ended
      <3>2. QED
        BY <1>3, <3>1
    <2>2. CASE k.state = "B_WAIT" /\ End("dst") /\ k.io
      <3>1. n >= 1 /\ dstq = Marker
        BY <2>2 DEF Moving, End
      <3>2. n = c \/ WroteMarker(c, n)
        BY <2>2 DEF Flow, DstFlow
      <3>3. CASE n = c
        <4>1. KindOf(job) = "copy" /\ SrcWords <= c
          BY <3>1, <3>3 DEF Shown
        <4>2. QED
          BY <1>3, <3>3, <4>1
      <3>4. CASE WroteMarker(c, n)
        <4>1. KindOf(job) = "copy" /\ n = SrcWords + 1
          BY <3>4 DEF WroteMarker
        <4>2. QED
          BY <1>3, <4>1
      <3>5. QED
        BY <3>2, <3>3, <3>4
    <2>3. CASE k.state = "NEXT" /\ k.last
      <3>1. Walked(k, l, n)
        BY DEF Flow, DstFlow
      <3>2. PICK i \in 0..Len(l) : BehindBuffer(k, l, i) /\ n = Before(l, i + 1)
        BY <2>3, <3>1 DEF Walked
      <3>3. n = Total(l)
        BY <2>3, <3>2 DEF BehindBuffer, Total
      <3>4. QED
        BY <1>3, <3>3
    <2>4. QED
      BY <1>4, <2>1, <2>2, <2>3
  <1>7. phase' \notin {"tr", "reset"} \/ phase = "done"
    BY <1>2 DEF NextPhase
  <1>8. phase' # "reset"
    BY <1>2 DEF NextPhase
  <1>9. phase' \in {"done", "tr"} => k.state = "END"
    BY <1>2 DEF NextPhase, Ended
  <1> HIDE DEF k, x, l
  <1>10. /\ walk'["dst"].state \in {"CMD", "D_REQ", "B_REQ", "B_WAIT", "NEXT"} /\ walk'["dst"].io => m >= 1
         /\ walk'["dst"].state = "END" \/ phase' = "reset" => m >= Wanted(job)'
         /\ phase' \in {"done", "tr"} => walk'["dst"].state = "END"
    BY <1>2, <1>4, <1>5, <1>6, <1>8, <1>9
  <1>11. QED
    BY <1>8, <1>10 DEF Moving, Ended

WholeInv == RamsInv /\ (phase # "off" => \E c, n \in Nat : Flow(c, n) /\ Whole(c, n))

LEMMA WholeStep ==
  ASSUME Roomy, MarkersAhead, ChannelInv, RamsInv, phase \notin {"off", "tr", "reset"},
         NEW c \in Nat, NEW n \in Nat, Flow(c, n), Whole(c, n), NEW answer, Clock(answer)
  PROVE  \E d, m \in Nat : /\ Flow(d, m)' /\ Whole(d, m)'
                           /\ m = n + (IF Moves(walk["dst"], Pins("dst", answer)) THEN 1 ELSE 0)
  <1>1. PICK g, e, m \in Nat : Moved(answer, c, n, g, e, m) /\ c + g \in Nat /\ Flow(c + g, m)'
    BY FlowStep
  <1>2. Laps(dstf, c) /\ Stale(c) /\ Shown(c) /\ FillInv(c) /\ Moving(n) /\ Ended(n)
    BY DEF Whole
  <1>3. Stale(c + g)'
    BY <1>1, <1>2, StaleStep
  <1>4. Shown(c + g)'
    BY <1>1, <1>2, ShownStep
  <1>5. FillInv(c + g)'
    BY <1>1, <1>2, FillStep
  <1>6. Moving(m)' /\ Ended(m)'
    BY <1>1, <1>2, EndedStep
  <1>7. Laps(dstf', c + g)
    <2>1. Ring(dstf) /\ ~Resets
      BY DEF ChannelInv, RingsInv, Resets
    <2>2. dstf'.rptr = IF Gets(answer) THEN Up(dstf.rptr) ELSE dstf.rptr
      BY <2>1, DstClock
    <2>3. Gets(answer) \in BOOLEAN /\ g = (IF Gets(answer) THEN 1 ELSE 0)
      BY <1>1 DEF Gets, Moved
    <2>4. QED
      BY <1>2, <2>1, <2>2, <2>3, LapsStep
  <1>8. Laps(dstf, c + g)'
    BY <1>7 DEF Laps
  <1>9. Whole(c + g, m)'
    BY <1>3, <1>4, <1>5, <1>6, <1>8 DEF Whole
  <1>10. m = n + (IF Moves(walk["dst"], Pins("dst", answer)) THEN 1 ELSE 0)
    BY <1>1 DEF Moved
  <1>11. QED
    BY <1>1, <1>9, <1>10

(* In front of the first word: the FIFO is empty, only old markers in it.   *)
LEMMA WholeIdle ==
  ASSUME NEW n \in Nat, dstf = D!Cleared, walk["dst"].state = "IDLE", mod = "IDLE",
         \A x \in Ptrs : dstram[x] = Marker => OldMarker(x),
         phase \notin {"done", "tr"}, phase = "reset" => n >= Wanted(job)
  PROVE  Whole(0, n)
  <1>1. dstf = [wptr |-> 0, rptr |-> 0, rsync |-> 0, rview |-> 0, wsync |-> 0, wview |-> 0]
    BY DEF D!Cleared
  <1>2. Count(dstf) = 0 /\ Seen(dstf) = 0
    BY <1>1, DepthNat DEF Count, Seen, Gap
  <1>3. Laps(dstf, 0)
    <2>1. 0 = Depth * 0 + dstf.rptr
      BY <1>1, DepthNat
    <2>2. QED
      BY <2>1 DEF Laps
  <1>4. Stale(0)
    <2>1. \A x \in Ptrs : 0 + Count(dstf) <= x
      BY <1>2, DepthNat DEF Ptrs
    <2>2. QED
      BY <2>1 DEF Stale
  <1>5. FillInv(0)
    BY <1>2 DEF FillInv
  <1>6. Shown(0) /\ Moving(n) /\ Ended(n)
    BY DEF Shown, Moving, Ended
  <1>7. QED
    BY <1>3, <1>4, <1>5, <1>6 DEF Whole

IdleWhole ==
    \A n \in Nat :
        /\ dstf = D!Cleared /\ walk["dst"].state = "IDLE" /\ mod = "IDLE"
        /\ \A x \in Ptrs : dstram[x] = Marker => OldMarker(x)
        /\ phase \notin {"done", "tr"} /\ (phase = "reset" => n >= Wanted(job))
        => Whole(0, n)

LEMMA WholeIdleNext == IdleWhole'
  <1>1. IdleWhole
    BY WholeIdle DEF IdleWhole
  <1>2. QED
    BY <1>1, PTL

(* TR0 keeps the marker of the job as an old one.                           *)
LEMMA TrStep ==
  ASSUME ChannelInv, RamsInv, phase = "tr", NEW c \in Nat, NEW n \in Nat, Flow(c, n), Whole(c, n),
         NEW answer, Clock(answer)
  PROVE  \A x \in Ptrs : dstram'[x] = Marker => OldMarker(x)'
  <1>1. job \in 1..NJobs /\ Ring(dstf) /\ dstf.wptr \in Ptrs /\ NJobs \in Nat
    BY JobOn, ListsAssumption DEF ChannelInv, RingsInv, Ring, NJobs
  <1>2. dstram' = IF Puts THEN [dstram EXCEPT ![dstf.wptr] = DstIn] ELSE dstram
    BY DstClock
  <1>3. job' = job /\ phase' = "reset"
    BY DEF Clock, NextPhase
  <1>4. ASSUME NEW x \in Ptrs, NEW i \in 1..NJobs, i <= job, KindOf(i) = "copy", MarkerPlace(i) = x
        PROVE  OldMarker(x)'
    BY <1>3, <1>4 DEF OldMarker, KindOf, MarkerPlace
  <1>5. ASSUME NEW x \in Ptrs, dstram'[x] = Marker PROVE OldMarker(x)'
    <2>1. CASE Puts /\ x = dstf.wptr
      <3>1. DstIn = Marker /\ mod = "RUN"
        BY <1>1, <1>2, <1>5, <2>1 DEF RamsInv, Puts
      <3>2. KindOf(job) = "copy" /\ MarkerPlace(job) = x
        BY <2>1, <3>1, MarkerPut DEF Whole
      <3>3. QED
        BY <1>1, <1>4, <3>2
    <2>2. CASE ~(Puts /\ x = dstf.wptr)
      <3>1. dstram[x] = Marker
        BY <1>2, <1>5, <2>2 DEF RamsInv
      <3>2. (KindOf(job) = "copy" /\ MarkerPlace(job) = x) \/ OldMarker(x)
        BY <3>1 DEF Whole, Stale
      <3>3. CASE KindOf(job) = "copy" /\ MarkerPlace(job) = x
        BY <1>1, <1>4, <3>3
      <3>4. CASE OldMarker(x)
        <4>1. PICK i \in 1..NJobs : i < job /\ KindOf(i) = "copy" /\ MarkerPlace(i) = x
          BY <3>4 DEF OldMarker
        <4>2. i <= job
          BY <1>1, <4>1
        <4>3. QED
          BY <1>4, <4>1, <4>2
      <3>5. QED
        BY <3>2, <3>3, <3>4
    <2>3. QED
      BY <2>1, <2>2
  <1>6. QED
    BY <1>5

LEMMA WholeReset ==
  ASSUME ChannelInv, WholeInv, phase \in {"tr", "reset"}, NEW answer, Clock(answer), phase' # "off"
  PROVE  \E n \in Nat : Flow(0, n)' /\ Whole(0, n)'
  <1>1. /\ PhaseInv /\ RingsInv /\ RamsInv /\ RamsInv' /\ PhaseInv'
    BY RamsStep, PhaseStep DEF ChannelInv, WholeInv
  <1>2. /\ srcf' = S!Cleared /\ dstf' = D!Cleared /\ mod' = "IDLE"
        /\ \A w \in Walkers : walk'[w].state = "IDLE"
    BY <1>1, ResetClock
  <1>3. job' \in 1..NJobs /\ job \in 1..NJobs /\ NJobs \in Nat
    <2>1. NJobs \in Nat
      BY ListsAssumption DEF NJobs
    <2>2. QED
      BY <1>1, <2>1 DEF PhaseInv
  <1>4. /\ S!Cleared' = S!Cleared /\ D!Cleared' = D!Cleared /\ NJobs' = NJobs /\ Walkers' = Walkers
        /\ Ptrs' = Ptrs /\ Marker' = Marker
    BY DEF S!Cleared, D!Cleared
  <1>5. PICK c \in Nat, n \in Nat : Flow(c, n) /\ Whole(c, n)
    BY DEF WholeInv
  <1>6. \E m \in Nat : /\ Written(m)' /\ (phase' # "reset" => m = 0)
                       /\ (phase' = "reset" => m >= Wanted(job)')
                       /\ \A x \in Ptrs : dstram'[x] = Marker => OldMarker(x)'
    <2>1. CASE phase = "tr"
      <3>1. PICK m \in Nat : m = n + (IF Moves(walk["dst"], Pins("dst", answer)) THEN 1 ELSE 0)
        OBVIOUS
      <3>2. Written(m)'
        BY <1>5, <2>1, <3>1, WrittenStep
      <3>3. phase' = "reset" /\ job' = job
        BY <2>1 DEF Clock, NextPhase
      <3>4. n >= Wanted(job) /\ Wanted(job) \in Nat /\ Wanted(job)' = Wanted(job)
        BY <1>3, <1>5, <2>1, <3>3, JobWords DEF Whole, Ended, Wanted, KindOf
      <3>5. m >= Wanted(job)'
        BY <3>1, <3>4
      <3>6. \A x \in Ptrs : dstram'[x] = Marker => OldMarker(x)'
        BY <1>1, <1>5, <2>1, TrStep
      <3>7. QED
        BY <3>2, <3>3, <3>5, <3>6
    <2>2. CASE phase = "reset"
      <3>1. mem' = NoMem /\ job' = job + 1 /\ phase' # "reset"
        BY <2>2 DEF Clock, NextPhase
      <3>2. Written(0)'
        BY <1>3, <3>1, NothingWrittenNext DEF NoneWritten
      <3>3. mod = "IDLE" /\ dstf = D!Cleared /\ c = 0
        <4>1. walk["dst"].state = "IDLE"
          BY <1>1, <2>2 DEF PhaseInv, Walkers
        <4>2. QED
          BY <1>5, <2>2, <4>1 DEF Whole, Ended, Flow, DstFlow
      <3>4. dstram' = dstram
        BY <3>3, DstClock DEF Puts
      <3>5. Count(dstf) = 0
        BY <3>3, DepthNat DEF Count, Gap, D!Cleared
      <3>6. ASSUME NEW x \in Ptrs, dstram[x] = Marker PROVE OldMarker(x)'
        <4>1. SrcWords \in Nat
          BY <1>3, JobWords
        <4>2. c + Count(dstf) # SrcWords + 1
          BY <3>3, <3>5, <4>1
        <4>3. OldMarker(x)
          BY <1>5, <3>6, <4>2 DEF Whole, Stale
        <4>4. PICK i \in 1..NJobs : i <= job /\ KindOf(i) = "copy" /\ MarkerPlace(i) = x
          BY <2>2, <4>3 DEF OldMarker
        <4>5. i < job'
          BY <1>3, <3>1, <4>4
        <4>6. QED
          BY <3>1, <4>4, <4>5 DEF OldMarker, KindOf, MarkerPlace
      <3>7. QED
        BY <3>1, <3>2, <3>4, <3>6
    <2>3. QED
      BY <2>1, <2>2
  <1>7. PICK m \in Nat : /\ Written(m)' /\ (phase' # "reset" => m = 0)
                         /\ (phase' = "reset" => m >= Wanted(job)')
                         /\ \A x \in Ptrs : dstram'[x] = Marker => OldMarker(x)'
    BY <1>6
  <1>8. Flow(0, m)'
    BY <1>1, <1>2, <1>3, <1>4, <1>7, FlowIdleNext DEF IdleFlow
  <1>9. phase' \notin {"done", "tr"}
    BY DEF Clock, NextPhase
  <1>10. walk'["dst"].state = "IDLE"
    BY <1>2 DEF Walkers
  <1>11. Whole(0, m)'
    BY <1>2, <1>4, <1>7, <1>9, <1>10, WholeIdleNext DEF IdleWhole
  <1>12. QED
    BY <1>8, <1>11

LEMMA WholeInit == Init => WholeInv
  <1> SUFFICES ASSUME Init PROVE WholeInv
    OBVIOUS
  <1>1. RamsInv
    BY DataInit DEF DataInv
  <1>2. job \in 1..NJobs
    <2>1. NJobs \in Nat /\ NJobs >= 1
      BY ListsAssumption DEF NJobs
    <2>2. QED
      BY <2>1 DEF Init
  <1>3. Written(0)
    BY <1>2, NothingWritten DEF Init
  <1>4. /\ \A w \in Walkers : walk[w].state = "IDLE"
        /\ srcf = S!Cleared /\ dstf = D!Cleared
    BY DEF Init, SgReset
  <1>5. Flow(0, 0)
    BY <1>1, <1>2, <1>3, <1>4, FlowIdle
  <1>6. \A x \in Ptrs : dstram[x] # Marker
    BY DEF Init, Blank, Marker, D!Ptr, Ptrs
  <1>7. Whole(0, 0)
    BY <1>4, <1>6, WholeIdle DEF Init, Walkers
  <1>8. QED
    BY <1>1, <1>5, <1>7 DEF WholeInv

LEMMA WholeInvStep == Roomy /\ MarkersAhead /\ ChannelInv /\ WholeInv /\ [Next]_vars => WholeInv'
  <1>1. ASSUME Roomy, MarkersAhead, ChannelInv, WholeInv, NEW answer, Clock(answer) PROVE WholeInv'
    <2>1. RamsInv'
      BY <1>1, RamsStep DEF ChannelInv, WholeInv
    <2>2. ASSUME phase' # "off" PROVE \E c, n \in Nat : Flow(c, n)' /\ Whole(c, n)'
      <3>1. CASE phase \in {"tr", "reset"}
        <4>1. \E n \in Nat : Flow(0, n)' /\ Whole(0, n)'
          BY <1>1, <2>2, <3>1, WholeReset
        <4>2. QED
          BY <4>1
      <3>2. CASE phase \notin {"tr", "reset"}
        <4>1. phase \notin {"off", "tr", "reset"}
          BY <1>1, <3>2 DEF Clock
        <4>2. PICK c \in Nat, n \in Nat : Flow(c, n) /\ Whole(c, n)
          BY <1>1, <4>1 DEF WholeInv
        <4>3. RamsInv
          BY <1>1 DEF WholeInv
        <4>4. \E d, m \in Nat : /\ Flow(d, m)' /\ Whole(d, m)'
                                /\ m = n + (IF Moves(walk["dst"], Pins("dst", answer)) THEN 1 ELSE 0)
          BY <1>1, <4>1, <4>2, <4>3, WholeStep
        <4>5. QED
          BY <4>4
      <3>3. QED
        BY <3>1, <3>2
    <2>3. QED
      BY <2>1, <2>2 DEF WholeInv
  <1>2. ASSUME WholeInv, UNCHANGED vars PROVE WholeInv'
    <2>1. RamsInv'
      BY <1>2 DEF WholeInv, RamsInv, vars
    <2>2. /\ Items' = Items /\ SrcWords' = SrcWords /\ KindOf(job)' = KindOf(job)
          /\ \A w : ListOf(w)' = ListOf(w)
      BY <1>2 DEF vars, Items, SrcWords, KindOf, ListOf
    <2>3. ASSUME NEW c \in Nat, NEW n \in Nat, Flow(c, n), Whole(c, n)
          PROVE  Flow(c, n)' /\ Whole(c, n)'
      <3>1. SrcFlow(c + Count(dstf)) => SrcFlow(c + Count(dstf))'
        BY <1>2, <2>2 DEF vars, SrcFlow
      <3>2. DstFlow(c, n) => DstFlow(c, n)'
        BY <1>2, <2>2 DEF vars, DstFlow, WroteMarker
      <3>3. Written(n) => Written(n)'
        BY <1>2, <2>2 DEF vars, Written
      <3>4. Flow(c, n)'
        BY <2>2, <2>3, <3>1, <3>2, <3>3 DEF Flow
      <3>5. Laps(dstf, c)' /\ Shown(c)' /\ FillInv(c)' /\ Moving(n)'
        BY <1>2, <2>2, <2>3 DEF vars, Whole, Laps, Shown, FillInv, Moving
      <3>6. Ended(n)'
        BY <1>2, <2>2, <2>3 DEF vars, Whole, Ended, Wanted, D!Cleared
      <3>7. Stale(c)'
        BY <1>2, <2>2, <2>3 DEF vars, Whole, Stale, OldMarker, MarkerPlace, KindOf
      <3>8. QED
        BY <3>4, <3>5, <3>6, <3>7 DEF Whole
    <2>4. QED
      BY <1>2, <2>1, <2>3 DEF WholeInv, vars
  <1>3. QED
    BY <1>1, <1>2 DEF Next, AckClock, WaitClock, ErrClock

(***************************************************************************)
(* What is delivered.  Every word of a list has a place.                   *)
(***************************************************************************)
LEMMA BufferOf ==
  ASSUME NEW l, IsList(l), NEW i \in 1..Total(l)
  PROVE  \E k \in 1..Len(l) : Before(l, k) < i /\ i <= Before(l, k + 1)
  <1> SUFFICES ASSUME \A k \in 1..Len(l) : ~(Before(l, k) < i /\ i <= Before(l, k + 1)) PROVE FALSE
    OBVIOUS
  <1> DEFINE A == {k \in Nat : k <= Len(l) => Before(l, k + 1) < i}
  <1>1. Len(l) \in Nat /\ Total(l) \in Nat /\ i \in Nat /\ i >= 1 /\ i <= Total(l)
    BY TotalNat DEF IsList
  <1>2. 0 \in A
    <2>1. Before(l, 1) = 0 /\ 0 + 1 = 1
      BY BeforeNext
    <2>2. QED
      BY <1>1, <2>1
  <1>3. \A k \in A : k + 1 \in A
    <2>a. TAKE k \in A
    <2>b. SUFFICES ASSUME k + 1 <= Len(l) PROVE Before(l, (k + 1) + 1) < i
      <3>1. k + 1 \in Nat
        OBVIOUS
      <3>2. QED
        BY <3>1
    <2>1. k \in A
      OBVIOUS
    <2>2. k \in Nat /\ k + 1 \in 1..Len(l) /\ k <= Len(l)
      BY <1>1, <2>1, <2>b
    <2>3. Before(l, k + 1) < i
      BY <2>1, <2>2
    <2>4. ~(i <= Before(l, (k + 1) + 1))
      BY <2>2, <2>3
    <2>5. (k + 1) + 1 \in 1..(Len(l) + 1)
      BY <1>1, <2>2
    <2>6. Before(l, (k + 1) + 1) \in Nat
      BY <2>5, TotalNat
    <2>7. QED
      BY <1>1, <2>4, <2>6
  <1>4. A = Nat
    <2>1. A \in SUBSET Nat
      OBVIOUS
    <2> HIDE DEF A
    <2>2. QED
      BY <1>2, <1>3, <2>1, NatSet
  <1>5. Before(l, Len(l) + 1) < i
    BY <1>1, <1>4
  <1>6. QED
    BY <1>1, <1>5 DEF Total

LEMMA PlaceOf ==
  ASSUME NEW l, IsList(l), Len(l) \in 1..Bufs, NEW i \in 1..Total(l)
  PROVE  /\ Place(l)[i] \in Addrs /\ InBuffer(l, Place(l)[i]) /\ WordAt(l, Place(l)[i]) = i
  <1>1. PICK k \in 1..Len(l) : Before(l, k) < i /\ i <= Before(l, k + 1)
    BY BufferOf
  <1>2. /\ k \in Nat /\ k \in Nat \ {0} /\ k \in 1..Bufs /\ k \in 1..(Len(l) + 1) /\ i \in Nat
        /\ l[k] \in Nat /\ l[k] < Span /\ Span \in Nat /\ BufBase(k) \in Nat
    <2>1. Len(l) \in Nat /\ k \in Nat /\ k \in 1..(Len(l) + 1) /\ k \in 1..Bufs /\ k \in Nat \ {0}
      BY MemoryAssumption DEF IsList
    <2>2. Total(l) \in Nat
      BY TotalNat
    <2>3. QED
      BY <2>1, <2>2, SpanNat DEF IsList
  <1>3. Before(l, k) \in Nat /\ Before(l, k + 1) = Before(l, k) + l[k]
    BY <1>2, TotalNat, BeforeNext
  <1>4. PICK y \in Nat : y = i - Before(l, k) - 1 /\ y < l[k]
    BY <1>1, <1>2, <1>3
  <1>5. PICK a : a = BufBase(k) + y
    OBVIOUS
  <1>6. y \in 0..(Span - 1)
    BY <1>2, <1>4
  <1>7. a \in Addrs
    BY <1>2, <1>5, <1>6, BufferAddrs
  <1>8. a \in Nat /\ Within(l, k, a)
    BY <1>2, <1>4, <1>5 DEF Within
  <1>9. InBuffer(l, a) /\ WordAt(l, a) = Before(l, k) + a - BufBase(k) + 1
    BY <1>8, WordInBuffer
  <1>10. WordAt(l, a) = i
    BY <1>2, <1>3, <1>4, <1>5, <1>9
  <1>11. \E b \in Addrs : InBuffer(l, b) /\ WordAt(l, b) = i
    BY <1>7, <1>9, <1>10
  <1>12. Place(l)[i] = CHOOSE b \in Addrs : InBuffer(l, b) /\ WordAt(l, b) = i
    BY DEF Place
  <1>13. QED
    BY <1>11, <1>12

LEMMA DeliveredIs ==
  ASSUME Roomy, job \in 1..NJobs, NEW n \in Nat, Written(n)
  PROVE  Delivered = (IF n <= Wanted(job) THEN n ELSE Wanted(job))
  <1> DEFINE l == ListOf("dst")
             W == Wanted(job)
             d0 == IF n <= W THEN n ELSE W
  <1>1. /\ W \in Nat /\ W <= Total(l) /\ Total(l) \in Nat /\ IsList(l) /\ l = Lists[job].dst
        /\ W = (IF KindOf(job) = "fill" THEN Total(l) ELSE SrcWords)
        /\ KindOf(job) \in {"copy", "fill"} /\ Len(l) \in 1..Bufs
    BY JobWords, KindOfJob, JobIsList DEF Walkers
  <1>2. ASSUME NEW i \in 1..W PROVE mem[DstPlace[job][i]] = WantedWord(job, i) <=> i <= n
    <2>1. i \in Nat /\ i \in 1..Total(l)
      BY <1>1
    <2>2. DstPlace[job][i] = Place(l)[i]
      BY <1>1 DEF DstPlace
    <2>3. PICK a : /\ a = DstPlace[job][i] /\ a \in Addrs /\ InBuffer(l, a) /\ WordAt(l, a) = i
      BY <1>1, <2>1, <2>2, PlaceOf
    <2>4. mem[a] = IF i <= n THEN Items[i] ELSE Blank
      BY <2>3 DEF Written
    <2>5. Items[i] = IF KindOf(job) = "fill" THEN FillWord
                     ELSE IF i <= SrcWords THEN WordOf(job, i) ELSE Marker
      BY <2>1 DEF Items
    <2>6. Items[i] = WantedWord(job, i)
      BY <1>1, <2>5 DEF WantedWord
    <2>7. WantedWord(job, i) # Blank
      <3>1. WordOf(job, i) # Blank
        <4>1. PICK s, b, j \in Nat : s = Span /\ b = Bufs + 1 /\ j = job
          BY MemoryAssumption
        <4>2. s * b \in Nat
          BY <4>1
        <4>3. s * b * j \in Nat
          BY <4>1, <4>2
        <4>4. WordOf(job, i) = s * b * j + i /\ i >= 1
          BY <4>1 DEF WordOf
        <4>5. QED
          BY <2>1, <4>3, <4>4 DEF Blank
      <3>2. QED
        BY <3>1 DEF WantedWord, FillWord, Blank
    <2>8. QED
      BY <2>3, <2>4, <2>6, <2>7
  <1> HIDE DEF l
  <1>3. \A i \in 1..W : i \in InPlace <=> i <= n
    BY <1>2 DEF InPlace
  <1>4. InPlace \subseteq 1..W
    BY DEF InPlace
  <1>5. d0 \in 0..W /\ 1..d0 \subseteq InPlace /\ (d0 < W => (d0 + 1) \notin InPlace)
    <2>1. d0 \in 0..W
      BY <1>1
    <2>2. \A i \in 1..d0 : i \in 1..W /\ i <= n
      BY <1>1
    <2>3. d0 < W => d0 = n /\ ~(n + 1 <= n)
      BY <1>1
    <2> HIDE DEF d0, W
    <2>4. 1..d0 \subseteq InPlace
      BY <1>3, <2>2
    <2>5. d0 < W => d0 + 1 \in 1..W
      BY <1>1, <2>1
    <2>6. QED
      BY <1>3, <2>1, <2>3, <2>4, <2>5
  <1>6. ASSUME NEW d \in 0..W, 1..d \subseteq InPlace, d < W => (d + 1) \notin InPlace
        PROVE  d = d0
    <2>1. d \in Nat /\ d <= W
      BY <1>1
    <2> HIDE DEF W
    <2>2. d <= n
      <3>1. CASE d = 0
        BY <3>1
      <3>2. CASE d # 0
        <4>1. d \in 1..d /\ d \in 1..W
          BY <1>1, <2>1, <3>2
        <4>2. QED
          BY <1>3, <1>6, <4>1
      <3>3. QED
        BY <3>1, <3>2
    <2>3. d < W => d >= n
      <3>1. SUFFICES ASSUME d < W PROVE d >= n
        OBVIOUS
      <3>2. d + 1 \in 1..W /\ (d + 1) \notin InPlace
        BY <1>1, <1>6, <2>1, <3>1
      <3>3. ~(d + 1 <= n)
        BY <1>3, <3>2
      <3>4. QED
        BY <2>1, <3>3
    <2>4. QED
      BY <1>1, <2>1, <2>2, <2>3
  <1>7. ~(job > NJobs)
    <2>1. NJobs \in Nat
      BY ListsAssumption DEF NJobs
    <2>2. QED
      BY <2>1
  <1> HIDE DEF d0, W
  <1>8. Delivered = CHOOSE d \in 0..W : 1..d \subseteq InPlace /\ (d < W => (d + 1) \notin InPlace)
    BY <1>7 DEF Delivered, W
  <1>9. Delivered = d0
    BY <1>5, <1>6, <1>8
  <1>10. QED
    BY <1>9 DEF d0, W

LEMMA TransferInit == Roomy /\ WholeInv /\ Init => T!Init
  <1> SUFFICES ASSUME Roomy, Init PROVE T!Init
    OBVIOUS
  <1>1. job = 1 /\ job \in 1..NJobs
    <2>1. NJobs \in Nat /\ NJobs >= 1
      BY ListsAssumption DEF NJobs
    <2>2. QED
      BY <2>1 DEF Init
  <1>2. Written(0)
    BY <1>1, NothingWritten DEF Init
  <1>3. Delivered = (IF 0 <= Wanted(job) THEN 0 ELSE Wanted(job)) /\ Wanted(job) \in Nat
    BY <1>1, <1>2, DeliveredIs, JobWords
  <1>4. Delivered = 0
    BY <1>3
  <1>5. QED
    BY <1>1, <1>4 DEF T!Init

(* The same of the state behind a step.                                     *)
DeliveredOf ==
    \A n \in Nat : Roomy /\ job \in 1..NJobs /\ Written(n) =>
        /\ Wanted(job) \in Nat
        /\ Delivered = (IF n <= Wanted(job) THEN n ELSE Wanted(job))

LEMMA DeliveredNext == DeliveredOf'
  <1>1. DeliveredOf
    BY DeliveredIs, JobWords DEF DeliveredOf
  <1>2. QED
    BY <1>1, PTL

LEMMA TransferStep ==
  Roomy /\ MarkersAhead /\ ChannelInv /\ WholeInv /\ WholeInv' /\ [Next]_vars => [T!Next]_T!vars
  <1> USE DEF T!vars
  <1>1. ASSUME Roomy, MarkersAhead, ChannelInv, WholeInv, NEW answer, Clock(answer)
        PROVE  [T!Next]_T!vars
    <2>1. /\ job \in 1..NJobs /\ phase # "off" /\ NJobs \in Nat /\ RamsInv
          /\ Wanted(job) \in Nat /\ Wanted(job) >= 1
      BY <1>1, JobOn, JobWords, ListsAssumption DEF Clock, ChannelInv, NJobs, WholeInv
    <2>2. PICK c \in Nat, n \in Nat : Flow(c, n) /\ Whole(c, n)
      BY <1>1, <2>1 DEF WholeInv
    <2>3. Delivered = (IF n <= Wanted(job) THEN n ELSE Wanted(job))
      BY <1>1, <2>1, <2>2, DeliveredIs DEF Flow
    <2>4. Roomy' /\ NJobs' = NJobs
      BY <1>1 DEF Roomy, NJobs, Wanted, KindOf
    <2>5. CASE phase # "reset"
      <3>1. job' = job /\ Wanted(job)' = Wanted(job)
        BY <1>1, <2>5, SameJob DEF Wanted, KindOf
      <3>2. PICK m \in Nat : m = n + (IF Moves(walk["dst"], Pins("dst", answer)) THEN 1 ELSE 0)
        OBVIOUS
      <3>3. Written(m)'
        BY <1>1, <2>1, <2>2, <2>5, <3>2, WrittenStep
      <3>4. Delivered' = (IF m <= Wanted(job) THEN m ELSE Wanted(job))
        BY <2>1, <2>4, <3>1, <3>3, DeliveredNext DEF DeliveredOf
      <3>5. m = n \/ m = n + 1
        BY <3>2
      <3>6. \/ Delivered' = Delivered
            \/ Delivered < Wanted(job) /\ Delivered' = Delivered + 1
        BY <2>1, <2>3, <3>4, <3>5
      <3>7. job <= NJobs
        BY <2>1
      <3>8. QED
        BY <3>1, <3>6, <3>7 DEF T!Next, T!Deliver
    <2>6. CASE phase = "reset"
      <3>1. n >= Wanted(job)
        BY <2>2, <2>6 DEF Whole, Ended
      <3>2. Delivered = Wanted(job)
        BY <2>1, <2>3, <3>1
      <3>3. job' = job + 1 /\ mem' = NoMem
        BY <1>1, <2>6 DEF Clock
      <3>4. Delivered' = 0
        <4>1. CASE job' > NJobs
          BY <2>4, <4>1 DEF Delivered
        <4>2. CASE ~(job' > NJobs)
          <5>1. job' \in 1..NJobs
            BY <2>1, <3>3, <4>2
          <5>2. Written(0)'
            BY <2>4, <3>3, <5>1, NothingWrittenNext DEF NoneWritten
          <5>3. Delivered' = (IF 0 <= Wanted(job)' THEN 0 ELSE Wanted(job)') /\ Wanted(job)' \in Nat
            BY <2>4, <5>1, <5>2, DeliveredNext DEF DeliveredOf
          <5>4. QED
            BY <5>3
        <4>3. QED
          BY <4>1, <4>2
      <3>5. job <= NJobs
        BY <2>1
      <3>6. QED
        BY <3>2, <3>3, <3>4, <3>5 DEF T!Next, T!Finish
    <2>7. QED
      BY <2>5, <2>6
  <1>2. ASSUME UNCHANGED vars PROVE [T!Next]_T!vars
    BY <1>2 DEF vars, Delivered, InPlace
  <1>3. QED
    BY <1>1, <1>2 DEF Next, AckClock, WaitClock, ErrClock

(* When every destination has room for its source, and no job that copies   *)
(* moves on over the place of an older marker, the channel implements       *)
(* Transfer, for FIFOs of every depth and every such list of jobs: each job *)
(* delivers all its words, in order and one by one, and only then ends.     *)
THEOREM ImplementsTransfer == Roomy /\ MarkersAhead => (Spec => Transfers)
  <1>1. ASSUME Roomy, MarkersAhead PROVE Spec => Transfers
    <2>1. Init => WholeInv /\ T!Init
      BY <1>1, WholeInit, TransferInit
    <2>2. ChannelInv /\ WholeInv /\ [Next]_vars => WholeInv'
      BY <1>1, WholeInvStep
    <2>3. ChannelInv /\ WholeInv /\ WholeInv' /\ [Next]_vars => [T!Next]_T!vars
      BY <1>1, TransferStep
    <2>4. QED
      BY <2>1, <2>2, <2>3, ChannelInvariant, PTL DEF Spec, Transfers, T!Spec
  <1>2. QED
    BY <1>1
=============================================================================
