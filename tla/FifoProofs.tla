------------------------------ MODULE FifoProofs ----------------------------
(***************************************************************************)
(* The flags of the FIFO controller are safe for every depth and whatever  *)
(* the two clocks do.                                                      *)
(***************************************************************************)
EXTENDS FifoClocks, TLAPS

(* Going round the ring once from the writer's view of the read pointer,    *)
(* the pointers and their copies come in a fixed order.                     *)
RingInv ==
    /\ f \in FifoType /\ n \in Nat
    /\ n = Dist(f.rptr, f.wview) + Dist(f.wview, f.wsync) + Dist(f.wsync, f.wptr)
    /\ Dist(f.rview, f.rsync) + Dist(f.rsync, f.rptr) + n <= Depth - 1

LEMMA IncPtr == \A p \in Ptr : Inc(p) \in Ptr
  BY DepthAssumption DEF Ptr, Inc

LEMMA DistRange == \A p, q \in Ptr : Dist(p, q) \in 0..(Depth - 1)
  BY DepthAssumption DEF Ptr, Dist

LEMMA DistInc ==
  ASSUME NEW p \in Ptr, NEW q \in Ptr
  PROVE  /\ Dist(p, q) < Depth - 1 => Dist(p, Inc(q)) = Dist(p, q) + 1
         /\ p # q => Dist(Inc(p), q) = Dist(p, q) - 1
         /\ Inc(q) # p => Dist(p, q) < Depth - 1
         /\ Dist(p, p) = 0
  BY DepthAssumption DEF Ptr, Dist, Inc

(* If the ring distances of three pointers add up to less than a turn, the  *)
(* outer distance is their sum.                                             *)
LEMMA DistSum ==
  ASSUME NEW p \in Ptr, NEW q \in Ptr, NEW r \in Ptr,
         Dist(p, q) + Dist(q, r) <= Depth - 1
  PROVE  Dist(p, r) = Dist(p, q) + Dist(q, r)
  BY DepthAssumption DEF Ptr, Dist

LEMMA RingInit == Init => RingInv
  <1> SUFFICES ASSUME Init PROVE RingInv
    OBVIOUS
  <1>1. 0 \in Ptr
    BY DepthAssumption DEF Ptr
  <1>2. Dist(0, 0) = 0
    BY DEF Dist
  <1>3. f \in FifoType /\ n = 0
    BY <1>1 DEF Init, Cleared, FifoType
  <1>4. QED
    BY <1>2, <1>3, DepthAssumption DEF Init, Cleared, RingInv

LEMMA RingEdge ==
  ASSUME RingInv, NEW wclk \in BOOLEAN, NEW rclk \in BOOLEAN,
         NEW wen \in BOOLEAN, NEW ren \in BOOLEAN, Clocks(wclk, rclk, wen, ren)
  PROVE  RingInv'
  <1> DEFINE w == IF wclk /\ wallow(wen) THEN 1 ELSE 0
             r == IF rclk /\ rallow(ren) THEN 1 ELSE 0
  <1>1. /\ f.wptr \in Ptr /\ f.rptr \in Ptr /\ f.rsync \in Ptr /\ f.rview \in Ptr
        /\ f.wsync \in Ptr /\ f.wview \in Ptr /\ n \in Nat
    BY DEF RingInv, FifoType
  <1>2. f' \in FifoType
    BY <1>1, IncPtr DEF Clocks, Edge, FifoType
  <1>3. /\ f'.wptr = IF w = 1 THEN Inc(f.wptr) ELSE f.wptr
        /\ f'.rptr = IF r = 1 THEN Inc(f.rptr) ELSE f.rptr
        /\ f'.rsync = IF wclk THEN f.rptr ELSE f.rsync
        /\ f'.rview = IF wclk THEN f.rsync ELSE f.rview
        /\ f'.wsync = IF rclk THEN f.wptr ELSE f.wsync
        /\ f'.wview = IF rclk THEN f.wsync ELSE f.wview
        /\ n' = n + w - r
    BY DEF Clocks, Edge
  <1>n1. PICK a \in Nat : a = Dist(f.rptr, f.wview)
    BY <1>1, DistRange
  <1>n2. PICK b \in Nat : b = Dist(f.wview, f.wsync)
    BY <1>1, DistRange
  <1>n3. PICK c \in Nat : c = Dist(f.wsync, f.wptr)
    BY <1>1, DistRange
  <1>n4. PICK d \in Nat : d = Dist(f.rview, f.rsync)
    BY <1>1, DistRange
  <1>n5. PICK e \in Nat : e = Dist(f.rsync, f.rptr)
    BY <1>1, DistRange
  <1> HIDE DEF w, r
  <1>4. w \in {0, 1} /\ r \in {0, 1} /\ n = a + b + c /\ d + e + n <= Depth - 1 /\ Depth >= 4 /\ Depth \in Nat
    BY <1>n1, <1>n2, <1>n3, <1>n4, <1>n5, DepthAssumption DEF w, r, RingInv
  <1>5. ASSUME w = 1 PROVE wclk = TRUE /\ d + e + n < Depth - 1
    <2>1. wclk = TRUE /\ Inc(f.wptr) # f.rview
      BY <1>5 DEF w, wallow, full_out
    <2>2. Dist(f.rptr, f.wsync) = a + b
      BY <1>1, <1>4, <1>n1, <1>n2, DistSum
    <2>3. Dist(f.rptr, f.wptr) = n
      BY <2>2, <1>1, <1>4, <1>n3, DistSum
    <2>4. Dist(f.rview, f.rptr) = d + e
      BY <1>1, <1>4, <1>n4, <1>n5, DistSum
    <2>5. Dist(f.rview, f.wptr) = d + e + n
      BY <2>3, <2>4, <1>1, <1>4, DistSum
    <2>6. QED
      BY <2>1, <2>5, <1>1, DistInc
  <1>6. ASSUME r = 1 PROVE rclk = TRUE /\ a > 0
    <2>1. rclk = TRUE /\ f.rptr # f.wview
      BY <1>6 DEF r, rallow, empty_out
    <2>2. QED
      BY <2>1, <1>1, <1>n1, DepthAssumption DEF Dist, Ptr
  <1>7. n' = Dist(f'.rptr, f'.wview) + Dist(f'.wview, f'.wsync) + Dist(f'.wsync, f'.wptr)
    <2>1. CASE rclk = TRUE
      <3>1. Dist(f.rptr, f.wsync) = a + b
        BY <1>1, <1>4, <1>n1, <1>n2, DistSum
      <3>2. Dist(f'.rptr, f.wsync) = a + b - r
        <4>1. CASE r = 1
          <5>1. f.rptr # f.wsync
            BY <4>1, <1>6, <3>1, <1>1, DistInc
          <5>2. QED
            BY <5>1, <4>1, <3>1, <1>1, <1>3, DistInc
        <4>2. CASE r = 0
          BY <4>2, <3>1, <1>3
        <4>3. QED
          BY <4>1, <4>2, <1>4
      <3>3. Dist(f.wptr, f'.wptr) = w
        <4>1. Dist(f.wptr, f.wptr) = 0
          BY <1>1, DistInc
        <4>2. Dist(f.wptr, Inc(f.wptr)) = 1
          BY <4>1, <1>1, <1>4, DistInc
        <4>3. QED
          BY <4>1, <4>2, <1>3, <1>4
      <3>4. f'.wview = f.wsync /\ f'.wsync = f.wptr
        BY <2>1, <1>3
      <3>5. n' = (a + b - r) + c + w
        BY <1>3, <1>4
      <3>6. QED
        BY <3>2, <3>3, <3>4, <3>5, <1>n3
    <2>2. CASE rclk = FALSE
      <3>1. r = 0 /\ f'.rptr = f.rptr /\ f'.wview = f.wview /\ f'.wsync = f.wsync
        BY <2>2, <1>3, <1>4, <1>6
      <3>2. Dist(f.wsync, f'.wptr) = c + w
        <4>1. CASE w = 1
          <5>1. c < Depth - 1
            BY <1>4, <1>5, <4>1
          <5>2. QED
            BY <5>1, <4>1, <1>1, <1>3, <1>n3, DistInc
        <4>2. CASE w = 0
          BY <4>2, <1>3, <1>n3
        <4>3. QED
          BY <4>1, <4>2, <1>4
      <3>3. n' = a + b + (c + w)
        BY <3>1, <1>3, <1>4
      <3>4. QED
        BY <3>1, <3>2, <3>3, <1>n1, <1>n2
    <2>3. QED
      BY <2>1, <2>2
  <1>8. Dist(f'.rview, f'.rsync) + Dist(f'.rsync, f'.rptr) + n' <= Depth - 1
    <2>1. CASE wclk = TRUE
      <3>1. f'.rview = f.rsync /\ f'.rsync = f.rptr
        BY <2>1, <1>3
      <3>2. Dist(f.rptr, f'.rptr) = r
        <4>1. Dist(f.rptr, f.rptr) = 0
          BY <1>1, DistInc
        <4>2. Dist(f.rptr, Inc(f.rptr)) = 1
          BY <4>1, <1>1, <1>4, DistInc
        <4>3. QED
          BY <4>1, <4>2, <1>3, <1>4
      <3>3. n' = n + w - r /\ n + w <= Depth - 1 - d - e
        <4>1. CASE w = 1
          BY <4>1, <1>1, <1>3, <1>4, <1>5
        <4>2. CASE w = 0
          BY <4>2, <1>1, <1>3, <1>4
        <4>3. QED
          BY <4>1, <4>2, <1>4
      <3>4. e + r + n' <= Depth - 1
        BY <3>3, <1>1, <1>4
      <3>5. QED
        BY <3>1, <3>2, <3>4, <1>n5
    <2>2. CASE wclk = FALSE
      <3>1. w = 0 /\ f'.rview = f.rview /\ f'.rsync = f.rsync
        BY <2>2, <1>3, <1>4, <1>5
      <3>2. Dist(f.rsync, f'.rptr) = e + r
        <4>1. CASE r = 1
          <5>1. e < Depth - 1
            BY <1>4, <1>6, <4>1
          <5>2. QED
            BY <5>1, <4>1, <1>1, <1>3, <1>n5, DistInc
        <4>2. CASE r = 0
          BY <4>2, <1>3, <1>n5
        <4>3. QED
          BY <4>1, <4>2, <1>4
      <3>3. d + (e + r) + n' <= Depth - 1
        BY <3>1, <1>1, <1>3, <1>4
      <3>4. QED
        BY <3>1, <3>2, <3>3, <1>n4
    <2>3. QED
      BY <2>1, <2>2
  <1>9. n' \in Nat
    <2>1. CASE r = 1
      BY <2>1, <1>3, <1>4, <1>6
    <2>2. CASE r = 0
      BY <2>2, <1>3, <1>4
    <2>3. QED
      BY <2>1, <2>2, <1>4
  <1>10. QED
    BY <1>2, <1>7, <1>8, <1>9 DEF RingInv, Dist

LEMMA RingStep == RingInv /\ [Next]_vars => RingInv'
  <1>1. ASSUME RingInv, WriteClock PROVE RingInv'
    BY <1>1, RingEdge DEF WriteClock
  <1>2. ASSUME RingInv, ReadClock PROVE RingInv'
    BY <1>2, RingEdge DEF ReadClock
  <1>3. ASSUME RingInv, BothClocks PROVE RingInv'
    BY <1>3, RingEdge DEF BothClocks
  <1>4. ASSUME RingInv, Reset PROVE RingInv'
    <2>1. 0 \in Ptr /\ Dist(0, 0) = 0
      BY DepthAssumption DEF Ptr, Dist
    <2>2. f' \in FifoType /\ n' = 0
      BY <1>4, <2>1 DEF Reset, Clear, Cleared, FifoType
    <2>3. QED
      BY <1>4, <2>1, <2>2, DepthAssumption DEF Reset, Clear, Cleared, RingInv, Dist
  <1>5. ASSUME RingInv, UNCHANGED vars PROVE RingInv'
    BY <1>5 DEF vars, RingInv, Dist
  <1>6. QED
    BY <1>1, <1>2, <1>3, <1>4, <1>5 DEF Next

(* What the ring order gives: the words stored lie between the pointers,    *)
(* and each domain sees no more words, and no more room, than there is.     *)
LEMMA RingFlags == RingInv => FlagsSafe /\ ViewsOrdered
  <1> SUFFICES ASSUME RingInv PROVE FlagsSafe /\ ViewsOrdered
    OBVIOUS
  <1>1. /\ f.wptr \in Ptr /\ f.rptr \in Ptr /\ f.rsync \in Ptr /\ f.rview \in Ptr
        /\ f.wsync \in Ptr /\ f.wview \in Ptr /\ n \in Nat
    BY DEF RingInv, FifoType
  <1>2. /\ Dist(f.rptr, f.wview) \in Nat /\ Dist(f.wview, f.wsync) \in Nat
        /\ Dist(f.wsync, f.wptr) \in Nat /\ Dist(f.rview, f.rsync) \in Nat
        /\ Dist(f.rsync, f.rptr) \in Nat
    BY <1>1, DistRange
  <1>3. Dist(f.rptr, f.wsync) = Dist(f.rptr, f.wview) + Dist(f.wview, f.wsync)
    BY <1>1, <1>2, DistSum, DepthAssumption DEF RingInv
  <1>4. Dist(f.rptr, f.wptr) = n
    BY <1>1, <1>2, <1>3, DistSum, DepthAssumption DEF RingInv
  <1>5. Dist(f.rview, f.rptr) = Dist(f.rview, f.rsync) + Dist(f.rsync, f.rptr)
    BY <1>1, <1>2, DistSum, DepthAssumption DEF RingInv
  <1>6. Dist(f.rview, f.wptr) = Dist(f.rview, f.rptr) + n
    BY <1>1, <1>2, <1>4, <1>5, DistSum, DepthAssumption DEF RingInv
  <1>7. n <= Depth - 1 /\ ViewsOrdered
    BY <1>1, <1>2, <1>5, <1>6, DepthAssumption DEF RingInv, ViewsOrdered
  <1>8. n = Depth - 1 => full_out
    <2>1. SUFFICES ASSUME n = Depth - 1 PROVE full_out
      OBVIOUS
    <2>2. Dist(f.rview, f.wptr) = Depth - 1
      BY <2>1, <1>1, <1>2, <1>5, <1>6, DepthAssumption DEF RingInv
    <2>3. QED
      BY <2>2, <1>1, DistInc, DepthAssumption DEF full_out
  <1>9. n = 0 => empty_out
    <2>1. SUFFICES ASSUME n = 0 PROVE empty_out
      OBVIOUS
    <2>2. 0 = Dist(f.rptr, f.wview) + Dist(f.wview, f.wsync) + Dist(f.wsync, f.wptr)
      BY <2>1 DEF RingInv
    <2>3. Dist(f.rptr, f.wview) = 0
      BY <2>2, <1>2
    <2>4. QED
      BY <2>3, <1>1, DepthAssumption DEF empty_out, Dist, Ptr
  <1>10. QED
    BY <1>4, <1>7, <1>8, <1>9 DEF FlagsSafe

(* For every depth, and for any clocks, enables and resets: no word is      *)
(* taken without room for it, and none is given twice (fifo_control.v,      *)
(* full_out and empty_out).                                                 *)
THEOREM FifoFlagsSafe == Spec => []FlagsSafe
  <1>1. RingInv => FlagsSafe
    BY RingFlags
  <1>2. QED
    BY <1>1, RingInit, RingStep, PTL DEF Spec

(* The copies of the pointers that cross the clock domains only ever err on *)
(* the safe side (fifo_control.v, wclk_rgrey_minus2 and rclk_wgrey_addr).   *)
THEOREM FifoViewsOrdered == Spec => []ViewsOrdered
  <1>1. RingInv => ViewsOrdered
    BY RingFlags
  <1>2. QED
    BY <1>1, RingInit, RingStep, PTL DEF Spec

(* For every depth the pointers and their copies stay addresses, and the    *)
(* words stored never count below zero.                                     *)
THEOREM FifoTypes == Spec => []TypeOK
  <1>1. RingInv => TypeOK
    BY DEF RingInv, TypeOK
  <1>2. QED
    BY <1>1, RingInit, RingStep, PTL DEF Spec
=============================================================================
