----------------------------- MODULE FifoControl ----------------------------
(***************************************************************************)
(* The FIFO controller of a channel, rtl/verilog/fifo_control.v with its   *)
(* synchronizer_flop.v: a write pointer and a read pointer, each in a      *)
(* clock domain of its own, and the copies of one that the other domain    *)
(* sees two of its own clock edges late.                                   *)
(*                                                                         *)
(* The record f holds the registers.  wptr and rptr stand for the write    *)
(* and read addresses and for their gray pipelines, which are the same     *)
(* position less a constant; rsync and rview are the read pointer in the   *)
(* synchronizer and in the write domain (wclk_rgrey_minus2), wsync and     *)
(* wview the write pointer in the synchronizer and in the read domain      *)
(* (rclk_wgrey_addr).  A gray code is only ever compared for equality with *)
(* another, so the position stands for it.  Positions count from the reset *)
(* value.                                                                  *)
(***************************************************************************)
EXTENDS Naturals

CONSTANTS Depth      \* 2^ADDR_LENGTH

ASSUME DepthAssumption == Depth \in Nat /\ Depth >= 4

VARIABLES f

Ptr == 0..(Depth - 1)
FifoType == [wptr : Ptr, rptr : Ptr, rsync : Ptr, rview : Ptr, wsync : Ptr, wview : Ptr]

IncNoWrap(p) == p + 1   \* faulty: an address as wide as its counter
Inc(p) == IF p = Depth - 1 THEN 0 ELSE p + 1
(* How far q is ahead of p. *)
Dist(p, q) == IF p <= q THEN q - p ELSE Depth + q - p

Cleared == [wptr |-> 0, rptr |-> 0, rsync |-> 0, rview |-> 0, wsync |-> 0, wview |-> 0]

full_out         == Inc(f.wptr) = f.rview
almost_full_out  == Inc(Inc(f.wptr)) = f.rview
empty_out        == f.rptr = f.wview
almost_empty_out == Inc(f.rptr) = f.wview

(* One bit of the difference of the two addresses, taken without regard to  *)
(* the clock domains.                                                       *)
half_full_out == (Dist(f.rptr, f.wptr) \div (Depth \div 2)) % 2 = 1

wallowBlind(wen) == wen   \* faulty: full is not looked at
wallow(wen) == wen /\ ~full_out
rallow(ren) == ren /\ ~empty_out

EdgeEarly(wclk, rclk, wen, ren) ==   \* faulty: a write is announced with its enable
    f' = [wptr  |-> IF wclk /\ wallow(wen) THEN Inc(f.wptr) ELSE f.wptr,
          rsync |-> IF wclk THEN f.rptr ELSE f.rsync,
          rview |-> IF wclk THEN f.rsync ELSE f.rview,
          rptr  |-> IF rclk /\ rallow(ren) THEN Inc(f.rptr) ELSE f.rptr,
          wsync |-> IF rclk THEN Inc(f.wptr) ELSE f.wsync,
          wview |-> IF rclk THEN f.wsync ELSE f.wview]
EdgeGated(wclk, rclk, wen, ren) ==   \* faulty: the view only moves with a read
    f' = [wptr  |-> IF wclk /\ wallow(wen) THEN Inc(f.wptr) ELSE f.wptr,
          rsync |-> IF wclk THEN f.rptr ELSE f.rsync,
          rview |-> IF wclk THEN f.rsync ELSE f.rview,
          rptr  |-> IF rclk /\ rallow(ren) THEN Inc(f.rptr) ELSE f.rptr,
          wsync |-> IF rclk THEN f.wptr ELSE f.wsync,
          wview |-> IF rclk /\ rallow(ren) THEN f.wsync ELSE f.wview]

(* An edge of the write clock, of the read clock or of both, with the       *)
(* enable inputs wen and ren.                                               *)
Edge(wclk, rclk, wen, ren) ==
    f' = [wptr  |-> IF wclk /\ wallow(wen) THEN Inc(f.wptr) ELSE f.wptr,
          rsync |-> IF wclk THEN f.rptr ELSE f.rsync,
          rview |-> IF wclk THEN f.rsync ELSE f.rview,
          rptr  |-> IF rclk /\ rallow(ren) THEN Inc(f.rptr) ELSE f.rptr,
          wsync |-> IF rclk THEN f.wptr ELSE f.wsync,
          wview |-> IF rclk THEN f.wsync ELSE f.wview]

(* clear_in is asynchronous and resets both domains. *)
Clear == f' = Cleared
=============================================================================
