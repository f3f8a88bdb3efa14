------------------------------ MODULE FifoClocks ----------------------------
(***************************************************************************)
(* FifoControl with its two clocks running freely, and the number of words *)
(* that are really stored.                                                 *)
(***************************************************************************)
EXTENDS FifoControl

VARIABLES n   \* words written and not yet read
vars == <<f, n>>

TypeOK == f \in FifoType /\ n \in Nat

Init == f = Cleared /\ n = 0

Clocks(wclk, rclk, wen, ren) ==
    /\ Edge(wclk, rclk, wen, ren)
    /\ n' = n + (IF wclk /\ wallow(wen) THEN 1 ELSE 0)
              - (IF rclk /\ rallow(ren) THEN 1 ELSE 0)

WriteClock == \E wen \in BOOLEAN : Clocks(TRUE, FALSE, wen, FALSE)
ReadClock  == \E ren \in BOOLEAN : Clocks(FALSE, TRUE, FALSE, ren)
BothClocks == \E wen, ren \in BOOLEAN : Clocks(TRUE, TRUE, wen, ren)
Reset      == Clear /\ n' = 0

Next == WriteClock \/ ReadClock \/ BothClocks \/ Reset

Spec == Init /\ [][Next]_vars

(* Both clocks keep running. *)
FairSpec ==
    /\ Spec
    /\ WF_vars(WriteClock \/ BothClocks) /\ WF_vars(ReadClock \/ BothClocks)

(* Whatever the clocks do, the FIFO never takes a word it has no room for   *)
(* and never gives one it does not have: the stale copies of the pointers   *)
(* only err on the safe side.                                               *)
FlagsSafe ==
    /\ n <= Depth - 1 /\ Dist(f.rptr, f.wptr) = n
    /\ n = Depth - 1 => full_out
    /\ n = 0 => empty_out

(* The read domain never counts more words, nor the write domain more free  *)
(* places, than there are: no two words ever claim one place of the RAM.    *)
ViewsOrdered ==
    /\ Dist(f.rptr, f.wview) <= n
    /\ Dist(f.rview, f.wptr) >= n

(* A word that stays is seen by the reader in the end, and room that stays  *)
(* is seen by the writer: no stale flag wedges the FIFO.                    *)
FlagsCatchUp ==
    /\ (n > 0) ~> (n = 0 \/ ~empty_out)
    /\ (n < Depth - 1) ~> (n = Depth - 1 \/ ~full_out)
=============================================================================
