------------------------------ MODULE MCChannel ------------------------------
(***************************************************************************)
(* Job lists for the runs of Channel, in words, for FIFOs of 8 places.     *)
(***************************************************************************)
EXTENDS Channel

(* A list longer than the ring, in uneven buffers, then a short one, then  *)
(* two jobs that find the RAMs as the copies left them.                    *)
Copy(src, dst) == [kind |-> "copy", src |-> src, dst |-> dst]
Fill(dst) == [kind |-> "fill", src |-> <<1>>, dst |-> dst]
CopyJobs == <<Copy(<<9, 3, 2>>, <<6, 8>>), Copy(<<3, 2>>, <<6>>)>>
Mixed == CopyJobs \o <<Fill(<<11, 2>>), Fill(<<3>>)>>

(* The second job's first buffer is as long as the whole first job: with   *)
(* these lists Transfers fails, for the marker of the first job is still   *)
(* in the RAM where the second empties the FIFO.                           *)
SameLength == <<Copy(<<6>>, <<6>>), Copy(<<6, 4, 1>>, <<15>>)>>

(* A last buffer long enough to fill the source FIFO.                      *)
LongLast == <<Copy(<<15, 5>>, <<15, 15>>)>>

(* The lists of the runs are such as Transfers is proved for.               *)
ASSUME ListsWhole == Roomy /\ MarkersAhead
==============================================================================
