------------------------------- MODULE JobQueue -----------------------------
(***************************************************************************)
(* What the DMA engine promises its host.  Jobs are numbered in the order  *)
(* in which the host hands them over; the engine starts each of them once, *)
(* in that order, at most one per channel beyond those it has finished,    *)
(* and finishes them in the order it started them.  A reset drops the jobs *)
(* that are not finished; their numbers are then used again.               *)
(***************************************************************************)
EXTENDS Naturals, Sequences

CONSTANTS NJobs,      \* how many jobs the host hands over
          NChannels   \* how many jobs may be between start and finish

VARIABLES submitted,  \* jobs 1..submitted have been handed over
          started,    \* the jobs started, in order
          finished    \* the jobs finished, in order

vars == <<submitted, started, finished>>

Init == submitted = 0 /\ started = <<>> /\ finished = <<>>

Submit ==
    /\ submitted' \in (submitted + 1)..NJobs
    /\ UNCHANGED <<started, finished>>

Start ==
    /\ Len(started) < submitted
    /\ Len(started) < Len(finished) + NChannels
    /\ started' = Append(started, Len(started) + 1)
    /\ UNCHANGED <<submitted, finished>>

Finish ==
    /\ Len(finished) < Len(started)
    /\ finished' = Append(finished, started[Len(finished) + 1])
    /\ UNCHANGED <<submitted, started>>

Abort ==
    /\ submitted' = Len(finished)
    /\ started' = finished
    /\ UNCHANGED finished

Next == Submit \/ Start \/ Finish \/ Abort

Spec == Init /\ [][Next]_vars
=============================================================================
