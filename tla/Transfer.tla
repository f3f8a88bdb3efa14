------------------------------- MODULE Transfer -----------------------------
(***************************************************************************)
(* What a channel promises to a sequence of jobs: each delivers the words  *)
(* it is asked for, in order and one by one, and a job ends only when all  *)
(* of its words are delivered.                                             *)
(***************************************************************************)
EXTENDS Naturals

CONSTANTS Jobs,        \* the number of jobs
          Size(_)      \* the number of words job j delivers

VARIABLES job,         \* the job being run; Jobs + 1 when all are done
          delivered    \* how many of its words are in place
vars == <<job, delivered>>

Init == job = 1 /\ delivered = 0

Deliver == job <= Jobs /\ delivered < Size(job) /\ delivered' = delivered + 1 /\ UNCHANGED job
Finish  == job <= Jobs /\ delivered = Size(job) /\ delivered' = 0 /\ job' = job + 1

Next == Deliver \/ Finish
Spec == Init /\ [][Next]_vars
=============================================================================
