-------------------------------- MODULE Driver ------------------------------
(***************************************************************************)
(* The host program that owns the engine, as the bench and the PCI test    *)
(* program of the repository drive it: bench/verilog/pci_test.c (do_test,  *)
(* lzf_wait) and the tasks queue_job, append_job, ack_intr and wait_job of *)
(* bench/verilog/ben_adma.v.                                               *)
(*                                                                         *)
(* Job number j has its descriptor at address j.  A queued chain is built  *)
(* in memory before NDAR is written.  An appended job is linked behind the *)
(* last one while the engine may be reading it.  An action with the        *)
(* parameter acc is one clock cycle in which the host makes access acc;    *)
(* the others are stores to memory, between two clock edges.               *)
(***************************************************************************)
EXTENDS Naturals, HostBus

CONSTANTS
    NJobs,      \* jobs the host has to run
    Words,      \* the job words it may give them, the chain bit aside
    ChainBit,   \* the bit it chains jobs with
    Ops,        \* what it does, out of "queue", "append", "ack", "reset", "poll"
    WaitOn,     \* how it learns that its jobs are over: "busy" or "results"
    LateNext,   \* does a next pointer appear in memory only with the chain bit?
    Settle      \* clock cycles it lets pass before it looks at the engine

VARIABLES
    hpc, settle,    \* where the host is; cycles left to let pass
    mem, results,   \* job descriptors; the jobs whose result block is written
    submitted,      \* jobs 1..submitted have been handed over
    tail,           \* the last job of the chain, 0 if there is none to append to
    seen            \* the jobs the host knows to be over, from their results

DriverVars == <<hpc, settle, mem, submitted, tail, seen>>

Jobs == 1..NJobs

HostStates == {"boot", "ready", "disable", "ndar", "go", "append", "settle",
               "wait", "scan"}

DriverTypeOK ==
    /\ hpc \in HostStates
    /\ settle \in 0..Settle
    /\ results \in SUBSET (0..NJobs)
    /\ submitted \in Nat /\ tail \in 0..NJobs
    /\ seen \in SUBSET (0..NJobs)

DriverInit ==
    /\ hpc = "boot" /\ settle = 0
    /\ mem = [a \in 0..NJobs |-> [next |-> 0, dc |-> {}]]
    /\ results = {}
    /\ submitted = 0 /\ tail = 0 /\ seen = {}

(* Unless LateNext, the next pointer of the last job of a chain already     *)
(* holds the address where the next job will be built.                      *)
NextSlot(j) == IF LateNext \/ j = NJobs THEN 0 ELSE j + 1

-----------------------------------------------------------------------------
(* Stores to memory *)

(* Build a chain of fresh jobs: every one but the last has the chain bit.   *)
BuildChain ==
    /\ hpc = "ready" /\ "queue" \in Ops
    /\ \E last \in (submitted + 1)..NJobs :
         \E w \in [(submitted + 1)..last -> Words] :
           /\ mem' = [a \in 0..NJobs |->
                CASE a \in DOMAIN w /\ a < last ->
                       [next |-> a + 1, dc |-> w[a] \cup {ChainBit}]
                  [] a = last -> [next |-> NextSlot(a), dc |-> w[a]]
                  [] OTHER -> mem[a]]
           /\ results' = results \ DOMAIN w
           /\ seen' = seen \ DOMAIN w
           /\ tail' = last
    /\ hpc' = "disable"
    /\ UNCHANGED <<settle, submitted>>

(* Build one more job and link it behind the last one, busy or not.         *)
LinkJob ==
    /\ hpc \in {"ready", "wait"} /\ "append" \in Ops
    /\ tail > 0 /\ tail < NJobs
    /\ \E w \in Words :
         mem' = [mem EXCEPT
                   ![tail + 1] = [next |-> NextSlot(tail + 1), dc |-> w],
                   ![tail] = [next |-> tail + 1, dc |-> @.dc \cup {ChainBit}]]
    /\ results' = results \ {tail + 1}
    /\ seen' = seen \ {tail + 1}
    /\ tail' = tail + 1
    /\ submitted' = tail + 1
    /\ hpc' = "append"
    /\ UNCHANGED settle

(* With results to look at, the jobs are over when all are written.         *)
SeeResults ==
    /\ hpc = "wait" /\ WaitOn = "results"
    /\ 1..submitted \subseteq results
    /\ seen' = results
    /\ hpc' = "ready"
    /\ UNCHANGED <<settle, mem, results, submitted, tail>>

HostStore == BuildChain \/ LinkJob \/ SeeResults

-----------------------------------------------------------------------------
(* Clock cycles; results changes as the controller writes its blocks. *)

MemoryHold == UNCHANGED <<mem, seen>>

Write(from, acc, word, to) ==
    /\ hpc = from /\ acc = word /\ hpc' = to
    /\ MemoryHold

(* What follows a write that sets the engine going. *)
Wait(from, acc, word) ==
    /\ Write(from, acc, word, "settle")
    /\ settle' = Settle
    /\ submitted' = tail
    /\ UNCHANGED tail

(* Once, before the first job: let completions interrupt. *)
EnableInterrupt(acc) ==
    /\ Write("boot", acc, CsrWrite({CsrIntEnable}), "ready")
    /\ UNCHANGED <<settle, submitted, tail>>

(* queue_job: CCR = 0, NDAR, CCR = enable *)
Disable(acc) ==
    /\ Write("disable", acc, CcrWrite({}), "ndar")
    /\ UNCHANGED <<settle, submitted, tail>>
QueueJob(acc) ==
    /\ Write("ndar", acc, NdarWrite(submitted + 1), "go")
    /\ UNCHANGED <<settle, submitted, tail>>
Go(acc) == Wait("go", acc, CcrWrite({CcrEnable}))

(* append_job: CCR = enable and append *)
AppendJob(acc) == Wait("append", acc, CcrWrite({CcrEnable, CcrAppend}))

LetPass(acc) ==
    /\ hpc = "settle" /\ acc = NoAccess
    /\ IF settle = 0 THEN hpc' = "wait" /\ UNCHANGED settle
                     ELSE settle' = settle - 1 /\ UNCHANGED hpc
    /\ MemoryHold /\ UNCHANGED <<submitted, tail>>

(* Read the CSR; the host that waits on busy is done when it is clear.      *)
Poll(acc, busy) ==
    /\ "poll" \in Ops
    /\ \E from \in {"ready", "wait"} :
         Write(from, acc, CsrRead,
               IF WaitOn = "busy" /\ ~busy THEN "ready" ELSE from)
    /\ UNCHANGED <<settle, submitted, tail>>

(* ack_intr: CCR = enable and interrupt acknowledge; then look at the       *)
(* results.                                                                 *)
AckInterrupt(acc, intr) ==
    /\ "ack" \in Ops /\ intr
    /\ \E from \in {"ready", "wait"} :
         Write(from, acc, CcrWrite({CcrEnable, CcrIntAck}), "scan")
    /\ UNCHANGED <<settle, submitted, tail>>
Scan(acc) ==
    /\ hpc = "scan" /\ acc = NoAccess
    /\ seen' = results
    /\ hpc' = "wait"
    /\ UNCHANGED <<settle, mem, submitted, tail>>

(* Give up on the jobs that are not finished: reset the engine. *)
Reset(acc, finished) ==
    /\ "reset" \in Ops
    /\ \E from \in {"ready", "wait"} :
         Write(from, acc, CcrWrite({CcrReset}), "ready")
    /\ submitted' = finished
    /\ tail' = 0
    /\ UNCHANGED settle

(* The host does nothing on the bus this cycle. *)
Quiet(acc) ==
    /\ hpc \notin {"settle", "scan"} /\ acc = NoAccess
    /\ UNCHANGED DriverVars

DriverCycle(acc, busy, intr, finished) ==
    \/ EnableInterrupt(acc)
    \/ Disable(acc) \/ QueueJob(acc) \/ Go(acc) \/ AppendJob(acc)
    \/ LetPass(acc) \/ Poll(acc, busy)
    \/ AckInterrupt(acc, intr) \/ Scan(acc)
    \/ Reset(acc, finished)
    \/ Quiet(acc)

(* The accesses this host makes. *)
Accesses ==
    {NoAccess, CsrRead, CsrWrite({CsrIntEnable}),
     CcrWrite({}), CcrWrite({CcrEnable}), CcrWrite({CcrEnable, CcrAppend}),
     CcrWrite({CcrEnable, CcrIntAck}), CcrWrite({CcrReset})}
      \cup {NdarWrite(a) : a \in 0..NJobs}
=============================================================================
