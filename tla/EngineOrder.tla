------------------------------ MODULE EngineOrder ---------------------------
(***************************************************************************)
(* The jobs of Engine are run once and in order: the proof that Engine     *)
(* implements JobQueue, that the controller only fetches descriptors that  *)
(* were handed over, that a result block is that of the oldest job and     *)
(* that no job is lost, for any number of jobs, any job words and any mix  *)
(* of the operations of an orderly host.                                   *)
(***************************************************************************)
EXTENDS EngineProofs

(* The hosts the theorems are about: they chain with the bit the controller *)
(* tests and keep the next pointer of the last job valid ahead of time      *)
(* (ctrl.v:294 reads it before the bit), and those that append learn from   *)
(* the results that their jobs are over, since busy falls before an append  *)
(* is taken (ctrl.v:273).                                                   *)
OrderlyHost ==
    /\ ChainBit = Chain /\ ~LateNext
    /\ (WaitOn # "results") => "append" \notin Ops

NoAppend == "append" \notin Ops

nStarted == Len(started)
nFinished == Len(finished)
Numbers(n) == [k \in 1..n |-> k]

-----------------------------------------------------------------------------
(* The inductive invariant *)

(* Jobs are started and finished in the order of their numbers.             *)
HistoryInv == started = Numbers(nStarted) /\ finished = Numbers(nFinished)

BoundInv ==
    /\ nFinished <= nStarted /\ nStarted <= submitted /\ submitted <= NJobs
    /\ dar <= nFinished

(* The next pointer of the job at a; there is no job at 0. *)
Slot(a) == IF a = 0 THEN 0 ELSE NextSlot(a)

(* There is a job after a. *)
HasNext(a) == 0 < a /\ a < submitted

(* What the chain bit in dc[c], read with job a, tells of the queue: there  *)
(* is a job after a, and for a host that never appends the converse.        *)
ChainTrue(c, a) ==
    /\ Chain \in dc[c] => HasNext(a)
    /\ NoAppend /\ HasNext(a) => Chain \in dc[c]

(* The descriptor of a is being read for channel c, or is the last one read. *)
Fetch(c, a) ==
    /\ wbs_adr4 = a
    /\ inc > 0 => cdar = a /\ next_desc = Slot(a) /\ ctl_adr[c] = a
    /\ inc > 1 => ChainTrue(c, a)
Last(c, a) ==
    /\ cdar = a /\ next_desc = Slot(a) /\ ctl_adr[c] = a
    /\ ChainTrue(c, a)

(* Nothing runs while the controller is idle or looks at the job it retired *)
(* last ...                                                                 *)
IdleInv == state = "IDLE" \/ append_mode =>
              nStarted = nFinished /\ dar \in {0, nFinished}
PassInv ==
    append_mode =>
       /\ ~NoAppend
       /\ state = "CMD0" => Fetch(0, dar)
       /\ state = "NEXT0" => Last(0, dar)

(* ... a job is loaded behind those started ...                             *)
LoadInv ==
    /\ state = "CMD0" /\ ~append_mode =>
         /\ nStarted = nFinished /\ nStarted < submitted
         /\ Fetch(0, nStarted + 1)
    /\ state = "NEXT0" /\ ~append_mode =>
         nStarted = nFinished + 1 /\ Last(0, nStarted)
    /\ state = "CMD1" =>
         /\ nStarted = nFinished + 1 /\ nStarted < submitted
         /\ ctl_adr[0] = nStarted /\ Fetch(1, nStarted + 1)
    /\ state = "NEXT1" =>
         nStarted = nFinished /\ Last(1, nStarted) /\ Chain \in dc[1]

(* ... and those waited for and retired are the oldest.                     *)
Oldest0 ==
    /\ ctl_adr[0] = nFinished + 1
    /\ Chain \in dc[0] => nStarted = nFinished + 2 /\ Last(1, nStarted)
    /\ Chain \notin dc[0] => nStarted = nFinished + 1 /\ Last(0, nStarted)
Oldest1 == nStarted = nFinished + 1 /\ Last(1, nStarted)
RunInv ==
    /\ state \in {"WAIT0", "CTL0", "TR0", "CYC0"} => Oldest0
    /\ state \in {"WAIT1", "CTL1", "TR1", "CYC1"} => Oldest1
    /\ state \in {"CTL0", "CTL1"} => wbs_adr4 = nFinished + 1

QueueInv == BoundInv /\ IdleInv /\ PassInv /\ LoadInv /\ RunInv

(* Memory: the next pointer of every job built points to the next; of the   *)
(* jobs the controller may still read, only one with a successor has the    *)
(* chain bit, and all of them if the host never appends.                    *)
SlotInv == \A a \in 0..NJobs : a <= submitted \/ a <= tail => mem[a].next = Slot(a)
LinkInv ==
    \A a \in 0..NJobs :
       /\ a \in {0, dar} \/ a > nFinished
       /\ a <= submitted /\ Chain \in mem[a].dc
       => HasNext(a)
FullInv ==
    NoAppend => \A a \in 0..NJobs : nFinished < a /\ a < submitted => Chain \in mem[a].dc
MemInv == SlotInv /\ LinkInv /\ FullInv

(* A chain that is built and not handed over. *)
Building == {"disable", "ndar", "go"}
BuildInv ==
    hpc \in Building =>
       /\ submitted < tail
       /\ \A a \in 0..NJobs : submitted < a /\ a <= tail =>
            /\ a \notin results
            /\ Chain \in mem[a].dc => a < tail
            /\ NoAppend /\ a < tail => Chain \in mem[a].dc
TailInv ==
    /\ hpc \notin Building => tail \in {0, submitted}
    /\ hpc = "append" => tail = submitted /\ ~NoAppend

(* A result that is written ahead is that of the job being retired. *)
Retiring == {"TR0", "TR1", "CYC0", "CYC1"}
ResultsInv ==
    \A a \in results :
       nFinished < a /\ a <= submitted => a = nFinished + 1 /\ state \in Retiring

(* A host that builds its next chain has been told the truth: all jobs are  *)
(* started, the last is finished or being retired.                          *)
Content == {"boot", "ready"} \cup Building
CaughtUp ==
    /\ nStarted = submitted /\ nStarted <= nFinished + 1
    /\ append_mode \/ state = "IDLE" \/ state \in Retiring
ContentInv ==
    /\ hpc \in Content => CaughtUp /\ ((WaitOn # "results") => state = "IDLE")
    /\ hpc = "ndar" => state \notin {"TR0", "TR1"}
    /\ hpc = "go" => /\ state \notin Retiring
                     /\ ndar = submitted + 1 /\ ndar_dirty /\ ~ndar_dirty_clear

EnableInv ==
    /\ hpc \in {"boot", "ndar", "go"} => ~enable
    /\ ~enable => hpc \in Content
    /\ ~enable /\ hpc \in {"boot", "ready"} => tail = 0 /\ ~wb_int_reg /\ state = "IDLE"
    /\ sys_rst_reg => ~enable /\ state = "IDLE" /\ hpc \in {"ready", "disable"}
    /\ append => ~NoAppend

(* A queue that the controller has not taken is that of the next job, and   *)
(* nothing is linked behind the last one then.                              *)
Pending == enable /\ ndar_dirty /\ ~ndar_dirty_clear
NdarInv ==
    /\ ndar_dirty_clear => state = "CMD0"
    /\ Pending =>
         /\ ndar = nStarted + 1 /\ nStarted < submitted
         /\ state = "IDLE" \/ append_mode
         /\ Chain \notin mem[dar].dc
         /\ append_mode /\ (inc > 1 \/ state = "NEXT0") => Chain \notin dc[0]
    /\ NoAppend /\ state = "IDLE" =>
         nStarted = submitted \/ (Pending /\ hpc = "settle" /\ settle = Settle)

HostInv == BuildInv /\ TailInv /\ ResultsInv /\ ContentInv /\ EnableInv /\ NdarInv

OrderInv == IInv /\ HistoryInv /\ QueueInv /\ MemInv /\ HostInv

-----------------------------------------------------------------------------
(* Sequences of job numbers *)

LEMMA NumbersLen ==
  ASSUME NEW n \in Nat
  PROVE  Len(Numbers(n)) = n /\ \A k \in 1..n : Numbers(n)[k] = k
  <1>1. Numbers(n) \in Seq(Nat) /\ DOMAIN Numbers(n) = 1..n
    BY DEF Numbers
  <1>2. QED
    BY <1>1 DEF Numbers

LEMMA NumbersAppend ==
  ASSUME NEW n \in Nat
  PROVE  Append(Numbers(n), n + 1) = Numbers(n + 1)
  <1>1. Numbers(n) \in Seq(Nat) /\ Numbers(n + 1) \in Seq(Nat)
    BY DEF Numbers
  <1>2. Len(Numbers(n)) = n /\ Len(Numbers(n + 1)) = n + 1
    BY NumbersLen
  <1>3. Append(Numbers(n), n + 1) \in Seq(Nat)
        /\ Len(Append(Numbers(n), n + 1)) = n + 1
    BY <1>1, <1>2
  <1>4. ASSUME NEW k \in 1..(n + 1)
        PROVE  Append(Numbers(n), n + 1)[k] = Numbers(n + 1)[k]
    BY <1>1, <1>2 DEF Numbers
  <1>5. QED
    BY <1>1, <1>2, <1>3, <1>4

LEMMA Counts == TypeOK => nStarted \in Nat /\ nFinished \in Nat
  BY DEF TypeOK, nStarted, nFinished

-----------------------------------------------------------------------------
(* The controller *)

(* What a clock cycle does to the two counts and to what the host handed    *)
(* over: a queue is only handed over to a controller that runs nothing.     *)
Counting(ack) ==
    /\ nStarted' = IF Loading(ack) THEN nStarted + 1 ELSE nStarted
    /\ nFinished' = IF state \in {"CYC0", "CYC1"} THEN nFinished + 1 ELSE nFinished
Handing ==
    \/ submitted' = submitted
    \/ /\ submitted' \in submitted..NJobs
       /\ nStarted = submitted /\ ~enable /\ (state = "IDLE" \/ append_mode)

LEMMA HistoryCounts ==
  ASSUME TypeOK, HistoryInv, QueueInv, NEW ack \in BOOLEAN, HistoryStep(ack, FALSE)
  PROVE  HistoryInv' /\ Counting(ack)
  <1>1. nStarted \in Nat /\ nFinished \in Nat
    BY Counts
  <1>2. /\ started = Numbers(nStarted) /\ finished = Numbers(nFinished)
        /\ nStarted' = Len(started') /\ nFinished' = Len(finished')
    BY DEF HistoryInv, nStarted, nFinished
  <1>3. Loading(ack) => cdar = nStarted + 1
    BY DEF Loading, LastBeat, QueueInv, LoadInv, Fetch
  <1>4. /\ state = "CYC0" => ctl_adr[0] = nFinished + 1
        /\ state = "CYC1" => ctl_adr[1] = nFinished + 1
    BY <1>1 DEF QueueInv, RunInv, Oldest0, Oldest1, Last
  <1>5. /\ started' = Numbers(nStarted')
        /\ nStarted' = IF Loading(ack) THEN nStarted + 1 ELSE nStarted
    <2>1. CASE Loading(ack)
      <3>1. started' = Numbers(nStarted + 1)
        BY <1>1, <1>2, <1>3, <2>1, NumbersAppend DEF HistoryStep
      <3>2. Len(started') = nStarted + 1
        BY <1>1, <3>1, NumbersLen
      <3>3. QED
        BY <1>2, <2>1, <3>1, <3>2
    <2>2. CASE ~Loading(ack)
      BY <1>2, <2>2 DEF HistoryStep, nStarted
    <2>3. QED
      BY <2>1, <2>2
  <1>6. /\ finished' = Numbers(nFinished')
        /\ nFinished' = IF state \in {"CYC0", "CYC1"} THEN nFinished + 1 ELSE nFinished
    <2>1. CASE state \in {"CYC0", "CYC1"}
      <3>1. finished' = Append(finished, nFinished + 1)
        BY <1>4, <2>1 DEF HistoryStep
      <3>2. finished' = Numbers(nFinished + 1)
        BY <1>1, <1>2, <3>1, NumbersAppend
      <3>3. Len(finished') = nFinished + 1
        BY <1>1, <3>2, NumbersLen
      <3>4. QED
        BY <1>2, <2>1, <3>2, <3>3
    <2>2. CASE state \notin {"CYC0", "CYC1"}
      BY <1>2, <2>2 DEF HistoryStep, nFinished
    <2>3. QED
      BY <2>1, <2>2
  <1>7. QED
    BY <1>5, <1>6 DEF HistoryInv, Counting

(* The registers and counts as the solver needs them. *)
LEMMA QueueTypes ==
  ASSUME TypeOK
  PROVE  /\ nStarted \in Nat /\ nFinished \in Nat /\ submitted \in Nat /\ NJobs \in Nat
         /\ state \in States /\ append_mode \in BOOLEAN /\ inc \in 0..3
         /\ cdar \in Nat /\ next_desc \in Nat /\ wbs_adr4 \in Nat /\ dar \in Nat
         /\ ctl_adr \in [0..1 -> 0..NJobs] /\ dc \in [0..1 -> SUBSET DcBits]
         /\ mem \in [0..NJobs -> [next : 0..NJobs, dc : SUBSET DcBits]]
  <1>1. nStarted \in Nat /\ nFinished \in Nat /\ NJobs \in Nat
    BY Counts, SizesAssumption
  <1>2. CtrlTypeOK /\ DriverTypeOK /\ mem \in [0..NJobs -> Descriptor]
    BY DEF TypeOK
  <1>3. /\ submitted \in Nat /\ state \in States /\ append_mode \in BOOLEAN
        /\ inc \in 0..3
    BY <1>2 DEF DriverTypeOK, CtrlTypeOK
  <1>4. /\ cdar \in 0..NJobs /\ next_desc \in 0..NJobs /\ wbs_adr4 \in 0..NJobs
        /\ dar \in 0..NJobs
    BY <1>2 DEF CtrlTypeOK
  <1>5. ctl_adr \in [0..1 -> 0..NJobs] /\ dc \in [0..1 -> SUBSET DcBits]
    BY <1>2 DEF CtrlTypeOK, Channel
  <1>6. mem \in [0..NJobs -> [next : 0..NJobs, dc : SUBSET DcBits]]
    BY <1>2 DEF Descriptor
  <1>7. QED
    BY <1>1, <1>3, <1>4, <1>5, <1>6

LEMMA SlotNext ==
  ASSUME OrderlyHost, NJobs \in Nat, NEW a \in 1..(NJobs - 1)
  PROVE  Slot(a) = a + 1
  BY DEF Slot, NextSlot, OrderlyHost

(* A beat of a descriptor is what memory says of the job. *)
LEMMA BeatRegisters ==
  ASSUME TypeOK, NEW c \in 0..1, NEW ack \in BOOLEAN, Beat(ack), Latch(c, ack)
  PROVE  /\ wbs_adr4' = wbs_adr4
         /\ ~ack => inc' = inc
         /\ ack => inc' = IF inc = 3 THEN 0 ELSE inc + 1
         /\ ack /\ inc = 0 => /\ next_desc' = mem[wbs_adr4].next /\ cdar' = wbs_adr4
                              /\ ctl_adr'[c] = wbs_adr4
         /\ ~(ack /\ inc = 0) => /\ next_desc' = next_desc /\ cdar' = cdar
                                 /\ ctl_adr'[c] = ctl_adr[c]
         /\ ack /\ inc = 1 => dc'[c] = mem[wbs_adr4].dc
         /\ ~(ack /\ inc = 1) => dc'[c] = dc[c]
  <1>1. inc \in 0..3 /\ ctl_adr \in [0..1 -> 0..NJobs] /\ dc \in [0..1 -> SUBSET DcBits]
    BY QueueTypes
  <1>2. (~ack => inc' = inc) /\ (ack => inc' = IF inc = 3 THEN 0 ELSE inc + 1)
    BY <1>1 DEF Beat
  <1>3. wbs_adr4' = wbs_adr4
    BY DEF Beat
  <1>4. QED
    BY <1>1, <1>2, <1>3 DEF Latch
LEMMA OtherChannel ==
  ASSUME TypeOK, NEW c \in 0..1, NEW b \in 0..1, b # c, NEW ack \in BOOLEAN, Latch(c, ack)
  PROVE  ctl_adr'[b] = ctl_adr[b] /\ dc'[b] = dc[b]
  <1>1. inc \in 0..3 /\ ctl_adr \in [0..1 -> 0..NJobs] /\ dc \in [0..1 -> SUBSET DcBits]
    BY QueueTypes
  <1>2. QED
    BY <1>1 DEF Latch

LEMMA SlotConstant == ASSUME NEW a PROVE Slot(a)' = Slot(a)
  BY DEF Slot, NextSlot
LEMMA NoAppendConstant == NoAppend' = NoAppend
  BY DEF NoAppend

LEMMA ChainMeans ==
  ASSUME NEW c \in 0..1, NEW a \in Nat, NEW d,
         submitted \in Nat, submitted' \in submitted..NJobs, NJobs \in Nat,
         submitted' = submitted \/ ~NoAppend
  PROVE  /\ Chain \in d => HasNext(a)
         /\ NoAppend /\ HasNext(a) => Chain \in d
         /\ dc'[c] = d
         => ChainTrue(c, a)'
  BY DEF ChainTrue, NoAppend, HasNext

LEMMA BeatFetch ==
  ASSUME TypeOK, MemInv, NEW c \in 0..1, NEW a \in Nat, a <= submitted, submitted <= NJobs,
         a = dar \/ a > nFinished, NoAppend => a > nFinished,
         Fetch(c, a), NEW ack \in BOOLEAN, Beat(ack), Latch(c, ack),
         submitted' \in submitted..NJobs,
         submitted' = submitted \/ ~NoAppend
  PROVE  /\ ~(ack /\ inc = 3) => Fetch(c, a)'
         /\ ack /\ inc = 3 => Last(c, a)'
  <1>1. /\ inc \in 0..3 /\ NJobs \in Nat
        /\ submitted \in Nat /\ nFinished \in Nat
        /\ a \in 0..NJobs
    BY QueueTypes
  <1>2. mem[a].next = Slot(a)
    BY <1>1 DEF MemInv, SlotInv
  <1>3. /\ Chain \in mem[a].dc => HasNext(a)
        /\ NoAppend /\ HasNext(a) => Chain \in mem[a].dc
    BY <1>1 DEF MemInv, LinkInv, FullInv, HasNext
  <1>4. wbs_adr4 = a /\ wbs_adr4' = wbs_adr4
    BY DEF Fetch, Beat
  <1>5. \A d : /\ Chain \in d => HasNext(a)
               /\ NoAppend /\ HasNext(a) => Chain \in d
               /\ dc'[c] = d
               => ChainTrue(c, a)'
    BY <1>1, ChainMeans
  <1>6. ChainTrue(c, a) /\ dc'[c] = dc[c] => ChainTrue(c, a)'
    BY <1>5 DEF ChainTrue
  <1>7. Slot(a)' = Slot(a)
    BY SlotConstant
  <1>8. /\ ~(ack /\ inc = 0) => /\ next_desc' = next_desc /\ cdar' = cdar
                                /\ ctl_adr'[c] = ctl_adr[c]
        /\ ack /\ inc = 0 => next_desc' = mem[a].next /\ cdar' = a /\ ctl_adr'[c] = a
    BY <1>4, BeatRegisters
  <1>9. /\ ~(ack /\ inc = 1) => dc'[c] = dc[c]
        /\ ack /\ inc = 1 => dc'[c] = mem[a].dc
    BY <1>4, BeatRegisters
  <1>10. (~ack => inc' = inc) /\ (ack => inc' = IF inc = 3 THEN 0 ELSE inc + 1)
    BY BeatRegisters
  <1>11. CASE ~ack
    BY <1>1, <1>4, <1>6, <1>7, <1>8, <1>9, <1>10, <1>11 DEF Fetch
  <1>12. CASE ack /\ inc = 0
    BY <1>2, <1>4, <1>7, <1>8, <1>10, <1>12 DEF Fetch
  <1>13. CASE ack /\ inc = 1
    <2>1. ChainTrue(c, a)'
      BY <1>3, <1>5, <1>9, <1>13
    <2>2. QED
      BY <1>4, <1>7, <1>8, <1>10, <1>13, <2>1 DEF Fetch
  <1>14. CASE ack /\ inc = 2
    BY <1>4, <1>6, <1>7, <1>8, <1>9, <1>10, <1>14 DEF Fetch
  <1>15. CASE ack /\ inc = 3
    BY <1>4, <1>6, <1>7, <1>8, <1>9, <1>10, <1>15 DEF Fetch, Last
  <1>16. QED
    BY <1>1, <1>11, <1>12, <1>13, <1>14, <1>15

(* What else of a cycle the jobs depend on. *)
LEMMA HandingCases ==
  ASSUME TypeOK, QueueInv, AppendModeInv, Handing
  PROVE  /\ submitted \in Nat /\ submitted' \in submitted..NJobs /\ NJobs \in Nat
         /\ submitted' = submitted \/ nStarted = submitted
         /\ state # "IDLE" => submitted' = submitted \/ ~NoAppend
         /\ state # "IDLE" /\ ~append_mode => submitted' = submitted
  <1>1. submitted \in Nat /\ NJobs \in Nat /\ submitted <= NJobs
    BY QueueTypes DEF QueueInv, BoundInv
  <1>2. append_mode => ~NoAppend
    BY DEF QueueInv, PassInv
  <1>3. QED
    BY <1>1, <1>2 DEF Handing

LEMMA BoundStep ==
  ASSUME TypeOK, AppendModeInv, QueueInv, NEW ack \in BOOLEAN, Counting(ack), Handing,
         \/ dar' = dar
         \/ state \in {"CYC0", "CYC1"} /\ dar' = cdar /\ cdar = nFinished + 1
  PROVE  BoundInv'
  <1>1. /\ nStarted \in Nat /\ nFinished \in Nat /\ submitted \in Nat /\ NJobs \in Nat
        /\ dar \in Nat
    BY QueueTypes
  <1>2. nFinished <= nStarted /\ nStarted <= submitted /\ submitted <= NJobs
        /\ dar <= nFinished
    BY DEF QueueInv, BoundInv
  <1>3. submitted' \in submitted..NJobs
    BY HandingCases
  <1>4. Loading(ack) => nStarted < submitted /\ state \in {"CMD0", "CMD1"}
    BY <1>1 DEF Loading, QueueInv, LoadInv
  <1>5. state \in {"CYC0", "CYC1"} => nFinished + 1 <= nStarted
    BY <1>1 DEF QueueInv, RunInv, Oldest0, Oldest1
  <1>6. nStarted' = nStarted \/ (Loading(ack) /\ nStarted' = nStarted + 1)
    BY DEF Counting
  <1>7. /\ state \in {"CYC0", "CYC1"} => nFinished' = nFinished + 1
        /\ state \notin {"CYC0", "CYC1"} => nFinished' = nFinished
    BY DEF Counting
  <1>8. nStarted' \in nStarted..submitted'
    BY <1>1, <1>2, <1>3, <1>4, <1>6
  <1>9. nFinished' \in nFinished..nStarted
    BY <1>1, <1>2, <1>5, <1>7
  <1>10. dar' <= nFinished'
    BY <1>1, <1>2, <1>7
  <1>11. QED
    BY <1>1, <1>3, <1>8, <1>9, <1>10 DEF BoundInv

(* What is known of a descriptor stays true while the registers hold.       *)
LEMMA ChainKept ==
  ASSUME NEW c \in 0..1, NEW a \in Nat, ChainTrue(c, a), dc'[c] = dc[c],
         submitted \in Nat, submitted' \in submitted..NJobs, NJobs \in Nat,
         submitted' = submitted \/ ~NoAppend
  PROVE  ChainTrue(c, a)'
  <1>1. /\ Chain \in dc[c] => HasNext(a)
        /\ NoAppend /\ HasNext(a) => Chain \in dc[c]
    BY DEF ChainTrue
  <1>2. QED
    BY <1>1, ChainMeans

LEMMA LastKept ==
  ASSUME NEW c \in 0..1, NEW a \in Nat, Last(c, a), LatchHold,
         submitted \in Nat, submitted' \in submitted..NJobs, NJobs \in Nat,
         submitted' = submitted \/ ~NoAppend
  PROVE  Last(c, a)'
  <1>1. ChainTrue(c, a)'
    BY ChainKept DEF Last, LatchHold
  <1>2. QED
    BY <1>1, SlotConstant DEF Last, LatchHold

-----------------------------------------------------------------------------
(* Every action of the controller keeps QueueInv. *)

LEMMA IdleWaitQueue ==
  ASSUME TypeOK, AppendModeInv, QueueInv, NEW ack \in BOOLEAN, Counting(ack), Handing,
         IdleWait
  PROVE  QueueInv'
  <1>1. /\ state = "IDLE" /\ state' = "IDLE" /\ append_mode' = append_mode
        /\ dar' = dar /\ ~append_mode
    BY DEF IdleWait, NoAppendClear, AppendModeInv
  <1>2. BoundInv'
    BY <1>1, BoundStep
  <1>3. nStarted' = nStarted /\ nFinished' = nFinished
    BY <1>1 DEF Counting, Loading
  <1>4. IdleInv'
    BY <1>1, <1>3 DEF QueueInv, IdleInv
  <1>5. PassInv' /\ LoadInv' /\ RunInv'
    BY <1>1 DEF PassInv, LoadInv, RunInv
  <1>6. QED
    BY <1>2, <1>4, <1>5 DEF QueueInv

LEMMA IdleQueueQueue ==
  ASSUME TypeOK, AppendModeInv, QueueInv, NEW ack \in BOOLEAN, Counting(ack), Handing,
         NdarInv, IdleQueue
  PROVE  QueueInv'
  <1>1. /\ state = "IDLE" /\ state' = "CMD0" /\ append_mode' = append_mode
        /\ dar' = dar /\ ~append_mode /\ wbs_adr4' = ndar /\ inc' = 0
    BY DEF IdleQueue, NoAppendClear, AppendModeInv, Burst
  <1>2. BoundInv'
    BY <1>1, BoundStep
  <1>3. nStarted' = nStarted /\ nFinished' = nFinished
    BY <1>1 DEF Counting, Loading
  <1>4. IdleInv' /\ PassInv' /\ RunInv'
    BY <1>1 DEF IdleInv, PassInv, RunInv
  <1>5. ndar = nStarted + 1 /\ nStarted < submitted
    BY <1>1 DEF IdleQueue, NdarInv, Pending
  <1>6. nStarted' = nFinished' /\ nStarted' < submitted'
    BY <1>1, <1>3, <1>5, HandingCases, QueueTypes DEF QueueInv, IdleInv
  <1>7. Fetch(0, nStarted + 1)'
    BY <1>1, <1>3, <1>5 DEF Fetch
  <1>8. LoadInv'
    BY <1>1, <1>6, <1>7 DEF LoadInv
  <1>9. QED
    BY <1>2, <1>4, <1>8 DEF QueueInv

LEMMA IdleAppendQueue ==
  ASSUME TypeOK, AppendModeInv, QueueInv, NEW ack \in BOOLEAN, Counting(ack), Handing,
         EnableInv, IdleAppend
  PROVE  QueueInv'
  <1>1. /\ state = "IDLE" /\ state' = "CMD0" /\ append_mode' = TRUE
        /\ dar' = dar /\ wbs_adr4' = dar /\ inc' = 0
    BY DEF IdleAppend, Burst
  <1>2. BoundInv'
    BY <1>1, BoundStep
  <1>3. nStarted' = nStarted /\ nFinished' = nFinished
    BY <1>1 DEF Counting, Loading
  <1>4. IdleInv' /\ LoadInv' /\ RunInv'
    BY <1>1, <1>3 DEF QueueInv, IdleInv, LoadInv, RunInv
  <1>5. ~NoAppend'
    BY NoAppendConstant DEF IdleAppend, EnableInv
  <1>6. Fetch(0, dar)'
    BY <1>1 DEF Fetch
  <1>7. PassInv'
    BY <1>1, <1>5, <1>6 DEF PassInv
  <1>8. QED
    BY <1>2, <1>4, <1>7 DEF QueueInv

(* An append pass over the descriptor retired last. *)
LEMMA Cmd0PassQueue ==
  ASSUME TypeOK, AppendModeInv, QueueInv, MemInv, NEW ack \in BOOLEAN, Counting(ack),
         Handing, Cmd0(ack), append_mode
  PROVE  QueueInv'
  <1>1. /\ state = "CMD0" /\ append_mode' /\ dar' = dar /\ Beat(ack) /\ Latch(0, ack)
        /\ state' = IF LastBeat(ack) THEN "NEXT0" ELSE "CMD0"
    BY DEF Cmd0, NoAppendClear
  <1>2. BoundInv'
    BY <1>1, BoundStep
  <1>3. nStarted' = nStarted /\ nFinished' = nFinished
    BY <1>1 DEF Counting, Loading
  <1>4. IdleInv' /\ LoadInv' /\ RunInv'
    BY <1>1, <1>3 DEF QueueInv, IdleInv, LoadInv, RunInv
  <1>5. PICK a \in Nat : a = dar
    BY QueueTypes
  <1>6. /\ a <= submitted /\ submitted <= NJobs
        /\ Fetch(0, a) /\ ~NoAppend
    BY <1>1, <1>5, QueueTypes DEF QueueInv, BoundInv, PassInv
  <1>7. /\ ~(ack /\ inc = 3) => Fetch(0, a)'
        /\ ack /\ inc = 3 => Last(0, a)'
    BY <1>1, <1>5, <1>6, BeatFetch, HandingCases
  <1>8. /\ ~(ack /\ inc = 3) => Fetch(0, dar)'
        /\ ack /\ inc = 3 => Last(0, dar)'
    BY <1>1, <1>5, <1>7 DEF Fetch, Last, ChainTrue
  <1>9. PassInv'
    BY <1>1, <1>6, <1>8, NoAppendConstant DEF PassInv, LastBeat
  <1>10. QED
    BY <1>2, <1>4, <1>9 DEF QueueInv

(* The next job is loaded. *)
LEMMA Cmd0LoadQueue ==
  ASSUME TypeOK, AppendModeInv, QueueInv, MemInv, NEW ack \in BOOLEAN, Counting(ack),
         Handing, Cmd0(ack), ~append_mode
  PROVE  QueueInv'
  <1>1. /\ state = "CMD0" /\ append_mode' = append_mode /\ dar' = dar
        /\ Beat(ack) /\ Latch(0, ack)
        /\ state' = IF LastBeat(ack) THEN "NEXT0" ELSE "CMD0"
    BY DEF Cmd0, NoAppendClear
  <1>2. BoundInv'
    BY <1>1, BoundStep
  <1>3. /\ nStarted' = IF ack /\ inc = 3 THEN nStarted + 1 ELSE nStarted
        /\ nFinished' = nFinished
    BY <1>1 DEF Counting, Loading, LastBeat
  <1>4. IdleInv' /\ PassInv' /\ RunInv'
    BY <1>1 DEF IdleInv, PassInv, RunInv
  <1>5. /\ nStarted \in Nat /\ nFinished \in Nat /\ submitted \in Nat /\ NJobs \in Nat
        /\ submitted' = submitted
    BY <1>1, QueueTypes, HandingCases
  <1>6. PICK a \in Nat : a = nStarted + 1
    BY <1>5
  <1>7. /\ nStarted = nFinished /\ nStarted < submitted
        /\ a <= submitted /\ submitted <= NJobs /\ a > nFinished /\ Fetch(0, a)
    BY <1>1, <1>5, <1>6 DEF QueueInv, BoundInv, LoadInv
  <1>8. /\ ~(ack /\ inc = 3) => Fetch(0, a)'
        /\ ack /\ inc = 3 => Last(0, a)'
    BY <1>1, <1>5, <1>7, BeatFetch, HandingCases
  <1>9. /\ ~(ack /\ inc = 3) => Fetch(0, nStarted + 1)'
        /\ ack /\ inc = 3 => Last(0, nStarted)'
    BY <1>3, <1>6, <1>8 DEF Fetch, Last, ChainTrue
  <1>10. LoadInv'
    BY <1>1, <1>3, <1>5, <1>7, <1>9 DEF LoadInv, LastBeat
  <1>11. QED
    BY <1>2, <1>4, <1>10 DEF QueueInv

LEMMA NextJob ==
  ASSUME TypeOK, OrderlyHost, QueueInv, NEW a \in Nat, HasNext(a)
  PROVE  Slot(a) = a + 1
  BY SlotNext, QueueTypes DEF HasNext, QueueInv, BoundInv

(* The chain bit after an append pass ... *)
LEMMA Next0PassQueue ==
  ASSUME TypeOK, AppendModeInv, OrderlyHost, QueueInv, NEW ack \in BOOLEAN,
         Counting(ack), Handing, Next0, append_mode
  PROVE  QueueInv'
  <1>1. /\ state = "NEXT0" /\ append_mode' = FALSE /\ dar' = dar
        /\ Chain \in dc[0] => state' = "CMD0" /\ wbs_adr4' = next_desc /\ inc' = 0
        /\ Chain \notin dc[0] => state' = "IDLE"
    BY DEF Next0, Burst
  <1>2. BoundInv'
    BY <1>1, BoundStep
  <1>3. nStarted' = nStarted /\ nFinished' = nFinished
    BY <1>1 DEF Counting, Loading
  <1>4. IdleInv' /\ PassInv' /\ RunInv'
    BY <1>1, <1>3 DEF QueueInv, IdleInv, PassInv, RunInv
  <1>5. /\ nStarted \in Nat /\ nFinished \in Nat /\ submitted \in Nat /\ dar \in Nat
        /\ submitted' \in submitted..NJobs
    BY QueueTypes, HandingCases
  <1>6. Last(0, dar) /\ nStarted = nFinished /\ dar \in {0, nFinished}
    BY <1>1 DEF QueueInv, PassInv, IdleInv
  <1>7. Chain \in dc[0] => HasNext(dar) /\ next_desc = Slot(dar)
    BY <1>6 DEF Last, ChainTrue
  <1>8. Chain \in dc[0] => next_desc = nStarted + 1 /\ nStarted < submitted
    BY <1>5, <1>6, <1>7, NextJob DEF HasNext
  <1>9. Chain \in dc[0] =>
          nStarted' = nFinished' /\ nStarted' < submitted' /\ Fetch(0, nStarted + 1)'
    BY <1>1, <1>3, <1>5, <1>6, <1>8 DEF Fetch
  <1>10. LoadInv'
    BY <1>1, <1>9 DEF LoadInv
  <1>11. QED
    BY <1>2, <1>4, <1>10 DEF QueueInv

(* ... and of a job that was loaded: the next one is loaded behind it, or   *)
(* it is waited for.                                                        *)
LEMMA Next0LoadQueue ==
  ASSUME TypeOK, AppendModeInv, OrderlyHost, QueueInv, NEW ack \in BOOLEAN,
         Counting(ack), Handing, Next0, ~append_mode
  PROVE  QueueInv'
  <1>1. /\ state = "NEXT0" /\ append_mode' = FALSE /\ dar' = dar /\ LatchHold
        /\ Chain \in dc[0] => state' = "CMD1" /\ wbs_adr4' = next_desc /\ inc' = 0
        /\ Chain \notin dc[0] => state' = "WAIT0"
    BY DEF Next0, Burst
  <1>2. BoundInv'
    BY <1>1, BoundStep
  <1>3. nStarted' = nStarted /\ nFinished' = nFinished
    BY <1>1 DEF Counting, Loading
  <1>4. IdleInv' /\ PassInv'
    BY <1>1 DEF IdleInv, PassInv
  <1>5. /\ nStarted \in Nat /\ nFinished \in Nat /\ submitted \in Nat /\ NJobs \in Nat
        /\ submitted' = submitted /\ submitted <= NJobs
    BY <1>1, QueueTypes, HandingCases DEF QueueInv, BoundInv
  <1>6. Last(0, nStarted) /\ nStarted = nFinished + 1
    BY <1>1 DEF QueueInv, LoadInv
  <1>7. CASE Chain \in dc[0]
    <2>1. HasNext(nStarted) /\ next_desc = Slot(nStarted) /\ ctl_adr[0] = nStarted
      BY <1>6, <1>7 DEF Last, ChainTrue
    <2>2. next_desc = nStarted + 1 /\ nStarted < submitted
      BY <1>5, <2>1, NextJob DEF HasNext
    <2>3. Fetch(1, nStarted + 1)'
      BY <1>1, <1>3, <1>7, <2>2 DEF Fetch
    <2>4. LoadInv' /\ RunInv'
      BY <1>1, <1>3, <1>5, <1>6, <1>7, <2>1, <2>2, <2>3 DEF LoadInv, RunInv, LatchHold
    <2>5. QED
      BY <1>2, <1>4, <2>4 DEF QueueInv
  <1>8. CASE Chain \notin dc[0]
    <2>1. PICK a \in Nat : a = nStarted
      BY <1>5
    <2>2. Last(0, a)'
      BY <1>1, <1>5, <1>6, <2>1, LastKept
    <2>3. Last(0, nStarted)' /\ ctl_adr'[0] = nFinished' + 1
      BY <1>3, <1>6, <2>1, <2>2 DEF Last, ChainTrue
    <2>4. Oldest0'
      BY <1>1, <1>3, <1>6, <1>8, <2>3 DEF Oldest0, LatchHold
    <2>5. LoadInv' /\ RunInv'
      BY <1>1, <1>8, <2>4 DEF LoadInv, RunInv
    <2>6. QED
      BY <1>2, <1>4, <2>5 DEF QueueInv
  <1>9. QED
    BY <1>7, <1>8

LEMMA Cmd1Queue ==
  ASSUME TypeOK, AppendModeInv, ChainInv, QueueInv, MemInv, NEW ack \in BOOLEAN,
         Counting(ack), Handing, Cmd1(ack)
  PROVE  QueueInv'
  <1>1. /\ state = "CMD1" /\ append_mode' = append_mode /\ ~append_mode /\ dar' = dar
        /\ Beat(ack) /\ Latch(1, ack)
        /\ state' = IF LastBeat(ack) THEN "WAIT0" ELSE "CMD1"
    BY DEF Cmd1, NoAppendClear, AppendModeInv
  <1>2. BoundInv'
    BY <1>1, BoundStep
  <1>3. /\ nStarted' = IF ack /\ inc = 3 THEN nStarted + 1 ELSE nStarted
        /\ nFinished' = nFinished
    BY <1>1 DEF Counting, Loading, LastBeat
  <1>4. IdleInv' /\ PassInv'
    BY <1>1 DEF IdleInv, PassInv
  <1>5. /\ nStarted \in Nat /\ nFinished \in Nat /\ submitted \in Nat /\ NJobs \in Nat
        /\ submitted' = submitted
    BY <1>1, QueueTypes, HandingCases
  <1>6. PICK a \in Nat : a = nStarted + 1
    BY <1>5
  <1>7. /\ nStarted = nFinished + 1 /\ nStarted < submitted
        /\ a <= submitted /\ submitted <= NJobs /\ a > nFinished /\ Fetch(1, a)
        /\ ctl_adr[0] = nStarted
    BY <1>1, <1>5, <1>6 DEF QueueInv, BoundInv, LoadInv
  <1>8. /\ ~(ack /\ inc = 3) => Fetch(1, a)'
        /\ ack /\ inc = 3 => Last(1, a)'
    BY <1>1, <1>5, <1>7, BeatFetch, HandingCases
  <1>9. /\ ~(ack /\ inc = 3) => Fetch(1, nStarted + 1)'
        /\ ack /\ inc = 3 => Last(1, nStarted)'
    BY <1>3, <1>6, <1>8 DEF Fetch, Last, ChainTrue
  <1>10. ctl_adr'[0] = ctl_adr[0] /\ dc'[0] = dc[0] /\ Chain \in dc[0]
    BY <1>1, OtherChannel DEF ChainInv
  <1>11. LoadInv'
    BY <1>1, <1>3, <1>5, <1>7, <1>9, <1>10 DEF LoadInv, LastBeat
  <1>12. ack /\ inc = 3 => Oldest0'
    BY <1>3, <1>5, <1>7, <1>9, <1>10 DEF Oldest0
  <1>13. RunInv'
    BY <1>1, <1>12 DEF RunInv, LastBeat
  <1>14. QED
    BY <1>2, <1>4, <1>11, <1>13 DEF QueueInv

(* The oldest job is waited for, its result block is written and its        *)
(* walkers are reset: the queue does not move.                              *)
LEMMA Hold0Queue ==
  ASSUME TypeOK, AppendModeInv, QueueInv, NEW ack \in BOOLEAN, Counting(ack), Handing,
         state \in {"WAIT0", "CTL0", "TR0"}, state' \in {"WAIT0", "CTL0", "TR0", "CYC0"},
         LatchHold, dar' = dar, append_mode' = append_mode,
         state' = "CTL0" => wbs_adr4' = nFinished + 1
  PROVE  QueueInv'
  <1>1. BoundInv'
    BY BoundStep
  <1>2. nStarted' = nStarted /\ nFinished' = nFinished
    BY DEF Counting, Loading
  <1>3. ~append_mode /\ ~append_mode'
    BY DEF AppendModeInv
  <1>4. IdleInv' /\ PassInv' /\ LoadInv'
    BY <1>3 DEF IdleInv, PassInv, LoadInv
  <1>5. /\ nStarted \in Nat /\ submitted \in Nat /\ NJobs \in Nat
        /\ submitted' = submitted /\ submitted' \in submitted..NJobs
    BY <1>3, QueueTypes, HandingCases
  <1>6. Oldest0
    BY DEF QueueInv, RunInv
  <1>7. PICK a \in Nat : a = nStarted
    BY <1>5
  <1>8. \A c \in 0..1 : Last(c, a) => Last(c, a)'
    BY <1>5, LastKept
  <1>9. \A c \in 0..1 : Last(c, nStarted) => Last(c, nStarted)'
    BY <1>2, <1>7, <1>8 DEF Last, ChainTrue
  <1>10. Oldest0'
    BY <1>2, <1>6, <1>9 DEF Oldest0, LatchHold
  <1>11. RunInv'
    BY <1>2, <1>10 DEF RunInv
  <1>12. QED
    BY <1>1, <1>4, <1>11 DEF QueueInv

LEMMA Wait0Queue ==
  ASSUME TypeOK, AppendModeInv, QueueInv, NEW ack \in BOOLEAN, Counting(ack), Handing,
         Wait0
  PROVE  QueueInv'
  <1>1. /\ state = "WAIT0" /\ state' \in {"WAIT0", "CTL0", "TR0"} /\ LatchHold
        /\ dar' = dar /\ append_mode' = append_mode
        /\ state' = "CTL0" => wbs_adr4' = ctl_adr[0]
    BY DEF Wait0, Retire, NoAppendClear, Burst
  <1>2. ctl_adr[0] = nFinished + 1
    BY <1>1 DEF QueueInv, RunInv, Oldest0, Oldest1, Last
  <1>3. QED
    BY <1>1, <1>2, Hold0Queue

LEMMA Ctl0Queue ==
  ASSUME TypeOK, AppendModeInv, QueueInv, NEW ack \in BOOLEAN, Counting(ack), Handing,
         Ctl("CTL0", "TR0", ack)
  PROVE  QueueInv'
  <1>1. /\ state = "CTL0" /\ state' \in {"CTL0", "TR0"} /\ LatchHold
        /\ dar' = dar /\ append_mode' = append_mode /\ wbs_adr4' = wbs_adr4
    BY DEF Ctl, NoAppendClear, Beat
  <1>2. wbs_adr4 = nFinished + 1
    BY <1>1 DEF QueueInv, RunInv
  <1>3. QED
    BY <1>1, <1>2, Hold0Queue

LEMMA Tr0Queue ==
  ASSUME TypeOK, AppendModeInv, QueueInv, NEW ack \in BOOLEAN, Counting(ack), Handing,
         NEW cyc_i, Tr("TR0", "CYC0", cyc_i)
  PROVE  QueueInv'
  <1>1. /\ state = "TR0" /\ state' \in {"TR0", "CYC0"} /\ LatchHold
        /\ dar' = dar /\ append_mode' = append_mode
    BY DEF Tr, NoAppendClear
  <1>2. QED
    BY <1>1, Hold0Queue

LEMMA Hold1Queue ==
  ASSUME TypeOK, AppendModeInv, QueueInv, NEW ack \in BOOLEAN, Counting(ack), Handing,
         state \in {"WAIT1", "CTL1", "TR1"}, state' \in {"WAIT1", "CTL1", "TR1", "CYC1"},
         LatchHold, dar' = dar, append_mode' = append_mode,
         state' = "CTL1" => wbs_adr4' = nFinished + 1
  PROVE  QueueInv'
  <1>1. BoundInv'
    BY BoundStep
  <1>2. nStarted' = nStarted /\ nFinished' = nFinished
    BY DEF Counting, Loading
  <1>3. ~append_mode /\ ~append_mode'
    BY DEF AppendModeInv
  <1>4. IdleInv' /\ PassInv' /\ LoadInv'
    BY <1>3 DEF IdleInv, PassInv, LoadInv
  <1>5. /\ nStarted \in Nat /\ submitted \in Nat /\ NJobs \in Nat
        /\ submitted' = submitted /\ submitted' \in submitted..NJobs
    BY <1>3, QueueTypes, HandingCases
  <1>6. Oldest1
    BY DEF QueueInv, RunInv
  <1>7. PICK a \in Nat : a = nStarted
    BY <1>5
  <1>8. \A c \in 0..1 : Last(c, a) => Last(c, a)'
    BY <1>5, LastKept
  <1>9. \A c \in 0..1 : Last(c, nStarted) => Last(c, nStarted)'
    BY <1>2, <1>7, <1>8 DEF Last, ChainTrue
  <1>10. Oldest1'
    BY <1>2, <1>6, <1>9 DEF Oldest1, LatchHold
  <1>11. RunInv'
    BY <1>2, <1>10 DEF RunInv
  <1>12. QED
    BY <1>1, <1>4, <1>11 DEF QueueInv

LEMMA Wait1Queue ==
  ASSUME TypeOK, AppendModeInv, QueueInv, NEW ack \in BOOLEAN, Counting(ack), Handing,
         Wait1
  PROVE  QueueInv'
  <1>1. /\ state = "WAIT1" /\ state' \in {"WAIT1", "CTL1", "TR1"} /\ LatchHold
        /\ dar' = dar /\ append_mode' = append_mode
        /\ state' = "CTL1" => wbs_adr4' = ctl_adr[1]
    BY DEF Wait1, Retire, NoAppendClear, Burst
  <1>2. ctl_adr[1] = nFinished + 1
    BY <1>1 DEF QueueInv, RunInv, Oldest0, Oldest1, Last
  <1>3. QED
    BY <1>1, <1>2, Hold1Queue

LEMMA Ctl1Queue ==
  ASSUME TypeOK, AppendModeInv, QueueInv, NEW ack \in BOOLEAN, Counting(ack), Handing,
         Ctl("CTL1", "TR1", ack)
  PROVE  QueueInv'
  <1>1. /\ state = "CTL1" /\ state' \in {"CTL1", "TR1"} /\ LatchHold
        /\ dar' = dar /\ append_mode' = append_mode /\ wbs_adr4' = wbs_adr4
    BY DEF Ctl, NoAppendClear, Beat
  <1>2. wbs_adr4 = nFinished + 1
    BY <1>1 DEF QueueInv, RunInv
  <1>3. QED
    BY <1>1, <1>2, Hold1Queue

LEMMA Tr1Queue ==
  ASSUME TypeOK, AppendModeInv, QueueInv, NEW ack \in BOOLEAN, Counting(ack), Handing,
         NEW cyc_i, Tr("TR1", "CYC1", cyc_i)
  PROVE  QueueInv'
  <1>1. /\ state = "TR1" /\ state' \in {"TR1", "CYC1"} /\ LatchHold
        /\ dar' = dar /\ append_mode' = append_mode
    BY DEF Tr, NoAppendClear
  <1>2. QED
    BY <1>1, Hold1Queue

(* The oldest job is over. *)
LEMMA Cyc0Queue ==
  ASSUME TypeOK, AppendModeInv, QueueInv, NEW ack \in BOOLEAN, Counting(ack), Handing,
         Cyc0
  PROVE  QueueInv'
  <1>1. /\ state = "CYC0" /\ LatchHold /\ append_mode' = append_mode /\ ~append_mode
        /\ Chain \in dc[0] => state' = "WAIT1" /\ dar' = dar
        /\ Chain \notin dc[0] => state' = "IDLE" /\ dar' = cdar
    BY DEF Cyc0, NoAppendClear, AppendModeInv
  <1>2. nStarted' = nStarted /\ nFinished' = nFinished + 1
    BY <1>1 DEF Counting, Loading
  <1>3. /\ nStarted \in Nat /\ nFinished \in Nat /\ submitted \in Nat /\ NJobs \in Nat
        /\ submitted' = submitted /\ submitted' \in submitted..NJobs
    BY <1>1, QueueTypes, HandingCases
  <1>4. Oldest0
    BY <1>1 DEF QueueInv, RunInv
  <1>5. Chain \notin dc[0] => nStarted = nFinished + 1 /\ cdar = nFinished + 1
    BY <1>4 DEF Oldest0, Last
  <1>6. BoundInv'
    BY <1>1, <1>5, BoundStep
  <1>7. PassInv' /\ LoadInv'
    BY <1>1 DEF PassInv, LoadInv
  <1>8. CASE Chain \in dc[0]
    <2>1. PICK a \in Nat : a = nStarted
      BY <1>3
    <2>2. Last(1, a)'
      BY <1>1, <1>3, <1>4, <1>8, <2>1, LastKept DEF Oldest0
    <2>3. Last(1, nStarted)'
      BY <1>2, <2>1, <2>2 DEF Last, ChainTrue
    <2>4. Oldest1'
      BY <1>2, <1>3, <1>4, <1>8, <2>3 DEF Oldest0, Oldest1
    <2>5. IdleInv' /\ RunInv'
      BY <1>1, <1>8, <2>4 DEF IdleInv, RunInv
    <2>6. QED
      BY <1>6, <1>7, <2>5 DEF QueueInv
  <1>9. CASE Chain \notin dc[0]
    <2>1. IdleInv' /\ RunInv'
      BY <1>1, <1>2, <1>5, <1>9 DEF IdleInv, RunInv
    <2>2. QED
      BY <1>6, <1>7, <2>1 DEF QueueInv
  <1>10. QED
    BY <1>8, <1>9

LEMMA Cyc1Queue ==
  ASSUME TypeOK, AppendModeInv, QueueInv, NEW ack \in BOOLEAN, Counting(ack), Handing,
         Cyc1
  PROVE  QueueInv'
  <1>1. /\ state = "CYC1" /\ LatchHold /\ append_mode' = append_mode /\ ~append_mode
        /\ state' = IF Chain \in dc[1] THEN "NEXT1" ELSE "IDLE"
        /\ dar' = cdar
    BY DEF Cyc1, NoAppendClear, AppendModeInv
  <1>2. nStarted' = nStarted /\ nFinished' = nFinished + 1
    BY <1>1 DEF Counting, Loading
  <1>3. /\ nStarted \in Nat /\ nFinished \in Nat /\ submitted \in Nat /\ NJobs \in Nat
        /\ submitted' = submitted /\ submitted' \in submitted..NJobs
    BY <1>1, QueueTypes, HandingCases
  <1>4. Oldest1
    BY <1>1 DEF QueueInv, RunInv
  <1>5. nStarted = nFinished + 1 /\ cdar = nFinished + 1 /\ Last(1, nStarted)
    BY <1>4 DEF Oldest1, Last
  <1>6. BoundInv'
    BY <1>1, <1>5, BoundStep
  <1>7. PassInv' /\ RunInv'
    BY <1>1 DEF PassInv, RunInv
  <1>8. IdleInv'
    BY <1>1, <1>2, <1>5 DEF IdleInv
  <1>9. PICK a \in Nat : a = nStarted
    BY <1>3
  <1>10. Last(1, a)'
    BY <1>1, <1>3, <1>5, <1>9, LastKept
  <1>11. Last(1, nStarted)'
    BY <1>2, <1>9, <1>10 DEF Last, ChainTrue
  <1>12. LoadInv'
    BY <1>1, <1>2, <1>5, <1>11 DEF LoadInv, LatchHold
  <1>13. QED
    BY <1>6, <1>7, <1>8, <1>12 DEF QueueInv

LEMMA Next1Queue ==
  ASSUME TypeOK, AppendModeInv, OrderlyHost, QueueInv, NEW ack \in BOOLEAN,
         Counting(ack), Handing, Next1
  PROVE  QueueInv'
  <1>1. /\ state = "NEXT1" /\ append_mode' = append_mode /\ ~append_mode /\ dar' = dar
        /\ state' = "CMD0" /\ wbs_adr4' = next_desc /\ inc' = 0
    BY DEF Next1, NoAppendClear, AppendModeInv, Burst
  <1>2. BoundInv'
    BY <1>1, BoundStep
  <1>3. nStarted' = nStarted /\ nFinished' = nFinished
    BY <1>1 DEF Counting, Loading
  <1>4. IdleInv' /\ PassInv' /\ RunInv'
    BY <1>1 DEF IdleInv, PassInv, RunInv
  <1>5. /\ nStarted \in Nat /\ submitted \in Nat /\ submitted' = submitted
    BY <1>1, QueueTypes, HandingCases
  <1>6. nStarted = nFinished /\ HasNext(nStarted) /\ next_desc = Slot(nStarted)
    BY <1>1 DEF QueueInv, LoadInv, Last, ChainTrue
  <1>7. next_desc = nStarted + 1 /\ nStarted < submitted
    BY <1>5, <1>6, NextJob DEF HasNext
  <1>8. Fetch(0, nStarted + 1)'
    BY <1>1, <1>3, <1>7 DEF Fetch
  <1>9. LoadInv'
    BY <1>1, <1>3, <1>5, <1>6, <1>7, <1>8 DEF LoadInv
  <1>10. QED
    BY <1>2, <1>4, <1>9 DEF QueueInv

(* The controller keeps the queue in order. *)
LEMMA MachineQueue ==
  ASSUME IInv, OrderlyHost, QueueInv, MemInv, EnableInv, NdarInv, Handing,
         NEW cyc_i, NEW ack \in BOOLEAN, CtrlMachine(cyc_i, ack), Counting(ack)
  PROVE  QueueInv'
  <1>1. TypeOK /\ AppendModeInv /\ ChainInv
    BY DEF IInv
  <1>2. CASE IdleWait
    BY <1>1, <1>2, IdleWaitQueue
  <1>3. CASE IdleQueue
    BY <1>1, <1>3, IdleQueueQueue
  <1>4. CASE IdleAppend
    BY <1>1, <1>4, IdleAppendQueue
  <1>5. CASE Cmd0(ack)
    BY <1>1, <1>5, Cmd0PassQueue, Cmd0LoadQueue
  <1>6. CASE Next0
    BY <1>1, <1>6, Next0PassQueue, Next0LoadQueue
  <1>7. CASE Cmd1(ack)
    BY <1>1, <1>7, Cmd1Queue
  <1>8. CASE Wait0 \/ Ctl("CTL0", "TR0", ack) \/ Tr("TR0", "CYC0", cyc_i) \/ Cyc0
    BY <1>1, <1>8, Wait0Queue, Ctl0Queue, Tr0Queue, Cyc0Queue
  <1>9. CASE Wait1 \/ Ctl("CTL1", "TR1", ack) \/ Tr("TR1", "CYC1", cyc_i) \/ Cyc1
    BY <1>1, <1>9, Wait1Queue, Ctl1Queue, Tr1Queue, Cyc1Queue
  <1>10. CASE Next1
    BY <1>1, <1>10, Next1Queue
  <1>11. QED
    BY <1>2, <1>3, <1>4, <1>5, <1>6, <1>7, <1>8, <1>9, <1>10 DEF CtrlMachine

-----------------------------------------------------------------------------
(* What the host does in a clock cycle in which the engine is not reset,    *)
(* with the registers of the slave it moves.                                *)

CcrHolds ==
    enable' = enable /\ sys_rst_reg' = sys_rst_reg /\ (append' => append)
CcrSets(e, a, rst) ==
    (enable' <=> e) /\ (append' <=> a) /\ (sys_rst_reg' <=> rst)
NdarHolds == ndar' = ndar /\ (ndar_dirty' <=> ndar_dirty /\ ~ndar_dirty_clear)

Rests(b) ==
    /\ CcrHolds /\ NdarHolds /\ UNCHANGED <<submitted, tail>>
    /\ \/ hpc' = hpc
       \/ hpc = "boot" /\ hpc' = "ready"
       \/ hpc \in {"settle", "scan"} /\ hpc' = "wait"
       \/ hpc = "wait" /\ hpc' = "ready" /\ WaitOn = "busy" /\ ~b
Disables(acc) ==
    /\ hpc = "disable" /\ hpc' = "ndar" /\ acc.cyc
    /\ CcrSets(FALSE, FALSE, FALSE) /\ NdarHolds /\ UNCHANGED <<submitted, tail>>
Queues ==
    /\ hpc = "ndar" /\ hpc' = "go"
    /\ CcrHolds /\ (~enable => ndar' = submitted + 1 /\ ndar_dirty')
    /\ UNCHANGED <<submitted, tail>>
Goes ==
    /\ hpc = "go" /\ hpc' = "settle" /\ settle' = Settle
    /\ CcrSets(TRUE, FALSE, FALSE) /\ NdarHolds /\ submitted' = tail /\ tail' = tail
Appends ==
    /\ hpc = "append" /\ hpc' = "settle"
    /\ CcrSets(TRUE, TRUE, FALSE) /\ NdarHolds /\ submitted' = tail /\ tail' = tail
Acknowledges(intr) ==
    /\ hpc \in {"ready", "wait"} /\ hpc' = "scan" /\ intr
    /\ CcrSets(TRUE, FALSE, FALSE) /\ NdarHolds /\ UNCHANGED <<submitted, tail>>

HostMoves(acc, b, intr) ==
    \/ Rests(b) \/ Disables(acc) \/ Queues \/ Goes \/ Appends \/ Acknowledges(intr)

LEMMA PlainAccess ==
  ASSUME NEW acc \in {NoAccess, CsrRead, CsrWrite({CsrIntEnable})}, WbmStep(acc)
  PROVE  CcrHolds /\ NdarHolds
  <1>1. acc.we => acc.reg = "CSR"
    BY DEF NoAccess, CsrRead, CsrWrite
  <1>2. ~ccr_we(acc) /\ ~ndar_we(acc)
    BY <1>1 DEF ccr_we, ndar_we
  <1>3. NdarHolds
    BY <1>2, Zenon DEF WbmStep, NdarStep, NdarHolds
  <1>4. CcrHolds
    BY <1>2, Zenon DEF WbmStep, CcrStep, CcrHolds
  <1>5. QED
    BY <1>3, <1>4

LEMMA CcrAccess ==
  ASSUME NEW bits, WbmStep(CcrWrite(bits))
  PROVE  /\ CcrEnable \in bits => enable'
         /\ CcrEnable \notin bits => ~enable'
         /\ CcrAppend \in bits => append'
         /\ CcrAppend \notin bits => ~append'
         /\ CcrReset \in bits => sys_rst_reg'
         /\ CcrReset \notin bits => ~sys_rst_reg'
         /\ CcrWrite(bits).cyc /\ NdarHolds
  <1>1. /\ CcrWrite(bits).we /\ CcrWrite(bits).reg = "CCR"
        /\ CcrWrite(bits).cyc /\ CcrWrite(bits).dat = bits
    BY DEF CcrWrite
  <1>2. ccr_we(CcrWrite(bits)) /\ ~ndar_we(CcrWrite(bits))
    BY <1>1 DEF ccr_we, ndar_we
  <1>3. NdarHolds
    BY <1>2, Zenon DEF WbmStep, NdarStep, NdarHolds
  <1>4. /\ enable' = (CcrEnable \in CcrWrite(bits).dat)
        /\ append' = (CcrAppend \in CcrWrite(bits).dat)
        /\ sys_rst_reg' = (CcrReset \in CcrWrite(bits).dat)
    BY <1>2, Zenon DEF WbmStep, CcrStep
  <1>5. /\ enable' = (CcrEnable \in bits)
        /\ append' = (CcrAppend \in bits)
        /\ sys_rst_reg' = (CcrReset \in bits)
    BY <1>1, <1>4
  <1>6. /\ CcrEnable \in bits => enable'
        /\ CcrEnable \notin bits => ~enable'
    BY <1>5, Zenon
  <1>7. /\ CcrAppend \in bits => append'
        /\ CcrAppend \notin bits => ~append'
    BY <1>5, Zenon
  <1>8. /\ CcrReset \in bits => sys_rst_reg'
        /\ CcrReset \notin bits => ~sys_rst_reg'
    BY <1>5, Zenon
  <1>9. QED
    BY <1>1, <1>3, <1>6, <1>7, <1>8

LEMMA NdarAccess ==
  ASSUME NEW a, WbmStep(NdarWrite(a))
  PROVE  CcrHolds /\ (~enable => ndar' = a /\ ndar_dirty')
  <1>1. NdarWrite(a).we /\ NdarWrite(a).reg = "NDAR" /\ NdarWrite(a).adr = a
    BY DEF NdarWrite
  <1>2. ~ccr_we(NdarWrite(a)) /\ (~enable => ndar_we(NdarWrite(a)))
    BY <1>1 DEF ccr_we, ndar_we
  <1>3. ~enable => ndar' = a /\ ndar_dirty'
    BY <1>1, <1>2, Zenon DEF WbmStep, NdarStep
  <1>4. CcrHolds
    BY <1>2, Zenon DEF WbmStep, CcrStep, CcrHolds
  <1>5. QED
    BY <1>3, <1>4

LEMMA HostCases ==
  ASSUME NEW acc, NEW b, NEW intr, NEW n, DriverCycle(acc, b, intr, n), WbmStep(acc)
  PROVE  /\ mem' = mem
         /\ \/ HostMoves(acc, b, intr)
            \/ Reset(acc, n) /\ CcrSets(FALSE, FALSE, TRUE)
  <1>1. CASE EnableInterrupt(acc)
    <2>1. CcrHolds /\ NdarHolds
      BY <1>1, PlainAccess DEF EnableInterrupt, Write
    <2>2. QED
      BY <1>1, <2>1 DEF EnableInterrupt, Write, MemoryHold, HostMoves, Rests
  <1>2. CASE Disable(acc)
    <2>1. CcrSets(FALSE, FALSE, FALSE) /\ NdarHolds /\ acc.cyc
      <3>1. PICK bits : bits = {}
        OBVIOUS
      <3>2. /\ acc = CcrWrite(bits) /\ CcrEnable \notin bits /\ CcrAppend \notin bits
            /\ CcrReset \notin bits
        BY <1>2, <3>1 DEF Disable, Write
      <3>3. ~enable' /\ ~append' /\ ~sys_rst_reg' /\ NdarHolds /\ CcrWrite(bits).cyc
        BY <3>2, CcrAccess
      <3>4. QED
        BY <3>2, <3>3 DEF CcrSets
    <2>2. QED
      BY <1>2, <2>1 DEF Disable, Write, MemoryHold, HostMoves, Disables
  <1>3. CASE QueueJob(acc)
    <2>1. CcrHolds /\ (~enable => ndar' = submitted + 1 /\ ndar_dirty')
      BY <1>3, NdarAccess DEF QueueJob, Write
    <2>2. QED
      BY <1>3, <2>1 DEF QueueJob, Write, MemoryHold, HostMoves, Queues
  <1>4. CASE Go(acc)
    <2>1. CcrSets(TRUE, FALSE, FALSE) /\ NdarHolds
      <3>1. CcrAppend \notin {CcrEnable} /\ CcrReset \notin {CcrEnable}
        BY DEF CcrAppend, CcrEnable, CcrReset
      <3>2. QED
        BY <1>4, <3>1, CcrAccess DEF Go, Wait, Write, CcrSets
    <2>2. QED
      BY <1>4, <2>1 DEF Go, Wait, Write, MemoryHold, HostMoves, Goes
  <1>5. CASE AppendJob(acc)
    <2>1. CcrSets(TRUE, TRUE, FALSE) /\ NdarHolds
      <3>1. /\ acc = CcrWrite({CcrEnable, CcrAppend})
            /\ CcrEnable \in {CcrEnable, CcrAppend} /\ CcrAppend \in {CcrEnable, CcrAppend}
            /\ CcrReset \notin {CcrEnable, CcrAppend}
        BY <1>5 DEF AppendJob, Wait, Write, CcrEnable, CcrAppend, CcrReset
      <3>2. QED
        BY <3>1, CcrAccess DEF CcrSets
    <2>2. QED
      BY <1>5, <2>1 DEF AppendJob, Wait, Write, MemoryHold, HostMoves, Appends
  <1>6. CASE LetPass(acc)
    <2>1. CcrHolds /\ NdarHolds
      BY <1>6, PlainAccess DEF LetPass
    <2>2. QED
      BY <1>6, <2>1 DEF LetPass, MemoryHold, HostMoves, Rests
  <1>7. CASE Poll(acc, b)
    <2>1. CcrHolds /\ NdarHolds
      BY <1>7, PlainAccess DEF Poll, Write
    <2>2. QED
      BY <1>7, <2>1 DEF Poll, Write, MemoryHold, HostMoves, Rests
  <1>8. CASE AckInterrupt(acc, intr)
    <2>1. CcrSets(TRUE, FALSE, FALSE) /\ NdarHolds
      <3>1. CcrAppend \notin {CcrEnable, CcrIntAck} /\ CcrReset \notin {CcrEnable, CcrIntAck}
        BY DEF CcrAppend, CcrEnable, CcrIntAck, CcrReset
      <3>2. QED
        BY <1>8, <3>1, CcrAccess DEF AckInterrupt, Write, CcrSets
    <2>2. QED
      BY <1>8, <2>1 DEF AckInterrupt, Write, MemoryHold, HostMoves, Acknowledges
  <1>9. CASE Scan(acc)
    <2>1. CcrHolds /\ NdarHolds
      BY <1>9, PlainAccess DEF Scan
    <2>2. QED
      BY <1>9, <2>1 DEF Scan, HostMoves, Rests
  <1>10. CASE Reset(acc, n)
    <2>1. CcrSets(FALSE, FALSE, TRUE)
      <3>1. CcrAppend \notin {CcrReset} /\ CcrEnable \notin {CcrReset}
        BY DEF CcrAppend, CcrEnable, CcrReset
      <3>2. QED
        BY <1>10, <3>1, CcrAccess DEF Reset, Write, CcrSets
    <2>2. QED
      BY <1>10, <2>1 DEF Reset, Write, MemoryHold
  <1>11. CASE Quiet(acc)
    <2>1. CcrHolds /\ NdarHolds
      BY <1>11, PlainAccess DEF Quiet
    <2>2. QED
      BY <1>11, <2>1 DEF Quiet, DriverVars, HostMoves, Rests
  <1>12. QED
    BY <1>1, <1>2, <1>3, <1>4, <1>5, <1>6, <1>7, <1>8, <1>9, <1>10, <1>11 DEF DriverCycle

-----------------------------------------------------------------------------
(* Memory and the host's own state in such a cycle *)

LEMMA HostTypes ==
  ASSUME TypeOK
  PROVE  /\ tail \in 0..NJobs /\ submitted \in Nat /\ NJobs \in Nat
         /\ nStarted \in Nat /\ nFinished \in Nat /\ dar \in 0..NJobs
         /\ hpc \in HostStates /\ results \in SUBSET (0..NJobs)
         /\ enable \in BOOLEAN /\ append \in BOOLEAN /\ ndar_dirty \in BOOLEAN
         /\ ndar_dirty_clear \in BOOLEAN /\ append_mode \in BOOLEAN /\ state \in States
  BY QueueTypes DEF TypeOK, DriverTypeOK, CtrlTypeOK, WbmTypeOK

LEMMA HandingStep ==
  ASSUME TypeOK, QueueInv, HostInv, NEW acc, NEW b, NEW intr, HostMoves(acc, b, intr)
  PROVE  Handing
  <1>1. CASE Goes
    <2>1. submitted < tail /\ tail \in 0..NJobs /\ submitted \in Nat
      BY <1>1, HostTypes DEF Goes, HostInv, BuildInv, Building
    <2>2. nStarted = submitted /\ ~enable /\ (state = "IDLE" \/ append_mode)
      BY <1>1 DEF Goes, HostInv, ContentInv, CaughtUp, Content, Building, EnableInv
    <2>3. submitted' \in submitted..NJobs
      BY <1>1, <2>1, HostTypes DEF Goes
    <2>4. QED
      BY <2>2, <2>3 DEF Handing
  <1>2. CASE Appends
    <2>1. tail = submitted
      BY <1>2 DEF Appends, HostInv, TailInv
    <2>2. QED
      BY <1>2, <2>1 DEF Appends, Handing
  <1>3. QED
    BY <1>1, <1>2 DEF HostMoves, Rests, Disables, Queues, Acknowledges, Handing

(* Only a descriptor whose job is over is looked at again. *)
LEMMA DarCases ==
  ASSUME TypeOK, QueueInv, NEW cyc_i, NEW ack, CtrlMachine(cyc_i, ack), Counting(ack)
  PROVE  /\ nFinished' \in {nFinished, nFinished + 1}
         /\ dar' = dar \/ dar' = nFinished + 1
  <1>1. nFinished' \in {nFinished, nFinished + 1}
    BY DEF Counting
  <1>2. dar' = dar \/ (Cyc0 /\ Chain \notin dc[0] /\ dar' = cdar) \/ (Cyc1 /\ dar' = cdar)
    BY DEF CtrlMachine, IdleWait, IdleQueue, IdleAppend, Cmd0, Next0, Cmd1, Wait0,
           Wait1, Ctl, Tr, Cyc0, Cyc1, Next1
  <1>3. /\ Cyc0 /\ Chain \notin dc[0] => cdar = nFinished + 1
        /\ Cyc1 => cdar = nFinished + 1
    BY DEF Cyc0, Cyc1, QueueInv, RunInv, Oldest0, Oldest1, Last
  <1>4. QED
    BY <1>1, <1>2, <1>3

LEMMA MemStep ==
  ASSUME TypeOK, QueueInv, MemInv, HostInv, NEW acc, NEW b, NEW intr, mem' = mem,
         HostMoves(acc, b, intr), NEW cyc_i, NEW ack, CtrlMachine(cyc_i, ack), Counting(ack)
  PROVE  MemInv'
  <1>1. /\ submitted \in Nat /\ nFinished \in Nat /\ tail \in 0..NJobs /\ NJobs \in Nat
        /\ nFinished <= submitted /\ nFinished' \in {nFinished, nFinished + 1}
        /\ dar' = dar \/ dar' = nFinished + 1
    BY HostTypes, DarCases DEF QueueInv, BoundInv
  <1>2. CASE Goes
    <2>1. /\ submitted' = tail /\ tail' = tail /\ submitted < tail
          /\ \A a \in 0..NJobs : submitted < a /\ a <= tail =>
               /\ Chain \in mem[a].dc => a < tail
               /\ NoAppend /\ a < tail => Chain \in mem[a].dc
      BY <1>2 DEF Goes, HostInv, BuildInv, Building
    <2>2. SlotInv'
      <3>1. \A a \in 0..NJobs : a <= tail => mem'[a].next = Slot(a)
        BY DEF MemInv, SlotInv
      <3>2. QED
        BY <2>1, <3>1, SlotConstant DEF SlotInv
    <2>3. LinkInv'
      <3>1. ASSUME NEW a \in 0..NJobs, a \in {0, dar'} \/ a > nFinished',
                   a <= tail, Chain \in mem[a].dc
            PROVE  0 < a /\ a < tail
        <4>1. a \in {0, dar} \/ a > nFinished
          BY <1>1, <3>1
        <4>2. CASE a <= submitted
          BY <1>1, <2>1, <3>1, <4>1, <4>2 DEF MemInv, LinkInv, HasNext
        <4>3. CASE submitted < a
          BY <1>1, <2>1, <3>1, <4>3
        <4>4. QED
          BY <1>1, <4>2, <4>3
      <3>2. QED
        BY <2>1, <3>1 DEF LinkInv, HasNext
    <2>4. FullInv'
      <3>1. NoAppend => nFinished = submitted
        BY <1>2 DEF Goes, HostInv, ContentInv, CaughtUp, Content, Building, QueueInv, PassInv, IdleInv
      <3>2. ASSUME NEW a \in 0..NJobs, NoAppend, nFinished' < a, a < tail
            PROVE  Chain \in mem[a].dc
        BY <1>1, <2>1, <3>1, <3>2
      <3>3. QED
        BY <2>1, <3>2, NoAppendConstant DEF FullInv
    <2>5. QED
      BY <2>2, <2>3, <2>4 DEF MemInv
  <1>3. CASE submitted' = submitted /\ tail' = tail
    <2>1. SlotInv'
      BY <1>3, SlotConstant DEF MemInv, SlotInv
    <2>2. LinkInv'
      <3>1. ASSUME NEW a \in 0..NJobs, a \in {0, dar'} \/ a > nFinished'
            PROVE  a \in {0, dar} \/ a > nFinished
        BY <1>1, <3>1
      <3>2. QED
        BY <1>3, <3>1 DEF MemInv, LinkInv, HasNext
    <2>3. FullInv'
      <3>1. ASSUME NEW a \in 0..NJobs, nFinished' < a PROVE nFinished < a
        BY <1>1, <3>1
      <3>2. QED
        BY <1>3, <3>1, NoAppendConstant DEF MemInv, FullInv
    <2>4. QED
      BY <2>1, <2>2, <2>3 DEF MemInv
  <1>4. CASE Appends
    BY <1>3, <1>4 DEF Appends, HostInv, TailInv
  <1>5. QED
    BY <1>2, <1>3, <1>4 DEF HostMoves, Rests, Disables, Queues, Acknowledges

(* The block that is written is that of the oldest job. *)
LEMMA ResultsCases ==
  ASSUME TypeOK, QueueInv, NEW cyc_i, NEW ack \in BOOLEAN, CtrlMachine(cyc_i, ack),
         HistoryStep(ack, FALSE)
  PROVE  \/ results' = results
         \/ /\ results' = results \cup {nFinished + 1}
            /\ state \in {"CTL0", "CTL1"} /\ state' \in {"TR0", "TR1"}
            /\ nFinished + 1 <= submitted
  <1>1. nStarted \in Nat /\ nFinished \in Nat /\ submitted \in Nat /\ nStarted <= submitted
    BY HostTypes DEF QueueInv, BoundInv
  <1>2. CASE LastBeat(ack) /\ state = "CTL0"
    <2>1. ctl_adr[0] = nFinished + 1 /\ nFinished + 1 <= nStarted
      BY <1>1, <1>2 DEF QueueInv, RunInv, Oldest0
    <2>2. results' = results \cup {ctl_adr[0]}
      BY <1>2 DEF HistoryStep
    <2>3. state' = "TR0"
      BY <1>2 DEF CtrlMachine, IdleWait, IdleQueue, IdleAppend, Cmd0, Next0, Cmd1, Wait0,
             Wait1, Ctl, Tr, Cyc0, Cyc1, Next1
    <2>4. QED
      BY <1>1, <1>2, <2>1, <2>2, <2>3
  <1>3. CASE LastBeat(ack) /\ state = "CTL1"
    <2>1. ctl_adr[1] = nFinished + 1 /\ nFinished + 1 <= nStarted
      BY <1>1, <1>3 DEF QueueInv, RunInv, Oldest1, Last
    <2>2. results' = results \cup {ctl_adr[1]}
      BY <1>3 DEF HistoryStep
    <2>3. state' = "TR1"
      BY <1>3 DEF CtrlMachine, IdleWait, IdleQueue, IdleAppend, Cmd0, Next0, Cmd1, Wait0,
             Wait1, Ctl, Tr, Cyc0, Cyc1, Next1
    <2>4. QED
      BY <1>1, <1>3, <2>1, <2>2, <2>3
  <1>4. QED
    BY <1>2, <1>3 DEF HistoryStep

LEMMA BuildStep ==
  ASSUME TypeOK, QueueInv, HostInv, NEW acc, NEW b, NEW intr, mem' = mem,
         HostMoves(acc, b, intr), NEW cyc_i, NEW ack \in BOOLEAN,
         CtrlMachine(cyc_i, ack), HistoryStep(ack, FALSE)
  PROVE  BuildInv'
  <1> SUFFICES ASSUME hpc' \in Building PROVE BuildInv'
    BY DEF BuildInv, Building
  <1>1. hpc \in Building /\ submitted' = submitted /\ tail' = tail
    BY DEF HostMoves, Rests, Disables, Queues, Goes, Appends, Acknowledges, Building
  <1>2. /\ submitted \in Nat /\ nFinished \in Nat /\ NJobs \in Nat
    BY HostTypes
  <1>3. \A a \in 0..NJobs : submitted < a /\ a \in results' => a \in results
    <2>1. \/ results' = results
          \/ results' = results \cup {nFinished + 1} /\ nFinished + 1 <= submitted
      BY ResultsCases
    <2>2. QED
      BY <1>2, <2>1
  <1>4. QED
    BY <1>1, <1>3, NoAppendConstant DEF HostInv, BuildInv

LEMMA TailStep ==
  ASSUME TypeOK, HostInv, NEW acc, NEW b, NEW intr, HostMoves(acc, b, intr)
  PROVE  TailInv'
  <1>1. CASE Goes
    BY <1>1 DEF Goes, TailInv, Building
  <1>2. CASE Appends
    BY <1>2 DEF Appends, TailInv
  <1>3. CASE Disables(acc) \/ Queues
    BY <1>3 DEF Disables, Queues, TailInv, Building
  <1>4. CASE Rests(b) \/ Acknowledges(intr)
    <2>1. /\ hpc' \in Building <=> hpc \in Building
          /\ hpc' = "append" => hpc = "append"
          /\ submitted' = submitted /\ tail' = tail
      BY <1>4 DEF Rests, Acknowledges, Building
    <2>2. QED
      BY <2>1, NoAppendConstant DEF HostInv, TailInv
  <1>5. QED
    BY <1>1, <1>2, <1>3, <1>4 DEF HostMoves

(* A job being retired is retired until it is finished. *)
LEMMA RetiringCases ==
  ASSUME NEW cyc_i, NEW ack, CtrlMachine(cyc_i, ack), Counting(ack), state \in Retiring
  PROVE  \/ nFinished' = nFinished + 1
         \/ nFinished' = nFinished /\ state' \in Retiring
  BY DEF Counting, Retiring, CtrlMachine, IdleWait, IdleQueue, IdleAppend, Cmd0, Next0,
         Cmd1, Wait0, Wait1, Ctl, Tr, Cyc0, Cyc1, Next1

LEMMA ResultsStep ==
  ASSUME TypeOK, QueueInv, HostInv, NEW acc, NEW b, NEW intr,
         HostMoves(acc, b, intr), NEW cyc_i, NEW ack \in BOOLEAN,
         CtrlMachine(cyc_i, ack), HistoryStep(ack, FALSE), Counting(ack)
  PROVE  ResultsInv'
  <1> SUFFICES ASSUME NEW a \in results', nFinished' < a, a <= submitted'
               PROVE  a = nFinished' + 1 /\ state' \in Retiring
    BY DEF ResultsInv
  <1>1. /\ submitted \in Nat /\ nFinished \in Nat /\ tail \in 0..NJobs
        /\ nFinished' \in {nFinished, nFinished + 1} /\ results \in SUBSET (0..NJobs)
        /\ NJobs \in Nat
    BY HostTypes, DarCases
  <1>2. CASE a \in results
    <2>1. a \in 0..NJobs /\ nFinished < a
      BY <1>1, <1>2
    <2>2. a <= submitted
      <3>1. CASE submitted' = submitted
        BY <3>1
      <3>2. CASE Goes
        <4>1. submitted' = tail /\ \A k \in 0..NJobs : submitted < k /\ k <= tail => k \notin results
          BY <3>2 DEF Goes, HostInv, BuildInv, Building
        <4>2. QED
          BY <1>1, <1>2, <2>1, <4>1
      <3>3. CASE Appends
        BY <3>3 DEF Appends, HostInv, TailInv
      <3>4. QED
        BY <3>1, <3>2, <3>3 DEF HostMoves, Rests, Disables, Queues, Acknowledges
    <2>3. a = nFinished + 1 /\ state \in Retiring
      BY <1>2, <2>1, <2>2 DEF HostInv, ResultsInv
    <2>4. nFinished' = nFinished /\ state' \in Retiring
      <3>1. nFinished' # nFinished + 1
        BY <1>1, <2>3
      <3>2. QED
        BY <2>3, <3>1, RetiringCases
    <2>5. QED
      BY <2>3, <2>4
  <1>3. CASE a \notin results
    <2>1. a = nFinished + 1 /\ state \in {"CTL0", "CTL1"} /\ state' \in {"TR0", "TR1"}
      BY <1>3, ResultsCases
    <2>2. nFinished' = nFinished
      BY <2>1 DEF Counting
    <2>3. QED
      BY <2>1, <2>2 DEF Retiring
  <1>4. QED
    BY <1>2, <1>3

(* A controller that has caught up with its host only looks again at the    *)
(* job it retired last, finishes the one it is retiring, or takes a queue.  *)
LEMMA CaughtUpStep ==
  ASSUME TypeOK, AppendModeInv, QueueInv, NdarInv, CaughtUp, NEW cyc_i, NEW ack,
         CtrlMachine(cyc_i, ack), Counting(ack)
  PROVE  /\ nStarted' = nStarted /\ nStarted <= nFinished' + 1
         /\ append_mode' \/ state' = "IDLE" \/ state' \in Retiring
         /\ state' \in Retiring => state \in {"TR0", "TR1"}
         /\ state' \in {"TR0", "TR1"} => state \in {"TR0", "TR1"} /\ ~cyc_i
         /\ state = "IDLE" /\ ~append => state' = "IDLE"
         /\ state # "IDLE" \/ ~enable => ~ndar_dirty_clear'
  <1>1. /\ nStarted \in Nat /\ nFinished \in Nat /\ submitted \in Nat /\ dar \in Nat
        /\ nFinished <= nStarted
    BY QueueTypes DEF QueueInv, BoundInv
  <1>2. nStarted' = nStarted
    BY DEF Counting, Loading, CaughtUp, Retiring, AppendModeInv
  <1>3. nStarted <= nFinished' + 1
    BY <1>1, DarCases DEF CaughtUp
  <1>4. ~HasNext(nStarted)
    BY <1>1 DEF CaughtUp, HasNext
  <1>5. CASE state = "IDLE"
    <2>1. ~append_mode /\ ~IdleQueue
      <3>1. ~(nStarted < submitted)
        BY <1>1 DEF CaughtUp
      <3>2. ~Pending /\ ~ndar_dirty_clear
        BY <1>5, <3>1 DEF NdarInv
      <3>3. QED
        BY <1>5, <3>2 DEF AppendModeInv, Pending, IdleQueue
    <2>2. IdleWait \/ IdleAppend
      BY <1>5, <2>1 DEF CtrlMachine, IdleWait, Cmd0, Next0, Cmd1, Wait0,
             Wait1, Ctl, Tr, Cyc0, Cyc1, Next1
    <2>3. CASE IdleWait
      BY <1>2, <1>3, <1>5, <2>3 DEF IdleWait, NoDirtyClear, Retiring
    <2>4. CASE IdleAppend
      BY <1>2, <1>3, <1>5, <2>4 DEF IdleAppend, Retiring
    <2>5. QED
      BY <2>2, <2>3, <2>4
  <1>6. CASE append_mode
    <2>1. nStarted = nFinished /\ dar \in {0, nFinished}
      BY <1>6 DEF QueueInv, IdleInv
    <2>2. ~HasNext(dar)
      BY <1>1, <1>4, <2>1 DEF HasNext
    <2>3. state = "NEXT0" => Chain \notin dc[0]
      BY <1>6, <2>2 DEF QueueInv, PassInv, Last, ChainTrue
    <2>4. state \in {"CMD0", "NEXT0"}
      BY <1>6 DEF AppendModeInv
    <2>5. CASE state = "CMD0"
      <3>1. Cmd0(ack)
        BY <2>5 DEF CtrlMachine, IdleWait, IdleQueue, IdleAppend, Next0, Cmd1, Wait0,
               Wait1, Ctl, Tr, Cyc0, Cyc1, Next1
      <3>2. QED
        BY <1>2, <1>3, <1>6, <2>5, <3>1 DEF Cmd0, NoAppendClear, NoDirtyClear, Retiring
    <2>6. CASE state = "NEXT0"
      <3>1. Next0
        BY <2>6 DEF CtrlMachine, IdleWait, IdleQueue, IdleAppend, Cmd0, Cmd1, Wait0,
               Wait1, Ctl, Tr, Cyc0, Cyc1, Next1
      <3>2. QED
        BY <1>2, <1>3, <1>6, <2>3, <2>6, <3>1 DEF Next0, NoDirtyClear, Retiring
    <2>7. QED
      BY <2>4, <2>5, <2>6
  <1>7. CASE state \in {"TR0", "TR1"}
    <2>1. Tr("TR0", "CYC0", cyc_i) \/ Tr("TR1", "CYC1", cyc_i)
      BY <1>7 DEF CtrlMachine, IdleWait, IdleQueue, IdleAppend, Cmd0, Next0, Cmd1, Wait0,
             Wait1, Ctl, Cyc0, Cyc1, Next1
    <2>2. QED
      BY <1>2, <1>3, <1>7, <2>1 DEF Tr, NoDirtyClear, Retiring
  <1>8. CASE state = "CYC0"
    <2>1. Cyc0
      BY <1>8 DEF CtrlMachine, IdleWait, IdleQueue, IdleAppend, Cmd0, Next0, Cmd1, Wait0,
             Wait1, Ctl, Tr, Cyc1, Next1
    <2>2. Chain \notin dc[0]
      BY <1>1, <1>8 DEF QueueInv, RunInv, Oldest0, CaughtUp
    <2>3. QED
      BY <1>2, <1>3, <1>8, <2>1, <2>2 DEF Cyc0, NoDirtyClear, Retiring
  <1>9. CASE state = "CYC1"
    <2>1. Cyc1
      BY <1>9 DEF CtrlMachine, IdleWait, IdleQueue, IdleAppend, Cmd0, Next0, Cmd1, Wait0,
             Wait1, Ctl, Tr, Cyc0, Next1
    <2>2. Chain \notin dc[1]
      BY <1>4, <1>9 DEF QueueInv, RunInv, Oldest1, Last, ChainTrue
    <2>3. QED
      BY <1>2, <1>3, <1>9, <2>1, <2>2 DEF Cyc1, NoDirtyClear, Retiring
  <1>10. QED
    BY <1>5, <1>6, <1>7, <1>8, <1>9 DEF CaughtUp, Retiring

LEMMA ContentStep ==
  ASSUME OrderlyHost, TypeOK, AppendModeInv, QueueInv, HostInv, NEW acc, NEW intr,
         HostMoves(acc, busy, intr), NEW ack,
         CtrlMachine(acc.cyc, ack), Counting(ack)
  PROVE  ContentInv'
  <1>1. /\ nStarted \in Nat /\ nFinished \in Nat /\ submitted \in Nat
        /\ nFinished <= nStarted
    BY QueueTypes DEF QueueInv, BoundInv
  <1>2. SUFFICES ASSUME hpc' \in Content PROVE ContentInv'
    BY DEF ContentInv, Content, Building
  <1>3. submitted' = submitted
    BY <1>2 DEF HostMoves, Rests, Disables, Queues, Goes, Appends, Acknowledges, Content, Building
  <1>4. hpc \in Content \/ (hpc = "wait" /\ hpc' = "ready" /\ WaitOn = "busy" /\ ~busy)
    BY <1>2 DEF HostMoves, Rests, Disables, Queues, Goes, Appends, Acknowledges, Content, Building
  <1>5. /\ CaughtUp /\ ((WaitOn # "results") => state = "IDLE" /\ ~append)
    <2>1. (WaitOn # "results") => NoAppend /\ ~append
      BY DEF OrderlyHost, NoAppend, HostInv, EnableInv
    <2>2. CASE hpc \in Content
      BY <2>1, <2>2 DEF HostInv, ContentInv
    <2>3. CASE hpc = "wait" /\ WaitOn = "busy" /\ ~busy
      <3>1. state = "IDLE" /\ NoAppend
        BY <2>1, <2>3 DEF busy
      <3>2. nStarted = submitted
        BY <2>3, <3>1 DEF HostInv, NdarInv
      <3>3. nStarted = nFinished
        BY <3>1 DEF QueueInv, IdleInv
      <3>4. QED
        BY <1>1, <2>1, <3>1, <3>2, <3>3 DEF CaughtUp
    <2>4. QED
      BY <1>4, <2>2, <2>3
  <1>6. /\ nStarted' = nStarted /\ nStarted <= nFinished' + 1
        /\ append_mode' \/ state' = "IDLE" \/ state' \in Retiring
        /\ state' \in Retiring => state \in {"TR0", "TR1"}
        /\ state' \in {"TR0", "TR1"} => state \in {"TR0", "TR1"} /\ ~acc.cyc
        /\ state = "IDLE" /\ ~append => state' = "IDLE"
        /\ state # "IDLE" \/ ~enable => ~ndar_dirty_clear'
    BY <1>5, CaughtUpStep DEF HostInv
  <1>7. CaughtUp' /\ ((WaitOn # "results") => state' = "IDLE")
    BY <1>3, <1>5, <1>6 DEF CaughtUp
  <1>8. hpc' = "ndar" => state' \notin {"TR0", "TR1"}
    <2>1. hpc' = "ndar" => Disables(acc) \/ hpc = "ndar"
      BY DEF HostMoves, Rests, Disables, Queues, Goes, Appends, Acknowledges
    <2>2. QED
      BY <1>6, <2>1 DEF HostInv, ContentInv, Disables
  <1>9. CASE hpc' = "go"
    <2>1. Queues \/ (hpc = "go" /\ Rests(busy))
      BY <1>9 DEF HostMoves, Rests, Disables, Queues, Goes, Appends, Acknowledges
    <2>2. hpc \in {"ndar", "go"} /\ ~enable
      BY <2>1 DEF Queues, HostInv, EnableInv
    <2>3. state' \notin Retiring
      BY <1>6, <2>2 DEF HostInv, ContentInv, Retiring
    <2>4. ~ndar_dirty_clear'
      BY <1>6, <2>2
    <2>5. ndar' = submitted + 1 /\ ndar_dirty'
      BY <2>1, <2>2 DEF Queues, Rests, NdarHolds, HostInv, ContentInv
    <2>6. QED
      BY <1>3, <1>7, <1>8, <2>3, <2>4, <2>5 DEF ContentInv
  <1>10. CASE hpc' # "go"
    BY <1>7, <1>8, <1>10 DEF ContentInv
  <1>11. QED
    BY <1>9, <1>10

LEMMA EnableStep ==
  ASSUME TypeOK, HostInv, NEW acc, HostMoves(acc, busy, wb_int_o), ~sys_rst_reg',
         NEW cyc_i, NEW ack, CtrlMachine(cyc_i, ack)
  PROVE  EnableInv'
  <1>1. ~enable => hpc \in Content
    BY DEF HostInv, EnableInv
  <1>2. hpc' \in {"boot", "ndar", "go"} => ~enable'
    BY DEF HostMoves, Rests, Disables, Queues, Goes, Appends, Acknowledges, CcrHolds,
           CcrSets, HostInv, EnableInv
  <1>3. ~enable' => hpc' \in Content
    BY <1>1 DEF HostMoves, Rests, Disables, Queues, Goes, Appends, Acknowledges, CcrHolds,
           CcrSets, Content, Building
  <1>4. ASSUME ~enable', hpc' \in {"boot", "ready"}
        PROVE  tail' = 0 /\ ~wb_int_reg' /\ state' = "IDLE"
    <2>1. ~enable /\ hpc \in {"boot", "ready"} /\ tail' = tail
      BY <1>1, <1>4 DEF HostMoves, Rests, Disables, Queues, Goes, Appends, Acknowledges,
             CcrHolds, CcrSets, Content, Building
    <2>2. tail = 0 /\ ~wb_int_reg /\ state = "IDLE"
      BY <2>1 DEF HostInv, EnableInv
    <2>3. IdleWait
      BY <2>1, <2>2 DEF CtrlMachine, IdleQueue, IdleAppend, Cmd0, Next0, Cmd1, Wait0,
             Wait1, Ctl, Tr, Cyc0, Cyc1, Next1
    <2>4. QED
      BY <2>1, <2>2, <2>3 DEF IdleWait, IntStep, wb_int_o
  <1>5. append' => ~NoAppend
    BY DEF HostMoves, Rests, Disables, Queues, Goes, Appends, Acknowledges, CcrHolds,
           CcrSets, HostInv, EnableInv, TailInv
  <1>6. QED
    BY <1>2, <1>3, <1>4, <1>5, NoAppendConstant DEF EnableInv

(* An append pass over a job without a successor ends the pass. *)
LEMMA PassChain ==
  ASSUME TypeOK, AppendModeInv, QueueInv, append_mode, Chain \notin mem[dar].dc,
         inc > 1 \/ state = "NEXT0" => Chain \notin dc[0],
         NEW cyc_i, NEW ack \in BOOLEAN, CtrlMachine(cyc_i, ack), Counting(ack)
  PROVE  /\ nStarted' = nStarted /\ dar' = dar /\ (state' = "IDLE" \/ append_mode')
         /\ append_mode' /\ (inc' > 1 \/ state' = "NEXT0") => Chain \notin dc'[0]
  <1>1. state \in {"CMD0", "NEXT0"} /\ nStarted' = nStarted
    BY DEF AppendModeInv, Counting, Loading
  <1>2. CASE state = "CMD0"
    <2>1. Cmd0(ack)
      BY <1>2 DEF CtrlMachine, IdleWait, IdleQueue, IdleAppend, Next0, Cmd1, Wait0,
             Wait1, Ctl, Tr, Cyc0, Cyc1, Next1
    <2>2. dar' = dar /\ append_mode' /\ Beat(ack) /\ Latch(0, ack)
          /\ state' = IF LastBeat(ack) THEN "NEXT0" ELSE "CMD0"
      BY <2>1 DEF Cmd0, NoAppendClear
    <2>3. wbs_adr4 = dar
      BY <1>2 DEF QueueInv, PassInv, Fetch
    <2>4. inc \in 0..3
      BY QueueTypes
    <2>5. (~ack => inc' = inc) /\ (ack => inc' = IF inc = 3 THEN 0 ELSE inc + 1)
      BY <2>2, BeatRegisters
    <2>6. /\ ~(ack /\ inc = 1) => dc'[0] = dc[0]
          /\ ack /\ inc = 1 => dc'[0] = mem[dar].dc
      BY <2>2, <2>3, BeatRegisters
    <2>7. inc' > 1 \/ state' = "NEXT0" => inc > 1 \/ (ack /\ inc = 1)
      BY <2>2, <2>4, <2>5 DEF LastBeat
    <2>8. inc' > 1 \/ state' = "NEXT0" => Chain \notin dc'[0]
      BY <2>4, <2>6, <2>7
    <2>9. QED
      BY <1>1, <2>2, <2>8
  <1>3. CASE state = "NEXT0"
    <2>1. Next0
      BY <1>3 DEF CtrlMachine, IdleWait, IdleQueue, IdleAppend, Cmd0, Cmd1, Wait0,
             Wait1, Ctl, Tr, Cyc0, Cyc1, Next1
    <2>2. QED
      BY <1>1, <1>3, <2>1 DEF Next0
  <1>4. QED
    BY <1>1, <1>2, <1>3

LEMMA NdarStepKeeps ==
  ASSUME OrderlyHost, TypeOK, AppendModeInv, QueueInv, MemInv, HostInv, mem' = mem,
         NEW acc, HostMoves(acc, busy, wb_int_o),
         NEW cyc_i, NEW ack \in BOOLEAN, CtrlMachine(cyc_i, ack), Counting(ack)
  PROVE  NdarInv'
  <1>1. /\ nStarted \in Nat /\ nFinished \in Nat /\ submitted \in Nat
        /\ dar \in 0..NJobs /\ tail \in 0..NJobs /\ NJobs \in Nat
        /\ nFinished <= nStarted /\ nStarted <= submitted
    BY HostTypes DEF QueueInv, BoundInv
  <1>2. ndar_dirty_clear' => state' = "CMD0"
    BY DEF NoDirtyClear, CtrlMachine, IdleWait, IdleQueue, IdleAppend, Cmd0, Next0, Cmd1, Wait0,
           Wait1, Ctl, Tr, Cyc0, Cyc1, Next1
  <1>3. CASE Goes
    <2>1. /\ CaughtUp /\ ~enable /\ state \notin Retiring /\ ndar = submitted + 1
          /\ ndar_dirty /\ ~ndar_dirty_clear /\ submitted < tail
      BY <1>3 DEF Goes, HostInv, ContentInv, Content, Building, EnableInv, BuildInv
    <2>2. /\ nStarted' = nStarted /\ ~ndar_dirty_clear'
          /\ append_mode' \/ state' = "IDLE"
      <3>1. NdarInv
        BY DEF HostInv
      <3>2. /\ nStarted' = nStarted
            /\ append_mode' \/ state' = "IDLE" \/ state' \in Retiring
            /\ state' \in Retiring => state \in {"TR0", "TR1"}
            /\ state # "IDLE" \/ ~enable => ~ndar_dirty_clear'
        BY <2>1, <3>1, CaughtUpStep
      <3>3. QED
        BY <2>1, <3>2 DEF Retiring
    <2>3. nStarted = nFinished /\ dar \in {0, nFinished} /\ nStarted = submitted
      BY <2>1 DEF CaughtUp, QueueInv, IdleInv
    <2>4. ~HasNext(dar)
      BY <1>1, <2>3 DEF HasNext
    <2>5. Chain \notin mem[dar].dc
      BY <1>1, <2>3, <2>4 DEF MemInv, LinkInv
    <2>6. dar' = dar
      BY <2>1 DEF Retiring, CtrlMachine, IdleWait, IdleQueue, IdleAppend, Cmd0, Next0, Cmd1, Wait0,
             Wait1, Ctl, Tr, Cyc0, Cyc1, Next1
    <2>7. append_mode' /\ (inc' > 1 \/ state' = "NEXT0") => Chain \notin dc'[0]
      <3>1. CASE append_mode
        <4>1. inc > 1 \/ state = "NEXT0" => Chain \notin dc[0]
          BY <2>4, <3>1 DEF AppendModeInv, QueueInv, PassInv, Fetch, Last, ChainTrue
        <4>2. QED
          BY <2>5, <3>1, <4>1, PassChain
      <3>2. CASE ~append_mode
        <4>1. state = "IDLE" /\ ~enable
          BY <2>1, <3>2 DEF CaughtUp
        <4>2. ~append_mode'
          BY <3>2, <4>1 DEF NoAppendClear, CtrlMachine, IdleWait, IdleQueue, IdleAppend, Cmd0, Next0, Cmd1, Wait0,
                 Wait1, Ctl, Tr, Cyc0, Cyc1, Next1
        <4>3. QED
          BY <4>2
      <3>3. QED
        BY <3>1, <3>2
    <2>8. /\ enable' /\ ndar_dirty' /\ ndar' = ndar /\ submitted' = tail
          /\ hpc' = "settle" /\ settle' = Settle
      BY <1>3, <2>1 DEF Goes, CcrSets, NdarHolds
    <2>9. ndar' = nStarted' + 1 /\ nStarted' < submitted'
      BY <1>1, <2>1, <2>2, <2>3, <2>8
    <2>10. Pending'
      BY <2>2, <2>8 DEF Pending
    <2>11. QED
      BY <1>2, <2>2, <2>5, <2>6, <2>7, <2>8, <2>9, <2>10 DEF NdarInv
  <1>4. CASE ~Goes
    <2>1. submitted' = submitted
      BY <1>4 DEF HostMoves, Rests, Disables, Queues, Appends, Acknowledges, HostInv, TailInv
    <2>2. Pending' => Pending /\ ndar' = ndar
      <3>1. Queues => ~enable'
        BY DEF Queues, CcrHolds, HostInv, EnableInv
      <3>2. Appends \/ Acknowledges(wb_int_o) => enable
        BY DEF Appends, Acknowledges, HostInv, EnableInv, Content, Building, wb_int_o
      <3>3. Rests(busy) /\ enable' => enable
        BY DEF Rests, CcrHolds
      <3>4. Disables(acc) => ~enable'
        BY DEF Disables, CcrSets
      <3>5. Pending' => enable /\ NdarHolds
        BY <1>4, <3>1, <3>2, <3>3, <3>4 DEF Pending, HostMoves, Rests, Appends, Acknowledges
      <3>6. QED
        BY <3>5 DEF Pending, NdarHolds
    <2>3. ASSUME Pending'
          PROVE  /\ ndar' = nStarted' + 1 /\ nStarted' < submitted'
                 /\ state' = "IDLE" \/ append_mode'
                 /\ Chain \notin mem'[dar'].dc
                 /\ append_mode' /\ (inc' > 1 \/ state' = "NEXT0") => Chain \notin dc'[0]
      <3>1. /\ Pending /\ ndar' = ndar /\ ndar = nStarted + 1 /\ nStarted < submitted
            /\ state = "IDLE" \/ append_mode
            /\ Chain \notin mem[dar].dc
            /\ append_mode /\ (inc > 1 \/ state = "NEXT0") => Chain \notin dc[0]
        BY <2>2, <2>3 DEF HostInv, NdarInv
      <3>2. state # "IDLE"
        BY <2>3, <3>1 DEF Pending, CtrlMachine, IdleWait, IdleQueue, IdleAppend, Cmd0, Next0, Cmd1, Wait0,
               Wait1, Ctl, Tr, Cyc0, Cyc1, Next1
      <3>3. QED
        BY <2>1, <3>1, <3>2, PassChain
    <2>4. ASSUME NoAppend, state' = "IDLE"
          PROVE  nStarted' = submitted'
      <3>1. ~append_mode
        BY <2>4 DEF QueueInv, PassInv
      <3>2. \/ IdleWait
            \/ Cyc0 /\ Chain \notin dc[0]
            \/ Cyc1 /\ Chain \notin dc[1]
        BY <2>4, <3>1 DEF Retire, CtrlMachine, IdleWait, IdleQueue, IdleAppend, Cmd0, Next0, Cmd1, Wait0,
               Wait1, Ctl, Tr, Cyc0, Cyc1, Next1
      <3>3. nStarted' = nStarted
        BY <3>2 DEF Counting, Loading, IdleWait, Cyc0, Cyc1
      <3>4. nStarted = submitted
        <4>1. CASE IdleWait
          BY <4>1, <2>4 DEF IdleWait, HostInv, NdarInv, Pending
        <4>2. CASE Cyc0 /\ Chain \notin dc[0]
          <5>1. nStarted = nFinished + 1 /\ ~HasNext(nStarted)
            BY <2>4, <4>2 DEF Cyc0, QueueInv, RunInv, Oldest0, Last, ChainTrue
          <5>2. QED
            BY <1>1, <5>1 DEF HasNext
        <4>3. CASE Cyc1 /\ Chain \notin dc[1]
          <5>1. nStarted = nFinished + 1 /\ ~HasNext(nStarted)
            BY <2>4, <4>3 DEF Cyc1, QueueInv, RunInv, Oldest1, Last, ChainTrue
          <5>2. QED
            BY <1>1, <5>1 DEF HasNext
        <4>4. QED
          BY <3>2, <4>1, <4>2, <4>3
      <3>5. QED
        BY <2>1, <3>3, <3>4
    <2>5. QED
      BY <1>2, <2>3, <2>4, NoAppendConstant DEF NdarInv
  <1>5. QED
    BY <1>3, <1>4

-----------------------------------------------------------------------------
(* The host's stores to memory *)

LEMMA PlainWord ==
  ASSUME OrderlyHost, NEW w \in Words PROVE Chain \notin w /\ Chain \in w \cup {ChainBit}
  BY SizesAssumption DEF OrderlyHost

LEMMA ChainBuilt ==
  ASSUME OrderlyHost, TypeOK, BuildChain
  PROVE  /\ tail' \in 0..NJobs /\ submitted < tail' /\ results' \subseteq results
         /\ \A a \in 0..NJobs : a <= submitted => mem'[a] = mem[a]
         /\ \A a \in 0..NJobs : submitted < a /\ a <= tail' =>
               /\ a \notin results' /\ mem'[a].next = Slot(a)
               /\ Chain \in mem'[a].dc <=> a < tail'
  <1>1. submitted \in Nat /\ NJobs \in Nat
    BY HostTypes
  <1>2. PICK last \in (submitted + 1)..NJobs :
          \E w \in [(submitted + 1)..last -> Words] :
            /\ mem' = [a \in 0..NJobs |->
                 CASE a \in DOMAIN w /\ a < last ->
                        [next |-> a + 1, dc |-> w[a] \cup {ChainBit}]
                   [] a = last -> [next |-> NextSlot(a), dc |-> w[a]]
                   [] OTHER -> mem[a]]
            /\ results' = results \ DOMAIN w
            /\ tail' = last
    BY DEF BuildChain
  <1>3. PICK w \in [(submitted + 1)..last -> Words] :
          /\ mem' = [a \in 0..NJobs |->
               CASE a \in DOMAIN w /\ a < last ->
                      [next |-> a + 1, dc |-> w[a] \cup {ChainBit}]
                 [] a = last -> [next |-> NextSlot(a), dc |-> w[a]]
                 [] OTHER -> mem[a]]
          /\ results' = results \ DOMAIN w
          /\ tail' = last
    BY <1>2
  <1>4. last \in Nat /\ submitted < last /\ last <= NJobs /\ DOMAIN w = (submitted + 1)..last
    BY <1>1
  <1>5. ASSUME NEW a \in 0..NJobs, a <= submitted PROVE mem'[a] = mem[a]
    <2>1. ~(a \in DOMAIN w /\ a < last) /\ a # last
      BY <1>1, <1>4, <1>5
    <2>2. QED
      BY <1>3, <2>1
  <1>6. ASSUME NEW a \in 0..NJobs, submitted < a, a <= last
        PROVE  /\ a \notin results' /\ mem'[a].next = Slot(a)
               /\ Chain \in mem'[a].dc <=> a < last
    <2>1. a \in DOMAIN w /\ a # 0 /\ w[a] \in Words
      BY <1>1, <1>4, <1>6
    <2>2. CASE a < last
      <3>1. mem'[a] = [next |-> a + 1, dc |-> w[a] \cup {ChainBit}]
        BY <1>3, <2>1, <2>2
      <3>2. mem'[a].next = a + 1 /\ Chain \in mem'[a].dc
        BY <2>1, <3>1, PlainWord
      <3>3. a \in 1..(NJobs - 1)
        BY <1>1, <1>4, <1>6, <2>2
      <3>4. QED
        BY <1>1, <1>3, <2>1, <2>2, <3>2, <3>3, SlotNext
    <2>3. CASE a = last
      <3>1. mem'[a] = [next |-> NextSlot(a), dc |-> w[a]]
        BY <1>3, <1>4, <2>3
      <3>2. mem'[a].next = Slot(a) /\ Chain \notin mem'[a].dc
        BY <2>1, <3>1, PlainWord DEF Slot
      <3>3. QED
        BY <1>3, <1>4, <2>1, <2>3, <3>2
    <2>4. QED
      BY <1>4, <1>6, <2>2, <2>3
  <1>7. QED
    BY <1>1, <1>3, <1>4, <1>5, <1>6

LEMMA JobLinked ==
  ASSUME OrderlyHost, TypeOK, LinkJob
  PROVE  /\ 0 < tail /\ tail < NJobs /\ tail' = tail + 1 /\ submitted' = tail + 1
         /\ results' = results \ {tail + 1}
         /\ \A a \in 0..NJobs : a # tail /\ a # tail + 1 => mem'[a] = mem[a]
         /\ mem'[tail].next = Slot(tail)
         /\ mem'[tail + 1].next = Slot(tail + 1) /\ Chain \notin mem'[tail + 1].dc
  <1>1. /\ tail \in Nat /\ NJobs \in Nat /\ 0 < tail /\ tail < NJobs
        /\ tail' = tail + 1 /\ submitted' = tail + 1 /\ results' = results \ {tail + 1}
    BY HostTypes DEF LinkJob
  <1>2. PICK w \in Words :
          mem' = [mem EXCEPT
                    ![tail + 1] = [next |-> NextSlot(tail + 1), dc |-> w],
                    ![tail] = [next |-> tail + 1, dc |-> @.dc \cup {ChainBit}]]
    BY DEF LinkJob
  <1>3. DOMAIN mem = 0..NJobs /\ tail \in 0..NJobs /\ tail + 1 \in 0..NJobs
    BY <1>1 DEF TypeOK
  <1>4. \A a \in 0..NJobs : a # tail /\ a # tail + 1 => mem'[a] = mem[a]
    BY <1>2, <1>3
  <1>5. mem'[tail].next = tail + 1
    BY <1>2, <1>3
  <1>6. mem'[tail + 1] = [next |-> NextSlot(tail + 1), dc |-> w]
    BY <1>1, <1>2, <1>3
  <1>7. Slot(tail) = tail + 1 /\ Slot(tail + 1) = NextSlot(tail + 1)
    BY <1>1, SlotNext DEF Slot
  <1>8. QED
    BY <1>1, <1>4, <1>5, <1>6, <1>7, PlainWord

(* The controller stands still while the host hands over another job. *)
LEMMA QueueGrows ==
  ASSUME TypeOK, QueueInv, UNCHANGED EngineVars, submitted' \in submitted..NJobs,
         submitted' = submitted \/ ~NoAppend
  PROVE  QueueInv'
  <1>1. /\ nStarted \in Nat /\ nFinished \in Nat /\ submitted \in Nat /\ NJobs \in Nat
        /\ dar \in Nat
    BY QueueTypes
  <1>2. /\ nStarted' = nStarted /\ nFinished' = nFinished /\ state' = state
        /\ append_mode' = append_mode /\ dar' = dar /\ wbs_adr4' = wbs_adr4 /\ inc' = inc
        /\ LatchHold
    BY DEF EngineVars, nStarted, nFinished, LatchHold
  <1>3. \A a \in Nat, c \in 0..1 : Last(c, a) => Last(c, a)'
    BY <1>1, <1>2, LastKept
  <1>4. \A a \in Nat, c \in 0..1 : ChainTrue(c, a) => ChainTrue(c, a)'
    BY <1>1, <1>2, ChainKept DEF LatchHold
  <1>5. \A a \in Nat, c \in 0..1 : Fetch(c, a) => Fetch(c, a)'
    BY <1>2, <1>4, SlotConstant DEF Fetch, LatchHold
  <1>6. PICK n \in Nat, m \in Nat, d \in Nat : n = nStarted /\ m = nStarted + 1 /\ d = dar
    BY <1>1
  <1>7. \A c \in 0..1 : /\ Last(c, nStarted) => Last(c, nStarted)'
                        /\ Last(c, dar) => Last(c, dar)'
    BY <1>2, <1>3, <1>6 DEF Last, ChainTrue
  <1>8. \A c \in 0..1 : /\ Fetch(c, nStarted + 1) => Fetch(c, nStarted + 1)'
                        /\ Fetch(c, dar) => Fetch(c, dar)'
    BY <1>2, <1>5, <1>6 DEF Fetch, ChainTrue
  <1>9. BoundInv' /\ IdleInv'
    BY <1>1, <1>2 DEF QueueInv, BoundInv, IdleInv
  <1>10. PassInv'
    BY <1>2, <1>7, <1>8, NoAppendConstant DEF QueueInv, PassInv
  <1>11. LoadInv'
    BY <1>1, <1>2, <1>7, <1>8 DEF QueueInv, LoadInv, LatchHold
  <1>12. RunInv'
    <2>1. Oldest0 => Oldest0'
      BY <1>2, <1>7 DEF Oldest0, LatchHold
    <2>2. Oldest1 => Oldest1'
      BY <1>2, <1>7 DEF Oldest1
    <2>3. QED
      BY <1>2, <2>1, <2>2 DEF QueueInv, RunInv
  <1>13. QED
    BY <1>9, <1>10, <1>11, <1>12 DEF QueueInv

(* The controller's registers as the invariant reads them. *)
LEMMA EngineStill ==
  ASSUME UNCHANGED EngineVars
  PROVE  /\ nStarted' = nStarted /\ nFinished' = nFinished /\ state' = state
         /\ append_mode' = append_mode /\ dar' = dar /\ inc' = inc /\ dc' = dc
         /\ enable' = enable /\ append' = append /\ ndar' = ndar
         /\ ndar_dirty' = ndar_dirty /\ ndar_dirty_clear' = ndar_dirty_clear
         /\ wb_int_reg' = wb_int_reg /\ sys_rst_reg' = sys_rst_reg
  BY DEF EngineVars, nStarted, nFinished

LEMMA BuildChainOrder ==
  ASSUME OrderlyHost, TypeOK, QueueInv, MemInv, HostInv, BuildChain, UNCHANGED EngineVars
  PROVE  MemInv' /\ HostInv'
  <1>1. /\ hpc = "ready" /\ hpc' = "disable" /\ submitted' = submitted
        /\ submitted \in Nat /\ NJobs \in Nat /\ dar \in 0..NJobs /\ dar <= submitted
        /\ nFinished \in Nat /\ nStarted \in Nat
    BY HostTypes DEF BuildChain, QueueInv, BoundInv
  <1>2. /\ tail' \in 0..NJobs /\ submitted < tail' /\ results' \subseteq results
        /\ \A a \in 0..NJobs : a <= submitted => mem'[a] = mem[a]
        /\ \A a \in 0..NJobs : submitted < a /\ a <= tail' =>
              /\ a \notin results' /\ mem'[a].next = Slot(a)
              /\ Chain \in mem'[a].dc <=> a < tail'
    BY ChainBuilt
  <1>3. SlotInv'
    BY <1>1, <1>2, SlotConstant DEF MemInv, SlotInv
  <1>4. LinkInv'
    BY <1>1, <1>2, EngineStill DEF MemInv, LinkInv, HasNext
  <1>5. FullInv'
    <2>1. ASSUME NEW a \in 0..NJobs, NoAppend, nFinished < a, a < submitted
          PROVE  Chain \in mem'[a].dc
      BY <1>1, <1>2, <2>1 DEF MemInv, FullInv
    <2>2. QED
      BY <1>1, <2>1, EngineStill, NoAppendConstant DEF FullInv
  <1>6. BuildInv' /\ TailInv'
    BY <1>1, <1>2, NoAppendConstant DEF BuildInv, TailInv, Building
  <1>7. ResultsInv'
    BY <1>1, <1>2, EngineStill DEF HostInv, ResultsInv
  <1>8. ContentInv'
    BY <1>1, EngineStill DEF HostInv, ContentInv, CaughtUp, Content, Building
  <1>9. EnableInv'
    BY <1>1, EngineStill, NoAppendConstant DEF HostInv, EnableInv, Content, Building
  <1>10. NdarInv'
    <2>1. Pending' <=> Pending
      BY EngineStill DEF Pending
    <2>2. nStarted = submitted
      BY <1>1 DEF HostInv, ContentInv, CaughtUp, Content
    <2>3. mem'[dar] = mem[dar]
      BY <1>1, <1>2
    <2>4. QED
      BY <1>1, <2>1, <2>2, <2>3, EngineStill DEF HostInv, NdarInv
  <1>11. QED
    BY <1>3, <1>4, <1>5, <1>6, <1>7, <1>8, <1>9, <1>10 DEF MemInv, HostInv

LEMMA LinkJobOrder ==
  ASSUME OrderlyHost, TypeOK, QueueInv, MemInv, HostInv, LinkJob, UNCHANGED EngineVars
  PROVE  MemInv' /\ HostInv' /\ submitted' \in submitted..NJobs /\ ~NoAppend
  <1>1. /\ hpc \in {"ready", "wait"} /\ hpc' = "append" /\ ~NoAppend
        /\ submitted \in Nat /\ NJobs \in Nat /\ dar \in 0..NJobs
        /\ nFinished \in Nat /\ nStarted \in Nat /\ tail \in Nat
        /\ dar <= nFinished /\ nFinished <= nStarted /\ nStarted <= submitted
    BY HostTypes DEF LinkJob, NoAppend, QueueInv, BoundInv
  <1>2. /\ 0 < tail /\ tail < NJobs /\ tail' = tail + 1 /\ submitted' = tail + 1
        /\ results' = results \ {tail + 1}
        /\ \A a \in 0..NJobs : a # tail /\ a # tail + 1 => mem'[a] = mem[a]
        /\ mem'[tail].next = Slot(tail)
        /\ mem'[tail + 1].next = Slot(tail + 1) /\ Chain \notin mem'[tail + 1].dc
    BY JobLinked
  <1>3. tail = submitted
    BY <1>1, <1>2 DEF HostInv, TailInv, Building
  <1>4. SlotInv'
    <2>1. ASSUME NEW a \in 0..NJobs, a <= tail + 1 PROVE mem'[a].next = Slot(a)
      <3>1. CASE a = tail \/ a = tail + 1
        BY <1>2, <3>1
      <3>2. CASE a # tail /\ a # tail + 1
        BY <1>1, <1>2, <1>3, <2>1, <3>2 DEF MemInv, SlotInv
      <3>3. QED
        BY <3>1, <3>2
    <2>2. QED
      BY <1>2, <2>1, SlotConstant DEF SlotInv
  <1>5. LinkInv'
    <2>1. ASSUME NEW a \in 0..NJobs, a \in {0, dar} \/ a > nFinished,
                 a <= tail + 1, Chain \in mem'[a].dc
          PROVE  0 < a /\ a < tail + 1
      <3>1. CASE a = tail \/ a = tail + 1
        BY <1>1, <1>2, <2>1, <3>1
      <3>2. CASE a # tail /\ a # tail + 1
        <4>1. mem'[a] = mem[a] /\ a <= submitted
          BY <1>1, <1>2, <1>3, <2>1, <3>2
        <4>2. HasNext(a)
          BY <2>1, <4>1 DEF MemInv, LinkInv
        <4>3. QED
          BY <1>1, <1>3, <4>2 DEF HasNext
      <3>3. QED
        BY <3>1, <3>2
    <2>2. QED
      BY <1>2, <2>1, EngineStill DEF LinkInv, HasNext
  <1>6. FullInv'
    BY <1>1, NoAppendConstant DEF FullInv
  <1>7. BuildInv' /\ TailInv'
    BY <1>1, <1>2, NoAppendConstant DEF BuildInv, TailInv, Building
  <1>8. ResultsInv'
    <2>1. ASSUME NEW a \in results', nFinished < a, a <= tail + 1
          PROVE  a = nFinished + 1 /\ state \in Retiring
      <3>1. a \in results /\ a # tail + 1 /\ a \in 0..NJobs
        BY <1>2, <2>1, HostTypes
      <3>2. a <= submitted
        BY <1>1, <1>3, <2>1, <3>1
      <3>3. QED
        BY <2>1, <3>1, <3>2 DEF HostInv, ResultsInv
    <2>2. QED
      BY <1>2, <2>1, EngineStill DEF ResultsInv
  <1>9. ContentInv'
    BY <1>1 DEF ContentInv, Content, Building
  <1>10. EnableInv'
    <2>1. enable /\ ~sys_rst_reg
      BY <1>1, <1>2 DEF HostInv, EnableInv, Content, Building
    <2>2. QED
      BY <1>1, <2>1, EngineStill, NoAppendConstant DEF HostInv, EnableInv
  <1>11. NdarInv'
    <2>1. Pending' <=> Pending
      BY EngineStill DEF Pending
    <2>2. Pending => nStarted < submitted /\ mem'[dar] = mem[dar]
      BY <1>1, <1>2, <1>3 DEF HostInv, NdarInv
    <2>3. Pending => nStarted < submitted'
      BY <1>1, <1>2, <1>3, <2>2
    <2>4. QED
      BY <1>1, <2>1, <2>2, <2>3, EngineStill, NoAppendConstant DEF HostInv, NdarInv
  <1>12. submitted' \in submitted..NJobs
    BY <1>1, <1>2, <1>3
  <1>13. QED
    BY <1>1, <1>4, <1>5, <1>6, <1>7, <1>8, <1>9, <1>10, <1>11, <1>12 DEF MemInv, HostInv

(* A host that has seen all results knows that the engine has caught up.    *)
LEMMA SeeResultsOrder ==
  ASSUME OrderlyHost, TypeOK, QueueInv, MemInv, HostInv, SeeResults, UNCHANGED EngineVars
  PROVE  MemInv' /\ HostInv'
  <1>1. /\ hpc = "wait" /\ hpc' = "ready" /\ submitted' = submitted /\ tail' = tail
        /\ mem' = mem /\ results' = results /\ WaitOn = "results"
        /\ \A a \in 1..submitted : a \in results
    BY DEF SeeResults
  <1>2. /\ submitted \in Nat /\ nFinished \in Nat /\ nStarted \in Nat /\ state \in States
        /\ nFinished <= nStarted /\ nStarted <= submitted /\ append_mode \in BOOLEAN
    BY HostTypes DEF QueueInv, BoundInv
  <1>3. SlotInv' /\ LinkInv'
    BY <1>1, EngineStill, SlotConstant DEF MemInv, SlotInv, LinkInv, HasNext
  <1>4. FullInv'
    BY <1>1, EngineStill, NoAppendConstant DEF MemInv, FullInv
  <1>5. BuildInv' /\ TailInv'
    BY <1>1 DEF HostInv, BuildInv, TailInv, Building
  <1>6. ResultsInv'
    BY <1>1, EngineStill DEF HostInv, ResultsInv
  <1>7. CaughtUp
    <2>1. CASE nFinished = submitted
      <3>1. nStarted = nFinished /\ nStarted = submitted /\ ~HasNext(nStarted)
        BY <1>2, <2>1 DEF HasNext
      <3>2. state = "IDLE" \/ append_mode
        BY <1>2, <3>1 DEF QueueInv, LoadInv, RunInv, Oldest0, Oldest1, Last, ChainTrue, States
      <3>3. QED
        BY <1>2, <3>1, <3>2 DEF CaughtUp
    <2>2. CASE nFinished # submitted
      <3>1. submitted \in results /\ nFinished < submitted
        BY <1>1, <1>2, <2>2
      <3>2. submitted = nFinished + 1 /\ state \in Retiring
        BY <1>2, <3>1 DEF HostInv, ResultsInv
      <3>3. nStarted >= nFinished + 1
        BY <1>2, <3>2 DEF QueueInv, RunInv, Oldest0, Oldest1, Retiring
      <3>4. QED
        BY <1>2, <3>2, <3>3 DEF CaughtUp
    <2>3. QED
      BY <2>1, <2>2
  <1>8. ContentInv'
    BY <1>1, <1>7, EngineStill DEF ContentInv, CaughtUp
  <1>9. EnableInv'
    BY <1>1, EngineStill, NoAppendConstant DEF HostInv, EnableInv, Content, Building
  <1>10. NdarInv'
    <2>1. Pending' <=> Pending
      BY EngineStill DEF Pending
    <2>2. NoAppend /\ state = "IDLE" => nStarted = submitted
      BY <1>1 DEF HostInv, NdarInv
    <2>3. QED
      BY <1>1, <2>1, <2>2, EngineStill, NoAppendConstant DEF HostInv, NdarInv
  <1>11. QED
    BY <1>3, <1>4, <1>5, <1>6, <1>8, <1>9, <1>10 DEF MemInv, HostInv

LEMMA StoreOrder ==
  ASSUME OrderlyHost, OrderInv, Store
  PROVE  OrderInv'
  <1>1. /\ TypeOK /\ HistoryInv /\ QueueInv /\ MemInv /\ HostInv
        /\ UNCHANGED EngineVars
    BY DEF OrderInv, IInv, Store
  <1>2. IInv'
    BY StoreIInv DEF OrderInv
  <1>3. HistoryInv'
    BY <1>1 DEF HistoryInv, EngineVars, nStarted, nFinished
  <1>4. submitted \in submitted..NJobs
    BY <1>1, QueueTypes DEF QueueInv, BoundInv
  <1>5. CASE BuildChain
    <2>1. submitted' = submitted
      BY <1>5 DEF BuildChain
    <2>2. QED
      BY <1>1, <1>2, <1>3, <1>4, <1>5, <2>1, QueueGrows, BuildChainOrder DEF OrderInv
  <1>6. CASE LinkJob
    BY <1>1, <1>2, <1>3, <1>6, QueueGrows, LinkJobOrder DEF OrderInv
  <1>7. CASE SeeResults
    <2>1. submitted' = submitted
      BY <1>7 DEF SeeResults
    <2>2. QED
      BY <1>1, <1>2, <1>3, <1>4, <1>7, <2>1, QueueGrows, SeeResultsOrder DEF OrderInv
  <1>8. QED
    BY <1>5, <1>6, <1>7 DEF Store, HostStore

-----------------------------------------------------------------------------
(* Clock cycles *)

(* A reset, or a cycle in which it is held, leaves nothing behind but the   *)
(* jobs that are finished.                                                  *)
LEMMA ResetCases ==
  ASSUME OrderInv, NEW acc \in Accesses, NEW ack \in BOOLEAN,
         NEW out \in RunOutcome, Cycle(acc, ack, out), sys_rst_reg' = TRUE
  PROVE  /\ state' = "IDLE" /\ append_mode' = FALSE /\ ndar_dirty_clear' = FALSE
         /\ dar' = 0 /\ wb_int_reg' = FALSE
         /\ started' = finished /\ finished' = finished
         /\ nStarted' = nFinished /\ nFinished' = nFinished /\ mem' = mem
         /\ submitted' = nFinished /\ ~enable' /\ hpc' \in {"ready", "disable"}
         /\ hpc' = "ready" => tail' = 0
         /\ \/ hpc' = "ready" /\ tail' = 0 /\ ~append'
            \/ /\ hpc' = "disable" /\ hpc = "disable" /\ tail' = tail /\ submitted' = submitted
               /\ sys_rst_reg /\ (append' => append) /\ results' = results
            \/ /\ hpc' = "ready" /\ tail' = tail /\ submitted' = submitted
               /\ sys_rst_reg /\ (append' => append)
  <1>1. TypeOK /\ HistoryInv /\ QueueInv /\ HostInv
    BY DEF OrderInv, IInv
  <1>2. CtrlReset /\ HistoryStep(ack, TRUE)
    BY DEF Cycle, CtrlStep
  <1>3. /\ state' = "IDLE" /\ append_mode' = FALSE /\ ndar_dirty_clear' = FALSE
        /\ dar' = 0 /\ wb_int_reg' = FALSE
    BY <1>2 DEF CtrlReset
  <1>4. started' = finished /\ finished' = finished
    BY <1>2 DEF HistoryStep
  <1>5. nStarted' = nFinished /\ nFinished' = nFinished
    BY <1>4 DEF nStarted, nFinished
  <1>6. /\ nStarted \in Nat /\ nFinished \in Nat /\ submitted \in Nat /\ NJobs \in Nat
        /\ nFinished <= nStarted /\ nStarted <= submitted /\ submitted <= NJobs
        /\ tail \in 0..NJobs
    BY <1>1, HostTypes DEF QueueInv, BoundInv
  <1>7. /\ mem' = mem
        /\ \/ HostMoves(acc, busy, wb_int_o)
           \/ Reset(acc, nFinished) /\ CcrSets(FALSE, FALSE, TRUE)
    BY HostCases DEF Cycle, nFinished
  <1>8. /\ submitted' = nFinished /\ ~enable' /\ hpc' \in {"ready", "disable"}
        /\ hpc' = "ready" => tail' = 0
        /\ \/ hpc' = "ready" /\ tail' = 0 /\ ~append'
           \/ /\ hpc' = "disable" /\ hpc = "disable" /\ tail' = tail /\ submitted' = submitted
              /\ sys_rst_reg /\ (append' => append) /\ results' = results
           \/ /\ hpc' = "ready" /\ tail' = tail /\ submitted' = submitted
              /\ sys_rst_reg /\ (append' => append)
    <2>1. CASE Reset(acc, nFinished) /\ CcrSets(FALSE, FALSE, TRUE)
      BY <2>1 DEF Reset, Write, CcrSets
    <2>2. CASE HostMoves(acc, busy, wb_int_o)
      <3>1. Rests(busy) \/ Queues
        BY <2>2 DEF HostMoves, Disables, Goes, Appends, Acknowledges, CcrSets
      <3>2. /\ sys_rst_reg /\ enable' = enable /\ (append' => append)
            /\ submitted' = submitted /\ tail' = tail
        BY <3>1 DEF Rests, Queues, CcrHolds
      <3>3. ~enable /\ state = "IDLE" /\ hpc \in {"ready", "disable"}
        BY <1>1, <3>2 DEF HostInv, EnableInv
      <3>4. hpc' = hpc
        BY <3>1, <3>3 DEF Rests, Queues
      <3>5. nStarted = submitted /\ nFinished = submitted
        BY <1>1, <3>3 DEF HostInv, ContentInv, CaughtUp, Content, Building, QueueInv, IdleInv
      <3>6. hpc = "ready" => tail = 0
        BY <1>1, <3>3 DEF HostInv, EnableInv
      <3>7. results' = results
        BY <1>2, <3>3 DEF HistoryStep
      <3>8. QED
        BY <3>2, <3>3, <3>4, <3>5, <3>6, <3>7
    <2>3. QED
      BY <1>7, <2>1, <2>2
  <1>9. QED
    BY <1>3, <1>4, <1>5, <1>7, <1>8

LEMMA ResetOrder ==
  ASSUME OrderlyHost, OrderInv, IInv', NEW acc \in Accesses, NEW ack \in BOOLEAN,
         NEW out \in RunOutcome, Cycle(acc, ack, out), sys_rst_reg' = TRUE
  PROVE  OrderInv'
  <1>1. TypeOK /\ TypeOK' /\ HistoryInv /\ QueueInv /\ MemInv /\ HostInv
    BY DEF OrderInv, IInv
  <1>2. HistoryStep(ack, TRUE)
    BY DEF Cycle, CtrlStep
  <1>3. /\ state' = "IDLE" /\ append_mode' = FALSE /\ ndar_dirty_clear' = FALSE
        /\ dar' = 0 /\ wb_int_reg' = FALSE
    BY ResetCases
  <1>4. started' = finished /\ finished' = finished
    BY ResetCases
  <1>5. nStarted' = nFinished /\ nFinished' = nFinished
    BY ResetCases
  <1>6. /\ nStarted \in Nat /\ nFinished \in Nat /\ submitted \in Nat /\ NJobs \in Nat
        /\ nFinished <= nStarted /\ nStarted <= submitted /\ submitted <= NJobs
        /\ tail \in 0..NJobs
    BY <1>1, HostTypes DEF QueueInv, BoundInv
  <1>7. mem' = mem
    BY ResetCases
  <1>8. /\ submitted' = nFinished /\ ~enable' /\ hpc' \in {"ready", "disable"}
        /\ hpc' = "ready" => tail' = 0
        /\ \/ hpc' = "ready" /\ tail' = 0 /\ ~append'
           \/ /\ hpc' = "disable" /\ hpc = "disable" /\ tail' = tail /\ submitted' = submitted
              /\ (append' => append) /\ results' = results
           \/ /\ hpc' = "ready" /\ tail' = tail /\ submitted' = submitted
              /\ (append' => append)
    BY ResetCases
  <1>9. HistoryInv'
    BY <1>1, <1>4, <1>5 DEF HistoryInv
  <1>10. QueueInv'
    <2>1. BoundInv'
      BY <1>3, <1>5, <1>6, <1>8 DEF BoundInv
    <2>2. IdleInv' /\ PassInv' /\ LoadInv' /\ RunInv'
      BY <1>3, <1>5 DEF IdleInv, PassInv, LoadInv, RunInv
    <2>3. QED
      BY <2>1, <2>2 DEF QueueInv
  <1>11. MemInv'
    <2>1. SlotInv'
      <3>1. ASSUME NEW a \in 0..NJobs, a <= nFinished \/ a <= tail' PROVE a <= submitted \/ a <= tail
        BY <1>6, <1>8, <3>1
      <3>2. QED
        BY <1>1, <1>7, <1>8, <3>1, SlotConstant DEF MemInv, SlotInv
    <2>2. LinkInv'
      <3>1. ASSUME NEW a \in 0..NJobs, a = 0 \/ a > nFinished, a <= nFinished
            PROVE  Chain \notin mem[a].dc
        <4>1. a = 0
          BY <1>6, <3>1
        <4>2. QED
          BY <1>1, <1>6, <4>1 DEF MemInv, LinkInv, HasNext
      <3>2. QED
        BY <1>3, <1>5, <1>7, <1>8, <3>1 DEF LinkInv
    <2>3. FullInv'
      <3>1. ASSUME NEW a \in 0..NJobs PROVE ~(nFinished < a /\ a < nFinished)
        BY <1>6
      <3>2. QED
        BY <1>5, <1>8, <3>1 DEF FullInv
    <2>4. QED
      BY <2>1, <2>2, <2>3 DEF MemInv
  <1>12. HostInv'
    <2>1. BuildInv'
      BY <1>1, <1>7, <1>8, NoAppendConstant DEF HostInv, BuildInv, Building
    <2>2. TailInv'
      BY <1>8 DEF TailInv, Building
    <2>3. ResultsInv'
      <3>1. ASSUME NEW a \in results', nFinished < a, a <= nFinished PROVE FALSE
        <4>1. a \in 0..NJobs
          BY <1>1, <3>1 DEF TypeOK, DriverTypeOK
        <4>2. QED
          BY <1>6, <3>1, <4>1
      <3>2. QED
        BY <1>5, <1>8, <3>1 DEF ResultsInv
    <2>4. ContentInv'
      BY <1>3, <1>5, <1>6, <1>8 DEF ContentInv, CaughtUp
    <2>5. EnableInv'
      BY <1>1, <1>3, <1>8, NoAppendConstant DEF EnableInv, HostInv, Content, Building
    <2>6. NdarInv'
      BY <1>3, <1>5, <1>8 DEF NdarInv, Pending
    <2>7. QED
      BY <2>1, <2>2, <2>3, <2>4, <2>5, <2>6 DEF HostInv
  <1>13. QED
    BY <1>9, <1>10, <1>11, <1>12 DEF OrderInv

LEMMA CycleOrder ==
  ASSUME OrderlyHost, OrderInv, NEW acc \in Accesses, NEW ack \in BOOLEAN,
         NEW out \in RunOutcome, Cycle(acc, ack, out)
  PROVE  OrderInv'
  <1>1. /\ IInv /\ TypeOK /\ AppendModeInv /\ HistoryInv /\ QueueInv /\ MemInv /\ HostInv
    BY DEF OrderInv, IInv
  <1>2. IInv' /\ sys_rst_reg' \in BOOLEAN
    BY <1>1, CycleIInv, CycleTypeStep
  <1>3. CASE sys_rst_reg'
    BY <1>2, <1>3, ResetOrder
  <1>4. CASE ~sys_rst_reg'
    <2>1. CtrlMachine(acc.cyc, ack) /\ HistoryStep(ack, FALSE)
      BY <1>2, <1>4 DEF Cycle, CtrlStep
    <2>2. HistoryInv' /\ Counting(ack)
      BY <1>1, <2>1, HistoryCounts
    <2>3. mem' = mem /\ HostMoves(acc, busy, wb_int_o)
      BY <1>4, HostCases DEF Cycle, CcrSets
    <2>4. Handing
      BY <1>1, <2>3, HandingStep
    <2>5. QueueInv'
      BY <1>1, <2>1, <2>2, <2>4, MachineQueue DEF HostInv
    <2>6. MemInv'
      BY <1>1, <2>1, <2>2, <2>3, MemStep
    <2>7. BuildInv' /\ TailInv'
      BY <1>1, <2>1, <2>3, BuildStep, TailStep
    <2>8. ResultsInv'
      BY <1>1, <2>1, <2>2, <2>3, ResultsStep
    <2>9. ContentInv'
      BY <1>1, <2>1, <2>2, <2>3, ContentStep
    <2>10. EnableInv'
      BY <1>1, <1>4, <2>1, <2>3, EnableStep
    <2>11. NdarInv'
      BY <1>1, <2>1, <2>2, <2>3, NdarStepKeeps
    <2>12. QED
      BY <1>2, <2>2, <2>5, <2>6, <2>7, <2>8, <2>9, <2>10, <2>11 DEF OrderInv, HostInv
  <1>5. QED
    BY <1>3, <1>4

LEMMA InitOrder == ASSUME OrderlyHost, Init PROVE OrderInv
  <1>1. IInv /\ TypeOK
    BY InitIInv DEF IInv
  <1>2. /\ state = "IDLE" /\ append_mode = FALSE /\ dar = 0 /\ ndar_dirty_clear = FALSE
        /\ wb_int_reg = FALSE
        /\ enable = FALSE /\ append = FALSE /\ sys_rst_reg = FALSE
        /\ hpc = "boot" /\ submitted = 0 /\ tail = 0 /\ results = {}
        /\ mem = [a \in 0..NJobs |-> [next |-> 0, dc |-> {}]]
        /\ started = <<>> /\ finished = <<>>
    BY DEF Init, CtrlInit, WbmInit, DriverInit
  <1>3. nStarted = 0 /\ nFinished = 0
    BY <1>2 DEF nStarted, nFinished
  <1>4. HistoryInv
    BY <1>2, <1>3 DEF HistoryInv, Numbers
  <1>5. QueueInv
    BY <1>2, <1>3, SizesAssumption
       DEF QueueInv, BoundInv, IdleInv, PassInv, LoadInv, RunInv
  <1>6. MemInv
    <2>1. \A a \in 0..NJobs : mem[a].next = 0 /\ mem[a].dc = {}
      BY <1>2
    <2>2. \A a \in 0..NJobs : a <= 0 => a = 0
      BY SizesAssumption
    <2>3. SlotInv
      BY <1>2, <2>1, <2>2 DEF SlotInv, Slot
    <2>4. LinkInv /\ FullInv
      BY <1>2, <1>3, <2>1, <2>2 DEF LinkInv, FullInv
    <2>5. QED
      BY <2>3, <2>4 DEF MemInv
  <1>7. HostInv
    BY <1>2, <1>3 DEF HostInv, BuildInv, TailInv, ResultsInv, ContentInv, CaughtUp,
       EnableInv, NdarInv, Pending, Content, Building, Retiring
  <1>8. QED
    BY <1>1, <1>4, <1>5, <1>6, <1>7 DEF OrderInv

LEMMA NextOrder == ASSUME OrderlyHost, OrderInv, [Next]_vars PROVE OrderInv'
  <1>1. CASE Store
    BY <1>1, StoreOrder
  <1>2. CASE Tick
    BY <1>2, CycleOrder DEF Tick
  <1>3. CASE UNCHANGED vars
    <2>1. IInv'
      BY NextIInv DEF OrderInv
    <2>2. UNCHANGED EngineVars /\ UNCHANGED DriverVars /\ UNCHANGED results
      BY <1>3 DEF vars
    <2>3. /\ hpc' = hpc /\ settle' = settle /\ mem' = mem /\ submitted' = submitted
          /\ tail' = tail /\ results' = results
      BY <2>2 DEF DriverVars
    <2>4. HistoryInv'
      BY <2>2 DEF OrderInv, HistoryInv, EngineVars, nStarted, nFinished
    <2>5. submitted \in submitted..NJobs
      BY QueueTypes DEF OrderInv, IInv, QueueInv, BoundInv
    <2>6. QueueInv'
      BY <2>2, <2>3, <2>5, QueueGrows DEF OrderInv, IInv
    <2>7. MemInv'
      BY <2>2, <2>3, EngineStill, SlotConstant, NoAppendConstant
         DEF OrderInv, MemInv, SlotInv, LinkInv, FullInv, HasNext
    <2>8. BuildInv' /\ TailInv' /\ ResultsInv' /\ ContentInv' /\ EnableInv'
      BY <2>2, <2>3, EngineStill, NoAppendConstant
         DEF OrderInv, HostInv, BuildInv, TailInv, ResultsInv, ContentInv, CaughtUp, EnableInv
    <2>9. NdarInv'
      BY <2>2, <2>3, EngineStill, NoAppendConstant DEF OrderInv, HostInv, NdarInv, Pending
    <2>10. QED
      BY <2>1, <2>4, <2>6, <2>7, <2>8, <2>9 DEF OrderInv, HostInv
  <1>4. QED
    BY <1>1, <1>2, <1>3 DEF Next

(* For an orderly host the invariant holds throughout. *)
THEOREM OrderInvariant == ASSUME OrderlyHost PROVE Spec => []OrderInv
  <1>1. Init => OrderInv
    BY InitOrder
  <1>2. OrderInv /\ [Next]_vars => OrderInv'
    BY NextOrder
  <1>3. QED
    BY <1>1, <1>2, PTL DEF Spec

-----------------------------------------------------------------------------
(* What the invariant says of the results and of the fetches needs two      *)
(* facts more: a result block is written behind a walker that has ended ... *)
EndInv ==
    /\ state = "CTL0" => walker[1] = "END"
    /\ state = "CTL1" => walker[3] = "END"

(* ... and the controller only resumes from a descriptor it has retired: an *)
(* append finds the job it is linked behind already taken.                  *)
DarInv ==
    /\ append_mode => dar # 0
    /\ hpc = "append" => tail > 0
    /\ sys_rst_reg => ~append
    /\ dar = 0 /\ state = "IDLE" =>
         /\ ~append
         /\ \/ tail = 0 \/ hpc \in Building
            \/ Pending /\ hpc = "settle" /\ settle = Settle

ServeInv == EndInv /\ DarInv

LEMMA EndStep ==
  ASSUME IInv, EndInv, NEW cyc_i, NEW ack \in BOOLEAN, NEW out \in RunOutcome,
         CtrlMachine(cyc_i, ack), SgStep(ack, FALSE, out)
  PROVE  EndInv'
  <1>1. TypeOK /\ DoneIsFresh
    BY DEF IInv
  <1>2. /\ state' = "CTL0" => state = "CTL0" \/ (state = "WAIT0" /\ c_done[1])
        /\ state' = "CTL1" => state = "CTL1" \/ (state = "WAIT1" /\ c_done[3])
    <2>1. /\ Wait0 /\ state' = "CTL0" => state = "WAIT0" /\ c_done[1]
          /\ Wait0 => state' # "CTL1"
      <3>1. 2 * 0 + 1 = 1
        OBVIOUS
      <3>2. QED
        BY <3>1 DEF Wait0, Retire, BusHold
    <2>2. /\ Wait1 /\ state' = "CTL1" => state = "WAIT1" /\ c_done[3]
          /\ Wait1 => state' # "CTL0"
      <3>1. 2 * 1 + 1 = 3
        OBVIOUS
      <3>2. QED
        BY <3>1 DEF Wait1, Retire, BusHold
    <2>3. /\ state' = "CTL0" => state = "CTL0" \/ Wait0
          /\ state' = "CTL1" => state = "CTL1" \/ Wait1
      <3>1. Wait0 => state' # "CTL1"
        BY <2>1
      <3>2. Wait1 => state' # "CTL0"
        BY <2>2
      <3>3. \/ Wait0 \/ Wait1 \/ state' \notin {"CTL0", "CTL1"}
            \/ Ctl("CTL0", "TR0", ack) \/ Ctl("CTL1", "TR1", ack)
        BY DEF CtrlMachine, IdleWait, IdleQueue, IdleAppend, Cmd0, Next0, Cmd1,
               Tr, Cyc0, Cyc1, Next1
      <3>4. QED
        BY <3>1, <3>2, <3>3 DEF Ctl
    <2>4. QED
      BY <2>1, <2>2, <2>3
  <1>3. /\ state = "WAIT0" /\ c_done[1] => walker[1] = "END"
        /\ state = "WAIT1" /\ c_done[3] => walker[3] = "END"
    BY <1>1 DEF DoneIsFresh, WaitOf, Channel
  <1>4. /\ state # "TR0" /\ walker[1] = "END" => walker'[1] = "END"
        /\ state # "TR1" /\ walker[3] = "END" => walker'[3] = "END"
    <2>1. 1 \in 0..1 /\ 3 \in 2..3
      OBVIOUS
    <2>2. state # "TR0" /\ walker[1] = "END" => walker'[1] = "END"
      BY <1>1, <2>1, Walker0Next
    <2>3. state # "TR1" /\ walker[3] = "END" => walker'[3] = "END"
      BY <1>1, <2>1, Walker1Next
    <2>4. QED
      BY <2>2, <2>3
  <1>5. QED
    BY <1>2, <1>3, <1>4 DEF EndInv

LEMMA DarStep ==
  ASSUME OrderlyHost, OrderInv, DarInv, NEW acc, NEW b, NEW intr, HostMoves(acc, b, intr),
         ~sys_rst_reg', NEW cyc_i, NEW ack, CtrlMachine(cyc_i, ack), Counting(ack)
  PROVE  DarInv'
  <1>1. /\ TypeOK /\ AppendModeInv /\ QueueInv /\ HostInv
        /\ nFinished \in Nat /\ dar \in Nat /\ tail \in Nat
    BY HostTypes DEF OrderInv, IInv
  <1>2. dar' = dar \/ dar' # 0
    BY <1>1, DarCases
  <1>3. append_mode' => dar' # 0
    <2>1. append_mode' => append_mode \/ (state = "IDLE" /\ append)
      BY DEF CtrlMachine, IdleWait, IdleQueue, IdleAppend, Cmd0, Next0, Cmd1, Wait0,
             Wait1, Ctl, Tr, Cyc0, Cyc1, Next1, NoAppendClear
    <2>2. QED
      BY <1>2, <2>1 DEF DarInv
  <1>4. hpc' = "append" => tail' > 0
    BY DEF HostMoves, Rests, Disables, Queues, Goes, Appends, Acknowledges, DarInv
  <1>5. ASSUME dar' = 0, state' = "IDLE"
        PROVE  /\ ~append'
               /\ \/ tail' = 0 \/ hpc' \in Building
                  \/ Pending' /\ hpc' = "settle" /\ settle' = Settle
    <2>1. dar = 0 /\ ~append_mode
      BY <1>2, <1>5 DEF DarInv
    <2>2. \/ IdleWait
          \/ Cyc0 /\ Chain \notin dc[0]
          \/ Cyc1
      BY <1>5, <2>1 DEF CtrlMachine, IdleQueue, IdleAppend, Cmd0, Next0, Cmd1, Wait0,
             Wait1, Retire, Ctl, Tr, Cyc0, Cyc1, Next1
    <2>3. /\ Cyc0 /\ Chain \notin dc[0] => dar' = nFinished + 1
          /\ Cyc1 => dar' = nFinished + 1
      BY <1>1 DEF Cyc0, Cyc1, QueueInv, RunInv, Oldest0, Oldest1, Last
    <2>4. IdleWait
      BY <1>1, <1>5, <2>2, <2>3
    <2>5. ~Pending /\ ~ndar_dirty_clear' /\ state = "IDLE"
      BY <2>4 DEF IdleWait, Pending, NoDirtyClear
    <2>6. ~append /\ (tail = 0 \/ hpc \in Building)
      BY <2>1, <2>5 DEF DarInv
    <2>7. CASE Goes
      <3>1. ndar_dirty /\ ~ndar_dirty_clear
        BY <1>1, <2>7 DEF Goes, HostInv, ContentInv
      <3>2. enable' /\ ndar_dirty' /\ ~append'
        BY <2>7, <3>1 DEF Goes, CcrSets, NdarHolds
      <3>3. QED
        BY <2>5, <2>7, <3>2 DEF Goes, Pending
    <2>8. CASE Appends
      BY <1>1, <2>6, <2>8 DEF Appends, DarInv, Building
    <2>9. CASE Rests(b) \/ Disables(acc) \/ Queues \/ Acknowledges(intr)
      BY <2>6, <2>9 DEF Rests, Disables, Queues, Acknowledges, CcrHolds, CcrSets, Building
    <2>10. QED
      BY <2>7, <2>8, <2>9 DEF HostMoves
  <1>6. QED
    BY <1>3, <1>4, <1>5 DEF DarInv

LEMMA ServeStore == ASSUME OrderInv, ServeInv, Store PROVE ServeInv'
  <1>1. TypeOK /\ QueueInv /\ HostInv /\ UNCHANGED EngineVars /\ tail \in Nat
    BY HostTypes DEF OrderInv, IInv, Store
  <1>2. EndInv'
    BY <1>1 DEF ServeInv, EndInv, EngineVars
  <1>3. Pending' <=> Pending
    BY <1>1, EngineStill DEF Pending
  <1>4. CASE BuildChain
    BY <1>1, <1>2, <1>4, EngineStill DEF ServeInv, DarInv, BuildChain, Building
  <1>5. CASE LinkJob
    BY <1>1, <1>2, <1>5, EngineStill DEF ServeInv, DarInv, LinkJob, Building
  <1>6. CASE SeeResults
    BY <1>1, <1>2, <1>6, EngineStill DEF ServeInv, DarInv, SeeResults, Building
  <1>7. QED
    BY <1>1, <1>4, <1>5, <1>6 DEF Store, HostStore

LEMMA ServeCycle ==
  ASSUME OrderlyHost, OrderInv, ServeInv, NEW acc \in Accesses, NEW ack \in BOOLEAN,
         NEW out \in RunOutcome, Cycle(acc, ack, out)
  PROVE  ServeInv'
  <1>1. /\ IInv /\ TypeOK /\ HistoryInv /\ QueueInv /\ EndInv /\ DarInv
        /\ sys_rst_reg' \in BOOLEAN
    BY CycleTypeStep DEF OrderInv, IInv, ServeInv
  <1>2. CASE sys_rst_reg' = TRUE
    <2>1. EndInv'
      BY <1>2, ResetCases DEF EndInv
    <2>2. DarInv'
      <3>1. ~append'
        BY <1>1, <1>2, ResetCases DEF DarInv
      <3>2. append_mode' = FALSE /\ hpc' \in {"ready", "disable"} /\ (hpc' = "ready" => tail' = 0)
        BY <1>2, ResetCases
      <3>3. QED
        BY <3>1, <3>2 DEF DarInv, Building
    <2>3. QED
      BY <2>1, <2>2 DEF ServeInv
  <1>3. CASE sys_rst_reg' = FALSE
    <2>1. CtrlMachine(acc.cyc, ack) /\ HistoryStep(ack, FALSE) /\ SgStep(ack, FALSE, out)
      BY <1>3 DEF Cycle, CtrlStep
    <2>2. Counting(ack)
      BY <1>1, <2>1, HistoryCounts
    <2>3. HostMoves(acc, busy, wb_int_o)
      BY <1>3, HostCases DEF Cycle, CcrSets
    <2>4. EndInv' /\ DarInv'
      BY <1>1, <1>3, <2>1, <2>2, <2>3, EndStep, DarStep
    <2>5. QED
      BY <2>4 DEF ServeInv
  <1>4. QED
    BY <1>1, <1>2, <1>3

LEMMA ServeInvariant == ASSUME OrderlyHost PROVE Spec => [](OrderInv /\ ServeInv)
  <1>1. Init => ServeInv
    BY DEF Init, CtrlInit, WbmInit, DriverInit, ServeInv, EndInv, DarInv
  <1>2. OrderInv /\ ServeInv /\ [Next]_vars => ServeInv'
    <2> SUFFICES ASSUME OrderInv, ServeInv, [Next]_vars PROVE ServeInv'
      OBVIOUS
    <2>1. CASE Store
      BY <2>1, ServeStore
    <2>2. CASE Tick
      BY <2>2, ServeCycle DEF Tick
    <2>3. CASE UNCHANGED vars
      <3>1. UNCHANGED EngineVars /\ hpc' = hpc /\ tail' = tail /\ settle' = settle
        BY <2>3 DEF vars, DriverVars
      <3>2. (Pending' <=> Pending) /\ EndInv'
        BY <3>1, EngineStill DEF Pending, ServeInv, EndInv, EngineVars
      <3>3. QED
        BY <3>1, <3>2, EngineStill DEF ServeInv, DarInv
    <2>4. QED
      BY <2>1, <2>2, <2>3 DEF Next
  <1>3. QED
    BY <1>1, <1>2, OrderInvariant, PTL DEF Spec

-----------------------------------------------------------------------------
(* The theorems *)

(* The controller writes the result block of the oldest unfinished job, and *)
(* only when its destination is complete: ctl_adr0 and ctl_adr1 of ctrl.v   *)
(* hold while later descriptors are fetched.                                *)
THEOREM ResultOfOldest == ASSUME OrderlyHost PROVE Spec => []ResultOwner
  <1>1. OrderInv /\ ServeInv => ResultOwner
    <2> SUFFICES ASSUME OrderInv, ServeInv, NEW c \in Channel,
                        state = (IF c = 0 THEN "CTL0" ELSE "CTL1")
                 PROVE  /\ Len(finished) < Len(started)
                        /\ wbs_adr4 = started[Len(finished) + 1]
                        /\ walker[2 * c + 1] = "END"
      BY DEF ResultOwner
    <2>1. nStarted \in Nat /\ nFinished \in Nat /\ c \in {0, 1}
      BY Counts DEF OrderInv, IInv, Channel
    <2>2. nFinished < nStarted /\ wbs_adr4 = nFinished + 1
      BY <2>1 DEF OrderInv, QueueInv, RunInv, Oldest0, Oldest1
    <2>3. started[nFinished + 1] = nFinished + 1
      <3>1. started = Numbers(nStarted) /\ nFinished + 1 \in 1..nStarted
        BY <2>1, <2>2 DEF OrderInv, HistoryInv
      <3>2. QED
        BY <2>1, <3>1, NumbersLen
    <2>4. walker[2 * c + 1] = "END"
      BY <2>1 DEF ServeInv, EndInv
    <2>5. QED
      BY <2>2, <2>3, <2>4 DEF nStarted, nFinished
  <1>2. QED
    BY <1>1, ServeInvariant, PTL

(* Every descriptor the controller reads is one the host has handed over:   *)
(* next_desc is followed only behind a chain bit (NEXT0 and NEXT1), and an  *)
(* append resumes from a job retired since the last reset.                  *)
THEOREM FetchesOwnJobs == ASSUME OrderlyHost PROVE Spec => []FetchesJobs
  <1>1. OrderInv /\ ServeInv => FetchesJobs
    <2> SUFFICES ASSUME OrderInv, ServeInv, state \in {"CMD0", "CMD1"}
                 PROVE  wbs_adr4 \in 1..submitted
      BY DEF FetchesJobs
    <2>1. /\ nStarted \in Nat /\ nFinished \in Nat /\ submitted \in Nat /\ dar \in Nat
          /\ nFinished <= nStarted /\ nStarted <= submitted /\ dar <= nFinished
      BY QueueTypes DEF OrderInv, IInv, QueueInv, BoundInv
    <2>2. CASE append_mode
      <3>1. state = "CMD0"
        BY <2>2 DEF OrderInv, IInv, AppendModeInv
      <3>2. wbs_adr4 = dar /\ dar # 0
        BY <2>2, <3>1 DEF OrderInv, QueueInv, PassInv, Fetch, ServeInv, DarInv
      <3>3. QED
        BY <2>1, <3>2
    <2>3. CASE ~append_mode
      <3>1. wbs_adr4 = nStarted + 1 /\ nStarted < submitted
        BY <2>3 DEF OrderInv, QueueInv, LoadInv, Fetch
      <3>2. QED
        BY <2>1, <3>1
    <2>4. QED
      BY <2>2, <2>3
  <1>2. QED
    BY <1>1, ServeInvariant, PTL

(* A host that only queues loses no job: when the controller is idle and    *)
(* NDAR is not dirty, everything handed over is finished.  With appends it  *)
(* is false, for a queued NDAR can be swallowed by an append (IdleAppend).  *)
THEOREM QuietDone ==
  ASSUME OrderlyHost, NoAppend
  PROVE  Spec => []QuietMeansDone
  <1>1. OrderInv => QuietMeansDone
    <2> SUFFICES ASSUME OrderInv, state = "IDLE", ~ndar_dirty
                 PROVE  nFinished = submitted
      BY DEF QuietMeansDone, AtRest, nFinished
    <2>1. nStarted = submitted
      BY DEF OrderInv, HostInv, NdarInv, Pending
    <2>2. nStarted = nFinished
      BY DEF OrderInv, QueueInv, IdleInv
    <2>3. QED
      BY <2>1, <2>2
  <1>2. QED
    BY <1>1, OrderInvariant, PTL

(* A host that only queues and waits for the busy bit of the CSR to fall    *)
(* has waited for all its jobs: busy is state # IDLE, and it rises in the   *)
(* cycle after the write that sets enable, before the host can read it.     *)
THEOREM BusyDone ==
  ASSUME OrderlyHost, WaitOn = "busy"
  PROVE  Spec => []BusyMeansDone
  <1>1. OrderInv => BusyMeansDone
    <2> SUFFICES ASSUME OrderInv, hpc = "ready" PROVE nFinished = submitted
      BY DEF BusyMeansDone, nFinished
    <2>1. nStarted = submitted /\ state = "IDLE"
      BY DEF OrderInv, HostInv, ContentInv, CaughtUp, Content
    <2>2. nStarted = nFinished
      BY <2>1 DEF OrderInv, QueueInv, IdleInv
    <2>3. QED
      BY <2>1, <2>2
  <1>2. QED
    BY <1>1, OrderInvariant, PTL

-----------------------------------------------------------------------------
(* The refinement of JobQueue *)

(* A store hands over at most the job it links.                             *)
LEMMA StoreRefines ==
  ASSUME OrderlyHost, OrderInv, Store
  PROVE  JQ!Submit \/ UNCHANGED JQ!vars
  <1>1. UNCHANGED <<started, finished>>
    BY DEF Store, EngineVars
  <1>2. CASE BuildChain \/ SeeResults
    BY <1>1, <1>2 DEF BuildChain, SeeResults, JQ!vars
  <1>3. CASE LinkJob
    <2>1. tail \in Nat /\ submitted \in Nat /\ NJobs \in Nat
      BY HostTypes DEF OrderInv, IInv
    <2>2. tail = submitted /\ submitted' = tail + 1 /\ tail < NJobs
      BY <1>3, <2>1 DEF LinkJob, OrderInv, HostInv, TailInv, Building
    <2>3. submitted' \in (submitted + 1)..NJobs
      BY <2>1, <2>2
    <2>4. QED
      BY <1>1, <2>3 DEF JQ!Submit
  <1>4. QED
    BY <1>2, <1>3 DEF Store, HostStore

(* A clock cycle starts a job, finishes one, takes a queue or drops what a  *)
(* reset drops, and never two of these.                                     *)
LEMMA CycleRefines ==
  ASSUME OrderlyHost, OrderInv, NEW acc \in Accesses, NEW ack \in BOOLEAN,
         NEW out \in RunOutcome, Cycle(acc, ack, out)
  PROVE  JQ!Next \/ UNCHANGED JQ!vars
  <1>1. /\ IInv /\ TypeOK /\ HistoryInv /\ QueueInv /\ HostInv
        /\ sys_rst_reg' \in BOOLEAN
    BY CycleTypeStep DEF OrderInv, IInv
  <1>2. /\ nStarted \in Nat /\ nFinished \in Nat /\ submitted \in Nat /\ NJobs \in Nat
        /\ tail \in 0..NJobs /\ started = Numbers(nStarted)
    BY <1>1, HostTypes DEF HistoryInv
  <1>3. CASE sys_rst_reg' = TRUE
    <2>1. submitted' = nFinished /\ started' = finished /\ finished' = finished
      BY <1>3, ResetCases
    <2>2. JQ!Abort
      BY <2>1 DEF JQ!Abort, nFinished
    <2>3. QED
      BY <2>2 DEF JQ!Next
  <1>4. CASE sys_rst_reg' = FALSE
    <2>1. HistoryStep(ack, FALSE) /\ HostMoves(acc, busy, wb_int_o)
      BY <1>4, HostCases DEF Cycle, CcrSets
    <2>2. Handing
      BY <1>1, <2>1, HandingStep
    <2>3. CASE Loading(ack)
      <3>1. /\ cdar = nStarted + 1 /\ nStarted < submitted /\ nStarted < nFinished + 2
            /\ state \notin {"CYC0", "CYC1"} /\ state # "IDLE" /\ ~append_mode
        BY <1>1, <1>2, <2>3 DEF Loading, LastBeat, QueueInv, LoadInv, Fetch, IInv, AppendModeInv
      <3>2. started' = Append(started, nStarted + 1) /\ finished' = finished
        BY <2>1, <2>3, <3>1 DEF HistoryStep
      <3>3. submitted' = submitted
        BY <2>2, <3>1 DEF Handing
      <3>4. JQ!Start
        BY <3>1, <3>2, <3>3 DEF JQ!Start, nStarted, nFinished
      <3>5. QED
        BY <3>4 DEF JQ!Next
    <2>4. CASE state \in {"CYC0", "CYC1"}
      <3>1. ~Loading(ack)
        BY <2>4 DEF Loading
      <3>2. finished' = Append(finished, nFinished + 1) /\ started' = started
        BY <1>1, <1>2, <2>1, <2>4, <3>1 DEF HistoryStep, QueueInv, RunInv, Oldest0, Oldest1, Last
      <3>3. nFinished < nStarted
        BY <1>1, <1>2, <2>4 DEF QueueInv, RunInv, Oldest0, Oldest1
      <3>4. nFinished + 1 \in 1..nStarted
        BY <1>2, <3>3
      <3>5. started[nFinished + 1] = nFinished + 1
        BY <1>2, <3>4, NumbersLen
      <3>6. submitted' = submitted
        BY <1>1, <2>2, <2>4 DEF Handing, IInv, AppendModeInv
      <3>7. JQ!Finish
        BY <3>2, <3>3, <3>5, <3>6 DEF JQ!Finish, nStarted, nFinished
      <3>8. QED
        BY <3>7 DEF JQ!Next
    <2>5. CASE ~Loading(ack) /\ state \notin {"CYC0", "CYC1"}
      <3>1. started' = started /\ finished' = finished
        BY <2>1, <2>5 DEF HistoryStep
      <3>2. submitted' = submitted \/ submitted' \in (submitted + 1)..NJobs
        BY <1>2, <2>2 DEF Handing
      <3>3. QED
        BY <3>1, <3>2 DEF JQ!Next, JQ!Submit, JQ!vars
    <2>6. QED
      BY <2>3, <2>4, <2>5
  <1>5. QED
    BY <1>1, <1>3, <1>4

(* The engine implements JobQueue: whatever the host queues, appends and    *)
(* resets, and however the bus and the walkers behave, the jobs are started *)
(* and finished once each, in order, two at a time at most.                 *)
THEOREM ImplementsJobQueue == ASSUME OrderlyHost PROVE Spec => JobOrder
  <1>1. Init => JQ!Init
    BY DEF Init, DriverInit, JQ!Init
  <1>2. OrderInv /\ [Next]_vars => [JQ!Next]_JQ!vars
    <2> SUFFICES ASSUME OrderInv, [Next]_vars PROVE JQ!Next \/ UNCHANGED JQ!vars
      OBVIOUS
    <2>1. CASE Store
      BY <2>1, StoreRefines DEF JQ!Next
    <2>2. CASE Tick
      BY <2>2, CycleRefines DEF Tick
    <2>3. CASE UNCHANGED vars
      BY <2>3 DEF vars, EngineVars, DriverVars, JQ!vars
    <2>4. QED
      BY <2>1, <2>2, <2>3 DEF Next
  <1>3. QED
    BY <1>1, <1>2, OrderInvariant, PTL DEF Spec, JobOrder, JQ!Spec

-----------------------------------------------------------------------------
(* Interrupts: a host that asks for an interrupt only with a result block   *)
(* to look at, and that does not reset the engine, misses no completion.    *)

AskingHost ==
    /\ OrderlyHost /\ "reset" \notin Ops
    /\ \A w \in Words : Interrupt \in w => WriteResult \in w

(* The bits of a job word that decide how its job is reported.              *)
Reports == {Interrupt, WriteResult}

(* The word in dc[c] says of them what memory says of the job there, though *)
(* the host may have chained another behind it since.                       *)
WordOf(c) == \A n \in Reports : n \in dc[c] <=> n \in mem[ctl_adr[c]].dc
Holds0 == \/ state \in {"NEXT0", "CMD1", "WAIT0", "CTL0", "TR0", "CYC0"}
          \/ state = "CMD0" /\ inc > 1
Holds1 == \/ state \in {"WAIT0", "CTL0", "TR0", "CYC0"} /\ Chain \in dc[0]
          \/ state \in {"WAIT1", "CTL1", "TR1", "CYC1"}
          \/ state = "CMD1" /\ inc > 1
WordInv == (Holds0 => WordOf(0)) /\ (Holds1 => WordOf(1))

(* The result of a job that asks for one is written before it is finished.  *)
WrittenInv ==
    /\ state \in {"TR0", "CYC0"} /\ WriteResult \in dc[0] => ctl_adr[0] \in results
    /\ state \in {"TR1", "CYC1"} /\ WriteResult \in dc[1] => ctl_adr[1] \in results
    /\ \A a \in 1..nFinished : WriteResult \in mem[a].dc => a \in results
AskInv == \A a \in 0..NJobs : Interrupt \in mem[a].dc => WriteResult \in mem[a].dc

(* The interrupt is up until the host that was told looks at the results.   *)
ToldInv ==
    /\ hpc = "boot" => submitted = 0
    /\ hpc # "boot" => wb_int_enable
    /\ wb_int_clear <=> hpc = "scan"
    /\ hpc = "scan" => wb_int_reg
    /\ ~sys_rst_reg
    /\ \A a \in 1..nFinished : Interrupt \in mem[a].dc /\ a \notin seen => wb_int_reg

ReportInv == WordInv /\ WrittenInv /\ AskInv /\ ToldInv

(* The jobs whose words the controller holds have been handed over.         *)
LEMMA HeldJobs ==
  ASSUME TypeOK, AppendModeInv, QueueInv
  PROVE  /\ Holds0 => ctl_adr[0] \in 0..NJobs /\ ctl_adr[0] <= submitted
         /\ Holds1 => ctl_adr[1] \in 0..NJobs /\ ctl_adr[1] <= submitted
  <1>1. /\ nStarted \in Nat /\ nFinished \in Nat /\ submitted \in Nat /\ NJobs \in Nat
        /\ dar \in Nat /\ inc \in 0..3 /\ ctl_adr[0] \in 0..NJobs /\ ctl_adr[1] \in 0..NJobs
        /\ nFinished <= nStarted /\ nStarted <= submitted /\ dar <= nFinished
    BY QueueTypes DEF QueueInv, BoundInv
  <1>2. Holds0 => ctl_adr[0] <= submitted
    <2>1. CASE append_mode
      BY <1>1, <2>1 DEF AppendModeInv, Holds0, QueueInv, PassInv, Fetch, Last
    <2>2. CASE ~append_mode
      BY <1>1, <2>2 DEF Holds0, QueueInv, LoadInv, RunInv, Oldest0, Fetch, Last
    <2>3. QED
      BY <2>1, <2>2
  <1>3. Holds1 => ctl_adr[1] <= submitted
    BY <1>1 DEF Holds1, QueueInv, LoadInv, RunInv, Oldest0, Oldest1, Fetch, Last
  <1>4. QED
    BY <1>1, <1>2, <1>3

-----------------------------------------------------------------------------
(* Stores *)

LEMMA BuildWords ==
  ASSUME TypeOK, BuildChain
  PROVE  /\ \A a \in 0..NJobs :
              mem'[a] = mem[a] \/ \E x \in Words : mem'[a].dc \in {x, x \cup {ChainBit}}
         /\ \A a \in 0..NJobs : a <= submitted =>
              mem'[a] = mem[a] /\ (a \in results' <=> a \in results) /\ (a \in seen' <=> a \in seen)
  <1>1. submitted \in Nat /\ NJobs \in Nat
    BY HostTypes
  <1>2. PICK last \in (submitted + 1)..NJobs :
          \E w \in [(submitted + 1)..last -> Words] :
            /\ mem' = [a \in 0..NJobs |->
                 CASE a \in DOMAIN w /\ a < last ->
                        [next |-> a + 1, dc |-> w[a] \cup {ChainBit}]
                   [] a = last -> [next |-> NextSlot(a), dc |-> w[a]]
                   [] OTHER -> mem[a]]
            /\ results' = results \ DOMAIN w
            /\ seen' = seen \ DOMAIN w
    BY DEF BuildChain
  <1>3. PICK w \in [(submitted + 1)..last -> Words] :
          /\ mem' = [a \in 0..NJobs |->
               CASE a \in DOMAIN w /\ a < last ->
                      [next |-> a + 1, dc |-> w[a] \cup {ChainBit}]
                 [] a = last -> [next |-> NextSlot(a), dc |-> w[a]]
                 [] OTHER -> mem[a]]
          /\ results' = results \ DOMAIN w
          /\ seen' = seen \ DOMAIN w
    BY <1>2
  <1>4. last \in Nat /\ submitted < last /\ last <= NJobs /\ DOMAIN w = (submitted + 1)..last
    BY <1>1
  <1>5. ASSUME NEW a \in 0..NJobs, a <= submitted
        PROVE  mem'[a] = mem[a] /\ (a \in results' <=> a \in results) /\ (a \in seen' <=> a \in seen)
    <2>1. a \notin DOMAIN w /\ a # last
      BY <1>1, <1>4, <1>5
    <2>2. QED
      BY <1>3, <2>1
  <1>6. ASSUME NEW a \in 0..NJobs
        PROVE  mem'[a] = mem[a] \/ \E x \in Words : mem'[a].dc \in {x, x \cup {ChainBit}}
    <2>1. CASE a \in DOMAIN w /\ a < last
      <3>1. mem'[a] = [next |-> a + 1, dc |-> w[a] \cup {ChainBit}] /\ w[a] \in Words
        BY <1>3, <2>1
      <3>2. QED
        BY <3>1
    <2>2. CASE a = last
      <3>1. mem'[a] = [next |-> NextSlot(a), dc |-> w[a]] /\ w[a] \in Words
        BY <1>1, <1>3, <1>4, <2>2
      <3>2. QED
        BY <3>1
    <2>3. CASE ~(a \in DOMAIN w /\ a < last) /\ a # last
      BY <1>3, <2>3
    <2>4. QED
      BY <2>1, <2>2, <2>3
  <1>7. QED
    BY <1>5, <1>6

LEMMA LinkWords ==
  ASSUME TypeOK, LinkJob
  PROVE  /\ tail \in 0..NJobs /\ tail + 1 \in 0..NJobs
         /\ results' = results \ {tail + 1} /\ seen' = seen \ {tail + 1}
         /\ \A a \in 0..NJobs : a # tail /\ a # tail + 1 => mem'[a] = mem[a]
         /\ mem'[tail].dc = mem[tail].dc \cup {ChainBit} /\ mem'[tail + 1].dc \in Words
  <1>1. /\ tail \in Nat /\ NJobs \in Nat /\ 0 < tail /\ tail < NJobs
        /\ results' = results \ {tail + 1} /\ seen' = seen \ {tail + 1}
    BY HostTypes DEF LinkJob
  <1>2. PICK w \in Words :
          mem' = [mem EXCEPT
                    ![tail + 1] = [next |-> NextSlot(tail + 1), dc |-> w],
                    ![tail] = [next |-> tail + 1, dc |-> @.dc \cup {ChainBit}]]
    BY DEF LinkJob
  <1>3. DOMAIN mem = 0..NJobs /\ tail \in 0..NJobs /\ tail + 1 \in 0..NJobs
    BY <1>1 DEF TypeOK
  <1>4. \A a \in 0..NJobs : a # tail /\ a # tail + 1 => mem'[a] = mem[a]
    BY <1>2, <1>3
  <1>5. mem'[tail] = [next |-> tail + 1, dc |-> mem[tail].dc \cup {ChainBit}]
    BY <1>1, <1>2, <1>3
  <1>6. mem'[tail + 1] = [next |-> NextSlot(tail + 1), dc |-> w]
    BY <1>1, <1>2, <1>3
  <1>7. QED
    BY <1>1, <1>3, <1>4, <1>5, <1>6

(* Of the jobs handed over a store changes nothing that is reported.        *)
LEMMA StoreKeeps ==
  ASSUME AskingHost, TypeOK, QueueInv, HostInv, AskInv, Store
  PROVE  /\ AskInv'
         /\ \A a \in 0..NJobs : a <= submitted =>
              /\ \A n \in Reports : n \in mem'[a].dc <=> n \in mem[a].dc
              /\ a \in results' <=> a \in results
         /\ \/ seen' = results
            \/ \A a \in 0..NJobs : a <= submitted => (a \in seen' <=> a \in seen)
  <1>1. submitted \in Nat /\ NJobs \in Nat /\ Chain \notin Reports
    BY HostTypes DEF Reports, Chain, Interrupt, WriteResult
  <1>2. /\ ChainBit = Chain
        /\ \A x \in Words : Interrupt \in x => WriteResult \in x
    BY DEF AskingHost, OrderlyHost
  <1>3. \A x : \A n \in Reports : n \in x \cup {ChainBit} <=> n \in x
    BY <1>1, <1>2
  <1>4. Interrupt \in Reports /\ WriteResult \in Reports
    BY DEF Reports
  <1>5. CASE BuildChain
    <2>1. ASSUME NEW a \in 0..NJobs, Interrupt \in mem'[a].dc PROVE WriteResult \in mem'[a].dc
      <3>1. mem'[a] = mem[a] \/ \E x \in Words : mem'[a].dc \in {x, x \cup {ChainBit}}
        BY <1>5, BuildWords
      <3>2. QED
        BY <1>2, <1>3, <1>4, <2>1, <3>1 DEF AskInv
    <2>2. QED
      BY <1>5, <2>1, BuildWords DEF AskInv
  <1>6. CASE LinkJob
    <2>1. tail = submitted
      BY <1>6, <1>1 DEF LinkJob, HostInv, TailInv, Building
    <2>2. /\ tail \in 0..NJobs /\ tail + 1 \in 0..NJobs
          /\ results' = results \ {tail + 1} /\ seen' = seen \ {tail + 1}
          /\ \A a \in 0..NJobs : a # tail /\ a # tail + 1 => mem'[a] = mem[a]
          /\ mem'[tail].dc = mem[tail].dc \cup {ChainBit} /\ mem'[tail + 1].dc \in Words
      BY <1>6, LinkWords
    <2>3. ASSUME NEW a \in 0..NJobs, a <= submitted
          PROVE  /\ \A n \in Reports : n \in mem'[a].dc <=> n \in mem[a].dc
                 /\ (a \in results' <=> a \in results) /\ (a \in seen' <=> a \in seen)
      <3>1. a # tail + 1
        BY <1>1, <2>1, <2>3
      <3>2. \A n \in Reports : n \in mem'[a].dc <=> n \in mem[a].dc
        BY <1>3, <2>2, <3>1
      <3>3. QED
        BY <2>2, <3>1, <3>2
    <2>4. AskInv'
      <3>1. ASSUME NEW a \in 0..NJobs, Interrupt \in mem'[a].dc PROVE WriteResult \in mem'[a].dc
        <4>1. CASE a = tail + 1
          BY <1>2, <2>2, <3>1, <4>1
        <4>2. CASE a = tail
          BY <1>3, <1>4, <2>2, <3>1, <4>2 DEF AskInv
        <4>3. CASE a # tail /\ a # tail + 1
          BY <2>2, <3>1, <4>3 DEF AskInv
        <4>4. QED
          BY <4>1, <4>2, <4>3
      <3>2. QED
        BY <3>1 DEF AskInv
    <2>5. QED
      BY <2>3, <2>4
  <1>7. CASE SeeResults
    BY <1>7 DEF SeeResults, AskInv
  <1>8. QED
    BY <1>5, <1>6, <1>7 DEF Store, HostStore

LEMMA ReportStore ==
  ASSUME AskingHost, OrderInv, ReportInv, Store
  PROVE  ReportInv'
  <1>1. /\ TypeOK /\ AppendModeInv /\ QueueInv /\ HostInv /\ UNCHANGED EngineVars
        /\ WordInv /\ WrittenInv /\ AskInv /\ ToldInv
    BY DEF OrderInv, IInv, Store, ReportInv
  <1>2. /\ AskInv'
        /\ \A a \in 0..NJobs : a <= submitted =>
              /\ \A n \in Reports : n \in mem'[a].dc <=> n \in mem[a].dc
              /\ a \in results' <=> a \in results
        /\ \/ seen' = results
           \/ \A a \in 0..NJobs : a <= submitted => (a \in seen' <=> a \in seen)
    BY <1>1, StoreKeeps
  <1>3. /\ state' = state /\ inc' = inc /\ dc' = dc /\ ctl_adr' = ctl_adr
        /\ nFinished' = nFinished /\ wb_int_reg' = wb_int_reg
        /\ wb_int_enable' = wb_int_enable /\ wb_int_clear' = wb_int_clear
        /\ sys_rst_reg' = sys_rst_reg
    BY <1>1 DEF EngineVars, nFinished
  <1>4. (Holds0' <=> Holds0) /\ (Holds1' <=> Holds1)
    BY <1>3 DEF Holds0, Holds1
  <1>5. WordInv'
    BY <1>1, <1>2, <1>3, <1>4, HeldJobs DEF WordInv, WordOf, Reports
  <1>6. \A a \in 1..nFinished : a \in 0..NJobs /\ a <= submitted
    BY <1>1, HostTypes DEF QueueInv, BoundInv
  <1>7. WrittenInv'
    <2>1. /\ state \in {"TR0", "CYC0"} => Holds0
          /\ state \in {"TR1", "CYC1"} => Holds1
      BY DEF Holds0, Holds1
    <2>2. WriteResult \in Reports
      BY DEF Reports
    <2>3. QED
      BY <1>1, <1>2, <1>3, <1>6, <2>1, <2>2, HeldJobs DEF WrittenInv
  <1>8. ToldInv'
    <2>1. /\ hpc \notin {"boot", "scan"} /\ hpc' \notin {"boot", "scan"}
      BY <1>1 DEF Store, HostStore, BuildChain, LinkJob, SeeResults
    <2>2. ASSUME NEW a \in 1..nFinished, Interrupt \in mem'[a].dc, a \notin seen'
          PROVE  wb_int_reg
      <3>1. Interrupt \in mem[a].dc /\ WriteResult \in mem[a].dc
        BY <1>1, <1>2, <1>6, <2>2 DEF Reports, AskInv
      <3>2. a \in results
        BY <1>1, <3>1 DEF WrittenInv
      <3>3. a \notin seen
        BY <1>2, <1>6, <2>2, <3>2
      <3>4. QED
        BY <1>1, <3>1, <3>3 DEF ToldInv
    <2>3. QED
      BY <1>1, <1>3, <2>1, <2>2 DEF ToldInv
  <1>9. QED
    BY <1>2, <1>5, <1>7, <1>8 DEF ReportInv

-----------------------------------------------------------------------------
(* Clock cycles *)

(* What the registers of a channel become in a cycle.                       *)
LEMMA WordStep ==
  ASSUME TypeOK, AppendModeInv, QueueInv, WordInv, mem' = mem,
         NEW cyc_i, NEW ack \in BOOLEAN, CtrlMachine(cyc_i, ack)
  PROVE  WordInv'
  <1>1. /\ state \in States /\ inc \in 0..3 /\ append_mode \in BOOLEAN
        /\ ctl_adr \in [0..1 -> 0..NJobs] /\ dc \in [0..1 -> SUBSET DcBits]
    BY QueueTypes
  <1>2. ASSUME NEW c \in 0..1, dc'[c] = dc[c], ctl_adr'[c] = ctl_adr[c], WordOf(c)
        PROVE  WordOf(c)'
    <2>1. \A n \in Reports : n \in dc[c] <=> n \in mem[ctl_adr[c]].dc
      BY <1>2 DEF WordOf
    <2>2. \A n \in Reports : n \in dc'[c] <=> n \in mem'[ctl_adr'[c]].dc
      BY <1>2, <2>1
    <2>3. QED
      BY <2>2 DEF WordOf, Reports
  <1>3. ASSUME NEW c \in 0..1, dc'[c] = mem[ctl_adr'[c]].dc
        PROVE  WordOf(c)'
    BY <1>3 DEF WordOf
  <1>4. CASE Cmd0(ack)
    <2>1. /\ state = "CMD0" /\ Beat(ack) /\ Latch(0, ack)
          /\ state' = IF LastBeat(ack) THEN "NEXT0" ELSE "CMD0"
      BY <1>4 DEF Cmd0
    <2>2. ~Holds1'
      BY <2>1 DEF Holds1
    <2>3. inc > 0 => ctl_adr[0] = wbs_adr4
      BY <1>1, <2>1 DEF QueueInv, PassInv, LoadInv, Fetch
    <2>4. /\ ~ack => inc' = inc
          /\ ack => inc' = IF inc = 3 THEN 0 ELSE inc + 1
          /\ ~(ack /\ inc = 0) => ctl_adr'[0] = ctl_adr[0]
          /\ ack /\ inc = 1 => dc'[0] = mem[wbs_adr4].dc
          /\ ~(ack /\ inc = 1) => dc'[0] = dc[0]
      BY <2>1, BeatRegisters
    <2>5. CASE ack /\ inc = 1
      BY <1>3, <2>2, <2>3, <2>4, <2>5 DEF WordInv
    <2>6. CASE ~(ack /\ inc = 1)
      <3>1. Holds0' => Holds0 /\ ~(ack /\ inc = 0)
        BY <1>1, <2>1, <2>4, <2>6 DEF Holds0, LastBeat
      <3>2. QED
        BY <1>2, <2>2, <2>4, <2>6, <3>1 DEF WordInv
    <2>7. QED
      BY <2>5, <2>6
  <1>5. CASE Cmd1(ack)
    <2>1. /\ state = "CMD1" /\ Beat(ack) /\ Latch(1, ack)
          /\ state' = IF LastBeat(ack) THEN "WAIT0" ELSE "CMD1"
      BY <1>5 DEF Cmd1
    <2>2. ctl_adr'[0] = ctl_adr[0] /\ dc'[0] = dc[0]
      BY <2>1, OtherChannel
    <2>3. inc > 0 => ctl_adr[1] = wbs_adr4
      BY <1>1, <2>1 DEF QueueInv, LoadInv, Fetch
    <2>4. /\ ~ack => inc' = inc
          /\ ack => inc' = IF inc = 3 THEN 0 ELSE inc + 1
          /\ ~(ack /\ inc = 0) => ctl_adr'[1] = ctl_adr[1]
          /\ ack /\ inc = 1 => dc'[1] = mem[wbs_adr4].dc
          /\ ~(ack /\ inc = 1) => dc'[1] = dc[1]
      BY <2>1, BeatRegisters
    <2>5. WordOf(0)'
      BY <1>2, <2>1, <2>2 DEF WordInv, Holds0
    <2>6. CASE ack /\ inc = 1
      BY <1>3, <2>3, <2>4, <2>5, <2>6 DEF WordInv
    <2>7. CASE ~(ack /\ inc = 1)
      <3>1. Holds1' => Holds1 /\ ~(ack /\ inc = 0)
        BY <1>1, <2>1, <2>4, <2>7 DEF Holds1, LastBeat
      <3>2. QED
        BY <1>2, <2>4, <2>5, <2>7, <3>1 DEF WordInv
    <2>8. QED
      BY <2>6, <2>7
  <1>6. CASE ~Cmd0(ack) /\ ~Cmd1(ack)
    <2>1. dc' = dc /\ ctl_adr' = ctl_adr
      BY <1>6 DEF CtrlMachine, IdleWait, IdleQueue, IdleAppend, Next0, Wait0,
             Wait1, Ctl, Tr, Cyc0, Cyc1, Next1, LatchHold
    <2>2. (Holds0' => Holds0) /\ (Holds1' => Holds1)
      <3>1. CASE Next0
        BY <1>1, <3>1 DEF Next0, Burst, BusHold, LatchHold, Holds0, Holds1
      <3>2. CASE IdleWait \/ IdleQueue \/ IdleAppend \/ Next1
        <4>1. state' = "IDLE" \/ (state' = "CMD0" /\ inc' = 0)
          BY <3>2 DEF IdleWait, IdleQueue, IdleAppend, Next1, Burst
        <4>2. ~Holds0' /\ ~Holds1'
          BY <4>1 DEF Holds0, Holds1
        <4>3. QED
          BY <4>2
      <3>3. CASE Wait0 \/ Ctl("CTL0", "TR0", ack) \/ Tr("TR0", "CYC0", cyc_i)
        <4>1. /\ state \in {"WAIT0", "CTL0", "TR0"} /\ dc' = dc
              /\ state' \in {"WAIT0", "CTL0", "TR0", "CYC0"}
          BY <3>3 DEF Wait0, Retire, Ctl, Tr, LatchHold, BusHold
        <4>2. QED
          BY <4>1 DEF Holds0, Holds1
      <3>4. CASE Wait1 \/ Ctl("CTL1", "TR1", ack) \/ Tr("TR1", "CYC1", cyc_i)
        <4>1. /\ state \in {"WAIT1", "CTL1", "TR1"}
              /\ state' \in {"WAIT1", "CTL1", "TR1", "CYC1"}
          BY <3>4 DEF Wait1, Retire, Ctl, Tr, BusHold
        <4>2. QED
          BY <4>1 DEF Holds0, Holds1
      <3>5. CASE Cyc0 \/ Cyc1
        BY <3>5 DEF Cyc0, Cyc1, Holds0, Holds1
      <3>6. QED
        BY <1>6, <3>1, <3>2, <3>3, <3>4, <3>5 DEF CtrlMachine
    <2>3. QED
      BY <1>2, <2>1, <2>2 DEF WordInv
  <1>7. QED
    BY <1>4, <1>5, <1>6

(* The interrupt register in a cycle: it is set by a job that asks for it.  *)
Asks == \/ state = "CYC0" /\ Interrupt \in dc[0]
        \/ state = "CYC1" /\ Interrupt \in dc[1]

LEMMA InterruptStep ==
  ASSUME TypeOK, wb_int_clear => wb_int_reg /\ wb_int_enable,
         NEW cyc_i, NEW ack, CtrlMachine(cyc_i, ack)
  PROVE  /\ Asks => wb_int_reg'
         /\ ~wb_int_clear /\ wb_int_reg /\ wb_int_enable => wb_int_reg'
  <1>1. wb_int_clear \in BOOLEAN
    BY DEF TypeOK, WbmTypeOK
  <1>2. ASSUME NEW s \in BOOLEAN, IntStep(s)
        PROVE  /\ s => wb_int_reg'
               /\ ~wb_int_clear /\ wb_int_reg /\ wb_int_enable => wb_int_reg'
    <2>1. CASE wb_int_clear = s
      <3>1. wb_int_reg' = wb_int_o
        BY <1>2, <2>1 DEF IntStep
      <3>2. wb_int_o <=> wb_int_reg /\ wb_int_enable
        BY DEF wb_int_o
      <3>3. QED
        BY <2>1, <3>1, <3>2
    <2>2. CASE wb_int_clear # s
      BY <1>1, <1>2, <2>2 DEF IntStep
    <2>3. QED
      BY <2>1, <2>2
  <1>3. CASE Cyc0
    <2>1. IntStep(Interrupt \in dc[0]) /\ (Asks => Interrupt \in dc[0])
      BY <1>3 DEF Cyc0, Asks
    <2>2. \A n, S : (n \in S) \in BOOLEAN
      OBVIOUS
    <2>3. PICK s : s = (Interrupt \in dc[0])
      OBVIOUS
    <2>4. s \in BOOLEAN
      BY <2>2, <2>3, Zenon
    <2>5. IntStep(s) /\ (Asks => s)
      BY <2>1, <2>3
    <2>6. QED
      BY <1>2, <2>4, <2>5
  <1>4. CASE Cyc1
    <2>1. IntStep(Interrupt \in dc[1]) /\ (Asks => Interrupt \in dc[1])
      BY <1>4 DEF Cyc1, Asks
    <2>2. \A n, S : (n \in S) \in BOOLEAN
      OBVIOUS
    <2>3. PICK s : s = (Interrupt \in dc[1])
      OBVIOUS
    <2>4. s \in BOOLEAN
      BY <2>2, <2>3, Zenon
    <2>5. IntStep(s) /\ (Asks => s)
      BY <2>1, <2>3
    <2>6. QED
      BY <1>2, <2>4, <2>5
  <1>5. CASE ~Cyc0 /\ ~Cyc1
    <2>1. IntStep(FALSE) /\ ~Asks
      BY <1>5 DEF CtrlMachine, IdleWait, IdleQueue, IdleAppend, Cmd0, Next0, Cmd1, Wait0,
             Wait1, Ctl, Tr, Next1, Asks
    <2>2. QED
      BY <1>2, <2>1
  <1>6. QED
    BY <1>3, <1>4, <1>5

(* What the host does about interrupts in a cycle.                          *)
HostTold(intr) ==
    /\ wb_int_enable => wb_int_enable'
    /\ hpc = "boot" /\ hpc' # "boot" => wb_int_enable'
    /\ hpc' = "boot" => hpc = "boot"
    /\ \/ hpc # "scan" /\ hpc' = "scan" /\ wb_int_clear' /\ intr /\ seen' = seen
       \/ hpc # "scan" /\ hpc' # "scan" /\ ~wb_int_clear' /\ seen' = seen
       \/ hpc = "scan" /\ hpc' # "scan" /\ ~wb_int_clear' /\ seen' = results

LEMMA ReadAccess ==
  ASSUME NEW acc \in {NoAccess, CsrRead}, WbmStep(acc)
  PROVE  ~wb_int_clear' /\ wb_int_enable' = wb_int_enable
  <1>1. ~acc.we
    BY DEF NoAccess, CsrRead
  <1>2. ~ccr_we(acc) /\ ~csr_we(acc)
    BY <1>1 DEF ccr_we, csr_we
  <1>3. wb_int_enable' = wb_int_enable
    BY <1>2, Zenon DEF WbmStep, CsrStep
  <1>4. ~wb_int_clear'
    BY <1>2, Zenon DEF WbmStep, CcrStep
  <1>5. QED
    BY <1>3, <1>4

LEMMA CcrTold ==
  ASSUME NEW bits, WbmStep(CcrWrite(bits))
  PROVE  (wb_int_clear' <=> CcrIntAck \in bits) /\ wb_int_enable' = wb_int_enable
  <1>1. /\ CcrWrite(bits).we /\ CcrWrite(bits).reg = "CCR" /\ CcrWrite(bits).dat = bits
    BY DEF CcrWrite
  <1>2. ccr_we(CcrWrite(bits)) /\ ~csr_we(CcrWrite(bits))
    BY <1>1 DEF ccr_we, csr_we
  <1>3. wb_int_enable' = wb_int_enable
    BY <1>2, Zenon DEF WbmStep, CsrStep
  <1>4. wb_int_clear' = (CcrIntAck \in CcrWrite(bits).dat)
    BY <1>2, Zenon DEF WbmStep, CcrStep
  <1>5. wb_int_clear' <=> CcrIntAck \in bits
    BY <1>1, <1>4, Zenon
  <1>6. QED
    BY <1>3, <1>5

LEMMA NdarTold ==
  ASSUME NEW a, WbmStep(NdarWrite(a))
  PROVE  ~wb_int_clear' /\ wb_int_enable' = wb_int_enable
  <1>1. NdarWrite(a).reg = "NDAR"
    BY DEF NdarWrite
  <1>2. ~ccr_we(NdarWrite(a)) /\ ~csr_we(NdarWrite(a))
    BY <1>1 DEF ccr_we, csr_we
  <1>3. wb_int_enable' = wb_int_enable
    BY <1>2, Zenon DEF WbmStep, CsrStep
  <1>4. ~wb_int_clear'
    BY <1>2, Zenon DEF WbmStep, CcrStep
  <1>5. QED
    BY <1>3, <1>4

LEMMA CsrTold ==
  ASSUME NEW bits, WbmStep(CsrWrite(bits)), CsrIntEnable \in bits
  PROVE  ~wb_int_clear' /\ wb_int_enable'
  <1>1. CsrWrite(bits).we /\ CsrWrite(bits).reg = "CSR" /\ CsrWrite(bits).dat = bits
    BY DEF CsrWrite
  <1>2. ~ccr_we(CsrWrite(bits)) /\ csr_we(CsrWrite(bits))
    BY <1>1 DEF ccr_we, csr_we
  <1>3. wb_int_enable' = (CsrIntEnable \in CsrWrite(bits).dat)
    BY <1>2, Zenon DEF WbmStep, CsrStep
  <1>4. wb_int_enable'
    BY <1>1, <1>3, Zenon
  <1>5. ~wb_int_clear'
    BY <1>2, Zenon DEF WbmStep, CcrStep
  <1>6. QED
    BY <1>4, <1>5

LEMMA HostInterrupts ==
  ASSUME NEW acc, NEW b, NEW intr, NEW n, "reset" \notin Ops,
         DriverCycle(acc, b, intr, n), WbmStep(acc)
  PROVE  HostTold(intr)
  <1> USE DEF HostTold, Write, MemoryHold
  <1>1. CASE EnableInterrupt(acc)
    <2>1. ~wb_int_clear' /\ wb_int_enable'
      <3>1. PICK bits : bits = {CsrIntEnable}
        OBVIOUS
      <3>2. acc = CsrWrite(bits) /\ CsrIntEnable \in bits
        BY <1>1, <3>1 DEF EnableInterrupt
      <3>3. QED
        BY <3>2, CsrTold
    <2>2. QED
      BY <1>1, <2>1 DEF EnableInterrupt
  <1>2. CASE Disable(acc)
    <2>1. ~wb_int_clear' /\ wb_int_enable' = wb_int_enable
      <3>1. PICK bits : bits = {}
        OBVIOUS
      <3>2. acc = CcrWrite(bits) /\ CcrIntAck \notin bits
        BY <1>2, <3>1 DEF Disable
      <3>3. QED
        BY <3>2, CcrTold
    <2>2. QED
      BY <1>2, <2>1 DEF Disable
  <1>3. CASE QueueJob(acc)
    <2>1. ~wb_int_clear' /\ wb_int_enable' = wb_int_enable
      BY <1>3, NdarTold DEF QueueJob
    <2>2. QED
      BY <1>3, <2>1 DEF QueueJob
  <1>4. CASE Go(acc)
    <2>1. ~wb_int_clear' /\ wb_int_enable' = wb_int_enable
      <3>1. acc = CcrWrite({CcrEnable}) /\ CcrIntAck \notin {CcrEnable}
        BY <1>4 DEF Go, Wait, CcrIntAck, CcrEnable
      <3>2. QED
        BY <3>1, CcrTold
    <2>2. QED
      BY <1>4, <2>1 DEF Go, Wait
  <1>5. CASE AppendJob(acc)
    <2>1. ~wb_int_clear' /\ wb_int_enable' = wb_int_enable
      <3>1. acc = CcrWrite({CcrEnable, CcrAppend}) /\ CcrIntAck \notin {CcrEnable, CcrAppend}
        BY <1>5 DEF AppendJob, Wait, CcrIntAck, CcrEnable, CcrAppend
      <3>2. QED
        BY <3>1, CcrTold
    <2>2. QED
      BY <1>5, <2>1 DEF AppendJob, Wait
  <1>6. CASE LetPass(acc)
    <2>1. ~wb_int_clear' /\ wb_int_enable' = wb_int_enable
      BY <1>6, ReadAccess DEF LetPass
    <2>2. QED
      BY <1>6, <2>1 DEF LetPass
  <1>7. CASE Poll(acc, b)
    <2>1. ~wb_int_clear' /\ wb_int_enable' = wb_int_enable
      BY <1>7, ReadAccess DEF Poll
    <2>2. QED
      BY <1>7, <2>1 DEF Poll
  <1>8. CASE AckInterrupt(acc, intr)
    <2>1. wb_int_clear' /\ wb_int_enable' = wb_int_enable
      <3>1. acc = CcrWrite({CcrEnable, CcrIntAck}) /\ CcrIntAck \in {CcrEnable, CcrIntAck}
        BY <1>8 DEF AckInterrupt
      <3>2. QED
        BY <3>1, CcrTold
    <2>2. QED
      BY <1>8, <2>1 DEF AckInterrupt
  <1>9. CASE Scan(acc)
    <2>1. ~wb_int_clear' /\ wb_int_enable' = wb_int_enable
      BY <1>9, ReadAccess DEF Scan
    <2>2. QED
      BY <1>9, <2>1 DEF Scan
  <1>10. CASE Quiet(acc)
    <2>1. ~wb_int_clear' /\ wb_int_enable' = wb_int_enable
      BY <1>10, ReadAccess DEF Quiet
    <2>2. QED
      BY <1>10, <2>1 DEF Quiet, DriverVars
  <1>11. QED
    BY <1>1, <1>2, <1>3, <1>4, <1>5, <1>6, <1>7, <1>8, <1>9, <1>10 DEF DriverCycle, Reset

(* Results only come in a cycle, and a job is retired with its own in place.*)
LEMMA WrittenStep ==
  ASSUME TypeOK, QueueInv, WordInv, WrittenInv, mem' = mem,
         NEW cyc_i, NEW ack \in BOOLEAN, CtrlMachine(cyc_i, ack),
         HistoryStep(ack, FALSE), Counting(ack)
  PROVE  WrittenInv'
  <1>1. /\ nStarted \in Nat /\ nFinished \in Nat
        /\ WriteResult \in Reports
    BY QueueTypes DEF Reports
  <1>2. /\ \A a \in results : a \in results'
        /\ LastBeat(ack) /\ state = "CTL0" => ctl_adr[0] \in results'
        /\ LastBeat(ack) /\ state = "CTL1" => ctl_adr[1] \in results'
    BY DEF HistoryStep
  <1>3. /\ state' \in {"TR0", "CYC0"} =>
              /\ dc' = dc /\ ctl_adr' = ctl_adr
              /\ \/ state \in {"TR0", "CYC0"}
                 \/ state = "CTL0" /\ LastBeat(ack)
                 \/ WriteResult \notin dc[0]
    <2>1. \/ state' \notin {"TR0", "CYC0"}
          \/ Wait0 \/ Ctl("CTL0", "TR0", ack) \/ Tr("TR0", "CYC0", cyc_i)
      BY DEF CtrlMachine, IdleWait, IdleQueue, IdleAppend, Cmd0, Next0, Cmd1, Wait1,
             Retire, Ctl, Tr, Cyc0, Cyc1, Next1, BusHold
    <2>2. QED
      BY <2>1 DEF Wait0, Retire, Ctl, Tr, LatchHold, BusHold
  <1>4. /\ state' \in {"TR1", "CYC1"} =>
              /\ dc' = dc /\ ctl_adr' = ctl_adr
              /\ \/ state \in {"TR1", "CYC1"}
                 \/ state = "CTL1" /\ LastBeat(ack)
                 \/ WriteResult \notin dc[1]
    <2>1. \/ state' \notin {"TR1", "CYC1"}
          \/ Wait1 \/ Ctl("CTL1", "TR1", ack) \/ Tr("TR1", "CYC1", cyc_i)
      BY DEF CtrlMachine, IdleWait, IdleQueue, IdleAppend, Cmd0, Next0, Cmd1, Wait0,
             Retire, Ctl, Tr, Cyc0, Cyc1, Next1, BusHold
    <2>2. QED
      BY <2>1 DEF Wait1, Retire, Ctl, Tr, LatchHold, BusHold
  <1>5. ASSUME NEW a \in 1..nFinished', WriteResult \in mem[a].dc
        PROVE  a \in results'
    <2>1. CASE a \in 1..nFinished
      BY <1>2, <1>5, <2>1 DEF WrittenInv
    <2>2. CASE a \notin 1..nFinished
      <3>1. a = nFinished + 1 /\ state \in {"CYC0", "CYC1"}
        BY <1>1, <2>2 DEF Counting
      <3>2. CASE state = "CYC0"
        <4>1. ctl_adr[0] = a /\ WordOf(0)
          BY <3>1, <3>2 DEF QueueInv, RunInv, Oldest0, WordInv, Holds0
        <4>2. WriteResult \in dc[0]
          BY <1>1, <1>5, <4>1 DEF WordOf
        <4>3. QED
          BY <1>2, <3>2, <4>1, <4>2 DEF WrittenInv
      <3>3. CASE state = "CYC1"
        <4>1. ctl_adr[1] = a /\ WordOf(1)
          BY <1>1, <3>1, <3>3 DEF QueueInv, RunInv, Oldest1, Last, WordInv, Holds1
        <4>2. WriteResult \in dc[1]
          BY <1>1, <1>5, <4>1 DEF WordOf
        <4>3. QED
          BY <1>2, <3>3, <4>1, <4>2 DEF WrittenInv
      <3>4. QED
        BY <3>1, <3>2, <3>3
    <2>3. QED
      BY <2>1, <2>2
  <1>6. QED
    BY <1>2, <1>3, <1>4, <1>5 DEF WrittenInv

LEMMA ToldStep ==
  ASSUME AskingHost, OrderInv, ReportInv, mem' = mem, submitted' = submitted \/ hpc # "boot",
         HostTold(wb_int_o), ~sys_rst_reg',
         NEW cyc_i, NEW ack \in BOOLEAN, CtrlMachine(cyc_i, ack), Counting(ack)
  PROVE  ToldInv'
  <1>1. /\ TypeOK /\ QueueInv /\ WordInv /\ WrittenInv /\ AskInv /\ ToldInv
        /\ nFinished \in Nat /\ nStarted \in Nat /\ submitted \in Nat /\ NJobs \in Nat
        /\ nFinished <= nStarted /\ nStarted <= submitted /\ submitted <= NJobs
        /\ wb_int_enable \in BOOLEAN /\ wb_int_clear \in BOOLEAN
    BY QueueTypes DEF OrderInv, IInv, ReportInv, QueueInv, BoundInv, TypeOK, WbmTypeOK
  <1>2. wb_int_clear => wb_int_reg /\ wb_int_enable
    BY <1>1 DEF ToldInv
  <1>3. /\ Asks => wb_int_reg'
        /\ ~wb_int_clear /\ wb_int_reg /\ wb_int_enable => wb_int_reg'
    BY <1>1, <1>2, InterruptStep
  <1>4. hpc' # "boot" => wb_int_enable'
    BY <1>1 DEF ToldInv, HostTold
  <1>5. hpc' = "boot" => submitted' = 0
    BY <1>1 DEF ToldInv, HostTold
  <1>6. (wb_int_clear' <=> hpc' = "scan") /\ (hpc' = "scan" => wb_int_reg')
    <2>1. hpc' = "scan" => hpc # "scan" /\ wb_int_o /\ wb_int_clear'
      BY DEF HostTold
    <2>2. wb_int_o => wb_int_reg /\ wb_int_enable
      BY DEF wb_int_o
    <2>3. hpc' # "scan" => ~wb_int_clear'
      BY DEF HostTold
    <2>4. QED
      BY <1>1, <1>3, <2>1, <2>2, <2>3 DEF ToldInv
  <1>7. ASSUME NEW a \in 1..nFinished', Interrupt \in mem[a].dc, a \notin seen'
        PROVE  wb_int_reg'
    <2>1. CASE a \in 1..nFinished
      <3>1. a \in 0..NJobs /\ submitted # 0
        BY <1>1, <2>1
      <3>2. a \in results
        BY <1>1, <1>7, <2>1, <3>1 DEF AskInv, WrittenInv
      <3>3. hpc # "scan" /\ a \notin seen
        BY <1>7, <3>2 DEF HostTold
      <3>4. wb_int_reg /\ wb_int_enable /\ ~wb_int_clear
        BY <1>1, <1>7, <2>1, <3>1, <3>3 DEF ToldInv
      <3>5. QED
        BY <1>3, <3>4
    <2>2. CASE a \notin 1..nFinished
      <3>1. a = nFinished + 1 /\ state \in {"CYC0", "CYC1"}
        BY <1>1, <2>2 DEF Counting
      <3>2. Interrupt \in Reports
        BY DEF Reports
      <3>3. CASE state = "CYC0"
        <4>1. ctl_adr[0] = a /\ WordOf(0)
          BY <1>1, <3>1, <3>3 DEF QueueInv, RunInv, Oldest0, WordInv, Holds0
        <4>2. Asks
          BY <1>7, <3>2, <3>3, <4>1 DEF WordOf, Asks
        <4>3. QED
          BY <1>3, <4>2
      <3>4. CASE state = "CYC1"
        <4>1. ctl_adr[1] = a /\ WordOf(1)
          BY <1>1, <3>1, <3>4 DEF QueueInv, RunInv, Oldest1, Last, WordInv, Holds1
        <4>2. Asks
          BY <1>7, <3>2, <3>4, <4>1 DEF WordOf, Asks
        <4>3. QED
          BY <1>3, <4>2
      <3>5. QED
        BY <3>1, <3>3, <3>4
    <2>3. QED
      BY <2>1, <2>2
  <1>8. QED
    BY <1>4, <1>5, <1>6, <1>7 DEF ToldInv

LEMMA ReportCycle ==
  ASSUME AskingHost, OrderInv, ReportInv, NEW acc \in Accesses, NEW ack \in BOOLEAN,
         NEW out \in RunOutcome, Cycle(acc, ack, out)
  PROVE  ReportInv'
  <1>1. /\ IInv /\ TypeOK /\ AppendModeInv /\ HistoryInv /\ QueueInv /\ HostInv
        /\ WordInv /\ WrittenInv /\ AskInv /\ ToldInv
        /\ sys_rst_reg' \in BOOLEAN
    BY CycleTypeStep DEF OrderInv, IInv, ReportInv
  <1>2. mem' = mem /\ HostMoves(acc, busy, wb_int_o)
    BY HostCases DEF Cycle, Reset, AskingHost
  <1>3. sys_rst_reg' = FALSE
    BY <1>1, <1>2 DEF HostMoves, Rests, Disables, Queues, Goes, Appends, Acknowledges,
       CcrHolds, CcrSets, ToldInv
  <1>4. CtrlMachine(acc.cyc, ack) /\ HistoryStep(ack, FALSE)
    BY <1>3 DEF Cycle, CtrlStep
  <1>5. Counting(ack)
    BY <1>1, <1>4, HistoryCounts
  <1>6. HostTold(wb_int_o)
    BY HostInterrupts DEF Cycle, AskingHost
  <1>7. submitted' = submitted \/ hpc # "boot"
    BY <1>2 DEF HostMoves, Rests, Disables, Queues, Goes, Appends, Acknowledges
  <1>8. WordInv'
    BY <1>1, <1>2, <1>4, WordStep
  <1>9. WrittenInv'
    BY <1>1, <1>2, <1>4, <1>5, WrittenStep
  <1>10. ToldInv'
    BY <1>2, <1>3, <1>4, <1>5, <1>6, <1>7, ToldStep
  <1>11. AskInv'
    BY <1>1, <1>2 DEF AskInv
  <1>12. QED
    BY <1>8, <1>9, <1>10, <1>11 DEF ReportInv

LEMMA InitReport == Init => ReportInv
  <1> SUFFICES ASSUME Init PROVE ReportInv
    OBVIOUS
  <1>1. /\ state = "IDLE" /\ hpc = "boot" /\ submitted = 0 /\ finished = <<>>
        /\ wb_int_clear = FALSE /\ sys_rst_reg = FALSE
        /\ mem = [a \in 0..NJobs |-> [next |-> 0, dc |-> {}]]
    BY DEF Init, CtrlInit, WbmInit, DriverInit
  <1>2. nFinished = 0
    BY <1>1 DEF nFinished
  <1>3. AskInv
    BY <1>1 DEF AskInv
  <1>4. WordInv /\ WrittenInv /\ ToldInv
    BY <1>1, <1>2 DEF WordInv, Holds0, Holds1, WrittenInv, ToldInv
  <1>5. QED
    BY <1>3, <1>4 DEF ReportInv

(* No completion is missed: a finished job that asked for an interrupt is   *)
(* known to the host, or wb_int_o is up, whenever the acknowledge of ctrl.v *)
(* (wb_int_clear, a cycle after the write) meets the next completion.       *)
THEOREM NoneMissed == ASSUME AskingHost PROVE Spec => []NoMissedCompletion
  <1>1. Init => ReportInv
    BY InitReport
  <1>2. OrderInv /\ ReportInv /\ [Next]_vars => ReportInv'
    <2> SUFFICES ASSUME OrderInv, ReportInv, [Next]_vars PROVE ReportInv'
      OBVIOUS
    <2>1. CASE Store
      BY <2>1, ReportStore
    <2>2. CASE Tick
      BY <2>2, ReportCycle DEF Tick
    <2>3. CASE UNCHANGED vars
      <3>1. UNCHANGED EngineVars /\ UNCHANGED DriverVars /\ results' = results
        BY <2>3 DEF vars
      <3>2. WordInv' /\ WrittenInv' /\ AskInv'
        BY <3>1 DEF ReportInv, WordInv, WordOf, Holds0, Holds1, WrittenInv, AskInv,
           EngineVars, DriverVars, Reports, nFinished
      <3>3. ToldInv'
        BY <3>1 DEF ReportInv, ToldInv, EngineVars, DriverVars, nFinished
      <3>4. QED
        BY <3>2, <3>3 DEF ReportInv
    <2>4. QED
      BY <2>1, <2>2, <2>3 DEF Next
  <1>3. OrderInv /\ ReportInv => NoMissedCompletion
    <2> SUFFICES ASSUME OrderInv, ReportInv, NEW k \in 1..Len(finished),
                        Interrupt \in mem[finished[k]].dc, finished[k] \notin seen
                 PROVE  wb_int_o
      BY DEF NoMissedCompletion
    <2>1. nFinished \in Nat /\ nStarted \in Nat /\ submitted \in Nat
      BY QueueTypes DEF OrderInv, IInv
    <2>2. k \in 1..nFinished /\ finished[k] = k
      <3>1. finished = Numbers(nFinished) /\ k \in 1..nFinished
        BY DEF OrderInv, HistoryInv, nFinished
      <3>2. QED
        BY <2>1, <3>1, NumbersLen
    <2>3. wb_int_reg
      BY <2>2 DEF ReportInv, ToldInv
    <2>4. submitted # 0
      BY <2>1, <2>2 DEF OrderInv, QueueInv, BoundInv
    <2>5. wb_int_enable
      BY <2>4 DEF ReportInv, ToldInv
    <2>6. QED
      BY <2>3, <2>5 DEF wb_int_o
  <1>4. OrderlyHost
    BY DEF AskingHost
  <1>5. QED
    BY <1>1, <1>2, <1>3, <1>4, OrderInvariant, PTL DEF Spec

-----------------------------------------------------------------------------
(* No job is lost to an append.                                             *)

(* A host that appends does not acknowledge: the write of CCR would take    *)
(* back an append that is on its way (wbm.v:284).                           *)
KeepsAppends == "append" \in Ops => "ack" \notin Ops

(* Job a is linked to the next; an append that says so is on its way or has *)
(* reached the engine.                                                      *)
Linked(a) == Chain \in mem[a].dc
Announced == append \/ hpc = "append"

(* The job read into dc[c] is the last, or the controller has read of the   *)
(* next one, or there will be an append that makes it look again.           *)
Heard(c, a) == a < submitted /\ Chain \notin dc[c] => Linked(a) /\ Announced

(* Only the first job of a queue is not linked to, ...                      *)
LinksInv ==
    /\ \A a \in 0..NJobs : nStarted < a /\ a < submitted => Linked(a)
    /\ hpc \in Building => \A a \in 0..NJobs : submitted < a /\ a < tail => Linked(a)

(* ... the controller has heard of the job behind the one it read last, ... *)
HeardInv ==
    /\ state = "CMD0" /\ ~append_mode /\ inc > 1 => Heard(0, nStarted + 1)
    /\ state = "NEXT0" /\ ~append_mode => Heard(0, nStarted)
    /\ state = "CMD1" /\ inc > 1 => Heard(1, nStarted + 1)
    /\ state \in {"WAIT0", "CTL0", "TR0", "CYC0"} =>
         /\ Chain \in dc[0] => Heard(1, nStarted)
         /\ Chain \notin dc[0] => Heard(0, nStarted)
    /\ state \in {"WAIT1", "CTL1", "TR1", "CYC1"} => Heard(1, nStarted)

(* ... and behind the one it has retired last: that is where it resumes,    *)
(* and it will read there, has read it, or has an append to do so.          *)
Resting == state = "IDLE" \/ append_mode
Unread == append_mode /\ state = "CMD0" /\ inc <= 1
ParkedInv ==
    Resting /\ hpc \notin Building /\ tail > 0 /\ nStarted = submitted => dar = nStarted
ResumeInv ==
    Resting /\ nStarted < submitted /\ ndar # nStarted + 1 =>
       /\ dar = nStarted /\ Linked(dar)
       /\ Announced \/ Unread \/ (append_mode /\ Chain \in dc[0])

(* An append is only cleared when the pass it asked for is over, before     *)
(* anything is read again.                                                  *)
ClearInv ==
    append_clear => state = "IDLE" \/ (state = "CMD0" /\ ~append_mode /\ inc = 0)

FollowInv == LinksInv /\ HeardInv /\ ParkedInv /\ ResumeInv /\ ClearInv

(* The host does not take an append back, unless it has nothing to run.     *)
Persists ==
    hpc = "append" \/ (append /\ ~append_clear) => Announced' \/ hpc \in {"disable", "go"}

LEMMA Persistence ==
  ASSUME NEW acc, NEW b, NEW intr, NEW n, DriverCycle(acc, b, intr, n), WbmStep(acc),
         "ack" \notin Ops, ~sys_rst_reg'
  PROVE  Persists
  <1>1. ~ccr_we(acc) => (append /\ ~append_clear => append')
    BY Zenon DEF WbmStep, CcrStep
  <1>2. CASE Disable(acc) \/ Go(acc)
    BY <1>2 DEF Disable, Go, Wait, Write, Persists
  <1>3. CASE AppendJob(acc)
    <2>1. CcrAppend \in {CcrEnable, CcrAppend} /\ acc = CcrWrite({CcrEnable, CcrAppend})
      BY <1>3 DEF AppendJob, Wait, Write
    <2>2. append'
      BY <2>1, CcrAccess
    <2>3. QED
      BY <2>2 DEF Persists, Announced
  <1>4. CASE Reset(acc, n)
    <2>1. CcrReset \in {CcrReset} /\ acc = CcrWrite({CcrReset})
      BY <1>4 DEF Reset, Write
    <2>2. sys_rst_reg'
      BY <2>1, CcrAccess
    <2>3. QED
      BY <2>2
  <1>5. CASE EnableInterrupt(acc) \/ QueueJob(acc) \/ LetPass(acc) \/ Poll(acc, b)
             \/ Scan(acc) \/ Quiet(acc)
    <2>1. \/ acc \in {NoAccess, CsrRead, CsrWrite({CsrIntEnable})}
          \/ \E a : acc = NdarWrite(a)
      BY <1>5 DEF EnableInterrupt, QueueJob, LetPass, Poll, Scan, Quiet, Write
    <2>2. ~acc.we \/ acc.reg \in {"CSR", "NDAR"}
      BY <2>1 DEF NoAccess, CsrRead, CsrWrite, NdarWrite
    <2>3. ~ccr_we(acc)
      BY <2>2 DEF ccr_we
    <2>4. hpc = "append" => hpc' = "append"
      BY <1>5 DEF EnableInterrupt, QueueJob, LetPass, Poll, Scan, Quiet, Write, DriverVars
    <2>5. QED
      BY <1>1, <2>3, <2>4 DEF Persists, Announced
  <1>6. QED
    BY <1>2, <1>3, <1>4, <1>5 DEF DriverCycle, AckInterrupt

-----------------------------------------------------------------------------
(* Clock cycles *)

LEMMA ClearStep ==
  ASSUME AppendModeInv, NEW cyc_i, NEW ack, CtrlMachine(cyc_i, ack)
  PROVE  ClearInv'
  <1>1. append_clear' => Next0 /\ append_mode
    BY DEF NoAppendClear, CtrlMachine, IdleWait, IdleQueue, IdleAppend, Cmd0, Next0, Cmd1,
           Wait0, Wait1, Ctl, Tr, Cyc0, Cyc1, Next1
  <1>2. QED
    BY <1>1 DEF Next0, Burst, ClearInv

(* What the host does to the numbers and registers the invariant reads.     *)
LEMMA FollowMoves ==
  ASSUME TypeOK, QueueInv, HostInv, NEW acc, NEW b, NEW intr, HostMoves(acc, b, intr)
  PROVE  \/ /\ Goes /\ submitted' = tail /\ tail' = tail /\ ndar = submitted + 1
            /\ ndar' = ndar /\ nStarted = submitted /\ submitted < tail
            /\ (state = "IDLE" /\ ~enable) \/ append_mode
         \/ /\ ~Goes /\ submitted' = submitted /\ tail' = tail
            /\ hpc' \in Building => hpc \in Building
            /\ hpc \in Building => hpc' \in Building
            /\ hpc \in Building => nStarted = submitted
            /\ hpc \notin Building => ndar' = ndar
  <1>1. tail \in Nat /\ submitted \in Nat /\ nStarted \in Nat
    BY HostTypes
  <1>2. hpc \in Building => CaughtUp /\ submitted < tail
    BY DEF HostInv, ContentInv, BuildInv, Content
  <1>3. CASE Goes
    <2>1. /\ hpc = "go" /\ ndar = submitted + 1 /\ state \notin Retiring
      BY <1>3 DEF Goes, HostInv, ContentInv
    <2>2. ~enable
      BY <2>1 DEF HostInv, EnableInv
    <2>3. CaughtUp /\ submitted < tail
      BY <1>2, <2>1 DEF Building
    <2>4. QED
      BY <1>3, <2>1, <2>2, <2>3 DEF Goes, NdarHolds, CaughtUp
  <1>4. CASE ~Goes
    <2>1. submitted' = submitted /\ tail' = tail
      BY <1>4 DEF HostMoves, Rests, Disables, Queues, Appends, Acknowledges, HostInv, TailInv
    <2>2. /\ hpc' \in Building => hpc \in Building
          /\ hpc \in Building => hpc' \in Building
      BY <1>4 DEF HostMoves, Rests, Disables, Queues, Appends, Acknowledges, Building
    <2>3. hpc \notin Building => ndar' = ndar
      BY <1>4 DEF HostMoves, Rests, Disables, Queues, Appends, Acknowledges, Building, NdarHolds
    <2>4. QED
      BY <1>2, <1>4, <2>1, <2>2, <2>3 DEF CaughtUp
  <1>5. QED
    BY <1>3, <1>4

LEMMA LinksStep ==
  ASSUME TypeOK, QueueInv, HostInv, LinksInv, mem' = mem,
         NEW acc, NEW b, NEW intr, HostMoves(acc, b, intr), NEW ack, Counting(ack)
  PROVE  LinksInv'
  <1>1. /\ nStarted \in Nat /\ nStarted' \in {nStarted, nStarted + 1}
        /\ submitted \in Nat /\ tail \in Nat
    BY HostTypes DEF Counting
  <1>2. \/ submitted' = tail /\ hpc = "go" /\ hpc' = "settle" /\ nStarted = submitted
        \/ submitted' = submitted /\ tail' = tail /\ (hpc' \in Building => hpc \in Building)
    BY FollowMoves DEF Goes
  <1>3. ASSUME NEW a \in 0..NJobs, nStarted' < a, a < submitted' PROVE Linked(a)
    BY <1>1, <1>2, <1>3 DEF LinksInv, Building
  <1>4. ASSUME NEW a \in 0..NJobs, hpc' \in Building, submitted' < a, a < tail' PROVE Linked(a)
    BY <1>1, <1>2, <1>4 DEF LinksInv, Building
  <1>5. QED
    BY <1>3, <1>4 DEF LinksInv, Linked

(* What was heard stays heard, and what is read is true.                    *)
LEMMA HeardKept ==
  ASSUME NEW c \in 0..1, NEW a \in Nat, Heard(c, a), dc'[c] = dc[c], mem' = mem,
         submitted' = submitted, ~append_clear, Persists, hpc \in {"disable", "go"} => a >= submitted,
         submitted \in Nat
  PROVE  Heard(c, a)'
  BY DEF Heard, Linked, Announced, Persists

LEMMA HeardRead ==
  ASSUME NEW c \in 0..1, NEW a \in Nat, LinksInv, nStarted < a, nStarted \in Nat, NJobs \in Nat,
         a <= NJobs, submitted' = submitted, dc'[c] = mem[a].dc
  PROVE  Heard(c, a)'
  BY DEF Heard, Linked, LinksInv

LEMMA HeardBeat ==
  ASSUME TypeOK, NEW c \in 0..1, NEW a \in Nat, LinksInv, nStarted < a, a <= NJobs,
         wbs_adr4 = a, inc > 1 => Heard(c, a), NEW ack \in BOOLEAN, Beat(ack), Latch(c, ack),
         mem' = mem, submitted' = submitted, ClearInv, state \in {"CMD0", "CMD1"}, state = "CMD0" => ~append_mode,
         Persists, hpc \in {"disable", "go"} => a >= submitted
  PROVE  inc' > 1 \/ (ack /\ inc = 3) => Heard(c, a)'
  <1>1. inc \in 0..3 /\ nStarted \in Nat /\ NJobs \in Nat /\ submitted \in Nat
    BY QueueTypes
  <1>2. (~ack => inc' = inc) /\ (ack => inc' = IF inc = 3 THEN 0 ELSE inc + 1)
    BY BeatRegisters
  <1>3. CASE ack /\ inc = 1
    <2>1. dc'[c] = mem[a].dc
      BY <1>3, BeatRegisters
    <2>2. QED
      BY <1>1, <2>1, HeardRead
  <1>4. CASE ~(ack /\ inc = 1)
    <2>1. dc'[c] = dc[c]
      BY <1>4, BeatRegisters
    <2>2. inc' > 1 \/ (ack /\ inc = 3) => inc > 1
      BY <1>1, <1>2, <1>4
    <2>3. inc > 1 => ~append_clear
      BY DEF ClearInv
    <2>4. QED
      BY <1>1, <2>1, <2>2, <2>3, HeardKept
  <1>5. QED
    BY <1>3, <1>4

LEMMA HeardStep ==
  ASSUME IInv, QueueInv, HostInv, LinksInv, HeardInv, ClearInv, mem' = mem, Persists,
         NEW acc, NEW b, NEW intr, HostMoves(acc, b, intr),
         NEW cyc_i, NEW ack \in BOOLEAN, CtrlMachine(cyc_i, ack), Counting(ack)
  PROVE  HeardInv'
  <1>1. /\ TypeOK /\ AppendModeInv /\ ChainInv /\ inc \in 0..3
        /\ nStarted \in Nat /\ nFinished \in Nat /\ submitted \in Nat /\ NJobs \in Nat
        /\ nStarted <= submitted /\ submitted <= NJobs /\ append_mode \in BOOLEAN
    BY QueueTypes DEF IInv, QueueInv, BoundInv
  <1>2. state # "IDLE" /\ ~append_mode => submitted' = submitted
    BY <1>1, FollowMoves
  <1>3. hpc \in {"disable", "go"} => nStarted = submitted
    BY <1>1, FollowMoves DEF Building, Goes
  <1>4. PICK n \in Nat, m \in Nat : n = nStarted /\ m = nStarted + 1
    BY <1>1
  <1>5. /\ nStarted' = IF Loading(ack) THEN nStarted + 1 ELSE nStarted
        /\ nStarted' = n => \A c \in 0..1 : Heard(c, n)' <=> Heard(c, nStarted)'
        /\ nStarted' = n => \A c \in 0..1 : Heard(c, m)' <=> Heard(c, nStarted + 1)'
        /\ nStarted' = m => \A c \in 0..1 : Heard(c, m)' <=> Heard(c, nStarted)'
    BY <1>4 DEF Heard, Counting, Linked
  <1>6. CASE IdleWait \/ IdleQueue \/ IdleAppend \/ Next1
    <2>1. state' = "IDLE" \/ (state' = "CMD0" /\ inc' = 0)
      BY <1>6 DEF IdleWait, IdleQueue, IdleAppend, Next1, Burst
    <2>2. QED
      BY <2>1 DEF HeardInv
  <1>7. CASE append_mode
    <2>1. Cmd0(ack) \/ Next0
      BY <1>1, <1>7 DEF AppendModeInv, CtrlMachine, IdleWait, IdleQueue, IdleAppend, Cmd1,
             Wait0, Wait1, Ctl, Tr, Cyc0, Cyc1, Next1
    <2>2. \/ append_mode' /\ state' \in {"CMD0", "NEXT0"}
          \/ state' = "IDLE" \/ (state' = "CMD0" /\ inc' = 0)
      BY <1>7, <2>1 DEF Cmd0, Next0, NoAppendClear, Burst
    <2>3. QED
      BY <2>2 DEF HeardInv
  <1>8. CASE Cmd0(ack) /\ ~append_mode
    <2>1. /\ state = "CMD0" /\ append_mode' = append_mode /\ Beat(ack) /\ Latch(0, ack)
          /\ state' = IF LastBeat(ack) THEN "NEXT0" ELSE "CMD0"
      BY <1>8 DEF Cmd0, NoAppendClear
    <2>2. nStarted < submitted /\ wbs_adr4 = m /\ (inc > 1 => Heard(0, m))
      BY <1>4, <1>8, <2>1 DEF QueueInv, LoadInv, Fetch, HeardInv
    <2>3. inc' > 1 \/ (ack /\ inc = 3) => Heard(0, m)'
      BY <1>1, <1>2, <1>3, <1>4, <1>8, <2>1, <2>2, HeardBeat
    <2>4. nStarted' = IF ack /\ inc = 3 THEN m ELSE n
      BY <1>4, <1>5, <1>8, <2>1 DEF Loading, LastBeat
    <2>5. CASE ack /\ inc = 3
      <3>1. Heard(0, nStarted)' /\ state' = "NEXT0"
        BY <1>5, <2>1, <2>3, <2>4, <2>5 DEF LastBeat
      <3>2. QED
        BY <3>1 DEF HeardInv
    <2>6. CASE ~(ack /\ inc = 3)
      <3>1. (inc' > 1 => Heard(0, nStarted + 1)') /\ state' = "CMD0"
        BY <1>5, <2>1, <2>3, <2>4, <2>6 DEF LastBeat
      <3>2. QED
        BY <3>1 DEF HeardInv
    <2>7. QED
      BY <2>5, <2>6
  <1>9. CASE Cmd1(ack)
    <2>1. /\ state = "CMD1" /\ ~append_mode /\ Beat(ack) /\ Latch(1, ack)
          /\ state' = IF LastBeat(ack) THEN "WAIT0" ELSE "CMD1"
      BY <1>1, <1>9 DEF Cmd1, AppendModeInv
    <2>2. nStarted < submitted /\ wbs_adr4 = m /\ (inc > 1 => Heard(1, m))
      BY <1>4, <2>1 DEF QueueInv, LoadInv, Fetch, HeardInv
    <2>3. inc' > 1 \/ (ack /\ inc = 3) => Heard(1, m)'
      BY <1>1, <1>2, <1>3, <1>4, <2>1, <2>2, HeardBeat
    <2>4. nStarted' = IF ack /\ inc = 3 THEN m ELSE n
      BY <1>4, <1>5, <2>1 DEF Loading, LastBeat
    <2>5. dc'[0] = dc[0] /\ Chain \in dc[0]
      BY <1>1, <2>1, OtherChannel DEF ChainInv
    <2>6. CASE ack /\ inc = 3
      <3>1. Heard(1, nStarted)' /\ state' = "WAIT0"
        BY <1>5, <2>1, <2>3, <2>4, <2>6 DEF LastBeat
      <3>2. QED
        BY <2>5, <3>1 DEF HeardInv
    <2>7. CASE ~(ack /\ inc = 3)
      <3>1. (inc' > 1 => Heard(1, nStarted + 1)') /\ state' = "CMD1"
        BY <1>5, <2>1, <2>3, <2>4, <2>7 DEF LastBeat
      <3>2. QED
        BY <3>1 DEF HeardInv
    <2>8. QED
      BY <2>6, <2>7
  <1>10. CASE \/ Next0 /\ ~append_mode
              \/ Wait0 \/ Ctl("CTL0", "TR0", ack) \/ Tr("TR0", "CYC0", cyc_i) \/ Cyc0
              \/ Wait1 \/ Ctl("CTL1", "TR1", ack) \/ Tr("TR1", "CYC1", cyc_i) \/ Cyc1
    <2>1. /\ dc' = dc /\ state \notin {"IDLE", "CMD0", "CMD1"}
          /\ \/ Next0 /\ ~append_mode /\ state = "NEXT0"
                /\ \/ Chain \in dc[0] /\ state' = "CMD1" /\ inc' = 0
                   \/ Chain \notin dc[0] /\ state' = "WAIT0"
             \/ /\ state \in {"WAIT0", "CTL0", "TR0", "CYC0"}
                /\ \/ state' \in {"WAIT0", "CTL0", "TR0", "CYC0"}
                   \/ Chain \in dc[0] /\ state' = "WAIT1"
                   \/ state' = "IDLE"
             \/ /\ state \in {"WAIT1", "CTL1", "TR1", "CYC1"}
                /\ state' \in {"WAIT1", "CTL1", "TR1", "CYC1", "NEXT1", "IDLE"}
      BY <1>10 DEF Next0, Wait0, Wait1, Retire, Ctl, Tr, Cyc0, Cyc1, LatchHold, Burst, BusHold
    <2>2. ~append_mode /\ ~append_clear
      BY <1>1, <1>10, <2>1 DEF AppendModeInv, ClearInv
    <2>3. nStarted' = n
      BY <1>4, <1>5, <2>1 DEF Loading
    <2>4. \A c \in 0..1 : Heard(c, nStarted) => Heard(c, nStarted)'
      <3>1. \A c \in 0..1 : Heard(c, n) => Heard(c, n)'
        BY <1>1, <1>2, <1>3, <1>4, <2>1, <2>2, HeardKept
      <3>2. QED
        BY <1>4, <1>5, <2>3, <3>1
    <2>5. QED
      BY <2>1, <2>2, <2>4 DEF HeardInv
  <1>11. QED
    BY <1>6, <1>7, <1>8, <1>9, <1>10 DEF CtrlMachine, Cmd0, Next0

(* The controller comes to rest behind the job it read last.                *)
LEMMA RestsLast ==
  ASSUME TypeOK, AppendModeInv, QueueInv, ~Resting, Resting',
         NEW cyc_i, NEW ack \in BOOLEAN, CtrlMachine(cyc_i, ack), Counting(ack)
  PROVE  /\ nStarted' = nStarted /\ dar' = nStarted
         /\ state \in {"CYC0", "CYC1"} /\ state' = "IDLE"
         /\ HeardInv => \E c \in 0..1 : Chain \notin dc[c] /\ Heard(c, nStarted)
  <1>1. state # "IDLE" /\ ~append_mode
    BY DEF Resting
  <1>2. \/ Cyc0 /\ Chain \notin dc[0] /\ dar' = cdar /\ state' = "IDLE" /\ state = "CYC0"
        \/ Cyc1 /\ Chain \notin dc[1] /\ dar' = cdar /\ state' = "IDLE" /\ state = "CYC1"
    BY <1>1 DEF Resting, NoAppendClear, CtrlMachine, IdleWait, IdleQueue, IdleAppend, Cmd0, Next0, Cmd1,
           Wait0, Wait1, Retire, Ctl, Tr, Cyc0, Cyc1, Next1
  <1>3. cdar = nStarted
    BY <1>2 DEF QueueInv, RunInv, Oldest0, Oldest1, Last
  <1>4. nStarted' = nStarted
    BY <1>2 DEF Counting, Loading
  <1>5. QED
    BY <1>2, <1>3, <1>4 DEF HeardInv

(* While it rests, it starts nothing.                                       *)
LEMMA StaysResting ==
  ASSUME TypeOK, AppendModeInv, Resting, Resting',
         NEW cyc_i, NEW ack \in BOOLEAN, CtrlMachine(cyc_i, ack), Counting(ack)
  PROVE  /\ nStarted' = nStarted /\ dar' = dar
         /\ \/ IdleWait
            \/ IdleAppend
            \/ Cmd0(ack) /\ append_mode
            \/ Next0 /\ append_mode /\ Chain \notin dc[0]
  <1>1. /\ state \in {"IDLE", "CMD0", "NEXT0"} /\ (state # "IDLE" => append_mode)
        /\ state = "IDLE" => ~append_mode
    BY DEF Resting, AppendModeInv
  <1>2. nStarted' = nStarted
    BY <1>1 DEF Counting, Loading
  <1>3. \/ IdleWait
        \/ IdleAppend
        \/ Cmd0(ack) /\ append_mode
        \/ Next0 /\ append_mode /\ Chain \notin dc[0]
    BY <1>1 DEF Resting, NoAppendClear, CtrlMachine, IdleWait, IdleQueue, IdleAppend, Cmd0, Next0, Cmd1,
           Wait0, Wait1, Ctl, Tr, Cyc0, Cyc1, Next1
  <1>4. QED
    BY <1>2, <1>3 DEF IdleWait, IdleAppend, Cmd0, Next0

LEMMA ParkedStep ==
  ASSUME TypeOK, AppendModeInv, QueueInv, HostInv, ParkedInv,
         NEW acc, NEW b, NEW intr, HostMoves(acc, b, intr),
         NEW cyc_i, NEW ack \in BOOLEAN, CtrlMachine(cyc_i, ack), Counting(ack)
  PROVE  ParkedInv'
  <1> SUFFICES ASSUME Resting', hpc' \notin Building, tail' > 0, nStarted' = submitted'
               PROVE  dar' = nStarted'
    BY DEF ParkedInv, Building
  <1>1. submitted \in Nat /\ tail \in Nat
    BY HostTypes
  <1>2. CASE ~Resting
    BY <1>2, RestsLast
  <1>3. CASE Resting
    <2>1. nStarted' = nStarted /\ dar' = dar
      BY <1>3, StaysResting
    <2>2. submitted' = submitted /\ tail' = tail /\ hpc \notin Building
      BY <1>1, <2>1, FollowMoves
    <2>3. QED
      BY <1>3, <2>1, <2>2 DEF ParkedInv
  <1>4. QED
    BY <1>2, <1>3

LEMMA ResumeStep ==
  ASSUME OrderlyHost, TypeOK, AppendModeInv, QueueInv, HostInv, HeardInv, ResumeInv, ClearInv,
         mem' = mem, Persists, NEW acc, NEW b, NEW intr, HostMoves(acc, b, intr),
         NEW cyc_i, NEW ack \in BOOLEAN, CtrlMachine(cyc_i, ack), Counting(ack)
  PROVE  ResumeInv'
  <1> SUFFICES ASSUME Resting', nStarted' < submitted', ndar' # nStarted' + 1
               PROVE  /\ dar' = nStarted' /\ Linked(dar)'
                      /\ Announced' \/ Unread' \/ (append_mode' /\ Chain \in dc'[0])
    BY DEF ResumeInv
  <1>1. /\ submitted \in Nat /\ tail \in Nat /\ nStarted \in Nat /\ inc \in 0..3
        /\ nStarted' = nStarted
    BY HostTypes, QueueTypes, RestsLast, StaysResting
  <1>2. submitted' = submitted /\ ndar' = ndar /\ hpc \notin Building
    BY <1>1, FollowMoves
  <1>3. (append /\ ~append_clear) \/ hpc = "append" => Announced'
    BY <1>2 DEF Persists, Building
  <1>4. CASE ~Resting
    <2>1. /\ dar' = nStarted /\ state \in {"CYC0", "CYC1"}
          /\ \E c \in 0..1 : Chain \notin dc[c] /\ Heard(c, nStarted)
      BY <1>4, RestsLast
    <2>2. Linked(nStarted) /\ Announced
      BY <1>1, <1>2, <2>1 DEF Heard
    <2>3. ~append_clear
      BY <2>1 DEF ClearInv
    <2>4. QED
      BY <1>1, <1>3, <2>1, <2>2, <2>3 DEF Linked, Announced
  <1>5. CASE Resting
    <2>1. /\ dar = nStarted /\ Linked(dar)
          /\ Announced \/ Unread \/ (append_mode /\ Chain \in dc[0])
      BY <1>1, <1>2, <1>5 DEF ResumeInv
    <2>2. dar' = nStarted' /\ Linked(dar)'
      BY <1>1, <1>5, <2>1, StaysResting DEF Linked
    <2>3. CASE IdleWait
      <3>1. ~append_mode /\ Announced
        BY <2>1, <2>3 DEF IdleWait, AppendModeInv, Unread
      <3>2. enable
        <4>1. nStarted # submitted
          BY <1>1, <1>2
        <4>2. hpc \notin Content
          BY <4>1 DEF HostInv, ContentInv, CaughtUp
        <4>3. QED
          BY <4>2 DEF HostInv, EnableInv
      <3>3. hpc = "append"
        BY <2>3, <3>1, <3>2 DEF IdleWait, Announced
      <3>4. QED
        BY <1>3, <2>2, <3>3
    <2>4. CASE IdleAppend
      BY <2>2, <2>4 DEF IdleAppend, Burst, Unread
    <2>5. CASE Cmd0(ack) /\ append_mode
      <3>1. /\ state = "CMD0" /\ append_mode' /\ Beat(ack) /\ Latch(0, ack)
            /\ state' = IF LastBeat(ack) THEN "NEXT0" ELSE "CMD0"
        BY <2>5 DEF Cmd0, NoAppendClear
      <3>2. ~append_clear /\ wbs_adr4 = dar
        BY <2>5, <3>1 DEF ClearInv, QueueInv, PassInv, Fetch
      <3>3. CASE inc > 1
        <4>1. dc'[0] = dc[0]
          BY <3>1, <3>3, BeatRegisters
        <4>2. Announced \/ Chain \in dc[0]
          BY <1>1, <2>1, <3>3 DEF Unread
        <4>3. QED
          BY <1>3, <2>2, <3>1, <3>2, <4>1, <4>2 DEF Announced
      <3>4. CASE inc = 1 /\ ack
        <4>1. dc'[0] = mem[dar].dc
          <5>1. dc'[0] = mem[wbs_adr4].dc
            BY <3>1, <3>4, QueueTypes DEF Latch
          <5>2. QED
            BY <3>2, <5>1
        <4>2. QED
          BY <2>1, <2>2, <3>1, <4>1 DEF Linked
      <3>5. CASE inc = 0 \/ (inc = 1 /\ ~ack)
        <4>1. inc' <= 1
          BY <1>1, <3>1, <3>5, BeatRegisters
        <4>2. state' = "CMD0"
          BY <3>1, <3>5 DEF LastBeat
        <4>3. QED
          BY <2>2, <3>1, <4>1, <4>2 DEF Unread
      <3>6. QED
        BY <1>1, <3>3, <3>4, <3>5
    <2>6. CASE Next0 /\ append_mode /\ Chain \notin dc[0]
      <3>1. state = "NEXT0"
        BY <2>6 DEF Next0
      <3>2. Announced /\ ~append_clear
        BY <2>1, <2>6, <3>1 DEF Unread, ClearInv
      <3>3. QED
        BY <1>3, <2>2, <3>2 DEF Announced
    <2>7. QED
      BY <1>5, <2>3, <2>4, <2>5, <2>6, StaysResting
  <1>6. QED
    BY <1>4, <1>5

LEMMA FollowCycle ==
  ASSUME OrderlyHost, "ack" \notin Ops, OrderInv, FollowInv, NEW acc \in Accesses,
         NEW ack \in BOOLEAN, NEW out \in RunOutcome, Cycle(acc, ack, out)
  PROVE  FollowInv'
  <1>1. /\ IInv /\ TypeOK /\ AppendModeInv /\ HistoryInv /\ QueueInv /\ HostInv
        /\ LinksInv /\ HeardInv /\ ParkedInv /\ ResumeInv /\ ClearInv
        /\ nFinished \in Nat /\ sys_rst_reg' \in BOOLEAN
    BY HostTypes, CycleTypeStep DEF OrderInv, IInv, FollowInv
  <1>2. CASE sys_rst_reg' = TRUE
    <2>1. /\ state' = "IDLE" /\ append_mode' = FALSE /\ mem' = mem
          /\ nStarted' = nFinished /\ submitted' = nFinished
          /\ hpc' \in {"ready", "disable"} /\ (hpc' = "ready" => tail' = 0)
          /\ hpc' = "disable" => hpc = "disable" /\ tail' = tail /\ submitted' = submitted
      BY <1>2, ResetCases
    <2>2. LinksInv'
      <3>1. ASSUME NEW a \in 0..NJobs PROVE ~(nFinished < a /\ a < nFinished)
        BY <1>1, SizesAssumption
      <3>2. hpc' \in Building => hpc \in Building /\ tail' = tail /\ submitted' = submitted
        BY <2>1 DEF Building
      <3>3. QED
        BY <1>1, <2>1, <3>1, <3>2 DEF LinksInv, Linked, Building
    <2>3. HeardInv' /\ ClearInv'
      BY <2>1 DEF HeardInv, ClearInv
    <2>4. ParkedInv' /\ ResumeInv'
      BY <1>1, <2>1 DEF ParkedInv, ResumeInv, Building
    <2>5. QED
      BY <2>2, <2>3, <2>4 DEF FollowInv
  <1>3. CASE sys_rst_reg' = FALSE
    <2>1. CtrlMachine(acc.cyc, ack) /\ HistoryStep(ack, FALSE)
      BY <1>3 DEF Cycle, CtrlStep
    <2>2. Counting(ack)
      BY <1>1, <2>1, HistoryCounts
    <2>3. mem' = mem /\ HostMoves(acc, busy, wb_int_o)
      BY <1>3, HostCases DEF Cycle, CcrSets
    <2>4. Persists
      BY <1>3, Persistence DEF Cycle
    <2>5. LinksInv'
      BY <1>1, <2>2, <2>3, LinksStep
    <2>6. HeardInv'
      BY <1>1, <2>1, <2>2, <2>3, <2>4, HeardStep
    <2>7. ParkedInv'
      BY <1>1, <2>1, <2>2, <2>3, ParkedStep
    <2>8. ResumeInv'
      BY <1>1, <2>1, <2>2, <2>3, <2>4, ResumeStep
    <2>9. ClearInv'
      BY <1>1, <2>1, ClearStep
    <2>10. QED
      BY <2>5, <2>6, <2>7, <2>8, <2>9 DEF FollowInv
  <1>4. QED
    BY <1>1, <1>2, <1>3

-----------------------------------------------------------------------------
(* Stores of the host *)

(* The link of the job that is appended to. *)
LEMMA TailLinked == ASSUME OrderlyHost, TypeOK, LinkJob PROVE Chain \in mem'[tail].dc
  <1>1. PICK w \in Words :
          mem' = [mem EXCEPT
                    ![tail + 1] = [next |-> NextSlot(tail + 1), dc |-> w],
                    ![tail] = [next |-> tail + 1, dc |-> @.dc \cup {ChainBit}]]
    BY DEF LinkJob
  <1>2. tail \in DOMAIN mem /\ tail + 1 # tail
    BY HostTypes DEF TypeOK
  <1>3. mem'[tail].dc = mem[tail].dc \cup {ChainBit}
    BY <1>1, <1>2
  <1>4. QED
    BY <1>3 DEF OrderlyHost

LEMMA FollowStore ==
  ASSUME OrderlyHost, OrderInv, FollowInv, Store
  PROVE  FollowInv'
  <1>1. /\ TypeOK /\ QueueInv /\ HostInv /\ UNCHANGED EngineVars
        /\ LinksInv /\ HeardInv /\ ParkedInv /\ ResumeInv /\ ClearInv
        /\ nStarted \in Nat /\ submitted \in Nat /\ NJobs \in Nat /\ tail \in Nat
        /\ nStarted <= submitted /\ submitted <= NJobs
    BY HostTypes DEF OrderInv, IInv, Store, FollowInv, QueueInv, BoundInv
  <1>2. /\ nStarted' = nStarted /\ state' = state /\ append_mode' = append_mode
        /\ inc' = inc /\ dar' = dar /\ dc' = dc /\ append' = append /\ ndar' = ndar
        /\ append_clear' = append_clear
    BY <1>1, EngineStill DEF EngineVars
  <1>3. ClearInv'
    BY <1>1, <1>2 DEF ClearInv
  <1>4. CASE BuildChain
    <2>1. /\ hpc = "ready" /\ hpc' = "disable" /\ submitted' = submitted /\ nStarted = submitted
      BY <1>1, <1>4 DEF BuildChain, HostInv, ContentInv, CaughtUp, Content
    <2>2. \A a \in 0..NJobs : submitted < a /\ a < tail' => Linked(a)'
      BY <1>1, <1>4, ChainBuilt DEF Linked
    <2>3. LinksInv'
      <3>1. ASSUME NEW a \in 0..NJobs PROVE ~(nStarted < a /\ a < nStarted)
        BY <1>1
      <3>2. QED
        BY <1>2, <2>1, <2>2, <3>1 DEF LinksInv, Linked
    <2>4. ~(nStarted < submitted) /\ ~(nStarted + 1 < submitted)
      BY <1>1, <2>1
    <2>5. HeardInv' /\ ResumeInv' /\ ParkedInv'
      BY <1>2, <2>1, <2>4 DEF HeardInv, Heard, ResumeInv, ParkedInv, Building
    <2>6. QED
      BY <1>3, <2>3, <2>5 DEF FollowInv
  <1>5. CASE LinkJob
    <2>1. /\ hpc' = "append" /\ hpc \notin Building /\ tail = submitted /\ tail > 0
          /\ submitted' = tail + 1 /\ tail' = tail + 1
      BY <1>1, <1>5 DEF LinkJob, HostInv, TailInv, Building
    <2>2. /\ \A a \in 0..NJobs : a # tail /\ a # tail + 1 => mem'[a] = mem[a]
          /\ Chain \in mem'[tail].dc
      BY <1>1, <1>5, JobLinked, TailLinked
    <2>3. \A a \in 0..NJobs : a < submitted /\ Linked(a) => Linked(a)'
      BY <1>1, <2>1, <2>2 DEF Linked
    <2>4. LinksInv'
      <3>1. ASSUME NEW a \in 0..NJobs, nStarted < a, a < tail + 1 PROVE Linked(a)'
        BY <1>1, <2>1, <2>2, <2>3, <3>1 DEF LinksInv, Linked
      <3>2. QED
        BY <1>2, <2>1, <3>1 DEF LinksInv, Linked, Building
    <2>5. \A c \in 0..1, a \in 0..NJobs : Heard(c, a) => Heard(c, a)'
      BY <1>1, <1>2, <2>1, <2>2, <2>3 DEF Heard, Announced, Linked
    <2>6. HeardInv'
      <3>1. PICK n \in 0..NJobs : n = nStarted
        BY <1>1
      <3>2. \A c \in 0..1 : Heard(c, nStarted) => Heard(c, nStarted)'
        BY <1>2, <2>5, <3>1 DEF Heard, Linked
      <3>3. /\ state = "CMD0" /\ ~append_mode => nStarted + 1 \in 0..NJobs
            /\ state = "CMD1" => nStarted + 1 \in 0..NJobs
        BY <1>1 DEF QueueInv, LoadInv
      <3>4. /\ state = "CMD0" /\ ~append_mode /\ Heard(0, nStarted + 1) => Heard(0, nStarted + 1)'
            /\ state = "CMD1" /\ Heard(1, nStarted + 1) => Heard(1, nStarted + 1)'
        BY <1>2, <2>5, <3>3 DEF Heard, Linked
      <3>5. QED
        BY <1>1, <1>2, <3>2, <3>4 DEF HeardInv
    <2>7. ParkedInv'
      BY <1>1, <1>2, <2>1 DEF ParkedInv
    <2>8. ResumeInv'
      <3>1. ASSUME Resting, ndar # nStarted + 1 PROVE dar = nStarted /\ Linked(dar)'
        <4>1. CASE nStarted < submitted
          <5>1. dar = nStarted /\ Linked(dar)
            BY <1>1, <3>1, <4>1 DEF ResumeInv
          <5>2. QED
            BY <1>1, <1>2, <2>3, <4>1, <5>1 DEF Linked
        <4>2. CASE nStarted = submitted
          <5>1. dar = nStarted
            BY <1>1, <2>1, <3>1, <4>2 DEF ParkedInv
          <5>2. QED
            BY <1>2, <2>1, <2>2, <4>2, <5>1 DEF Linked
        <4>3. QED
          BY <1>1, <4>1, <4>2
      <3>2. Resting' <=> Resting
        BY <1>2 DEF Resting
      <3>3. QED
        BY <1>2, <2>1, <3>1, <3>2 DEF ResumeInv, Announced
    <2>9. QED
      BY <1>3, <2>4, <2>6, <2>7, <2>8 DEF FollowInv
  <1>6. CASE SeeResults
    <2>1. hpc = "wait" /\ hpc' = "ready" /\ submitted' = submitted /\ tail' = tail /\ mem' = mem
      BY <1>6 DEF SeeResults
    <2>2. QED
      BY <1>1, <1>2, <1>3, <2>1 DEF FollowInv, LinksInv, HeardInv, Heard, ParkedInv, ResumeInv,
         Linked, Announced, Resting, Unread, Building
  <1>7. QED
    BY <1>1, <1>4, <1>5, <1>6 DEF Store, HostStore

LEMMA InitFollow == Init => FollowInv
  <1> SUFFICES ASSUME Init PROVE FollowInv
    OBVIOUS
  <1>1. /\ state = "IDLE" /\ append_clear = FALSE /\ hpc = "boot" /\ submitted = 0 /\ tail = 0
        /\ nStarted = 0
    BY DEF Init, CtrlInit, WbmInit, DriverInit, nStarted
  <1>2. LinksInv
    <2>1. ASSUME NEW a \in 0..NJobs PROVE ~(0 < a /\ a < 0)
      BY SizesAssumption
    <2>2. QED
      BY <1>1, <2>1 DEF LinksInv, Building
  <1>3. QED
    BY <1>1, <1>2 DEF FollowInv, HeardInv, ParkedInv, ResumeInv, ClearInv

(* No job that is appended is lost, however the host's links and appends    *)
(* meet the controller's passes: the pass that clears append (NEXT0) is     *)
(* followed by one more when append was set again (ctrl.v:413), unless the  *)
(* mark of a queue is gone (ctrl.v:401).  A host that never appends may     *)
(* acknowledge as well.                                                     *)
THEOREM NoneLost ==
  ASSUME OrderlyHost, KeepsAppends
  PROVE  Spec => []AppendsRun
  <1>1. CASE NoAppend
    <2>1. QuietMeansDone => AppendsRun
      BY DEF QuietMeansDone, AppendsRun
    <2>2. Spec => []QuietMeansDone
      BY <1>1, QuietDone
    <2>3. QED
      BY <2>1, <2>2, PTL
  <1>2. CASE "ack" \notin Ops
    <2>1. Init => FollowInv
      BY InitFollow
    <2>2. OrderInv /\ FollowInv /\ [Next]_vars => FollowInv'
      <3> SUFFICES ASSUME OrderInv, FollowInv, [Next]_vars PROVE FollowInv'
        OBVIOUS
      <3>1. CASE Store
        BY <3>1, FollowStore
      <3>2. CASE Tick
        BY <1>2, <3>2, FollowCycle DEF Tick
      <3>3. CASE UNCHANGED vars
        <4>1. /\ UNCHANGED EngineVars /\ hpc' = hpc /\ tail' = tail
              /\ submitted' = submitted /\ mem' = mem
          BY <3>3 DEF vars, DriverVars
        <4>2. append_clear' = append_clear
          BY <4>1 DEF EngineVars
        <4>3. QED
          BY <4>1, <4>2, EngineStill DEF FollowInv, LinksInv, HeardInv, Heard, ParkedInv,
             ResumeInv, ClearInv, Linked, Announced, Resting, Unread
      <3>4. QED
        BY <3>1, <3>2, <3>3 DEF Next
    <2>3. OrderInv /\ FollowInv => AppendsRun
      <3> SUFFICES ASSUME OrderInv, FollowInv, AtRest, nFinished # submitted,
                          ndar # nFinished + 1
                   PROVE  FALSE
        BY DEF AppendsRun, QueueLost, nFinished
      <3>1. /\ nStarted \in Nat /\ submitted \in Nat /\ nStarted <= submitted
            /\ state = "IDLE" /\ ~append /\ hpc = "wait"
        BY HostTypes DEF OrderInv, IInv, QueueInv, BoundInv, AtRest
      <3>2. nStarted = nFinished /\ ~append_mode
        BY <3>1 DEF OrderInv, QueueInv, IdleInv, IInv, AppendModeInv
      <3>3. QED
        BY <3>1, <3>2 DEF FollowInv, ResumeInv, Resting, Announced, Unread
    <2>4. QED
      BY <2>1, <2>2, <2>3, OrderInvariant, PTL DEF Spec
  <1>3. QED
    BY <1>1, <1>2 DEF KeepsAppends, NoAppend
=============================================================================
