-------------------------------- MODULE Engine ------------------------------
(***************************************************************************)
(* The job engine: the controller (Ctrl), the register slave (Wbm) and the *)
(* four walkers as the controller sees them (SgPort), clocked together by  *)
(* wb_clk_i as rtl/verilog/ss_adma.v wires them, with their host (Driver). *)
(*                                                                         *)
(* A cycle of the clock is one step in which every register moves at once. *)
(* What the rest of the system decides in a cycle is nondeterministic: the *)
(* access acc the host makes, whether the bus acknowledges a beat of the   *)
(* controller (ack) and which running walkers stop (out).  Stores of the   *)
(* host to memory happen between two edges.                                *)
(***************************************************************************)
EXTENDS Sequences, Driver

CONSTANTS Outcomes   \* how a running walker may stop

VARIABLES
    state, append_clear, append_mode, ndar_dirty_clear,
    wbs_cyc4, wbs_we4, wbs_adr4, inc, dar, cdar, next_desc, ctl_adr, dc,
    wb_int_reg, m_enable, m_reset,
    enable, append, ndar, ndar_dirty, wb_int_clear, wb_int_enable, sys_rst_reg,
    walker, c_done,
    started, finished   \* history: the jobs loaded, the jobs retired, in order

INSTANCE Ctrl WITH Addr <- 0..NJobs
INSTANCE Wbm WITH Addr <- 0..NJobs
INSTANCE SgPort

EngineVars == <<
    state, append_clear, append_mode, ndar_dirty_clear,
    wbs_cyc4, wbs_we4, wbs_adr4, inc, dar, cdar, next_desc, ctl_adr, dc,
    wb_int_reg, m_enable, m_reset,
    enable, append, ndar, ndar_dirty, wb_int_clear, wb_int_enable, sys_rst_reg,
    walker, c_done, started, finished>>
vars == <<EngineVars, DriverVars, results>>

ASSUME SizesAssumption ==
    /\ NJobs \in Nat /\ Settle \in Nat
    /\ Words \subseteq SUBSET (DcBits \ {ChainBit}) /\ ChainBit \in DcBits
    /\ LateNext \in BOOLEAN /\ Outcomes \subseteq {"END", "PANIC"}

TypeOK ==
    /\ CtrlTypeOK /\ WbmTypeOK /\ SgTypeOK /\ DriverTypeOK
    /\ mem \in [0..NJobs -> Descriptor]
    /\ started \in Seq(0..NJobs) /\ finished \in Seq(0..NJobs)

Init ==
    /\ CtrlInit /\ WbmInit /\ SgInit /\ DriverInit
    /\ started = <<>> /\ finished = <<>>

(* A job is started when the last beat of its descriptor loads the walkers  *)
(* and finished when the controller passes its CYC state; its result block  *)
(* is written with the last beat of its CTL state.                          *)
Loading(ack) ==
    /\ LastBeat(ack)
    /\ (state = "CMD0" /\ ~append_mode) \/ state = "CMD1"

HistoryStep(ack, rst) ==
    /\ started' = IF rst THEN finished
                  ELSE IF Loading(ack) THEN Append(started, cdar) ELSE started
    /\ finished' = IF rst THEN finished
                   ELSE CASE state = "CYC0" -> Append(finished, ctl_adr[0])
                          [] state = "CYC1" -> Append(finished, ctl_adr[1])
                          [] OTHER -> finished
    /\ results' = IF LastBeat(ack)
                    THEN CASE state = "CTL0" -> results \cup {ctl_adr[0]}
                           [] state = "CTL1" -> results \cup {ctl_adr[1]}
                           [] OTHER -> results
                    ELSE results

Cycle(acc, ack, out) ==
    /\ ack => wbs_cyc4
    /\ DriverCycle(acc, busy, wb_int_o, Len(finished))
    /\ WbmStep(acc)
    /\ CtrlStep(acc.cyc, ack, sys_rst_reg')
    /\ SgStep(ack, sys_rst_reg', out)
    /\ HistoryStep(ack, sys_rst_reg')

Store ==
    /\ HostStore
    /\ UNCHANGED EngineVars

Tick == \E acc \in Accesses, ack \in BOOLEAN, out \in RunOutcome :
          Cycle(acc, ack, out)

Next == Store \/ Tick

Spec == Init /\ [][Next]_vars

-----------------------------------------------------------------------------
(* The clock ticks; the bus acknowledges the controller's beats in the end; *)
(* a running walker ends; and a host that has something to do on the bus    *)
(* does it.                                                                 *)
AckTick == \E acc \in Accesses, out \in RunOutcome : Cycle(acc, TRUE, out)
HostTick == \E acc \in Accesses \ {NoAccess}, ack \in BOOLEAN, out \in RunOutcome :
              Cycle(acc, ack, out)
EndTick(i) == \E acc \in Accesses, ack \in BOOLEAN :
                \E out \in {o \in RunOutcome : i \in Running /\ o[i] = "END"} :
                  Cycle(acc, ack, out)

Fairness ==
    /\ WF_vars(Tick)
    /\ WF_vars(AckTick)
    /\ WF_vars(HostTick)
    /\ \A i \in Walker : WF_vars(EndTick(i))

FairSpec == Spec /\ Fairness

-----------------------------------------------------------------------------
(* Properties *)

WaitOf(c) == IF c = 0 THEN "WAIT0" ELSE "WAIT1"
CycOf(c) == IF c = 0 THEN "CYC0" ELSE "CYC1"

(* The controller only believes a done flag that is about the job it waits  *)
(* for: c_done lags the walker by a cycle and outlives its reset, so a flag *)
(* left by the previous job could retire the next one at once.              *)
DoneIsFresh ==
    \A c \in Channel :
        state = WaitOf(c) /\ c_done[2 * c + 1] => walker[2 * c + 1] = "END"

(* A descriptor is only fed to walkers that are back to idle, from its      *)
(* first beat on: a walker that missed a beat would take the source list of *)
(* one job for the destination list of another.                             *)
LoadsIdleWalker ==
    \A i \in Walker :
        ss_we(i, TRUE) => walker[i] = IF inc = 0 THEN "IDLE" ELSE "CMD"

(* A processing module is enabled while its channel waits for its job, and  *)
(* enabled only while a job is loaded there or being taken off.             *)
ModuleEnable ==
    \A c \in Channel :
        /\ state = WaitOf(c) => m_enable[c]
        /\ m_enable[c] =>
             \/ state \in {TrOf(c), CycOf(c)}
             \/ walker[2 * c] # "IDLE" /\ walker[2 * c + 1] # "IDLE"

(* The result block that is written is that of the oldest unfinished job,   *)
(* at the time its destination is complete.                                 *)
ResultOwner ==
    \A c \in Channel :
        state = (IF c = 0 THEN "CTL0" ELSE "CTL1") =>
            /\ Len(finished) < Len(started)
            /\ wbs_adr4 = started[Len(finished) + 1]
            /\ walker[2 * c + 1] = "END"

(* The controller only fetches descriptors the host has handed over: no     *)
(* stale or torn next pointer is followed.                                  *)
FetchesJobs == state \in {"CMD0", "CMD1"} => wbs_adr4 \in 1..submitted

(* The engine is idle and has nothing left to look at.                      *)
AtRest == state = "IDLE" /\ ~append /\ ~ndar_dirty /\ hpc = "wait"

(* The chain NDAR points to was never run.  An append taken while NDAR is   *)
(* dirty takes the mark with it (ctrl.v:401, 413: the second test is no     *)
(* else); the host must still be in the pass of an earlier append.          *)
QueueLost == AtRest /\ ndar = Len(finished) + 1

(* For a host that only queues: when the engine is quiet, every job handed  *)
(* over is finished.                                                        *)
QuietMeansDone == AtRest => Len(finished) = submitted

(* For one that appends, too: no job is lost, unless behind a queue that    *)
(* an append has taken along.                                               *)
AppendsRun == AtRest => Len(finished) = submitted \/ QueueLost

(* A host that acknowledges an interrupt and then looks at the results      *)
(* misses no completion: a finished job that asked for an interrupt is      *)
(* known to it, or the interrupt is pending.                                *)
NoMissedCompletion ==
    hpc # "scan" =>
        \A k \in 1..Len(finished) :
            Interrupt \in mem[finished[k]].dc /\ finished[k] \notin seen
                => wb_int_o

(* The host that waits for busy to fall has waited for all its jobs.        *)
BusyMeansDone == hpc = "ready" => Len(finished) = submitted

(* The jobs are started and finished once each, in the order in which they  *)
(* were queued and appended, two at a time at most.                         *)
JQ == INSTANCE JobQueue WITH NChannels <- 2
JobOrder == JQ!Spec

(* Every job handed over is finished in the end, unless an append has taken *)
(* the mark of a queue along. *)
AllFinish ==
    \A j \in 1..NJobs : submitted >= j ~> Len(finished) >= j \/ QueueLost
=============================================================================
