-------------------------------- MODULE Ctrl --------------------------------
(***************************************************************************)
(* The job controller, rtl/verilog/ctrl.v.                                 *)
(*                                                                         *)
(* One step is one rising edge of wb_clk_i.  Every register of the source  *)
(* keeps its name; the pairs dc0/dc1, ctl_adr0/ctl_adr1, m_enable0/1 and   *)
(* m_reset0/1 are functions of the channel number 0..1.  A step is a       *)
(* function of the registers before the edge and of the combinational      *)
(* inputs: ack, this cycle's bus acknowledge (wbs_ack4, which the bridge   *)
(* never raises together with wbs_rty4 or wbs_err4; a retry or an error    *)
(* alone moves nothing in this controller, as no beat at all); cyc_i, a    *)
(* host access to the register slave (wbs_cyc_i); and rst, the level of    *)
(* sys_rst just after the edge (the reset is asynchronous).                *)
(*                                                                         *)
(* A job descriptor is four 8-byte words, named by its address.  The model *)
(* keeps what ctrl.v latches from it: beat 0 carries next_desc and the     *)
(* control address, beat 1 the job word dc, beats 2 and 3 the buffer lists *)
(* that only the walkers latch.  wbs_adr4 is the address of the burst and  *)
(* inc the beat, so wbs_adr4_r of the source is wbs_adr4 + inc.  The       *)
(* control address of the job at a is named a as well: every job has its   *)
(* own result block.                                                       *)
(***************************************************************************)
EXTENDS Naturals

CONSTANTS Addr   \* job-descriptor addresses; 0 is the reset value of dar

VARIABLES
    \* registers of ctrl.v
    state, append_clear, append_mode, ndar_dirty_clear,
    wbs_cyc4, wbs_we4, wbs_adr4, inc,
    dar, cdar, next_desc, ctl_adr, dc,
    wb_int_reg, m_enable, m_reset,
    \* inputs: registers of wbm.v, done flags of the walkers, host memory
    enable, append, ndar, ndar_dirty, wb_int_clear, wb_int_enable,
    c_done, mem

States == {"IDLE", "CMD0", "NEXT0", "CMD1", "WAIT0", "CTL0", "TR0", "WAIT1",
           "CTL1", "TR1", "NEXT1", "CYC0", "CYC1"}

Channel == 0..1

(* The bits of the job word this design decodes (the walkers read 1 and 2), *)
(* and bits 14 and 15, where other documents put the chain and interrupt    *)
(* flags.                                                                   *)
DcBits == {1, 2, 7, 10, 11, 14, 15}
WriteResult == 7
Chain       == 10
Interrupt   == 11

Descriptor == [next : Addr, dc : SUBSET DcBits]

CtrlTypeOK ==
    /\ state \in States
    /\ append_clear \in BOOLEAN /\ append_mode \in BOOLEAN
    /\ ndar_dirty_clear \in BOOLEAN
    /\ wbs_cyc4 \in BOOLEAN /\ wbs_we4 \in BOOLEAN
    /\ wbs_adr4 \in Addr /\ inc \in 0..3
    /\ dar \in Addr /\ cdar \in Addr /\ next_desc \in Addr
    /\ ctl_adr \in [Channel -> Addr]
    /\ dc \in [Channel -> SUBSET DcBits]
    /\ wb_int_reg \in BOOLEAN
    /\ m_enable \in [Channel -> BOOLEAN] /\ m_reset \in [Channel -> BOOLEAN]

(* Power-up: the asynchronous registers hold their reset values.  The       *)
(* others are undefined until the first burst loads them; zero stands for   *)
(* that value, since nothing reads them before.                             *)
CtrlInit ==
    /\ state = "IDLE"
    /\ append_clear = FALSE /\ append_mode = FALSE /\ ndar_dirty_clear = FALSE
    /\ wbs_cyc4 = FALSE /\ wbs_we4 = FALSE /\ wbs_adr4 = 0 /\ inc = 0
    /\ dar = 0 /\ cdar = 0 /\ next_desc = 0
    /\ ctl_adr = [c \in Channel |-> 0]
    /\ dc = [c \in Channel |-> {}]
    /\ wb_int_reg = FALSE
    /\ m_enable = [c \in Channel |-> FALSE]
    /\ m_reset = [c \in Channel |-> TRUE]

-----------------------------------------------------------------------------
(* Wires *)

busyRunning == state \notin {"IDLE", "CMD0"}   \* faulty: the fetch is not busy
busy == state # "IDLE"
wb_int_o == wb_int_reg /\ wb_int_enable

(* The state in which channel c's walkers are held in reset (ss_done).      *)
TrOf(c) == IF c = 0 THEN "TR0" ELSE "TR1"
CmdOf(c) == IF c = 0 THEN "CMD0" ELSE "CMD1"

LastBeat(ack) == ack /\ inc = 3

(* Bus registers: start a burst at a, count an acknowledged beat and drop   *)
(* cyc after the fourth, or hold.                                           *)
Burst(a, we) ==
    wbs_cyc4' = TRUE /\ wbs_we4' = we /\ wbs_adr4' = a /\ inc' = 0
BeatNoWrap(ack) ==   \* faulty: the beat counter runs on
    /\ inc' = IF ack THEN inc + 1 ELSE inc
    /\ wbs_cyc4' = (wbs_cyc4 /\ ~LastBeat(ack))
    /\ UNCHANGED <<wbs_we4, wbs_adr4>>
Beat(ack) ==
    /\ inc' = IF ack THEN (inc + 1) % 4 ELSE inc
    /\ wbs_cyc4' = (wbs_cyc4 /\ ~LastBeat(ack))
    /\ UNCHANGED <<wbs_we4, wbs_adr4>>
BusHold == UNCHANGED <<wbs_cyc4, wbs_we4, wbs_adr4, inc>>

(* What the beats of a descriptor read for channel c load.  next_desc and   *)
(* cdar are one register each, shared by the channels.                      *)
Latch(c, ack) ==
    /\ IF ack /\ inc = 0
         THEN /\ next_desc' = mem[wbs_adr4].next
              /\ cdar' = wbs_adr4
              /\ ctl_adr' = [ctl_adr EXCEPT ![c] = wbs_adr4]
         ELSE UNCHANGED <<next_desc, cdar, ctl_adr>>
    /\ dc' = IF ack /\ inc = 1 THEN [dc EXCEPT ![c] = mem[wbs_adr4].dc] ELSE dc
LatchHold == UNCHANGED <<next_desc, cdar, ctl_adr, dc>>

(* The interrupt register: cleared and set together, it keeps wb_int_o.     *)
IntStep(set) ==
    wb_int_reg' = IF wb_int_clear = set THEN wb_int_o ELSE set

NoAppendClear == append_clear' = FALSE /\ UNCHANGED append_mode
NoDirtyClear  == ndar_dirty_clear' = FALSE

(* m_reset repeats, one cycle late, that the channel's walkers are reset.   *)
ResetPulse == m_reset' = [c \in Channel |-> state = TrOf(c)]

-----------------------------------------------------------------------------
(* One action per state of the machine *)

IdleWait ==
    /\ state = "IDLE"
    /\ ~(enable /\ (ndar_dirty \/ append))
    /\ BusHold /\ LatchHold /\ NoAppendClear /\ NoDirtyClear /\ IntStep(FALSE)
    /\ UNCHANGED <<state, dar, m_enable>>

(* A job queued through NDAR. *)
IdleQueue ==
    /\ state = "IDLE"
    /\ enable /\ ndar_dirty /\ ~append
    /\ ndar_dirty_clear' = TRUE
    /\ Burst(ndar, FALSE)
    /\ state' = "CMD0"
    /\ LatchHold /\ NoAppendClear /\ IntStep(FALSE)
    /\ UNCHANGED <<dar, m_enable>>

IdleAppendAsQueue ==   \* faulty: the retired descriptor is run again
    /\ state = "IDLE"
    /\ enable /\ append
    /\ ndar_dirty_clear' = ndar_dirty
    /\ Burst(dar, FALSE)
    /\ state' = "CMD0"
    /\ LatchHold /\ NoAppendClear /\ IntStep(FALSE)
    /\ UNCHANGED <<dar, m_enable>>

(* Resume from the last descriptor retired.  The two tests of the source    *)
(* are not exclusive: a queued NDAR is marked consumed all the same.        *)
IdleAppend ==
    /\ state = "IDLE"
    /\ enable /\ append
    /\ ndar_dirty_clear' = ndar_dirty
    /\ append_mode' = TRUE
    /\ Burst(dar, FALSE)
    /\ state' = "CMD0"
    /\ append_clear' = FALSE
    /\ LatchHold /\ IntStep(FALSE)
    /\ UNCHANGED <<dar, m_enable>>

Cmd0(ack) ==
    /\ state = "CMD0"
    /\ Beat(ack) /\ Latch(0, ack)
    /\ state' = IF LastBeat(ack) THEN "NEXT0" ELSE "CMD0"
    /\ NoAppendClear /\ NoDirtyClear /\ IntStep(FALSE)
    /\ UNCHANGED <<dar, m_enable>>

Next0Clears ==   \* faulty: a pass that is no append clears append
    /\ state = "NEXT0"
    /\ IF Chain \in dc[0]
         THEN /\ Burst(next_desc, FALSE)
              /\ state' = IF append_mode THEN "CMD0" ELSE "CMD1"
         ELSE /\ BusHold
              /\ state' = IF append_mode THEN "IDLE" ELSE "WAIT0"
    /\ append_clear' = TRUE
    /\ append_mode' = FALSE
    /\ m_enable' = IF append_mode THEN m_enable ELSE [m_enable EXCEPT ![0] = TRUE]
    /\ LatchHold /\ NoDirtyClear /\ IntStep(FALSE)
    /\ UNCHANGED dar

Next0Unchained ==   \* faulty: the chain bit is not looked at
    /\ state = "NEXT0"
    /\ Burst(next_desc, FALSE)
    /\ state' = IF append_mode THEN "CMD0" ELSE "CMD1"
    /\ append_clear' = append_mode
    /\ append_mode' = FALSE
    /\ m_enable' = IF append_mode THEN m_enable ELSE [m_enable EXCEPT ![0] = TRUE]
    /\ LatchHold /\ NoDirtyClear /\ IntStep(FALSE)
    /\ UNCHANGED dar

(* In append mode the descriptor just read was retired before: only its     *)
(* chain bit and next pointer matter, and no channel is started.            *)
Next0 ==
    /\ state = "NEXT0"
    /\ IF Chain \in dc[0]
         THEN /\ Burst(next_desc, FALSE)
              /\ state' = IF append_mode THEN "CMD0" ELSE "CMD1"
         ELSE /\ BusHold
              /\ state' = IF append_mode THEN "IDLE" ELSE "WAIT0"
    /\ append_clear' = append_mode
    /\ append_mode' = FALSE
    /\ m_enable' = IF append_mode THEN m_enable ELSE [m_enable EXCEPT ![0] = TRUE]
    /\ LatchHold /\ NoDirtyClear /\ IntStep(FALSE)
    /\ UNCHANGED dar

Cmd1(ack) ==
    /\ state = "CMD1"
    /\ Beat(ack) /\ Latch(1, ack)
    /\ state' = IF LastBeat(ack) THEN "WAIT0" ELSE "CMD1"
    /\ NoAppendClear /\ NoDirtyClear /\ IntStep(FALSE)
    /\ UNCHANGED <<dar, m_enable>>

RetireTo0(c, ctl, tr) ==   \* faulty: both channels write channel 0's block
    IF c_done[2 * c + 1]
      THEN IF WriteResult \in dc[c]
             THEN Burst(ctl_adr[0], TRUE) /\ state' = ctl
             ELSE BusHold /\ state' = tr
      ELSE BusHold /\ UNCHANGED state

(* Leave a wait state when the channel's destination walker has ended; the  *)
(* test of the source walker is commented out.                              *)
Retire(c, ctl, tr) ==
    IF c_done[2 * c + 1]
      THEN IF WriteResult \in dc[c]
             THEN Burst(ctl_adr[c], TRUE) /\ state' = ctl
             ELSE BusHold /\ state' = tr
      ELSE BusHold /\ UNCHANGED state

Wait0 ==
    /\ state = "WAIT0"
    /\ Retire(0, "CTL0", "TR0")
    /\ m_enable' = [m_enable EXCEPT ![1] = Chain \in dc[0]]
    /\ LatchHold /\ NoAppendClear /\ NoDirtyClear /\ IntStep(FALSE)
    /\ UNCHANGED dar

Wait1 ==
    /\ state = "WAIT1"
    /\ Retire(1, "CTL1", "TR1")
    /\ LatchHold /\ NoAppendClear /\ NoDirtyClear /\ IntStep(FALSE)
    /\ UNCHANGED <<dar, m_enable>>

Ctl(from, tr, ack) ==
    /\ state = from
    /\ Beat(ack)
    /\ state' = IF LastBeat(ack) THEN tr ELSE from
    /\ LatchHold /\ NoAppendClear /\ NoDirtyClear /\ IntStep(FALSE)
    /\ UNCHANGED <<dar, m_enable>>

(* The walkers of the channel are held in reset until the host touches the  *)
(* register slave.                                                          *)
Tr(from, cyc, cyc_i) ==
    /\ state = from
    /\ state' = IF cyc_i THEN cyc ELSE from
    /\ BusHold /\ LatchHold /\ NoAppendClear /\ NoDirtyClear /\ IntStep(FALSE)
    /\ UNCHANGED <<dar, m_enable>>

Cyc0Enabled ==   \* faulty: the module of channel 0 stays enabled
    /\ state = "CYC0"
    /\ IF Chain \in dc[0]
         THEN state' = "WAIT1" /\ UNCHANGED dar
         ELSE state' = "IDLE" /\ dar' = cdar
    /\ IntStep(Interrupt \in dc[0])
    /\ UNCHANGED m_enable
    /\ BusHold /\ LatchHold /\ NoAppendClear /\ NoDirtyClear
Cyc0KeepsDar ==   \* faulty: the last descriptor retired is not remembered
    /\ state = "CYC0"
    /\ state' = IF Chain \in dc[0] THEN "WAIT1" ELSE "IDLE"
    /\ IntStep(Interrupt \in dc[0])
    /\ m_enable' = [m_enable EXCEPT ![0] = FALSE]
    /\ UNCHANGED dar
    /\ BusHold /\ LatchHold /\ NoAppendClear /\ NoDirtyClear
Cyc0 ==
    /\ state = "CYC0"
    /\ IF Chain \in dc[0]
         THEN state' = "WAIT1" /\ UNCHANGED dar
         ELSE state' = "IDLE" /\ dar' = cdar
    /\ IntStep(Interrupt \in dc[0])
    /\ m_enable' = [m_enable EXCEPT ![0] = FALSE]
    /\ BusHold /\ LatchHold /\ NoAppendClear /\ NoDirtyClear

Cyc1Ends ==   \* faulty: the chain bit of the second job is not looked at
    /\ state = "CYC1"
    /\ state' = "IDLE"
    /\ dar' = cdar
    /\ IntStep(Interrupt \in dc[1])
    /\ m_enable' = [m_enable EXCEPT ![1] = FALSE]
    /\ BusHold /\ LatchHold /\ NoAppendClear /\ NoDirtyClear
Cyc1 ==
    /\ state = "CYC1"
    /\ state' = IF Chain \in dc[1] THEN "NEXT1" ELSE "IDLE"
    /\ dar' = cdar
    /\ IntStep(Interrupt \in dc[1])
    /\ m_enable' = [m_enable EXCEPT ![1] = FALSE]
    /\ BusHold /\ LatchHold /\ NoAppendClear /\ NoDirtyClear

Next1 ==
    /\ state = "NEXT1"
    /\ Burst(next_desc, FALSE)
    /\ state' = "CMD0"
    /\ LatchHold /\ NoAppendClear /\ NoDirtyClear /\ IntStep(FALSE)
    /\ UNCHANGED <<dar, m_enable>>

(* sys_rst: every register with an asynchronous reset takes its reset value *)
(* whatever the state; the others are dead until the next burst.            *)
CtrlReset ==
    /\ state' = "IDLE"
    /\ append_clear' = FALSE /\ append_mode' = FALSE /\ ndar_dirty_clear' = FALSE
    /\ wbs_cyc4' = FALSE
    /\ dar' = 0
    /\ wb_int_reg' = FALSE
    /\ m_enable' = [c \in Channel |-> FALSE]
    /\ m_reset' = [c \in Channel |-> TRUE]
    /\ UNCHANGED <<wbs_we4, wbs_adr4, inc, cdar, next_desc, ctl_adr, dc>>

CtrlMachine(cyc_i, ack) ==
    \/ IdleWait \/ IdleQueue \/ IdleAppend
    \/ Cmd0(ack) \/ Next0 \/ Cmd1(ack)
    \/ Wait0 \/ Ctl("CTL0", "TR0", ack) \/ Tr("TR0", "CYC0", cyc_i) \/ Cyc0
    \/ Wait1 \/ Ctl("CTL1", "TR1", ack) \/ Tr("TR1", "CYC1", cyc_i) \/ Cyc1
    \/ Next1

CtrlStep(cyc_i, ack, rst) ==
    \/ rst /\ CtrlReset
    \/ ~rst /\ CtrlMachine(cyc_i, ack) /\ ResetPulse
=============================================================================
