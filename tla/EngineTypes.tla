----------------------------- MODULE EngineTypes ----------------------------
(***************************************************************************)
(* Every register of Engine keeps its type, for any number of jobs, any    *)
(* job words and any mix of the host's operations.  A lemma about a step   *)
(* of the controller says what the step can do to one group of registers,  *)
(* whatever the state it leaves.                                           *)
(***************************************************************************)
EXTENDS Engine, TLAPS

(* A walker at work on a descriptor it has been loaded with. *)
Working == {"RUN", "END", "PANIC"}

-----------------------------------------------------------------------------
(* The controller *)

LEMMA IntCases ==
  ASSUME NEW cyc_i, NEW ack, CtrlMachine(cyc_i, ack)
  PROVE  \/ IntStep(FALSE) \/ IntStep(Interrupt \in dc[0])
         \/ IntStep(Interrupt \in dc[1])
  BY DEF CtrlMachine, IdleWait, IdleQueue, IdleAppend, Cmd0, Next0, Cmd1, Wait0,
         Wait1, Ctl, Tr, Cyc0, Cyc1, Next1

LEMMA ClearCases ==
  ASSUME NEW cyc_i, NEW ack, CtrlMachine(cyc_i, ack)
  PROVE  /\ NoDirtyClear \/ ndar_dirty_clear' = TRUE \/ ndar_dirty_clear' = ndar_dirty
         /\ \/ NoAppendClear
            \/ append_clear' = append_mode /\ append_mode' = FALSE
            \/ append_clear' = FALSE /\ append_mode' = TRUE
  BY DEF CtrlMachine, IdleWait, IdleQueue, IdleAppend, Cmd0, Next0, Cmd1, Wait0,
         Wait1, Ctl, Tr, Cyc0, Cyc1, Next1

LEMMA RetireCases ==
  ASSUME NEW cyc_i, NEW ack, CtrlMachine(cyc_i, ack)
  PROVE  /\ dar' = dar \/ dar' = cdar
         /\ \/ m_enable' = m_enable
            \/ m_enable' = [m_enable EXCEPT ![0] = TRUE]
            \/ m_enable' = [m_enable EXCEPT ![0] = FALSE]
            \/ m_enable' = [m_enable EXCEPT ![1] = Chain \in dc[0]]
            \/ m_enable' = [m_enable EXCEPT ![1] = FALSE]
  BY DEF CtrlMachine, IdleWait, IdleQueue, IdleAppend, Cmd0, Next0, Cmd1, Wait0,
         Wait1, Ctl, Tr, Cyc0, Cyc1, Next1

LEMMA BusCases ==
  ASSUME NEW cyc_i, NEW ack, CtrlMachine(cyc_i, ack)
  PROVE  \/ BusHold \/ Beat(ack)
         \/ \E a \in {ndar, dar, next_desc, ctl_adr[0], ctl_adr[1]}, we \in BOOLEAN :
              Burst(a, we)
  BY DEF CtrlMachine, IdleWait, IdleQueue, IdleAppend, Cmd0, Next0, Cmd1, Wait0,
         Wait1, Retire, Ctl, Tr, Cyc0, Cyc1, Next1

LEMMA LatchCases ==
  ASSUME NEW cyc_i, NEW ack, CtrlMachine(cyc_i, ack)
  PROVE  LatchHold \/ Latch(0, ack) \/ Latch(1, ack)
  BY DEF CtrlMachine, IdleWait, IdleQueue, IdleAppend, Cmd0, Next0, Cmd1, Wait0,
         Wait1, Ctl, Tr, Cyc0, Cyc1, Next1

LEMMA CtrlTypeStep ==
  ASSUME TypeOK, NEW cyc_i \in BOOLEAN, NEW ack \in BOOLEAN, NEW rst \in BOOLEAN,
         CtrlStep(cyc_i, ack, rst)
  PROVE  CtrlTypeOK'
  <1> USE DEF TypeOK, CtrlTypeOK, WbmTypeOK
  <1>1. CASE CtrlReset
    <2>1. m_enable' \in [Channel -> BOOLEAN] /\ m_reset' \in [Channel -> BOOLEAN]
      BY <1>1 DEF CtrlReset
    <2>2. /\ append_clear' \in BOOLEAN /\ append_mode' \in BOOLEAN
          /\ ndar_dirty_clear' \in BOOLEAN /\ wbs_cyc4' \in BOOLEAN
          /\ wbs_we4' \in BOOLEAN /\ wb_int_reg' \in BOOLEAN
      BY <1>1 DEF CtrlReset
    <2>3. /\ state' \in States /\ wbs_adr4' \in 0..NJobs /\ inc' \in 0..3
          /\ dar' \in 0..NJobs /\ cdar' \in 0..NJobs /\ next_desc' \in 0..NJobs
          /\ ctl_adr' \in [Channel -> 0..NJobs] /\ dc' \in [Channel -> SUBSET DcBits]
      BY <1>1, SizesAssumption DEF CtrlReset, States
    <2>4. QED
      BY <2>1, <2>2, <2>3
  <1>2. CASE CtrlMachine(cyc_i, ack) /\ ResetPulse
    <2>1. state' \in States
      BY <1>2 DEF CtrlMachine, IdleWait, IdleQueue, IdleAppend, Cmd0, Next0, Cmd1,
           Wait0, Wait1, Retire, Ctl, Tr, Cyc0, Cyc1, Next1, States
    <2>2. /\ wbs_cyc4' \in BOOLEAN /\ wbs_we4' \in BOOLEAN
      BY <1>2, BusCases DEF BusHold, Beat, Burst
    <2>3. wbs_adr4' \in 0..NJobs /\ inc' \in 0..3
      <3>1. ctl_adr[0] \in 0..NJobs /\ ctl_adr[1] \in 0..NJobs
        BY DEF Channel
      <3>2. CASE BusHold
        BY <3>2 DEF BusHold
      <3>3. CASE Beat(ack)
        BY <3>3 DEF Beat
      <3>4. ASSUME NEW a \in {ndar, dar, next_desc, ctl_adr[0], ctl_adr[1]},
                   NEW we, Burst(a, we)
            PROVE  wbs_adr4' \in 0..NJobs /\ inc' \in 0..3
        BY <3>1, <3>4 DEF Burst
      <3>5. QED
        BY <1>2, BusCases, <3>2, <3>3, <3>4
    <2>4. /\ cdar' \in 0..NJobs /\ next_desc' \in 0..NJobs
          /\ ctl_adr' \in [Channel -> 0..NJobs] 
      BY <1>2, LatchCases DEF LatchHold, Latch, Descriptor, Channel
    <2>5. dc' \in [Channel -> SUBSET DcBits]
      BY <1>2, LatchCases DEF LatchHold, Latch, Descriptor, Channel
    <2>6. wb_int_reg' \in BOOLEAN
      <3>1. \A set : IntStep(set) /\ set \in BOOLEAN => wb_int_reg' \in BOOLEAN
        BY Zenon DEF IntStep, wb_int_o
      <3>2. FALSE \in BOOLEAN /\ (Interrupt \in dc[0]) \in BOOLEAN
            /\ (Interrupt \in dc[1]) \in BOOLEAN
        OBVIOUS
      <3>3. QED
        BY <1>2, IntCases, <3>1, <3>2, Zenon
    <2>7. ndar_dirty_clear' \in BOOLEAN
      BY <1>2, ClearCases DEF NoDirtyClear
    <2>8. append_clear' \in BOOLEAN /\ append_mode' \in BOOLEAN
      BY <1>2, ClearCases DEF NoAppendClear
    <2>9. dar' \in 0..NJobs
      BY <1>2, RetireCases
    <2>10. m_enable' \in [Channel -> BOOLEAN]
      <3>1. \A c \in Channel, b \in BOOLEAN :
              [m_enable EXCEPT ![c] = b] \in [Channel -> BOOLEAN]
        OBVIOUS
      <3>2. 0 \in Channel /\ 1 \in Channel /\ (Chain \in dc[0]) \in BOOLEAN
        BY DEF Channel
      <3>3. QED
        BY <1>2, <3>1, <3>2, RetireCases, Zenon
    <2>11. m_reset' \in [Channel -> BOOLEAN]
      BY <1>2 DEF ResetPulse
    <2>12. QED
      BY <2>1, <2>2, <2>3, <2>4, <2>5, <2>6, <2>7, <2>8, <2>9, <2>10, <2>11
  <1>3. QED
    BY <1>1, <1>2 DEF CtrlStep

-----------------------------------------------------------------------------
(* The register slave and the walkers *)

LEMMA AccessType ==
  ASSUME NEW acc \in Accesses
  PROVE  acc.cyc \in BOOLEAN /\ acc.adr \in 0..NJobs
  <1>1. \A a \in 0..NJobs : NdarWrite(a).cyc = TRUE /\ NdarWrite(a).adr = a
    BY DEF NdarWrite
  <1>2. \A b : CcrWrite(b).cyc = TRUE /\ CcrWrite(b).adr = 0
    BY DEF CcrWrite
  <1>3. \A b : CsrWrite(b).cyc = TRUE /\ CsrWrite(b).adr = 0
    BY DEF CsrWrite
  <1>4. /\ NoAccess.cyc = FALSE /\ NoAccess.adr = 0
        /\ CsrRead.cyc = TRUE /\ CsrRead.adr = 0
    BY DEF NoAccess, CsrRead
  <1>5. 0 \in 0..NJobs
    BY SizesAssumption
  <1>6. CASE acc \in {NdarWrite(a) : a \in 0..NJobs}
    BY <1>1, <1>6
  <1>7. CASE acc \notin {NdarWrite(a) : a \in 0..NJobs}
    BY <1>2, <1>3, <1>4, <1>5, <1>7 DEF Accesses
  <1>8. QED
    BY <1>6, <1>7

LEMMA WbmTypeStep ==
  ASSUME TypeOK, NEW acc \in Accesses, WbmStep(acc)
  PROVE  WbmTypeOK'
  <1> USE DEF TypeOK, WbmTypeOK
  <1>1. ndar' \in 0..NJobs
    BY AccessType DEF WbmStep, NdarStep
  <1>2. ndar_dirty' \in BOOLEAN
    BY DEF WbmStep, NdarStep
  <1>3. /\ enable' \in BOOLEAN /\ append' \in BOOLEAN
        /\ wb_int_clear' \in BOOLEAN /\ sys_rst_reg' \in BOOLEAN
    <2>1. \A n : (n \in acc.dat) \in BOOLEAN
      OBVIOUS
    <2>2. CASE ccr_we(acc)
      BY <2>1, <2>2, Zenon DEF WbmStep, CcrStep
    <2>3. CASE ~ccr_we(acc)
      BY <2>3 DEF WbmStep, CcrStep
    <2>4. QED
      BY <2>2, <2>3
  <1>4. wb_int_enable' \in BOOLEAN
    <2>1. \A n : (n \in acc.dat) \in BOOLEAN
      OBVIOUS
    <2>2. CASE csr_we(acc)
      BY <2>1, <2>2, Zenon DEF WbmStep, CsrStep
    <2>3. CASE ~csr_we(acc)
      <3>1. wb_int_enable' = wb_int_enable
        BY <2>3, Zenon DEF WbmStep, CsrStep
      <3>2. QED
        BY <3>1
    <2>4. QED
      BY <2>2, <2>3
  <1>5. QED
    BY <1>1, <1>2, <1>3, <1>4

LEMMA WalkerNext ==
  ASSUME TypeOK, NEW i \in Walker, NEW ack, NEW rst \in BOOLEAN, NEW out \in RunOutcome,
         SgStep(ack, rst, out)
  PROVE  /\ walker'[i] \in WalkerStates
         /\ rst \/ ss_done(i) => walker'[i] = "IDLE"
         /\ ~rst /\ ~ss_done(i) =>
              /\ walker[i] = "IDLE" =>
                   walker'[i] = IF ss_we(i, ack) THEN "CMD" ELSE "IDLE"
              /\ walker[i] = "CMD" =>
                   IF ss_we(i, ack) /\ inc = 3 THEN walker'[i] \in Working
                                               ELSE walker'[i] = "CMD"
              /\ walker[i] \in Working => walker'[i] \in Working
              /\ walker[i] = "END" => walker'[i] = "END"
         /\ c_done'[i] = (walker[i] = "END")
  <1>1. i \in Running => out[i] \in {"RUN", "END", "PANIC"}
    BY SizesAssumption DEF RunOutcome
  <1>2. walker[i] \in WalkerStates
    BY DEF TypeOK, SgTypeOK
  <1>3. i \in Running <=> walker[i] = "RUN"
    BY DEF Running
  <1>4. c_done'[i] = (walker[i] = "END")
    BY DEF SgStep
  <1>5. walker'[i] = IF rst \/ ss_done(i) THEN "IDLE"
                     ELSE IF i \in Running THEN out[i] ELSE Loaded(i, ack)
    BY DEF SgStep
  <1>6. QED
    BY <1>1, <1>2, <1>3, <1>4, <1>5 DEF Loaded, WalkerStates, Working

LEMMA SgTypeStep ==
  ASSUME TypeOK, NEW ack, NEW rst \in BOOLEAN, NEW out \in RunOutcome,
         SgStep(ack, rst, out)
  PROVE  SgTypeOK'
  <1>1. \A i \in Walker : walker'[i] \in WalkerStates
    BY WalkerNext
  <1>2. walker' \in [Walker -> WalkerStates]
    BY <1>1 DEF SgStep
  <1>3. c_done' \in [Walker -> BOOLEAN]
    BY DEF SgStep
  <1>4. QED
    BY <1>2, <1>3 DEF SgTypeOK

-----------------------------------------------------------------------------
(* The host *)

LEMMA NextSlotType ==
  ASSUME NEW j \in 0..NJobs PROVE NextSlot(j) \in 0..NJobs
  BY SizesAssumption DEF NextSlot
LEMMA WordType ==
  ASSUME NEW w \in Words PROVE w \in SUBSET DcBits /\ w \cup {ChainBit} \in SUBSET DcBits
  BY SizesAssumption
LEMMA StoreTypeStep ==
  ASSUME TypeOK, Store
  PROVE  TypeOK'
  <1> USE DEF TypeOK, DriverTypeOK
  <1>1. /\ CtrlTypeOK' /\ WbmTypeOK' /\ SgTypeOK'
        /\ started' \in Seq(0..NJobs) /\ finished' \in Seq(0..NJobs)
    BY DEF Store, EngineVars, CtrlTypeOK, WbmTypeOK, SgTypeOK
  <1>2. CASE BuildChain
    <2>0. PICK last \in (submitted + 1)..NJobs :
            \E w \in [(submitted + 1)..last -> Words] :
              /\ mem' = [a \in 0..NJobs |->
                   CASE a \in DOMAIN w /\ a < last ->
                          [next |-> a + 1, dc |-> w[a] \cup {ChainBit}]
                     [] a = last -> [next |-> NextSlot(a), dc |-> w[a]]
                     [] OTHER -> mem[a]]
              /\ results' = results \ DOMAIN w
              /\ seen' = seen \ DOMAIN w
              /\ tail' = last
      BY <1>2 DEF BuildChain
    <2>1. PICK w \in [(submitted + 1)..last -> Words] :
            /\ mem' = [a \in 0..NJobs |->
                 CASE a \in DOMAIN w /\ a < last ->
                        [next |-> a + 1, dc |-> w[a] \cup {ChainBit}]
                   [] a = last -> [next |-> NextSlot(a), dc |-> w[a]]
                   [] OTHER -> mem[a]]
            /\ results' = results \ DOMAIN w
            /\ seen' = seen \ DOMAIN w
            /\ tail' = last
      BY <2>0
    <2>2. last \in 0..NJobs /\ DOMAIN w = (submitted + 1)..last /\ last \in DOMAIN w
      BY SizesAssumption
    <2>3. ASSUME NEW a \in 0..NJobs
          PROVE  mem'[a] \in Descriptor
      <3>1. CASE a \in DOMAIN w /\ a < last
        <4>1. a + 1 \in 0..NJobs
          BY <2>2, <3>1, SizesAssumption
        <4>2. w[a] \cup {ChainBit} \in SUBSET DcBits
          BY <3>1, WordType
        <4>3. mem'[a] = [next |-> a + 1, dc |-> w[a] \cup {ChainBit}]
          BY <2>1, <3>1
        <4>4. QED
          BY <4>1, <4>2, <4>3 DEF Descriptor
      <3>2. CASE a = last
        <4>1. NextSlot(a) \in 0..NJobs /\ w[a] \in SUBSET DcBits
          BY <2>2, <3>2, NextSlotType, WordType
        <4>2. mem'[a] = [next |-> NextSlot(a), dc |-> w[a]]
          BY <2>1, <2>2, <3>2, SizesAssumption
        <4>3. QED
          BY <4>1, <4>2 DEF Descriptor
      <3>3. CASE ~(a \in DOMAIN w /\ a < last) /\ a # last
        BY <2>1, <3>3
      <3>4. QED
        BY <3>1, <3>2, <3>3
    <2>4. mem' \in [0..NJobs -> Descriptor]
      BY <2>1, <2>3
    <2>5. DriverTypeOK'
      BY <1>2, <2>1, <2>2 DEF BuildChain, HostStates
    <2>6. QED
      BY <1>1, <2>4, <2>5
  <1>3. CASE LinkJob
    <2>1. PICK w \in Words :
            mem' = [mem EXCEPT
                      ![tail + 1] = [next |-> NextSlot(tail + 1), dc |-> w],
                      ![tail] = [next |-> tail + 1, dc |-> @.dc \cup {ChainBit}]]
      BY <1>3 DEF LinkJob
    <2>2. tail + 1 \in 0..NJobs /\ tail \in 0..NJobs
      BY <1>3, SizesAssumption DEF LinkJob
    <2>3. [next |-> NextSlot(tail + 1), dc |-> w] \in Descriptor
      BY <2>2, NextSlotType, WordType DEF Descriptor
    <2>4. mem[tail].dc \cup {ChainBit} \in SUBSET DcBits
      BY <2>2, SizesAssumption DEF Descriptor
    <2>5. [next |-> tail + 1, dc |-> mem[tail].dc \cup {ChainBit}] \in Descriptor
      BY <2>2, <2>4 DEF Descriptor
    <2>6. mem' \in [0..NJobs -> Descriptor]
      BY <2>1, <2>2, <2>3, <2>5
    <2>7. DriverTypeOK'
      <3>1. hpc' \in HostStates /\ settle' \in 0..Settle
        BY <1>3 DEF LinkJob, HostStates
      <3>2. submitted' \in Nat /\ tail' \in 0..NJobs
        BY <1>3, <2>2 DEF LinkJob
      <3>3. results' \in SUBSET (0..NJobs) /\ seen' \in SUBSET (0..NJobs)
        BY <1>3 DEF LinkJob
      <3>4. QED
        BY <3>1, <3>2, <3>3
    <2>8. QED
      BY <1>1, <2>6, <2>7
  <1>4. CASE SeeResults
    BY <1>1, <1>4 DEF SeeResults, HostStates
  <1>5. QED
    BY <1>2, <1>3, <1>4 DEF Store, HostStore

LEMMA DriverTypeStep ==
  ASSUME TypeOK, NEW acc \in Accesses, NEW b, NEW intr,
         DriverCycle(acc, b, intr, Len(finished)), results' \in SUBSET (0..NJobs)
  PROVE  DriverTypeOK' /\ mem' \in [0..NJobs -> Descriptor]
  <1> USE SizesAssumption DEF TypeOK, DriverTypeOK, Write, MemoryHold, HostStates
  <1>1. mem' = mem
    BY DEF DriverCycle, EnableInterrupt, Disable, QueueJob, Go, AppendJob, Wait,
         LetPass, Poll, AckInterrupt, Scan, Reset, Quiet, DriverVars
  <1>2. seen' \in SUBSET (0..NJobs)
    BY DEF DriverCycle, EnableInterrupt, Disable, QueueJob, Go, AppendJob, Wait,
         LetPass, Poll, AckInterrupt, Scan, Reset, Quiet, DriverVars
  <1>3. submitted' \in Nat /\ tail' \in 0..NJobs
    <2>1. Len(finished) \in Nat
      OBVIOUS
    <2>2. QED
    BY <2>1 DEF DriverCycle, EnableInterrupt, Disable, QueueJob, Go, AppendJob, Wait,
         LetPass, Poll, AckInterrupt, Scan, Reset, Quiet, DriverVars
  <1>4. hpc' \in HostStates
    BY DEF DriverCycle, EnableInterrupt, Disable, QueueJob, Go, AppendJob, Wait,
         LetPass, Poll, AckInterrupt, Scan, Reset, Quiet, DriverVars
  <1>5. settle' \in 0..Settle
    BY DEF DriverCycle, EnableInterrupt, Disable, QueueJob, Go, AppendJob, Wait,
         LetPass, Poll, AckInterrupt, Scan, Reset, Quiet, DriverVars
  <1>6. QED
    BY <1>1, <1>2, <1>3, <1>4, <1>5

-----------------------------------------------------------------------------
(* The whole *)

LEMMA HistoryTypeStep ==
  ASSUME TypeOK, NEW ack \in BOOLEAN, NEW rst \in BOOLEAN, HistoryStep(ack, rst)
  PROVE  /\ started' \in Seq(0..NJobs) /\ finished' \in Seq(0..NJobs)
         /\ results' \in SUBSET (0..NJobs)
  <1>1. /\ started \in Seq(0..NJobs) /\ finished \in Seq(0..NJobs)
        /\ results \in SUBSET (0..NJobs)
        /\ cdar \in 0..NJobs /\ ctl_adr[0] \in 0..NJobs /\ ctl_adr[1] \in 0..NJobs
    BY DEF TypeOK, DriverTypeOK, CtrlTypeOK, Channel
  <1>0. \A s \in Seq(0..NJobs), x \in 0..NJobs : Append(s, x) \in Seq(0..NJobs)
    OBVIOUS
  <1>2. started' \in Seq(0..NJobs)
    <2>1. started' \in {finished, started, Append(started, cdar)}
      BY DEF HistoryStep
    <2>2. QED
      BY <1>1, <1>0, <2>1
  <1>3. finished' \in Seq(0..NJobs)
    <2>1. finished' \in {finished, Append(finished, ctl_adr[0]),
                         Append(finished, ctl_adr[1])}
      BY DEF HistoryStep
    <2>2. QED
      BY <1>1, <1>0, <2>1
  <1>4. results' \in SUBSET (0..NJobs)
    BY <1>1 DEF HistoryStep
  <1>5. QED
    BY <1>2, <1>3, <1>4

LEMMA TypeInit == Init => TypeOK
  <1> SUFFICES ASSUME Init PROVE TypeOK
    OBVIOUS
  <1> USE DEF Init
  <1>1. 0 \in 0..NJobs
    BY SizesAssumption
  <1>2. CtrlTypeOK
    <2>1. state \in States /\ inc \in 0..3
      BY DEF CtrlInit, States
    <2>2. /\ append_clear \in BOOLEAN /\ append_mode \in BOOLEAN
          /\ ndar_dirty_clear \in BOOLEAN /\ wbs_cyc4 \in BOOLEAN
          /\ wbs_we4 \in BOOLEAN /\ wb_int_reg \in BOOLEAN
      BY DEF CtrlInit
    <2>3. /\ wbs_adr4 \in 0..NJobs /\ dar \in 0..NJobs
          /\ cdar \in 0..NJobs /\ next_desc \in 0..NJobs
      BY <1>1 DEF CtrlInit
    <2>4. ctl_adr \in [Channel -> 0..NJobs] /\ dc \in [Channel -> SUBSET DcBits]
      BY <1>1 DEF CtrlInit
    <2>5. m_enable \in [Channel -> BOOLEAN] /\ m_reset \in [Channel -> BOOLEAN]
      BY DEF CtrlInit
    <2>6. QED
      BY <2>1, <2>2, <2>3, <2>4, <2>5 DEF CtrlTypeOK
  <1>3. WbmTypeOK
    BY <1>1 DEF WbmInit, WbmTypeOK
  <1>4. SgTypeOK
    BY DEF SgInit, SgTypeOK, WalkerStates
  <1>5. DriverTypeOK
    BY <1>1, SizesAssumption DEF DriverInit, DriverTypeOK, HostStates
  <1>6. mem \in [0..NJobs -> Descriptor]
    BY <1>1 DEF DriverInit, Descriptor
  <1>7. started \in Seq(0..NJobs) /\ finished \in Seq(0..NJobs)
    OBVIOUS
  <1>8. QED
    BY <1>2, <1>3, <1>4, <1>5, <1>6, <1>7 DEF TypeOK

LEMMA CycleTypeStep ==
  ASSUME TypeOK, NEW acc \in Accesses, NEW ack \in BOOLEAN, NEW out \in RunOutcome,
         Cycle(acc, ack, out)
  PROVE  TypeOK' /\ sys_rst_reg' \in BOOLEAN
  <1> USE DEF Cycle
  <1>1. WbmTypeOK'
    BY WbmTypeStep
  <1>2. sys_rst_reg' \in BOOLEAN
    BY <1>1 DEF WbmTypeOK
  <1>3. CtrlTypeOK'
    BY <1>2, AccessType, CtrlTypeStep
  <1>4. SgTypeOK'
    BY <1>2, SgTypeStep
  <1>5. /\ started' \in Seq(0..NJobs) /\ finished' \in Seq(0..NJobs)
        /\ results' \in SUBSET (0..NJobs)
    BY <1>2, HistoryTypeStep
  <1>6. DriverTypeOK' /\ mem' \in [0..NJobs -> Descriptor]
    BY <1>5, DriverTypeStep
  <1>7. QED
    BY <1>1, <1>2, <1>3, <1>4, <1>5, <1>6 DEF TypeOK

LEMMA TypeStep == TypeOK /\ [Next]_vars => TypeOK'
  <1> SUFFICES ASSUME TypeOK, [Next]_vars PROVE TypeOK'
    OBVIOUS
  <1>1. CASE Store
    BY <1>1, StoreTypeStep
  <1>2. CASE Tick
    BY <1>2, CycleTypeStep DEF Tick
  <1>3. CASE UNCHANGED vars
    BY <1>3 DEF vars, EngineVars, DriverVars, TypeOK, CtrlTypeOK, WbmTypeOK,
           SgTypeOK, DriverTypeOK
  <1>4. QED
    BY <1>1, <1>2, <1>3 DEF Next

(* Every register of the engine and every word of the host keeps its type:  *)
(* no step of the clock leaves the states and addresses of ctrl.v, wbm.v    *)
(* and ss_sg.v, for every number of jobs and every set of job words.        *)
THEOREM TypeCorrect == Spec => []TypeOK
  BY TypeInit, TypeStep, PTL DEF Spec
=============================================================================
