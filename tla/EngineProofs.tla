----------------------------- MODULE EngineProofs ---------------------------
(***************************************************************************)
(* Safety of Engine, for any number of jobs, any job words and any mix of  *)
(* the host's operations: where the walkers and the processing modules of  *)
(* a channel are in every state of the controller.                         *)
(***************************************************************************)
EXTENDS EngineTypes

-----------------------------------------------------------------------------
(* The inductive invariant.  Loaded0 and Loaded1 are the states in which    *)
(* the walkers of channel 0 and of channel 1 are at work on a job.          *)

Loaded0 == (state = "NEXT0" /\ ~append_mode) \/ state \in {"CMD1", "WAIT0", "CTL0"}
Loaded1 == \/ state \in {"WAIT0", "CTL0", "TR0", "CYC0"} /\ Chain \in dc[0]
           \/ state \in {"WAIT1", "CTL1"}

Where0 ==
    IF state = "CMD0" /\ ~append_mode THEN IF inc = 0 THEN {"IDLE"} ELSE {"CMD"}
    ELSE IF Loaded0 THEN Working
    ELSE IF state = "TR0" THEN Working \cup {"IDLE"}
    ELSE {"IDLE"}
Where1 ==
    IF state = "CMD1" THEN IF inc = 0 THEN {"IDLE"} ELSE {"CMD"}
    ELSE IF Loaded1 THEN Working
    ELSE IF state = "TR1" THEN Working \cup {"IDLE"}
    ELSE {"IDLE"}

WalkersOf0 == \A i \in 0..1 : walker[i] \in Where0
WalkersOf1 == \A i \in 2..3 : walker[i] \in Where1

AppendModeInv == append_mode => state \in {"CMD0", "NEXT0"}

ModulesInv ==
    /\ m_enable[0] <=> state \in {"CMD1", "WAIT0", "CTL0", "TR0", "CYC0"}
    /\ m_enable[1] => Loaded1 \/ state \in {"TR1", "CYC1"}
    /\ Loaded1 /\ state # "WAIT0" => m_enable[1]

(* Channel 1 is only loaded behind a job that chains to another. *)
ChainInv == state = "CMD1" => Chain \in dc[0]

IInv == TypeOK /\ AppendModeInv /\ ChainInv /\ WalkersOf0 /\ WalkersOf1
          /\ ModulesInv /\ DoneIsFresh

-----------------------------------------------------------------------------
LEMMA InitIInv == Init => IInv
  <1> SUFFICES ASSUME Init PROVE IInv
    OBVIOUS
  <1>1. /\ state = "IDLE" /\ ~append_mode
        /\ \A i \in 0..3 : walker[i] = "IDLE" /\ c_done[i] = FALSE
        /\ \A c \in 0..1 : m_enable[c] = FALSE
    BY DEF Init, CtrlInit, SgInit, Walker, Channel
  <1>2. AppendModeInv /\ ChainInv /\ WalkersOf0 /\ WalkersOf1
    BY <1>1 DEF ChainInv, AppendModeInv, WalkersOf0, WalkersOf1, Where0, Where1, Loaded0, Loaded1
  <1>3. ModulesInv
    BY <1>1 DEF ModulesInv, Loaded1
  <1>4. DoneIsFresh
    BY <1>1 DEF DoneIsFresh, WaitOf, Channel
  <1>5. QED
    BY <1>2, <1>3, <1>4, TypeInit DEF IInv

(* What a clock cycle without reset does to a walker of channel 0 ...       *)
LEMMA Walker0Next ==
  ASSUME TypeOK, NEW i \in 0..1, NEW ack \in BOOLEAN, NEW out \in RunOutcome,
         SgStep(ack, FALSE, out)
  PROVE  /\ state = "TR0" => walker'[i] = "IDLE"
         /\ state # "TR0" =>
              /\ walker[i] = "IDLE" =>
                   walker'[i] = IF ack /\ state = "CMD0" /\ ~append_mode
                                  THEN "CMD" ELSE "IDLE"
              /\ walker[i] = "CMD" /\ (ack /\ state = "CMD0" /\ ~append_mode /\ inc = 3)
                   => walker'[i] \in Working
              /\ walker[i] = "CMD" /\ ~(ack /\ state = "CMD0" /\ ~append_mode /\ inc = 3)
                   => walker'[i] = "CMD"
              /\ walker[i] \in Working => walker'[i] \in Working
              /\ walker[i] = "END" => walker'[i] = "END"
         /\ c_done'[i] = (walker[i] = "END")
  <1>1. i \in Walker /\ ChannelOf(i) = 0
    BY DEF Walker, ChannelOf
  <1>2. ss_done(i) <=> state = "TR0"
    BY <1>1 DEF ss_done
  <1>3. ss_we(i, ack) <=> ack /\ state = "CMD0" /\ ~append_mode
    BY <1>1 DEF ss_we
  <1>4. QED
    BY <1>1, <1>2, <1>3, WalkerNext

(* ... and of channel 1. *)
LEMMA Walker1Next ==
  ASSUME TypeOK, NEW i \in 2..3, NEW ack \in BOOLEAN, NEW out \in RunOutcome,
         SgStep(ack, FALSE, out)
  PROVE  /\ state = "TR1" => walker'[i] = "IDLE"
         /\ state # "TR1" =>
              /\ walker[i] = "IDLE" =>
                   walker'[i] = IF ack /\ state = "CMD1" THEN "CMD" ELSE "IDLE"
              /\ walker[i] = "CMD" /\ (ack /\ state = "CMD1" /\ inc = 3)
                   => walker'[i] \in Working
              /\ walker[i] = "CMD" /\ ~(ack /\ state = "CMD1" /\ inc = 3)
                   => walker'[i] = "CMD"
              /\ walker[i] \in Working => walker'[i] \in Working
              /\ walker[i] = "END" => walker'[i] = "END"
         /\ c_done'[i] = (walker[i] = "END")
  <1>1. i \in Walker /\ ChannelOf(i) = 1
    BY DEF Walker, ChannelOf
  <1>2. ss_done(i) <=> state = "TR1"
    BY <1>1 DEF ss_done
  <1>3. ss_we(i, ack) <=> ack /\ state = "CMD1"
    BY <1>1 DEF ss_we
  <1>4. QED
    BY <1>1, <1>2, <1>3, WalkerNext

-----------------------------------------------------------------------------
(* A reset leaves an idle controller and idle walkers.                      *)
LEMMA ResetIInv ==
  ASSUME TypeOK, TypeOK', NEW ack \in BOOLEAN, NEW out \in RunOutcome,
         CtrlReset, SgStep(ack, TRUE, out)
  PROVE  IInv'
  <1>1. state' = "IDLE" /\ append_mode' = FALSE
    BY DEF CtrlReset
  <1>2. \A i \in 0..3 : walker'[i] = "IDLE"
    BY WalkerNext DEF Walker
  <1>3. \A c \in 0..1 : m_enable'[c] = FALSE
    BY DEF CtrlReset, Channel
  <1>4. AppendModeInv' /\ ChainInv' /\ WalkersOf0' /\ WalkersOf1'
    BY <1>1, <1>2 DEF ChainInv, AppendModeInv, WalkersOf0, WalkersOf1, Where0, Where1, Loaded0, Loaded1
  <1>5. ModulesInv'
    BY <1>1, <1>3 DEF ModulesInv, Loaded1
  <1>6. DoneIsFresh'
    BY <1>1 DEF DoneIsFresh, WaitOf, Channel
  <1>7. QED
    BY <1>4, <1>5, <1>6 DEF IInv

LEMMA AppendModeStep ==
  ASSUME AppendModeInv, TypeOK, NEW cyc_i, NEW ack, CtrlMachine(cyc_i, ack)
  PROVE  AppendModeInv'
  BY DEF AppendModeInv, TypeOK, CtrlTypeOK, NoAppendClear, CtrlMachine, IdleWait,
         IdleQueue, IdleAppend, Cmd0, Next0, Cmd1, Wait0, Wait1, Ctl, Tr, Cyc0,
         Cyc1, Next1
LEMMA Walkers0Step ==
  ASSUME IInv, NEW cyc_i \in BOOLEAN, NEW ack \in BOOLEAN, NEW out \in RunOutcome,
         CtrlMachine(cyc_i, ack), SgStep(ack, FALSE, out)
  PROVE  WalkersOf0'
  <1> SUFFICES ASSUME NEW i \in 0..1 PROVE walker'[i] \in Where0'
    BY DEF WalkersOf0
  <1> USE DEF Where0, Loaded0, Working
  <1>1. walker[i] \in Where0 /\ TypeOK /\ AppendModeInv
    BY DEF IInv, WalkersOf0
  <1>2. /\ state \in States /\ inc \in 0..3 /\ append_mode \in BOOLEAN
        /\ dc \in [Channel -> SUBSET DcBits]
    BY <1>1 DEF TypeOK, CtrlTypeOK
  <1>3. CASE IdleWait
    BY <1>1, <1>2, <1>3, Walker0Next DEF IdleWait, BusHold, LatchHold, NoAppendClear, AppendModeInv
  <1>4. CASE IdleQueue
    BY <1>1, <1>2, <1>4, Walker0Next DEF IdleQueue, Burst, LatchHold, NoAppendClear, AppendModeInv
  <1>5. CASE IdleAppend
    BY <1>1, <1>2, <1>5, Walker0Next DEF IdleAppend, Burst, LatchHold, AppendModeInv
  <1>6. CASE Cmd0(ack)
    <2>1. /\ state = "CMD0" /\ append_mode' = append_mode
          /\ inc' = IF ack THEN (inc + 1) % 4 ELSE inc
          /\ state' = IF ack /\ inc = 3 THEN "NEXT0" ELSE "CMD0"
      BY <1>6 DEF Cmd0, Beat, LastBeat, NoAppendClear
    <2>2. ack /\ inc # 3 => inc' # 0
      BY <1>2, <2>1
    <2>3. CASE append_mode
      BY <1>1, <1>2, <2>1, <2>3, Walker0Next
    <2>4. CASE ~append_mode /\ ack /\ inc = 3
      <3>1. walker[i] = "CMD"
        BY <1>1, <2>1, <2>4
      <3>2. walker'[i] \in Working
        BY <1>1, <2>1, <2>4, <3>1, Walker0Next
      <3>3. state' = "NEXT0" /\ ~append_mode'
        BY <2>1, <2>4
      <3>4. QED
        BY <3>2, <3>3
    <2>5. CASE ~append_mode /\ ack /\ inc # 3
      BY <1>1, <1>2, <2>1, <2>2, <2>5, Walker0Next
    <2>6. CASE ~append_mode /\ ~ack
      BY <1>1, <1>2, <2>1, <2>6, Walker0Next
    <2>7. QED
      BY <1>2, <2>3, <2>4, <2>5, <2>6
  <1>7. CASE Next0
    BY <1>1, <1>2, <1>7, Walker0Next DEF Next0, Burst, LatchHold, AppendModeInv
  <1>8. CASE Cmd1(ack)
    BY <1>1, <1>2, <1>8, Walker0Next DEF Cmd1, Beat, LastBeat, Latch, NoAppendClear, AppendModeInv
  <1>9. CASE Wait0
    BY <1>1, <1>2, <1>9, Walker0Next DEF Wait0, Retire, Burst, BusHold, LatchHold, NoAppendClear, AppendModeInv
  <1>10. CASE Ctl("CTL0", "TR0", ack)
    BY <1>1, <1>2, <1>10, Walker0Next DEF Ctl, Beat, LastBeat, LatchHold, NoAppendClear, AppendModeInv
  <1>11. CASE Tr("TR0", "CYC0", cyc_i)
    BY <1>1, <1>2, <1>11, Walker0Next DEF Tr, LatchHold, NoAppendClear, AppendModeInv
  <1>12. CASE Cyc0
    BY <1>1, <1>2, <1>12, Walker0Next DEF Cyc0, LatchHold, NoAppendClear, AppendModeInv
  <1>13. CASE Wait1
    BY <1>1, <1>2, <1>13, Walker0Next DEF Wait1, Retire, Burst, BusHold, LatchHold, NoAppendClear, AppendModeInv
  <1>14. CASE Ctl("CTL1", "TR1", ack)
    BY <1>1, <1>2, <1>14, Walker0Next DEF Ctl, Beat, LastBeat, LatchHold, NoAppendClear, AppendModeInv
  <1>15. CASE Tr("TR1", "CYC1", cyc_i)
    BY <1>1, <1>2, <1>15, Walker0Next DEF Tr, LatchHold, NoAppendClear, AppendModeInv
  <1>16. CASE Cyc1
    BY <1>1, <1>2, <1>16, Walker0Next DEF Cyc1, LatchHold, NoAppendClear, AppendModeInv
  <1>17. CASE Next1
    BY <1>1, <1>2, <1>17, Walker0Next DEF Next1, Burst, LatchHold, NoAppendClear, AppendModeInv
  <1>18. QED
    BY <1>3, <1>4, <1>5, <1>6, <1>7, <1>8, <1>9, <1>10, <1>11, <1>12, <1>13, <1>14, <1>15, <1>16, <1>17 DEF CtrlMachine

LEMMA Walkers1Step ==
  ASSUME IInv, NEW cyc_i \in BOOLEAN, NEW ack \in BOOLEAN, NEW out \in RunOutcome,
         CtrlMachine(cyc_i, ack), SgStep(ack, FALSE, out)
  PROVE  WalkersOf1'
  <1> SUFFICES ASSUME NEW i \in 2..3 PROVE walker'[i] \in Where1'
    BY DEF WalkersOf1
  <1> USE DEF Where1, Loaded1, Working
  <1>1. walker[i] \in Where1 /\ TypeOK /\ AppendModeInv /\ ChainInv
    BY DEF IInv, WalkersOf1
  <1>2. /\ state \in States /\ inc \in 0..3 /\ append_mode \in BOOLEAN
        /\ dc \in [Channel -> SUBSET DcBits]
    BY <1>1 DEF TypeOK, CtrlTypeOK
  <1>3. CASE IdleWait
    BY <1>1, <1>2, <1>3, Walker1Next DEF IdleWait, BusHold, LatchHold, NoAppendClear, AppendModeInv
  <1>4. CASE IdleQueue
    BY <1>1, <1>2, <1>4, Walker1Next DEF IdleQueue, Burst, LatchHold, NoAppendClear, AppendModeInv
  <1>5. CASE IdleAppend
    BY <1>1, <1>2, <1>5, Walker1Next DEF IdleAppend, Burst, LatchHold, AppendModeInv
  <1>6. CASE Cmd0(ack)
    BY <1>1, <1>2, <1>6, Walker1Next DEF Cmd0, Beat, LastBeat, NoAppendClear, AppendModeInv
  <1>7. CASE Next0
    BY <1>1, <1>2, <1>7, Walker1Next DEF Next0, Burst, LatchHold, AppendModeInv
  <1>8. CASE Cmd1(ack)
    <2>1. /\ state = "CMD1"
          /\ inc' = IF ack THEN (inc + 1) % 4 ELSE inc
          /\ state' = IF ack /\ inc = 3 THEN "WAIT0" ELSE "CMD1"
          /\ dc'[0] = dc[0]
      BY <1>2, <1>8 DEF Cmd1, Beat, LastBeat, Latch, Channel
    <2>2. ack /\ inc # 3 => inc' # 0
      BY <1>2, <2>1
    <2>3. CASE ack /\ inc = 3
      <3>1. walker[i] = "CMD"
        BY <1>1, <2>1, <2>3
      <3>2. walker'[i] \in Working
        BY <1>1, <2>1, <2>3, <3>1, Walker1Next
      <3>3. state' = "WAIT0" /\ Chain \in dc'[0]
        BY <1>1, <2>1, <2>3 DEF ChainInv
      <3>4. QED
        BY <3>2, <3>3
    <2>4. CASE ack /\ inc # 3
      BY <1>1, <1>2, <2>1, <2>2, <2>4, Walker1Next
    <2>5. CASE ~ack
      BY <1>1, <1>2, <2>1, <2>5, Walker1Next
    <2>6. QED
      BY <2>3, <2>4, <2>5
  <1>9. CASE Wait0
    BY <1>1, <1>2, <1>9, Walker1Next DEF Wait0, Retire, Burst, BusHold, LatchHold, NoAppendClear, AppendModeInv
  <1>10. CASE Ctl("CTL0", "TR0", ack)
    BY <1>1, <1>2, <1>10, Walker1Next DEF Ctl, Beat, LastBeat, LatchHold, NoAppendClear, AppendModeInv
  <1>11. CASE Tr("TR0", "CYC0", cyc_i)
    BY <1>1, <1>2, <1>11, Walker1Next DEF Tr, LatchHold, NoAppendClear, AppendModeInv
  <1>12. CASE Cyc0
    BY <1>1, <1>2, <1>12, Walker1Next DEF Cyc0, LatchHold, NoAppendClear, AppendModeInv
  <1>13. CASE Wait1
    BY <1>1, <1>2, <1>13, Walker1Next DEF Wait1, Retire, Burst, BusHold, LatchHold, NoAppendClear, AppendModeInv
  <1>14. CASE Ctl("CTL1", "TR1", ack)
    BY <1>1, <1>2, <1>14, Walker1Next DEF Ctl, Beat, LastBeat, LatchHold, NoAppendClear, AppendModeInv
  <1>15. CASE Tr("TR1", "CYC1", cyc_i)
    BY <1>1, <1>2, <1>15, Walker1Next DEF Tr, LatchHold, NoAppendClear, AppendModeInv
  <1>16. CASE Cyc1
    BY <1>1, <1>2, <1>16, Walker1Next DEF Cyc1, LatchHold, NoAppendClear, AppendModeInv
  <1>17. CASE Next1
    BY <1>1, <1>2, <1>17, Walker1Next DEF Next1, Burst, LatchHold, NoAppendClear, AppendModeInv
  <1>18. QED
    BY <1>3, <1>4, <1>5, <1>6, <1>7, <1>8, <1>9, <1>10, <1>11, <1>12, <1>13, <1>14, <1>15, <1>16, <1>17 DEF CtrlMachine
LEMMA ChainStep ==
  ASSUME TypeOK, ChainInv, NEW cyc_i, NEW ack, CtrlMachine(cyc_i, ack)
  PROVE  ChainInv'
  <1>1. \/ Cmd1(ack) \/ Next0 \/ state' # "CMD1"
    BY DEF CtrlMachine, IdleWait, IdleQueue, IdleAppend, Cmd0, Wait0, Wait1, Retire,
           Ctl, Tr, Cyc0, Cyc1, Next1
  <1>2. CASE Cmd1(ack)
    <2>1. dc'[0] = dc[0]
      BY <1>2 DEF Cmd1, Latch, TypeOK, CtrlTypeOK, Channel
    <2>2. QED
      BY <1>2, <2>1 DEF Cmd1, ChainInv
  <1>3. CASE Next0
    BY <1>3 DEF Next0, LatchHold, ChainInv
  <1>4. QED
    BY <1>1, <1>2, <1>3 DEF ChainInv

LEMMA ModulesStep ==
  ASSUME IInv, NEW cyc_i \in BOOLEAN, NEW ack \in BOOLEAN, CtrlMachine(cyc_i, ack)
  PROVE  ModulesInv'
  <1> USE DEF ModulesInv, Loaded1
  <1>1. ModulesInv /\ ChainInv /\ AppendModeInv
    BY DEF IInv
  <1>2. /\ state \in States /\ append_mode \in BOOLEAN
        /\ m_enable \in [0..1 -> BOOLEAN] /\ dc \in [0..1 -> SUBSET DcBits]
    BY DEF IInv, TypeOK, CtrlTypeOK, Channel
  <1>3. CASE IdleWait
    BY <1>1, <1>2, <1>3 DEF IdleWait, LatchHold
  <1>4. CASE IdleQueue
    BY <1>1, <1>2, <1>4 DEF IdleQueue, LatchHold
  <1>5. CASE IdleAppend
    BY <1>1, <1>2, <1>5 DEF IdleAppend, LatchHold
  <1>6. CASE Cmd0(ack)
    BY <1>1, <1>2, <1>6 DEF Cmd0
  <1>7. CASE Next0
    <2>1. CASE append_mode
      BY <1>1, <1>2, <1>7, <2>1 DEF Next0, LatchHold
    <2>2. CASE ~append_mode
      <3>1. m_enable' = [m_enable EXCEPT ![0] = TRUE] /\ dc' = dc
        BY <1>7, <2>2 DEF Next0, LatchHold
      <3>2. m_enable'[0] = TRUE /\ m_enable'[1] = m_enable[1]
        BY <1>2, <3>1
      <3>3. state' \in {"CMD1", "WAIT0"} /\ state = "NEXT0"
        BY <1>7, <2>2 DEF Next0
      <3>4. QED
        BY <1>1, <3>1, <3>2, <3>3
    <2>3. QED
      BY <2>1, <2>2
  <1>8. CASE Cmd1(ack)
    <2>1. dc'[0] = dc[0]
      BY <1>2, <1>8 DEF Cmd1, Latch
    <2>2. QED
      BY <1>1, <1>2, <1>8, <2>1 DEF Cmd1, ChainInv
  <1>9. CASE Wait0
    <2>1. /\ state = "WAIT0" /\ dc' = dc /\ state' \in {"WAIT0", "CTL0", "TR0"}
      BY <1>9 DEF Wait0, Retire, LatchHold
    <2>2. m_enable'[0] = m_enable[0] /\ m_enable'[1] = (Chain \in dc[0])
      <3>1. m_enable' = [m_enable EXCEPT ![1] = (Chain \in dc[0])]
        BY <1>9 DEF Wait0
      <3>2. \A b : [m_enable EXCEPT ![1] = b][0] = m_enable[0]
                   /\ [m_enable EXCEPT ![1] = b][1] = b
        BY <1>2
      <3>3. QED
        BY <3>1, <3>2, Zenon
    <2>3. m_enable[0]
      BY <1>1, <2>1
    <2>4. QED
      BY <2>1, <2>2, <2>3
  <1>10. CASE Ctl("CTL0", "TR0", ack)
    BY <1>1, <1>2, <1>10 DEF Ctl, LatchHold
  <1>11. CASE Tr("TR0", "CYC0", cyc_i)
    BY <1>1, <1>2, <1>11 DEF Tr, LatchHold
  <1>12. CASE Cyc0
    BY <1>1, <1>2, <1>12 DEF Cyc0, LatchHold
  <1>13. CASE Wait1
    BY <1>1, <1>2, <1>13 DEF Wait1, Retire, LatchHold
  <1>14. CASE Ctl("CTL1", "TR1", ack)
    BY <1>1, <1>2, <1>14 DEF Ctl, LatchHold
  <1>15. CASE Tr("TR1", "CYC1", cyc_i)
    BY <1>1, <1>2, <1>15 DEF Tr, LatchHold
  <1>16. CASE Cyc1
    BY <1>1, <1>2, <1>16 DEF Cyc1, LatchHold
  <1>17. CASE Next1
    BY <1>1, <1>2, <1>17 DEF Next1, LatchHold
  <1>18. QED
    BY <1>3, <1>4, <1>5, <1>6, <1>7, <1>8, <1>9, <1>10, <1>11, <1>12, <1>13, <1>14, <1>15, <1>16, <1>17 DEF CtrlMachine

(* A done flag repeats its walker with one cycle of delay.  The delay would *)
(* show in a wait state only just after the walker's reset, and the reset   *)
(* is only left for CYC.                                                    *)
LEMMA FreshStep ==
  ASSUME IInv, NEW cyc_i \in BOOLEAN, NEW ack \in BOOLEAN, NEW out \in RunOutcome,
         CtrlMachine(cyc_i, ack), SgStep(ack, FALSE, out)
  PROVE  DoneIsFresh'
  <1>1. TypeOK
    BY DEF IInv
  <1>2. /\ state = "TR0" => state' # "WAIT0"
        /\ state = "TR1" => state' # "WAIT1"
    BY DEF CtrlMachine, IdleWait, IdleQueue, IdleAppend, Cmd0, Next0, Cmd1, Wait0,
           Wait1, Retire, Ctl, Tr, Cyc0, Cyc1, Next1
  <1>3. state' = "WAIT0" /\ c_done'[1] => walker'[1] = "END"
    <2>1. 1 \in 0..1
      OBVIOUS
    <2>2. QED
      BY <1>1, <1>2, <2>1, Walker0Next
  <1>4. state' = "WAIT1" /\ c_done'[3] => walker'[3] = "END"
    <2>1. 3 \in 2..3
      OBVIOUS
    <2>2. QED
      BY <1>1, <1>2, <2>1, Walker1Next
  <1>5. QED
    BY <1>3, <1>4 DEF DoneIsFresh, WaitOf, Channel

LEMMA StoreIInv == IInv /\ Store => IInv'
  <1> SUFFICES ASSUME IInv, Store PROVE IInv'
    OBVIOUS
  <1>1. TypeOK'
    BY StoreTypeStep DEF IInv
  <1>2. QED
    BY <1>1 DEF IInv, Store, EngineVars, AppendModeInv, ChainInv, WalkersOf0,
       WalkersOf1, Where0, Where1, Loaded0, Loaded1, ModulesInv, DoneIsFresh

LEMMA CycleIInv ==
  ASSUME IInv, NEW acc \in Accesses, NEW ack \in BOOLEAN, NEW out \in RunOutcome,
         Cycle(acc, ack, out)
  PROVE  IInv'
  <1>1. TypeOK' /\ sys_rst_reg' \in BOOLEAN
    BY CycleTypeStep DEF IInv
  <1>2. acc.cyc \in BOOLEAN
    BY AccessType
  <1>3. CASE sys_rst_reg'
    <2>1. CtrlReset /\ SgStep(ack, TRUE, out)
      BY <1>1, <1>3 DEF Cycle, CtrlStep
    <2>2. QED
      BY <1>1, <2>1, ResetIInv DEF IInv
  <1>4. CASE ~sys_rst_reg'
    <2>1. CtrlMachine(acc.cyc, ack) /\ SgStep(ack, FALSE, out)
      BY <1>1, <1>4 DEF Cycle, CtrlStep
    <2>2. WalkersOf0' /\ WalkersOf1' /\ DoneIsFresh'
      BY <1>2, <2>1, Walkers0Step, Walkers1Step, FreshStep
    <2>3. AppendModeInv' /\ ChainInv' /\ ModulesInv'
      BY <1>2, <2>1, AppendModeStep, ChainStep, ModulesStep DEF IInv
    <2>4. QED
      BY <1>1, <2>2, <2>3 DEF IInv
  <1>5. QED
    BY <1>3, <1>4

LEMMA NextIInv == IInv /\ [Next]_vars => IInv'
  <1> SUFFICES ASSUME IInv, [Next]_vars PROVE IInv'
    OBVIOUS
  <1>1. CASE Store
    BY <1>1, StoreIInv
  <1>2. CASE Tick
    BY <1>2, CycleIInv DEF Tick
  <1>3. CASE UNCHANGED vars
    <2>1. TypeOK'
      BY TypeStep DEF IInv
    <2>2. QED
      BY <1>3, <2>1 DEF IInv, vars, EngineVars, AppendModeInv, ChainInv, WalkersOf0,
         WalkersOf1, Where0, Where1, Loaded0, Loaded1, ModulesInv, DoneIsFresh
  <1>4. QED
    BY <1>1, <1>2, <1>3 DEF Next

(* The inductive invariant holds throughout. *)
THEOREM Invariant == Spec => []IInv
  BY InitIInv, NextIInv, PTL DEF Spec

-----------------------------------------------------------------------------
(* The done flag the controller retires a job on is never one left over     *)
(* from the job before: WAIT0 and WAIT1 of ctrl.v against the delayed       *)
(* c_done of ss_sg.v.                                                       *)
THEOREM FreshDone == Spec => []DoneIsFresh
  <1>1. IInv => DoneIsFresh
    BY DEF IInv
  <1>2. QED
    BY <1>1, Invariant, PTL

(* The beats of a descriptor only ever reach walkers that are waiting for   *)
(* them, from the first beat on: CMD0 and CMD1 of ctrl.v against the loads  *)
(* of ss_sg.v.                                                              *)
THEOREM LoadIdle == Spec => []LoadsIdleWalker
  <1>1. IInv => LoadsIdleWalker
    <2> SUFFICES ASSUME IInv, NEW i \in Walker, ss_we(i, TRUE)
                 PROVE  walker[i] = IF inc = 0 THEN "IDLE" ELSE "CMD"
      BY DEF LoadsIdleWalker
    <2>1. CASE i \in 0..1
      <3>1. ChannelOf(i) = 0
        BY <2>1 DEF ChannelOf
      <3>2. state = "CMD0" /\ ~append_mode
        BY <3>1 DEF ss_we
      <3>3. QED
        BY <2>1, <3>2 DEF IInv, WalkersOf0, Where0
    <2>2. CASE i \in 2..3
      <3>1. ChannelOf(i) = 1
        BY <2>2 DEF ChannelOf
      <3>2. state = "CMD1"
        BY <3>1 DEF ss_we
      <3>3. QED
        BY <2>2, <3>2 DEF IInv, WalkersOf1, Where1
    <2>3. QED
      BY <2>1, <2>2 DEF Walker
  <1>2. QED
    BY <1>1, Invariant, PTL

(* A processing module is on while its channel is waited for, and never     *)
(* without a job loaded there: m_enable0 and m_enable1 of ctrl.v.           *)
THEOREM ModulesOn == Spec => []ModuleEnable
  <1>1. IInv => ModuleEnable
    <2> SUFFICES ASSUME IInv PROVE ModuleEnable
      OBVIOUS
    <2>1. ModulesInv /\ WalkersOf0 /\ WalkersOf1
      BY DEF IInv
    <2>2. /\ state = "WAIT0" => m_enable[0]
          /\ m_enable[0] => \/ state \in {"TR0", "CYC0"}
                            \/ walker[0] # "IDLE" /\ walker[1] # "IDLE"
      BY <2>1 DEF ModulesInv, WalkersOf0, Where0, Loaded0, Working
    <2>3. /\ state = "WAIT1" => m_enable[1]
          /\ m_enable[1] => \/ state \in {"TR1", "CYC1"}
                            \/ walker[2] # "IDLE" /\ walker[3] # "IDLE"
      BY <2>1 DEF ModulesInv, WalkersOf1, Where1, Loaded1, Working
    <2>4. QED
      BY <2>2, <2>3 DEF ModuleEnable, Channel, WaitOf, TrOf, CycOf
  <1>2. QED
    BY <1>1, Invariant, PTL
=============================================================================
