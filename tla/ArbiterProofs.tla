---------------------------- MODULE ArbiterProofs ---------------------------
(***************************************************************************)
(* For any number of masters: with a memory that needs a clock to answer,  *)
(* the skew between the grant of the request and that of the answer is     *)
(* never seen.                                                             *)
(***************************************************************************)
EXTENDS Arbiter, TLAPS

(* A master is only ever answered under its own grant, and the clock after  *)
(* the grant moved, the one it moved to is still asking, or nobody is       *)
(* after a reset.                                                           *)
GrantInv ==
    /\ TypeOK
    /\ \A m \in Masters : m # gnt \/ ~cyc[m] => acks[m] = 0
    /\ gnt_r # gnt => cyc[gnt] \/ \A m \in Masters : ~cyc[m]
    /\ open /\ cyc[gnt_r] => gnt_r = gnt

LEMMA GrantInit == Init => GrantInv
  <1> SUFFICES ASSUME Init PROVE GrantInv
    OBVIOUS
  <1>1. 0 \in Masters /\ 0 \in 0..MaxBurst
    BY ArbiterAssumption DEF Masters
  <1>2. cyc \in [Masters -> BOOLEAN] /\ open \in BOOLEAN
    BY Zenon DEF Init
  <1>3. acks \in [Masters -> 0..MaxBurst]
    BY <1>1 DEF Init
  <1>4. QED
    BY <1>1, <1>2, <1>3 DEF Init, GrantInv, TypeOK

LEMMA GrantMoves ==
  ASSUME NEW g \in NextGrant, gnt \in Masters
  PROVE  g \in Masters /\ (g # gnt => cyc[g] /\ ~cyc[gnt])
  BY DEF NextGrant

LEMMA GrantClock ==
  ASSUME GrantInv, NEW ack \in BOOLEAN, NEW want \in SUBSET Masters, Clock(ack, want)
  PROVE  GrantInv'
  <1> DEFINE acked(m) == ack /\ gnt = m /\ cyc[m]
             stays(m) == cyc[m] /\ ~acked(m) /\ acks[m] = 0
  <1>1. /\ gnt \in Masters /\ gnt_r \in Masters /\ cyc \in [Masters -> BOOLEAN]
        /\ acks \in [Masters -> 0..MaxBurst] /\ open \in BOOLEAN
        /\ \A m \in Masters : m # gnt \/ ~cyc[m] => acks[m] = 0
        /\ gnt_r # gnt => cyc[gnt] \/ \A m \in Masters : ~cyc[m]
    BY DEF GrantInv, TypeOK
  <1>2. /\ \A m \in Masters : stays(m) => m \in want
        /\ \A m \in Masters : m \in want /\ acked(m) => acks[m] < MaxBurst - 1
        /\ gnt' \in NextGrant /\ gnt_r' = gnt
        /\ cyc' = [m \in Masters |-> m \in want]
        /\ acks' = [m \in Masters |-> IF m \notin want THEN 0
                                      ELSE IF acked(m) THEN acks[m] + 1 ELSE acks[m]]
        /\ open' = cyc[gnt_r]
    BY DEF Clock, wbm_cyc_o
  <1>3. gnt' \in Masters /\ (gnt' # gnt => cyc[gnt'] /\ ~cyc[gnt])
    BY <1>1, <1>2, GrantMoves
  <1>4. \A m \in Masters : cyc'[m] = (m \in want)
    BY <1>2, Zenon
  <1>5. cyc' \in [Masters -> BOOLEAN]
    <2>1. \A m : (m \in want) \in BOOLEAN
      OBVIOUS
    <2>2. QED
      BY <1>2, <2>1, Zenon
  <1> HIDE DEF acked, stays
  <1>6. acks' \in [Masters -> 0..MaxBurst]
    BY <1>1, <1>2, ArbiterAssumption
  <1>7. TypeOK'
    BY <1>1, <1>2, <1>3, <1>5, <1>6 DEF TypeOK
  <1>8. \A m \in Masters : m # gnt' \/ ~cyc'[m] => acks'[m] = 0
    <2>1. SUFFICES ASSUME NEW m \in Masters, m # gnt' \/ ~cyc'[m] PROVE acks'[m] = 0
      OBVIOUS
    <2>2. CASE m \notin want
      BY <2>2, <1>2
    <2>3. CASE m \in want
      <3>1. m # gnt'
        BY <2>1, <2>3, <1>4
      <3>2. ~acked(m) /\ acks[m] = 0
        BY <3>1, <1>1, <1>3 DEF acked
      <3>3. QED
        BY <3>2, <2>3, <1>2
    <2>4. QED
      BY <2>2, <2>3
  <1>9. gnt_r' # gnt' => cyc'[gnt'] \/ \A m \in Masters : ~cyc'[m]
    <2>1. SUFFICES ASSUME gnt' # gnt PROVE cyc'[gnt']
      BY <1>2
    <2>2. stays(gnt')
      BY <2>1, <1>1, <1>3 DEF stays, acked
    <2>3. QED
      BY <2>2, <1>2, <1>3, <1>4
  <1>10. open' /\ cyc'[gnt_r'] => gnt_r' = gnt'
    <2>1. SUFFICES ASSUME cyc[gnt_r], gnt' # gnt PROVE FALSE
      BY <1>2
    <2>2. gnt_r # gnt
      BY <2>1, <1>3
    <2>3. QED
      BY <2>1, <2>2, <1>1, <1>3
  <1>11. QED
    BY <1>7, <1>8, <1>9, <1>10 DEF GrantInv

LEMMA GrantReset ==
  ASSUME GrantInv, Reset
  PROVE  GrantInv'
  <1>1. /\ gnt \in Masters /\ gnt_r \in Masters /\ cyc \in [Masters -> BOOLEAN]
        /\ gnt' \in Masters /\ gnt_r' = gnt
    BY GrantMoves DEF GrantInv, TypeOK, Reset
  <1>2. /\ cyc' = [m \in Masters |-> FALSE] /\ acks' = [m \in Masters |-> 0]
        /\ open' = cyc[gnt_r]
    BY DEF Reset, wbm_cyc_o
  <1>3. cyc' \in [Masters -> BOOLEAN] /\ open' \in BOOLEAN
    BY <1>1, <1>2, Zenon
  <1>4. 0 \in 0..MaxBurst
    BY ArbiterAssumption
  <1>5. acks' \in [Masters -> 0..MaxBurst]
    BY <1>2, <1>4
  <1>6. TypeOK'
    BY <1>1, <1>3, <1>5 DEF TypeOK
  <1>7. QED
    BY <1>1, <1>2, <1>6 DEF GrantInv

LEMMA GrantStep == GrantInv /\ [Next]_vars => GrantInv'
  <1>1. ASSUME GrantInv, AckClock PROVE GrantInv'
    BY <1>1, GrantClock DEF AckClock
  <1>2. ASSUME GrantInv, WaitClock PROVE GrantInv'
    BY <1>2, GrantClock DEF WaitClock
  <1>3. ASSUME GrantInv, UNCHANGED vars PROVE GrantInv'
    BY <1>3 DEF vars, GrantInv, TypeOK, Masters
  <1>4. QED
    BY <1>1, <1>2, <1>3, GrantReset DEF Next

(* The registers of the arbiter keep their types, for any number of masters. *)
THEOREM ArbiterTypes == Spec => []TypeOK
  <1>1. GrantInv => TypeOK
    BY DEF GrantInv
  <1>2. QED
    BY <1>1, GrantInit, GrantStep, PTL DEF Spec

(* No master ever takes an answer to the request of another one (mixer.v:   *)
(* mo.v sends requests out under gnt_r, mi.v lets answers in under gnt).    *)
THEOREM AnswersMatch ==
  ASSUME Prompt = FALSE
  PROVE  Spec => []AckIsMine
  <1>1. GrantInv => AckIsMine
    BY DEF GrantInv, AckIsMine, wbm_cyc_o
  <1>2. QED
    BY <1>1, GrantInit, GrantStep, PTL DEF Spec
=============================================================================
