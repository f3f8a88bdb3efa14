------------------------------- MODULE SgPort -------------------------------
(***************************************************************************)
(* The four scatter-gather walkers (rtl/verilog/ss_sg.v) as the controller *)
(* sees them: loaded by the beats of a job descriptor, running for an      *)
(* arbitrary time, ended, and returned to idle by ss_done.  Walker 2c      *)
(* reads the source list of channel c, walker 2c + 1 fills its destination *)
(* list.  The states D_REQ, B_REQ, B_WAIT and NEXT of the source are "RUN" *)
(* here.  One step is one rising edge of wb_clk_i.                         *)
(***************************************************************************)
EXTENDS Naturals

CONSTANTS Outcomes   \* how a running walker may stop: {"END"}, {"END", "PANIC"}

VARIABLES
    walker, c_done,                     \* registers of ss_sg.v
    state, append_mode, inc, dc         \* inputs: registers of ctrl.v

Walker == 0..3
ChannelOf(i) == i \div 2

(* The bit of the job word that asks for a source (1), a destination (2).   *)
UseBit(i) == 1 + (i % 2)

WalkerStates == {"IDLE", "CMD", "RUN", "END", "PANIC"}

SgTypeOK ==
    /\ walker \in [Walker -> WalkerStates]
    /\ c_done \in [Walker -> BOOLEAN]

SgInit ==
    /\ walker = [i \in Walker |-> "IDLE"]
    /\ c_done = [i \in Walker |-> FALSE]

ss_weAppend(i, ack) ==   \* faulty: the walkers follow an append pass too
    ack /\ state = IF ChannelOf(i) = 0 THEN "CMD0" ELSE "CMD1"

(* A beat of a descriptor reaches the walkers of the channel being loaded,  *)
(* and none in append mode.                                                 *)
ss_we(i, ack) ==
    /\ ack
    /\ IF ChannelOf(i) = 0 THEN state = "CMD0" /\ ~append_mode
                           ELSE state = "CMD1"
ss_done(i) == state = IF ChannelOf(i) = 0 THEN "TR0" ELSE "TR1"

(* The first beat wakes the walker and the fourth, which carries the        *)
(* destination list, sets it going; a job that does not use the walker ends *)
(* it at once.                                                              *)
Loaded(i, ack) ==
    CASE walker[i] = "IDLE" /\ ss_we(i, ack) -> "CMD"
      [] walker[i] = "CMD" /\ ss_we(i, ack) /\ inc = 3 ->
           IF UseBit(i) \in dc[ChannelOf(i)] THEN "RUN" ELSE "END"
      [] OTHER -> walker[i]

(* out gives every walker that is running the state it takes: RUN still, or *)
(* one of Outcomes.                                                         *)
Running == {i \in Walker : walker[i] = "RUN"}
RunOutcome == [Running -> Outcomes \cup {"RUN"}]

SgStepSticky(ack, rst, out) ==   \* faulty: a done flag outlives its job
    /\ walker' = [i \in Walker |->
                    IF rst \/ ss_done(i) THEN "IDLE"
                    ELSE IF i \in Running THEN out[i] ELSE Loaded(i, ack)]
    /\ c_done' = [i \in Walker |-> c_done[i] \/ walker[i] = "END"]
SgStep(ack, rst, out) ==
    /\ walker' = [i \in Walker |->
                    IF rst \/ ss_done(i) THEN "IDLE"
                    ELSE IF i \in Running THEN out[i] ELSE Loaded(i, ack)]
    /\ c_done' = [i \in Walker |-> walker[i] = "END"]
=============================================================================
