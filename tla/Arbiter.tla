------------------------------- MODULE Arbiter ------------------------------
(***************************************************************************)
(* The memory side of the bus: arbiter.v, and the multiplexers mo.v,       *)
(* mo32.v and mi.v that mixer.v is built of.  The request of a master goes *)
(* out under gnt_r, the grant one clock late; the answer comes back under  *)
(* gnt, the grant of this clock.                                           *)
(*                                                                         *)
(* Masters 0 to 3 are the walkers and 4 is the controller.  What matters   *)
(* of a master is when it asks: it raises cyc at any time, holds it until  *)
(* it is answered and, if it likes, for more answers, and lets go for a    *)
(* clock or more.  The memory is the bench's (it answers in the clock it   *)
(* is asked) or a slower one, which answers only a cycle that has lasted   *)
(* a clock, as a bridge with registered answers does.  The host may reset  *)
(* the masters at any time (sys_rst), and the arbiter is not told.         *)
(***************************************************************************)
EXTENDS Naturals

CONSTANTS N,           \* the number of masters
          MaxBurst,    \* answers a master takes before it lets go
          Prompt       \* the memory may answer in the first clock of a cycle

ASSUME ArbiterAssumption ==
    N \in Nat \ {0} /\ MaxBurst \in Nat \ {0} /\ Prompt \in BOOLEAN

VARIABLES gnt, gnt_r,
          cyc,         \* wbs_cyc0 .. wbs_cyc4
          acks,        \* answers each master had since it raised cyc
          open         \* wbm_cyc_o was up in the clock before
vars == <<gnt, gnt_r, cyc, acks, open>>

Masters == 0..(N - 1)

TypeOK ==
    /\ gnt \in Masters /\ gnt_r \in Masters
    /\ cyc \in [Masters -> BOOLEAN]
    /\ acks \in [Masters -> 0..MaxBurst] /\ open \in BOOLEAN

Init ==
    /\ gnt = 0 /\ gnt_r = 0
    /\ cyc = [m \in Masters |-> FALSE]
    /\ acks = [m \in Masters |-> 0] /\ open = FALSE

(* How far master m is behind the one that has the grant. *)
Behind(m) == IF m > gnt THEN m - gnt ELSE N + m - gnt

NextGrantLowest ==   \* faulty: the lowest number wins
    IF cyc[gnt] \/ \A m \in Masters : ~cyc[m] THEN {gnt}
    ELSE {m \in Masters : cyc[m] /\ \A k \in Masters : cyc[k] => m <= k}
NextGrantPreempts ==   \* faulty: the grant moves on in the middle of a cycle
    IF \A m \in Masters : ~cyc[m] THEN {gnt}
    ELSE {m \in Masters : cyc[m] /\ \A k \in Masters : cyc[k] => Behind(m) <= Behind(k)}
(* The grant stays while its master asks or nobody does; then the first one *)
(* behind it that asks has it.  There is exactly one choice.                *)
NextGrant ==
    IF cyc[gnt] \/ \A m \in Masters : ~cyc[m] THEN {gnt}
    ELSE {m \in Masters : cyc[m] /\ \A k \in Masters : cyc[k] => Behind(m) <= Behind(k)}

wbm_cyc_o == cyc[gnt_r]

(* A clock in which the memory answers (ack) and the masters in want ask.  A *)
(* master asks until it is answered; what it does then is its own affair.    *)
Clock(ack, want) ==
    LET acked(m) == ack /\ gnt = m /\ cyc[m]
        stays(m) == cyc[m] /\ ~acked(m) /\ acks[m] = 0
    IN  /\ ack => wbm_cyc_o /\ (open \/ Prompt)
        /\ \A m \in Masters :
               /\ stays(m) => m \in want
               /\ m \in want /\ acked(m) => acks[m] < MaxBurst - 1
        /\ gnt' \in NextGrant /\ gnt_r' = gnt
        /\ cyc' = [m \in Masters |-> m \in want]
        /\ acks' = [m \in Masters |-> IF m \notin want THEN 0
                                      ELSE IF acked(m) THEN acks[m] + 1 ELSE acks[m]]
        /\ open' = wbm_cyc_o

AckClock  == \E want \in SUBSET Masters : Clock(TRUE, want)
WaitClock == \E want \in SUBSET Masters : Clock(FALSE, want)

(* A clock in which sys_rst takes every request away, answered or not.      *)
Reset ==
    /\ gnt' \in NextGrant /\ gnt_r' = gnt
    /\ cyc' = [m \in Masters |-> FALSE] /\ acks' = [m \in Masters |-> 0]
    /\ open' = wbm_cyc_o

Next == AckClock \/ WaitClock \/ Reset
Spec == Init /\ [][Next]_vars

(* The memory answers a bus that keeps asking. *)
FairSpec == Spec /\ WF_vars(Next) /\ SF_vars(AckClock)

(* An answer that a master takes for its own is the answer to the request   *)
(* that is on the bus, although the one is steered by the grant and the     *)
(* other by the grant of the clock before.                                  *)
AckIsMine ==
    \A m \in Masters : wbm_cyc_o /\ (open \/ Prompt) /\ gnt = m /\ cyc[m] => gnt_r = m

(* Every master that asks gets the grant, however the others come and go,   *)
(* unless it is reset (before its grant it does not let go by itself); also *)
(* when the grant was left with a master whose request the reset has taken. *)
GrantComes == \A m \in Masters : cyc[m] ~> (gnt = m \/ ~cyc[m])
=============================================================================
