-------------------------------- MODULE SsSg --------------------------------
(***************************************************************************)
(* A scatter/gather walker, rtl/verilog/ss_sg.v, as the function from its  *)
(* registers g and its input pins to its registers after the clock edge.   *)
(* rw is the walker's parameter: "src" reads memory into the channel,      *)
(* "dst" writes the channel to memory.                                     *)
(*                                                                         *)
(* The pins are a record p:                                                *)
(*   we, beat, use, head  ss_we, ss_adr, ss_dc[1] or ss_dc[2], and the     *)
(*                        list pointer of beats 2 and 3;                   *)
(*   ack, err, data       the memory bus: data is the half of a list       *)
(*                        descriptor that a D_REQ beat delivers;           *)
(*   start, stop, end, done   ss_start, ss_stop, ss_end, ss_done.          *)
(* A retry and a cycle without an answer are treated alike by the code:    *)
(* both are ~ack /\ ~err.  Addresses count 64-bit words.                   *)
(***************************************************************************)
EXTENDS Naturals

LenModulus == 65536        \* sg_len has 16 bits

SgStates == {"IDLE", "CMD", "D_REQ", "B_REQ", "B_WAIT", "NEXT", "END", "PANIC"}

SgType == [state : SgStates, cnt : 0..1, io : BOOLEAN, last : BOOLEAN,
           len : 0..(LenModulus - 1), addr : Nat, next : Nat, adr : Nat]

SgReset == [state |-> "IDLE", cnt |-> 0, io |-> FALSE, last |-> FALSE,
            len |-> 0, addr |-> 0, next |-> 0, adr |-> 0]

(* wbs_cyc: a walker that panics in a request keeps the bus. *)
wbs_cyc(g) == g.state \in {"D_REQ", "B_REQ", "PANIC"}

Moves(g, p) == g.state = "B_REQ" /\ p.ack

ss_last(g) == g.state = "NEXT" /\ g.last
ss_xfer(g, p) == Moves(g, p) \/ ss_last(g)

Idle(g, p) == [g EXCEPT !.state = IF p.we THEN "CMD" ELSE "IDLE", !.io = FALSE]

Cmd(rw, g, p) ==
    LET mine == IF rw = "src" THEN 2 ELSE 3
        g1   == IF p.we /\ p.beat = mine THEN [g EXCEPT !.next = p.head] ELSE g
    IN  IF p.we /\ p.beat = 3
        THEN [g1 EXCEPT !.last = FALSE, !.state = IF p.use THEN "NEXT" ELSE "END"]
        ELSE g1

(* The two beats of a list descriptor. *)
DReq(g, p) ==
    IF p.err THEN [g EXCEPT !.state = "PANIC"]
    ELSE IF ~p.ack THEN g
    ELSE IF g.cnt = 0
    THEN [g EXCEPT !.last = p.data.last, !.len = p.data.len, !.addr = p.data.addr,
                   !.cnt = 1, !.adr = @ + 1]
    ELSE [g EXCEPT !.next = p.data.next, !.adr = @ + 1, !.state = "B_WAIT"]

BReqOverrun(g, p) ==   \* faulty: the buffer ends when the length is used up
    IF p.err THEN [g EXCEPT !.state = "PANIC"]
    ELSE IF p.ack
    THEN [g EXCEPT !.adr = @ + 1, !.addr = @ + 1, !.io = TRUE,
                   !.len = (@ + LenModulus - 1) % LenModulus,
                   !.state = IF g.len = 0 THEN "NEXT"
                             ELSE IF p.stop \/ p.end THEN "B_WAIT" ELSE "B_REQ"]
    ELSE IF g.io THEN [g EXCEPT !.state = "B_WAIT"] ELSE g
BReq(g, p) ==
    IF p.err THEN [g EXCEPT !.state = "PANIC"]
    ELSE IF p.ack
    THEN [g EXCEPT !.adr = @ + 1, !.addr = @ + 1, !.io = TRUE,
                   !.len = (@ + LenModulus - 1) % LenModulus,
                   !.state = IF g.len = 1 THEN "NEXT"
                             ELSE IF p.stop \/ p.end THEN "B_WAIT" ELSE "B_REQ"]
    ELSE IF g.io THEN [g EXCEPT !.state = "B_WAIT"] ELSE g

BWait(g, p) ==
    IF p.end /\ g.io THEN [g EXCEPT !.state = "END"]
    ELSE IF p.start THEN [g EXCEPT !.adr = g.addr, !.io = FALSE, !.state = "B_REQ"]
    ELSE g

(* The test of ss_end has no else: what follows decides the state. *)
NextBuffer(g) ==
    IF g.last THEN [g EXCEPT !.state = "END"]
    ELSE [g EXCEPT !.adr = g.next, !.cnt = 0, !.state = "D_REQ"]

SgClock(rw, g, p) ==
    LET n == CASE g.state = "IDLE"   -> Idle(g, p)
               [] g.state = "CMD"    -> Cmd(rw, g, p)
               [] g.state = "D_REQ"  -> DReq(g, p)
               [] g.state = "B_REQ"  -> BReq(g, p)
               [] g.state = "B_WAIT" -> BWait(g, p)
               [] g.state = "NEXT"   -> NextBuffer(g)
               [] OTHER              -> g
    IN  IF p.done THEN [n EXCEPT !.state = "IDLE"] ELSE n
=============================================================================
