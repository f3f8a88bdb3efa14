------------------------------- MODULE HostBus ------------------------------
(***************************************************************************)
(* The accesses a host makes to the register slave, one clock cycle each.  *)
(* A record has cyc (wbs_cyc_i), we (a write that decodes: wbs_we_i and    *)
(* address bit 10), reg (the register address bits 3:2 select), dat (the   *)
(* set of bits that are 1 in the word written) and adr (the word written,  *)
(* when it is an address).                                                 *)
(***************************************************************************)

(* Bits of the control register CCR, and the one CSR bit that is writable. *)
CcrAppend == 0
CcrEnable == 1
CcrIntAck == 2
CcrReset  == 31
CsrIntEnable == 30

NoAccess == [cyc |-> FALSE, we |-> FALSE, reg |-> "CSR", dat |-> {}, adr |-> 0]

CsrRead == [NoAccess EXCEPT !.cyc = TRUE]
CcrWrite(bits) ==
    [cyc |-> TRUE, we |-> TRUE, reg |-> "CCR", dat |-> bits, adr |-> 0]
CsrWrite(bits) ==
    [cyc |-> TRUE, we |-> TRUE, reg |-> "CSR", dat |-> bits, adr |-> 0]
NdarWrite(a) ==
    [cyc |-> TRUE, we |-> TRUE, reg |-> "NDAR", dat |-> {}, adr |-> a]
=============================================================================
