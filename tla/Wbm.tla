--------------------------------- MODULE Wbm --------------------------------
(***************************************************************************)
(* The register slave, rtl/verilog/wbm.v: the registers that steer the DMA *)
(* engine.  One step is one rising edge of wb_clk_i, in which the host's   *)
(* bus bridge presents at most one access.  The debug read ports and the   *)
(* SPI registers are not part of the module.                               *)
(*                                                                         *)
(* The accesses are those of HostBus.                                      *)
(***************************************************************************)
EXTENDS Naturals, HostBus

CONSTANTS Addr   \* job-descriptor addresses

VARIABLES
    \* registers of wbm.v
    enable, append, ndar, ndar_dirty, wb_int_clear, wb_int_enable, sys_rst_reg,
    \* inputs: registers of ctrl.v
    append_clear, ndar_dirty_clear

ccr_we(acc) == acc.we /\ acc.reg = "CCR"
csr_we(acc) == acc.we /\ acc.reg = "CSR"
(* NDAR only takes a write while the engine is disabled. *)
ndar_we(acc) == acc.we /\ acc.reg = "NDAR" /\ ~enable

WbmTypeOK ==
    /\ enable \in BOOLEAN /\ append \in BOOLEAN
    /\ ndar \in Addr /\ ndar_dirty \in BOOLEAN
    /\ wb_int_clear \in BOOLEAN /\ wb_int_enable \in BOOLEAN
    /\ sys_rst_reg \in BOOLEAN

WbmInit ==
    /\ enable = FALSE /\ append = FALSE
    /\ ndar = 0 /\ ndar_dirty = FALSE
    /\ wb_int_clear = FALSE /\ wb_int_enable = FALSE
    /\ sys_rst_reg = FALSE

(* A write of NDAR wins over the controller's clear. *)
NdarStep(acc) ==
    IF ndar_we(acc)
      THEN ndar' = acc.adr /\ ndar_dirty' = TRUE
      ELSE ndar' = ndar /\ ndar_dirty' = (ndar_dirty /\ ~ndar_dirty_clear)

CcrStepSticky(acc) ==   \* faulty: the acknowledge is no pulse
    IF ccr_we(acc)
      THEN /\ enable' = (CcrEnable \in acc.dat)
           /\ append' = (CcrAppend \in acc.dat)
           /\ wb_int_clear' = (CcrIntAck \in acc.dat)
           /\ sys_rst_reg' = (CcrReset \in acc.dat)
      ELSE /\ append' = (append /\ ~append_clear)
           /\ UNCHANGED <<enable, sys_rst_reg, wb_int_clear>>

(* A write of CCR sets every one of its fields, append included, and wins   *)
(* over the controller's clear of append; wb_int_clear is a pulse.          *)
CcrStep(acc) ==
    IF ccr_we(acc)
      THEN /\ enable' = (CcrEnable \in acc.dat)
           /\ append' = (CcrAppend \in acc.dat)
           /\ wb_int_clear' = (CcrIntAck \in acc.dat)
           /\ sys_rst_reg' = (CcrReset \in acc.dat)
      ELSE /\ append' = (append /\ ~append_clear)
           /\ wb_int_clear' = FALSE
           /\ UNCHANGED <<enable, sys_rst_reg>>

CsrStep(acc) ==
    wb_int_enable' = IF csr_we(acc) THEN CsrIntEnable \in acc.dat
                                    ELSE wb_int_enable

WbmStep(acc) == NdarStep(acc) /\ CcrStep(acc) /\ CsrStep(acc)
=============================================================================
