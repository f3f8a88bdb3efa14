--------------------------------- MODULE Mod --------------------------------
(***************************************************************************)
(* The processing modules copy (dc[4]) and fill (dc[3]) of a channel, as   *)
(* rtl/verilog/mod.v puts them side by side.  Each is a four-state machine *)
(* s; the job word selects the one that drives the pins, named here by     *)
(* kind.  The pins the machines see are a record p: enable, empty,         *)
(* almost_empty and last of the source FIFO, full and almost_full of the   *)
(* destination FIFO.                                                       *)
(***************************************************************************)
CONSTANTS kind       \* "copy" or "fill"

ModStates == {"IDLE", "RUN", "WAIT", "END"}

CopyNoLook(s, p) ==   \* faulty: runs on until the FIFO is really empty
    CASE s = "IDLE" /\ p.enable /\ ~p.full /\ ~p.empty -> "RUN"
      [] s = "RUN" /\ p.last                             -> "END"
      [] s = "RUN" /\ (p.full \/ p.almost_full \/ p.empty) -> "WAIT"
      [] s = "WAIT" /\ ~p.full /\ ~p.empty              -> "RUN"
      [] OTHER -> s
CopyClock(s, p) ==
    CASE s = "IDLE" /\ p.enable /\ ~p.full /\ ~p.empty -> "RUN"
      [] s = "RUN" /\ p.last                             -> "END"
      [] s = "RUN" /\ (p.full \/ p.almost_full \/ p.empty \/ p.almost_empty) -> "WAIT"
      [] s = "WAIT" /\ ~p.full /\ ~p.empty              -> "RUN"
      [] OTHER -> s

FillOnce(s, p) ==   \* faulty: a full FIFO ends the filling
    CASE s = "IDLE" /\ p.enable /\ ~p.full -> "RUN"
      [] s = "RUN" /\ p.full               -> "WAIT"
      [] OTHER -> s
FillClock(s, p) ==
    CASE s = "IDLE" /\ p.enable /\ ~p.full -> "RUN"
      [] s = "RUN" /\ p.full               -> "WAIT"
      [] s = "WAIT" /\ ~p.full             -> "RUN"
      [] OTHER -> s

ModClock(s, p) ==
    CASE kind = "copy" -> CopyClock(s, p)
      [] kind = "fill" -> FillClock(s, p)

(* The active-low pins m_src_getn, m_dst_putn and m_endn, here active high. *)
m_src_get(s) == kind = "fill" \/ s = "RUN"
m_dst_put(s) == s = "RUN"
m_endLow(s)  == s # "END"   \* faulty: the pin is read active low
m_end(s)     == kind = "fill" \/ s = "END"
=============================================================================
