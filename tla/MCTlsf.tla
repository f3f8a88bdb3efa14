------------------------------- MODULE MCTlsf -------------------------------
(***************************************************************************)
(* Areas for the run of Tlsf: a pool, an area that touches nothing, and    *)
(* areas behind and before it that are joined to it.                       *)
(***************************************************************************)
EXTENDS Tlsf

ThePool == <<0, 52>>
TheAreas == <<<<80, 20>>, <<128, 22>>, <<100, 28>>>>
==============================================================================
