------------------------------ MODULE MCChanBus ------------------------------
(* ChanBus for TLC. *)
EXTENDS ChanBus
=============================================================================
