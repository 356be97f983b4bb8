-------------------------- MODULE MCPlayerSession --------------------------
(* PlayerSession on a small instance. *)
EXTENDS PlayerSession, TLC
=============================================================================
