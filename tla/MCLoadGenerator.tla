-------------------------- MODULE MCLoadGenerator --------------------------
(* LoadGenerator on a small instance. *)
EXTENDS LoadGenerator, TLC

MCTiers == <<1, 3>>
=============================================================================
