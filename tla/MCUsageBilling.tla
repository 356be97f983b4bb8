--------------------------- MODULE MCUsageBilling ---------------------------
(* UsageBilling on a small instance. *)
EXTENDS UsageBilling
=============================================================================
