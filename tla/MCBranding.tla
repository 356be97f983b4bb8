----------------------------- MODULE MCBranding -----------------------------
(* Branding on a small instance. *)
EXTENDS Branding, TLC
=============================================================================
