----------------------------- MODULE MCRecFlow -----------------------------
(* The recording flow for TLC: every bound is a CONSTANT of the cfg.       *)
EXTENDS RecFlow
=============================================================================
