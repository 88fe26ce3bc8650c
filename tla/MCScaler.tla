------------------------------ MODULE MCScaler ------------------------------
(***************************************************************************)
(* Scaler for TLC: every droplet with an address of its own.               *)
(***************************************************************************)
EXTENDS ScalerProperties

Distinct == [d \in Droplets |-> d]
=============================================================================
