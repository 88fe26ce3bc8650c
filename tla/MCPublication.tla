--------------------------- MODULE MCPublication ---------------------------
(***************************************************************************)
(* TLC instances of platform publication: the cfgs bound the pushes, the   *)
(* releases, the Registry's eNames and the faults.                         *)
(***************************************************************************)
EXTENDS PublicationProperties
=============================================================================
