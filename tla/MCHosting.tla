------------------------------ MODULE MCHosting ------------------------------
(***************************************************************************)
(* Hosting for TLC.  Requests are interchangeable, and so are versions: no *)
(* definition compares or orders them.                                     *)
(***************************************************************************)
EXTENDS HostingProperties, TLC

Symmetry == Permutations(Requests) \cup Permutations(Versions)
=============================================================================
