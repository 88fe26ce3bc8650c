----------------------------- MODULE MCDomains -----------------------------
(***************************************************************************)
(* TLC instances of the domain pool.  Targets, names and requests are      *)
(* interchangeable, and the properties of the runs are about states and    *)
(* single steps, so their permutations are a symmetry.                     *)
(***************************************************************************)
EXTENDS DomainsProperties, TLC

Symmetry == Permutations(Targets) \cup Permutations(Names) \cup Permutations(Calls)
=============================================================================
