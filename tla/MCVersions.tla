----------------------------- MODULE MCVersions -----------------------------
(***************************************************************************)
(* TLC instances of the publisher's deployment record.                     *)
(***************************************************************************)
EXTENDS VersionsProperties
=============================================================================
