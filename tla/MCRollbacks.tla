------------------------------ MODULE MCRollbacks ------------------------------
(***************************************************************************)
(* Hosting with a history of what Swarm rolled back, for TLC.  No step of   *)
(* Hosting depends on it.                                                  *)
(***************************************************************************)
EXTENDS MCHosting

VARIABLE undone   \* history: digests that Swarm once rolled back

HistoryInit == Init /\ undone = {}

HistoryNext ==
    /\ Next
    /\ undone' = IF svc'.update = "rollback_started" /\ svc' # svc
                 THEN undone \cup {svc.image} ELSE undone

HistorySpec == HistoryInit /\ [][HistoryNext]_<<vars, undone>>

\* sync.go: a deployment is marked rolled back because "the new release crashed
\* or failed its health checks": Swarm has rolled its image back.
RolledBackFailed == \A d \in IDs : status[d] = "rolled_back" => image[d] \in undone
=============================================================================
