-------------------------- MODULE DeploymentStatus --------------------------
(***************************************************************************)
(* The statuses of a managed deployment and the moves between them:        *)
(* models/hosting/deployment.go.  The module has no state; the hosting     *)
(* modules keep the status of each deployment and change it only through   *)
(* CanTransition, as Transition does in the code.                          *)
(***************************************************************************)

PendingStatuses == {"queued", "building", "built", "awaiting_signature",
                    "awaiting_certification"}

Statuses == PendingStatuses \cup
            {"deploying", "live", "build_failed", "deploy_failed",
             "rolled_back", "superseded", "cancelled"}

\* The statuses a deployment may move to from each status.
Transitions ==
    [s \in Statuses |->
        CASE s = "queued" ->
                {"building", "awaiting_signature", "awaiting_certification",
                 "deploying", "build_failed", "deploy_failed", "cancelled"}
          [] s = "building" -> {"built", "build_failed", "cancelled"}
          [] s = "built" ->
                {"awaiting_signature", "awaiting_certification", "deploying",
                 "deploy_failed", "cancelled"}
          [] s = "awaiting_signature" ->
                {"awaiting_certification", "deploying", "deploy_failed", "cancelled"}
          [] s = "awaiting_certification" ->
                {"deploying", "deploy_failed", "cancelled"}
          [] s = "deploying" -> {"live", "deploy_failed", "rolled_back"}
          [] s = "deploy_failed" -> {"rolled_back"}
          [] s = "live" -> {"superseded"}
          [] OTHER -> {}]

\* Mutants of CanTransition: no status is checked; a live row cannot be retired.
CanAlwaysMove(from, to) == from \in Statuses /\ to \in Statuses
CanMoveUnlessLive(from, to) == from \in Statuses \ {"live"} /\ to \in Transitions[from]

\* The row update of Transition takes effect only from a status that allows it.
CanTransition(from, to) == from \in Statuses /\ to \in Transitions[from]

\* The statuses the sync cron lists.
InFlightStatuses == PendingStatuses \cup {"deploying"}
=============================================================================
