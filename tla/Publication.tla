---------------------------- MODULE Publication ----------------------------
(***************************************************************************)
(* Platform publication: services/platformsync, for one repository.        *)
(* Signed webhooks schedule a durable job.  One worker loads jobs that are *)
(* ready, fetches the manifest from the default branch, reserves and       *)
(* provisions an eName, commits it to the manifest, writes the profile to  *)
(* the eVault and saves the job.  Every save writes the whole record that  *)
(* the worker loaded before its remote calls, and webhooks go on writing   *)
(* the same record meanwhile.                                              *)
(***************************************************************************)
EXTENDS Naturals, FiniteSets

CONSTANTS
    MaxPushes,       \* bound: pushes to the default branch that change the manifest
    MaxReleases,     \* bound: releases published or deleted
    MaxChanges,      \* bound: pushes and releases together
    MaxIdentities,   \* bound: eNames the Registry hands out
    MaxFaults        \* bound: failing calls, lost answers, redeliveries, expiries, crashes

ASSUME PublicationAssumption ==
    /\ MaxPushes \in Nat /\ MaxReleases \in Nat /\ MaxChanges \in Nat
    /\ MaxIdentities \in Nat \ {0} /\ MaxFaults \in Nat

VARIABLES
    head,        \* commits on the default branch
    file,        \* .w3ds/platform.json at the head
    pushes, release, releases,   \* pushes so far, the latest release, release events so far
    hooks,       \* webhooks under way
    registered,  \* eNames whose eVault exists
    profile,     \* the platform profile in the eVault of each eName
    handedOut,   \* eNames reserved so far
    row,         \* the job record
    pc, job, manifest, base,   \* the worker: its job, the manifest, and as it was read
    faults

repository == <<head, file, pushes, release, releases>>
services   == <<registered, profile, handedOut>>
worker     == <<pc, job, manifest, base>>
vars       == <<repository, hooks, services, row, worker, faults>>

Identities == 1 .. MaxIdentities
Foreign    == MaxIdentities + 1   \* an eName that is not this repository's

NoFile == [edit |-> 0, ename |-> 0, version |-> 0, valid |-> TRUE]
File   == [edit : 0 .. MaxPushes, ename : 0 .. Foreign, version : 0 .. MaxReleases,
           valid : BOOLEAN]

NoProfile == [edit |-> 0, version |-> 0, archived |-> FALSE]
Profile   == [edit : 0 .. MaxPushes, version : 0 .. MaxReleases, archived : BOOLEAN]

\* A webhook is identified by what it reports: a push, a release, the repository.
Push(commit)     == [sha |-> commit, release |-> 0, archive |-> FALSE]
ReleaseEvent(n)  == [sha |-> 0, release |-> n, archive |-> FALSE]
RepositoryGone   == [sha |-> 0, release |-> 0, archive |-> TRUE]
NoEvent          == [sha |-> 0, release |-> 0, archive |-> FALSE]
Event == [sha : Nat, release : 0 .. MaxReleases, archive : BOOLEAN]

NoJob == [status |-> "none", target |-> 0, key |-> NoEvent, ename |-> 0,
          provisioned |-> FALSE, manifest |-> NoFile, release |-> 0, archive |-> FALSE,
          due |-> TRUE]
Job == [status : {"none", "identity_pending", "publishing", "published", "failed", "archived"},
        target : Nat, key : Event, ename : 0 .. MaxIdentities, provisioned : BOOLEAN,
        manifest : File, release : 0 .. MaxReleases, archive : BOOLEAN, due : BOOLEAN]

\* Between "fetch" and "published" an error makes Reconcile return.
Reconciling == {"fetch", "fetched", "marked", "prepared", "named", "released", "rotated",
                "reprovision", "provisioned", "written", "published"}

TypeOK ==
    /\ head \in Nat /\ file \in File /\ pushes \in 0 .. MaxPushes
    /\ release \in 0 .. MaxReleases /\ releases \in 0 .. MaxReleases
    /\ hooks \subseteq Event
    /\ registered \subseteq Identities
    /\ profile \in [Identities -> Profile]
    /\ handedOut \in 0 .. MaxIdentities
    /\ row \in Job /\ job \in Job
    /\ pc \in Reconciling \cup {"idle", "delete", "failed", "refresh"} /\ manifest \in File /\ base \in File
    /\ faults \in 0 .. MaxFaults

Init ==
    /\ head = 0 /\ file = NoFile /\ pushes = 0 /\ release = 0 /\ releases = 0
    /\ hooks = {}
    /\ registered = {} /\ profile = [i \in Identities |-> NoProfile] /\ handedOut = 0
    /\ row = NoJob
    /\ pc = "idle" /\ job = NoJob /\ manifest = NoFile /\ base = NoFile
    /\ faults = 0

Fault == faults < MaxFaults /\ faults' = faults + 1

-----------------------------------------------------------------------------
\* The repository.

outsideRepository == <<services, row, worker, faults>>
MayChange         == pushes + releases < MaxChanges

\* A maintainer may put back a manifest that was deleted, or any eName that resolves.
PushManifest(ename, valid) ==
    /\ MayChange /\ pushes < MaxPushes
    /\ pushes' = pushes + 1 /\ head' = head + 1
    /\ file' = [file EXCEPT !.edit = pushes', !.ename = ename, !.valid = valid]
    /\ hooks' = hooks \cup {Push(head')}
    /\ UNCHANGED <<release, releases, outsideRepository>>

\* The manifest or the whole repository is deleted.
RemoveManifest ==
    /\ MayChange /\ pushes < MaxPushes /\ file # NoFile
    /\ file' = NoFile
    /\ \/ /\ pushes' = pushes + 1 /\ head' = head + 1
          /\ hooks' = hooks \cup {Push(head')}
       \/ /\ pushes' = MaxPushes /\ UNCHANGED head
          /\ hooks' = hooks \cup {RepositoryGone}
    /\ UNCHANGED <<release, releases, outsideRepository>>

\* A release is published, or the latest is deleted.
ChangeRelease ==
    /\ MayChange /\ releases < MaxReleases
    /\ releases' = releases + 1
    /\ release' \in {0, releases'}
    /\ hooks' = hooks \cup {ReleaseEvent(releases')}
    /\ UNCHANGED <<head, file, pushes, outsideRepository>>

-----------------------------------------------------------------------------
\* ScheduleEvent: the webhook's transaction on the record.

Coalesced(event) ==
    \/ event = row.key
    \/ event.sha # 0 /\ event.sha = row.target /\ event.archive = row.archive

\* Mutant: a webhook starts a job of its own.
ScheduledAfresh(event) ==
    [NoJob EXCEPT !.status = "identity_pending", !.target = event.sha,
        !.archive = event.archive, !.key = event]

Scheduled(event) ==
    [row EXCEPT !.target = IF event.sha # 0 THEN event.sha ELSE row.target,
        !.archive = event.archive,
        !.key = event,
        !.due = TRUE,
        !.status = IF row.status = "failed" THEN "failed"
                   ELSE IF row.ename = 0 THEN "identity_pending" ELSE "publishing"]

Schedule(event) ==
    row' = IF row.status # "none" /\ Coalesced(event) THEN row ELSE Scheduled(event)

\* A delivery that was answered may be repeated, which costs a fault.
Deliver(event, again) ==
    /\ event \in hooks
    /\ Schedule(event)
    /\ IF again THEN Fault /\ UNCHANGED hooks
       ELSE hooks' = hooks \ {event} /\ UNCHANGED faults
    /\ UNCHANGED <<repository, services, worker>>

-----------------------------------------------------------------------------
\* The worker: Ready, and the steps of Reconcile.

outsideWorker == <<repository, hooks, services>>
Goto(stage)   == pc' = stage
Save(saved)   == row' = saved
EndPass       == pc' = "idle" /\ job' = NoJob /\ manifest' = NoFile /\ base' = NoFile

\* Mutant: a failed job waits for the next webhook.
ReadyUnlessFailed(j) == j.status \in {"identity_pending", "publishing"} /\ j.due

Ready(j) == j.status \in {"identity_pending", "publishing", "failed"} /\ j.due

Load ==
    /\ pc = "idle" /\ Ready(row)
    /\ job' = row /\ Goto("fetch")
    /\ UNCHANGED <<outsideWorker, row, manifest, base, faults>>

FetchManifest ==
    /\ pc = "fetch" /\ file # NoFile
    /\ manifest' = file /\ base' = file
    /\ Goto(IF file.valid THEN "fetched" ELSE "failed")
    /\ UNCHANGED <<outsideWorker, row, job, faults>>

\* Mutant: a missing manifest is an error like any other.
MissingFails ==
    /\ pc = "fetch" /\ file = NoFile
    /\ Goto("failed")
    /\ UNCHANGED <<outsideWorker, row, job, manifest, base, faults>>

\* There is no manifest: a job with no record of a publication is dropped, also when
\* the profile was written and the save that records it was not, and any other archives
\* what it published last.
Unpublished(j) ==
    \/ j.ename = 0 \/ j.manifest = NoFile
    \/ ~j.provisioned /\ j.ename \notin registered
FetchNothing ==
    /\ pc = "fetch" /\ file = NoFile
    /\ IF Unpublished(job) THEN Goto("delete") /\ UNCHANGED <<job, manifest>>
       ELSE /\ job' = [job EXCEPT !.archive = TRUE, !.provisioned = TRUE]
            /\ manifest' = job.manifest
            /\ Goto("fetched")
    /\ UNCHANGED <<outsideWorker, row, base, faults>>

DropJob ==
    /\ pc = "delete"
    /\ Save(NoJob) /\ EndPass
    /\ UNCHANGED <<outsideWorker, faults>>

MarkPublishing ==
    /\ pc = "fetched" /\ job.status # "publishing"
    /\ job' = [job EXCEPT !.status = "publishing"]
    /\ Save(job') /\ Goto("marked")
    /\ UNCHANGED <<outsideWorker, manifest, base, faults>>

\* How far Reconcile is; the stages with nothing to do are passed over.
Marked == \/ pc = "marked"
          \/ pc = "fetched" /\ job.status = "publishing"

SameName    == manifest.ename \in {0, job.ename}
Named       == pc = "named" \/ (Marked /\ job.ename # 0 /\ SameName)
Released    == pc = "released" \/ (Named /\ job.archive)
Provisioned == pc = "provisioned" \/ (Released /\ job.provisioned)

\* The manifest as it is committed and published, with the eName of the job.
Desired == IF manifest.ename = 0 THEN [manifest EXCEPT !.ename = job.ename] ELSE manifest
Changed == Desired # base /\ ~job.archive

\* An eName that is not the job's cannot be claimed, and one that is does not change.
RefuseName ==
    /\ Marked /\ ~SameName
    /\ Goto("failed")
    /\ UNCHANGED <<outsideWorker, row, job, manifest, base, faults>>

NextIdentity == handedOut < MaxIdentities /\ handedOut' = handedOut + 1
Identified   == [job EXCEPT !.ename = handedOut', !.provisioned = FALSE]

PrepareIdentity ==
    /\ Marked /\ SameName /\ job.ename = 0
    /\ NextIdentity
    /\ job' = Identified /\ Goto("prepared")
    /\ UNCHANGED <<repository, hooks, registered, profile, row, manifest, base, faults>>

\* The reservation is saved before it is used.
ReserveIdentity ==
    /\ pc = "prepared"
    /\ Save(job) /\ Goto("named")
    /\ UNCHANGED <<outsideWorker, job, manifest, base, faults>>

ReadRelease ==
    /\ Named /\ ~job.archive
    /\ job' = [job EXCEPT !.release = release]
    /\ manifest' = [manifest EXCEPT !.version = IF release = 0 THEN @ ELSE release]
    /\ Goto("released")
    /\ UNCHANGED <<outsideWorker, row, base, faults>>

\* Also when the answer is lost, or it was provisioned before: the eName resolves.
Provision ==
    /\ Released /\ ~job.provisioned
    /\ registered' = registered \cup {job.ename}
    /\ job' = [job EXCEPT !.provisioned = TRUE] /\ Goto("provisioned")
    /\ UNCHANGED <<repository, hooks, profile, handedOut, row, manifest, base, faults>>

\* The Registry's entropy has expired: another eName is reserved, saved, provisioned.
ReplaceExpired ==
    /\ Released /\ ~job.provisioned /\ job.ename \notin registered
    /\ Fault
    /\ NextIdentity
    /\ job' = Identified /\ Goto("rotated")
    /\ UNCHANGED <<repository, hooks, registered, profile, row, manifest, base>>

SaveReplacement ==
    /\ pc = "rotated"
    /\ Save(job) /\ Goto("reprovision")
    /\ UNCHANGED <<outsideWorker, job, manifest, base, faults>>

ProvisionReplacement ==
    /\ pc = "reprovision"
    /\ registered' = registered \cup {job.ename}
    /\ job' = [job EXCEPT !.provisioned = TRUE]
    /\ manifest' = [manifest EXCEPT !.ename = job.ename]
    /\ Goto("provisioned")
    /\ UNCHANGED <<repository, hooks, profile, handedOut, row, base, faults>>

\* Mutant: the commit does not name the blob it replaces.
Unconditional == file # NoFile

Replaceable == file = base

\* The commit names the blob it replaces; it triggers a webhook like any other, and
\* its answer may be lost.
CommitManifest(ok) ==
    /\ Provisioned /\ Changed /\ Replaceable
    /\ head' = head + 1 /\ file' = Desired
    /\ hooks' = hooks \cup {Push(head')}
    /\ manifest' = Desired
    /\ IF ok THEN Goto("written") /\ UNCHANGED faults ELSE Goto("failed") /\ Fault
    /\ UNCHANGED <<pushes, release, releases, services, row, job, base>>

CommitConflicts ==
    /\ Provisioned /\ Changed /\ ~Replaceable
    /\ Goto("failed")
    /\ UNCHANGED <<outsideWorker, row, job, manifest, base, faults>>

\* Mutant: a profile that is to be archived is left as it is.
PublishUnlessArchived(ok) ==
    /\ pc = "written" \/ (Provisioned /\ ~Changed)
    /\ profile' = IF job.archive THEN profile
                  ELSE [profile EXCEPT ![Desired.ename] =
                         [edit |-> manifest.edit, version |-> manifest.version,
                          archived |-> FALSE]]
    /\ IF ok THEN Goto("published") /\ UNCHANGED faults ELSE Goto("failed") /\ Fault
    /\ UNCHANGED <<repository, hooks, registered, handedOut, row, job, manifest, base>>

\* The profile is written unless it matches, and read back: a lost answer is noticed.
PublishProfile(ok) ==
    /\ pc = "written" \/ (Provisioned /\ ~Changed)
    /\ profile' = [profile EXCEPT ![Desired.ename] =
                     [edit |-> manifest.edit, version |-> manifest.version,
                      archived |-> job.archive]]
    /\ IF ok THEN Goto("published") /\ UNCHANGED faults ELSE Goto("failed") /\ Fault
    /\ UNCHANGED <<repository, hooks, registered, handedOut, row, job, manifest, base>>

SavePublished ==
    /\ pc = "published"
    /\ Save([job EXCEPT !.manifest = Desired, !.due = TRUE,
                        !.status = IF job.archive THEN "archived" ELSE "published"])
    /\ EndPass
    /\ UNCHANGED <<outsideWorker, faults>>

CallFails ==
    /\ pc \in Reconciling
    /\ Fault
    /\ Goto("failed")
    /\ UNCHANGED <<outsideWorker, row, job, manifest, base>>

\* Mutant: the next attempt is stored as a status of its own.
SaveRetry ==
    /\ pc = "failed"
    /\ Save([job EXCEPT !.status = "retry", !.due = FALSE])
    /\ EndPass
    /\ UNCHANGED <<outsideWorker, faults>>

\* The worker saves what Reconcile left of the job, and tries again after a backoff.
SaveFailed ==
    /\ pc = "failed"
    /\ Save([job EXCEPT !.status = "failed", !.due = FALSE])
    /\ EndPass
    /\ UNCHANGED <<outsideWorker, faults>>

BackoffEnds ==
    /\ ~row.due
    /\ Save([row EXCEPT !.due = TRUE])
    /\ UNCHANGED <<outsideWorker, worker, faults>>

-----------------------------------------------------------------------------
\* RefreshAccreditation: the same worker reads the decision on the published version.

Refreshable(j) ==
    j.status = "published" /\ j.release # 0 /\ j.manifest.version = j.release

LoadPublished ==
    /\ pc = "idle" /\ Refreshable(row)
    /\ job' = row /\ Goto("refresh")
    /\ UNCHANGED <<outsideWorker, row, manifest, base, faults>>

\* The whole record is saved with the decision, or nothing when the call failed.
SaveDecision(ok) ==
    /\ pc = "refresh"
    /\ IF ok THEN Save(job) /\ UNCHANGED faults ELSE UNCHANGED row /\ Fault
    /\ EndPass
    /\ UNCHANGED outsideWorker

\* The service restarts; the store survives.
Crash ==
    /\ pc # "idle"
    /\ Fault
    /\ EndPass
    /\ UNCHANGED <<outsideWorker, row>>

-----------------------------------------------------------------------------
WorkerStep ==
    \/ Load \/ FetchManifest \/ FetchNothing \/ DropJob \/ MarkPublishing \/ RefuseName
    \/ PrepareIdentity \/ ReserveIdentity \/ ReadRelease \/ Provision
    \/ SaveReplacement \/ ProvisionReplacement
    \/ CommitConflicts \/ SavePublished \/ SaveFailed
    \/ \E ok \in BOOLEAN : CommitManifest(ok) \/ PublishProfile(ok)

RefreshStep == LoadPublished \/ \E ok \in BOOLEAN : SaveDecision(ok)

Environment ==
    \/ \E ename \in {0, Foreign} \cup registered : PushManifest(ename, TRUE)
    \/ PushManifest(0, FALSE)
    \/ RemoveManifest \/ ChangeRelease
    \/ \E event \in hooks, again \in BOOLEAN : Deliver(event, again)
    \/ ReplaceExpired \/ CallFails \/ Crash

Next == WorkerStep \/ RefreshStep \/ BackoffEnds \/ Environment

Spec == Init /\ [][Next]_vars

\* The worker's loop runs on, and time passes.
FairSpec == Spec /\ WF_vars(WorkerStep \/ RefreshStep) /\ WF_vars(BackoffEnds)
=============================================================================
