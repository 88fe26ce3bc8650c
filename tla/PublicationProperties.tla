----------------------- MODULE PublicationProperties -----------------------
(***************************************************************************)
(* What platform publication has to guarantee.                             *)
(***************************************************************************)
EXTENDS Publication

Exists       == row.status # "none"
Published(i) == profile[i] # NoProfile
Public(i)    == Published(i) /\ ~profile[i].archived

\* "A job that says it is published" is: the eVault has the profile that the job
\* recorded, and what was archived is archived there too.
PublishedTrue ==
    row.status \in {"published", "archived"} =>
        profile[row.ename] = [edit |-> row.manifest.edit, version |-> row.manifest.version,
                              archived |-> row.status = "archived"]

\* "ename is immutable": once a profile is public under an eName, the job keeps it,
\* whatever fails or restarts while it is reserved, provisioned and committed.
EnameImmutable ==
    [][Exists /\ Exists' /\ row.ename # 0 /\ Published(row.ename)
            => row'.ename = row.ename]_vars

\* The publisher's commits never undo a push it has not seen.
PushesKept == [][file # NoFile /\ file' # NoFile => file'.edit >= file.edit]_vars

\* Why what a job says is true: while the worker reconciles no webhook can make the
\* record say that it is published, and from "named" on the manifest has the job's name.
Settled    == {"named", "released", "provisioned", "written", "published"}
Done       == {"published", "archived"}
Unfinished == {"identity_pending", "publishing", "failed"}
Shown(j)   == [edit |-> j.manifest.edit, version |-> j.manifest.version,
               archived |-> j.status = "archived"]
StagesInv ==
    /\ pc \notin {"idle", "refresh"} =>
            row.status \in Unfinished /\ job.status \in Unfinished
    /\ pc \in Settled => job.ename # 0 /\ manifest.ename \in {0, job.ename}
    /\ pc \in {"prepared", "rotated", "reprovision"} => job.ename # 0
    /\ pc = "prepared" => manifest.ename = 0
    /\ row.status \in Done => row.ename # 0
    /\ pc = "refresh" =>
            job.status = "published" /\ job.ename # 0 /\ profile[job.ename] = Shown(job)
    /\ pc = "published" =>
            profile[job.ename] = [edit |-> manifest.edit, version |-> manifest.version,
                                  archived |-> job.archive]
    /\ PublishedTrue

\* Why an eName stays: the copy that the worker saves has the name of the record, or
\* one that replaces a name under which no eVault exists.
NamesInv ==
    /\ pc \notin {"idle", "prepared", "rotated", "failed"} => row.ename = job.ename
    /\ pc # "idle" /\ row.ename # job.ename => row.ename \notin registered
    /\ pc = "rotated" => row.ename \notin registered
    /\ \A j \in {row, job} : j.provisioned => j.ename \in registered
    /\ pc \in {"provisioned", "written", "published"} => job.provisioned
    /\ \A i \in Identities : Published(i) => i \in registered
    /\ file.ename \in Identities => file.ename \in registered

\* Why no push is undone: a manifest that is committed has the edit it was read with.
EditsInv ==
    /\ file.edit <= pushes
    /\ pc \in Reconciling \ {"fetch"} => job.archive \/ manifest.edit = base.edit

\* A job that waits for the worker is published with the manifest it has by then or with
\* a later one, unless that is one the publisher refuses; also when the manifest was
\* deleted and put back, as long as no attempt to archive it is left on the record.
Acceptable == file # NoFile /\ file.valid /\ file.ename \in {0, row.ename}
Due        == pc = "idle" /\ Ready(row)
PublicUpTo(n) == \E i \in Identities : profile[i].edit >= n /\ Public(i)
PendingPublished ==
    \A n \in 1 .. MaxPushes :
        Due /\ ~row.archive /\ Acceptable /\ file.edit = n
            ~> PublicUpTo(n) \/ file.edit # n \/ ~Acceptable

\* A public profile whose job waits when the manifest is gone, and says what it published
\* last, is archived.
PendingArchived ==
    Due /\ file = NoFile /\ ~Unpublished(row) /\ Public(row.ename)
        ~> file # NoFile \/ (row.ename # 0 /\ ~Public(row.ename))

\* platform-onboarding.md: "Deleting the manifest or repository archives the profile":
\* once no webhook is under way, a profile stays public only with its manifest.
DeletedArchived ==
    file = NoFile /\ hooks = {} ~> file # NoFile \/ \A i \in Identities : ~Public(i)
=============================================================================
