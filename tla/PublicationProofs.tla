------------------------- MODULE PublicationProofs -------------------------
(***************************************************************************)
(* Proofs about platform publication, for any number of pushes, releases,  *)
(* eNames and faults.  The worker saves whole copies of the record, so the *)
(* invariants relate its copy to the record, to the eVaults and to the     *)
(* manifest at each stage of Reconcile.                                    *)
(***************************************************************************)
EXTENDS PublicationProperties, TLAPS

\* The statuses of a record.
Statuses == {"none", "identity_pending", "publishing", "published", "failed", "archived"}

\* Two copies of a record that agree on its eName, and on what was published.
SameIdentity(k, j) == k.ename = j.ename /\ k.provisioned = j.provisioned
SameContent(k, j) == SameIdentity(k, j) /\ k.manifest = j.manifest

\* The values that the model starts from are typed.
LEMMA Constants ==
    ASSUME PublicationAssumption
    PROVE  /\ NoFile \in File /\ NoFile.ename = 0 /\ NoFile.edit = 0
           /\ NoProfile \in Profile
           /\ NoJob \in Job /\ NoJob.status = "none" /\ NoJob.ename = 0 /\ ~NoJob.provisioned
           /\ RepositoryGone \in Event /\ \A n \in Nat : Push(n) \in Event
           /\ \A n \in 0 .. MaxReleases : ReleaseEvent(n) \in Event
<1>1. /\ NoFile \in File /\ NoFile.ename = 0 /\ NoFile.edit = 0 /\ NoProfile \in Profile
  BY SMT DEF PublicationAssumption, NoFile, File, NoProfile, Profile, Foreign
<1>2. /\ RepositoryGone \in Event /\ \A n \in Nat : Push(n) \in Event
      /\ \A n \in 0 .. MaxReleases : ReleaseEvent(n) \in Event
      /\ NoEvent \in Event
  BY SMT DEF PublicationAssumption, Event, RepositoryGone, Push, ReleaseEvent, NoEvent
<1>3. NoJob \in Job /\ NoJob.status = "none" /\ NoJob.ename = 0 /\ ~NoJob.provisioned
  BY <1>1, <1>2, SMT DEF PublicationAssumption, NoJob, Job
<1>. QED  BY <1>1, <1>2, <1>3

\* The types of the fields that the steps look at.
LEMMA Fields ==
    /\ \A f \in File : /\ f.edit \in 0 .. MaxPushes /\ f.ename \in 0 .. Foreign
                       /\ f.version \in 0 .. MaxReleases /\ f.valid \in BOOLEAN
    /\ \A e \in Event : e.sha \in Nat /\ e.release \in 0 .. MaxReleases /\ e.archive \in BOOLEAN
    /\ \A j \in Job : /\ j.status \in Statuses /\ j.target \in Nat /\ j.key \in Event
                      /\ j.ename \in 0 .. MaxIdentities /\ j.provisioned \in BOOLEAN
                      /\ j.manifest \in File /\ j.release \in 0 .. MaxReleases
                      /\ j.archive \in BOOLEAN /\ j.due \in BOOLEAN
BY SMT DEF File, Event, Job, Statuses

\* Writing one field of a manifest or of a record.
LEMMA FileField ==
    ASSUME NEW f \in File
    PROVE  /\ \A n \in 0 .. MaxPushes : LET k == [f EXCEPT !.edit = n]
                IN  /\ k \in File /\ k.edit = n
                    /\ k.ename = f.ename /\ k.version = f.version
           /\ \A i \in 0 .. Foreign : LET k == [f EXCEPT !.ename = i]
                IN  /\ k \in File /\ k.ename = i
                    /\ k.edit = f.edit /\ k.version = f.version
           /\ \A v \in 0 .. MaxReleases : LET k == [f EXCEPT !.version = v]
                IN  /\ k \in File /\ k.version = v
                    /\ k.edit = f.edit /\ k.ename = f.ename
           /\ \A b \in BOOLEAN : LET k == [f EXCEPT !.valid = b]
                IN  /\ k \in File /\ k.valid = b
                    /\ k.edit = f.edit /\ k.ename = f.ename /\ k.version = f.version
<1>1. \A n \in 0 .. MaxPushes : LET k == [f EXCEPT !.edit = n]
       IN  /\ k \in File /\ k.edit = n
           /\ k.ename = f.ename /\ k.version = f.version
  BY SMT DEF File
<1>2. \A i \in 0 .. Foreign : LET k == [f EXCEPT !.ename = i]
       IN  /\ k \in File /\ k.ename = i
           /\ k.edit = f.edit /\ k.version = f.version
  BY SMT DEF File
<1>3. \A v \in 0 .. MaxReleases : LET k == [f EXCEPT !.version = v]
       IN  /\ k \in File /\ k.version = v
           /\ k.edit = f.edit /\ k.ename = f.ename
  BY SMT DEF File
<1>4. \A b \in BOOLEAN : LET k == [f EXCEPT !.valid = b]
       IN  /\ k \in File /\ k.valid = b
           /\ k.edit = f.edit /\ k.ename = f.ename /\ k.version = f.version
  BY SMT DEF File
<1>. QED  BY <1>1, <1>2, <1>3, <1>4

\* (One lemma per field: the provers find a fact about one term faster.)
LEMMA SetStatus ==
    ASSUME NEW j \in Job, NEW s \in Statuses
    PROVE  /\ [j EXCEPT !.status = s] \in Job /\ [j EXCEPT !.status = s].status = s
           /\ [j EXCEPT !.status = s].ename = j.ename /\ [j EXCEPT !.status = s].provisioned = j.provisioned
           /\ [j EXCEPT !.status = s].manifest = j.manifest /\ [j EXCEPT !.status = s].archive = j.archive
BY SMT DEF Job, Statuses

LEMMA SetTarget ==
    ASSUME NEW j \in Job, NEW n \in Nat
    PROVE  /\ [j EXCEPT !.target = n] \in Job /\ [j EXCEPT !.target = n].target = n
           /\ [j EXCEPT !.target = n].status = j.status /\ [j EXCEPT !.target = n].ename = j.ename
           /\ [j EXCEPT !.target = n].provisioned = j.provisioned /\ [j EXCEPT !.target = n].manifest = j.manifest
           /\ [j EXCEPT !.target = n].archive = j.archive
BY SMT DEF Job

LEMMA SetKey ==
    ASSUME NEW j \in Job, NEW e \in Event
    PROVE  /\ [j EXCEPT !.key = e] \in Job /\ [j EXCEPT !.key = e].key = e
           /\ [j EXCEPT !.key = e].status = j.status /\ [j EXCEPT !.key = e].ename = j.ename
           /\ [j EXCEPT !.key = e].provisioned = j.provisioned /\ [j EXCEPT !.key = e].manifest = j.manifest
           /\ [j EXCEPT !.key = e].archive = j.archive
BY SMT DEF Job

LEMMA SetEname ==
    ASSUME NEW j \in Job, NEW i \in 0 .. MaxIdentities
    PROVE  /\ [j EXCEPT !.ename = i] \in Job /\ [j EXCEPT !.ename = i].ename = i
           /\ [j EXCEPT !.ename = i].status = j.status /\ [j EXCEPT !.ename = i].provisioned = j.provisioned
           /\ [j EXCEPT !.ename = i].manifest = j.manifest /\ [j EXCEPT !.ename = i].archive = j.archive
BY SMT DEF Job

LEMMA SetProvisioned ==
    ASSUME NEW j \in Job, NEW b \in BOOLEAN
    PROVE  /\ [j EXCEPT !.provisioned = b] \in Job /\ [j EXCEPT !.provisioned = b].provisioned = b
           /\ [j EXCEPT !.provisioned = b].status = j.status /\ [j EXCEPT !.provisioned = b].ename = j.ename
           /\ [j EXCEPT !.provisioned = b].manifest = j.manifest /\ [j EXCEPT !.provisioned = b].archive = j.archive
BY SMT DEF Job

LEMMA SetManifest ==
    ASSUME NEW j \in Job, NEW f \in File
    PROVE  /\ [j EXCEPT !.manifest = f] \in Job /\ [j EXCEPT !.manifest = f].manifest = f
           /\ [j EXCEPT !.manifest = f].status = j.status /\ [j EXCEPT !.manifest = f].ename = j.ename
           /\ [j EXCEPT !.manifest = f].provisioned = j.provisioned /\ [j EXCEPT !.manifest = f].archive = j.archive
BY SMT DEF Job

LEMMA SetRelease ==
    ASSUME NEW j \in Job, NEW r \in 0 .. MaxReleases
    PROVE  /\ [j EXCEPT !.release = r] \in Job /\ [j EXCEPT !.release = r].release = r
           /\ [j EXCEPT !.release = r].status = j.status /\ [j EXCEPT !.release = r].ename = j.ename
           /\ [j EXCEPT !.release = r].provisioned = j.provisioned /\ [j EXCEPT !.release = r].manifest = j.manifest
           /\ [j EXCEPT !.release = r].archive = j.archive
BY SMT DEF Job

LEMMA SetArchive ==
    ASSUME NEW j \in Job, NEW b \in BOOLEAN
    PROVE  /\ [j EXCEPT !.archive = b] \in Job /\ [j EXCEPT !.archive = b].archive = b
           /\ [j EXCEPT !.archive = b].status = j.status /\ [j EXCEPT !.archive = b].ename = j.ename
           /\ [j EXCEPT !.archive = b].provisioned = j.provisioned /\ [j EXCEPT !.archive = b].manifest = j.manifest
BY SMT DEF Job

LEMMA SetDue ==
    ASSUME NEW j \in Job, NEW b \in BOOLEAN
    PROVE  /\ [j EXCEPT !.due = b] \in Job /\ [j EXCEPT !.due = b].due = b
           /\ [j EXCEPT !.due = b].status = j.status /\ [j EXCEPT !.due = b].ename = j.ename
           /\ [j EXCEPT !.due = b].provisioned = j.provisioned /\ [j EXCEPT !.due = b].manifest = j.manifest
           /\ [j EXCEPT !.due = b].archive = j.archive
BY SMT DEF Job

\* The edits that people make to the manifest, and webhooks and the worker to a record.
LEMMA FailedEdit ==
    ASSUME NEW j \in Job
    PROVE  LET k == [j EXCEPT !.status = "failed", !.due = FALSE]
           IN  k \in Job /\ SameContent(k, j) /\ k.status = "failed"
<1>. DEFINE a == [j EXCEPT !.status = "failed"]
            b == [a EXCEPT !.due = FALSE]
<1>1. [j EXCEPT !.status = "failed", !.due = FALSE] = b
  BY Zenon
<1>2. /\ a \in Job /\ a.status = "failed" /\ a.ename = j.ename
      /\ a.provisioned = j.provisioned /\ a.manifest = j.manifest /\ a.archive = j.archive
  BY SetStatus, Zenon DEF Statuses
<1>. HIDE DEF a
<1>3. /\ b \in Job /\ b.status = a.status /\ b.ename = a.ename
      /\ b.provisioned = a.provisioned /\ b.manifest = a.manifest /\ b.archive = a.archive
  BY <1>2, SetDue, Zenon DEF Statuses
<1>. HIDE DEF b
<1>. QED  BY <1>1, <1>2, <1>3, SMT DEF SameContent, SameIdentity

LEMMA IdentityEdit ==
    ASSUME NEW j \in Job, NEW i \in 0 .. MaxIdentities
    PROVE  LET k == [j EXCEPT !.ename = i, !.provisioned = FALSE]
           IN  /\ k \in Job /\ k.status = j.status /\ k.archive = j.archive
               /\ k.ename = i /\ ~k.provisioned
<1>. DEFINE a == [j EXCEPT !.ename = i]
            b == [a EXCEPT !.provisioned = FALSE]
<1>1. [j EXCEPT !.ename = i, !.provisioned = FALSE] = b
  BY Zenon
<1>2. /\ a \in Job /\ a.ename = i /\ a.status = j.status
      /\ a.provisioned = j.provisioned /\ a.manifest = j.manifest /\ a.archive = j.archive
  BY SetEname, Zenon
<1>. HIDE DEF a
<1>3. /\ b \in Job /\ b.provisioned = FALSE /\ b.status = a.status
      /\ b.ename = a.ename /\ b.manifest = a.manifest /\ b.archive = a.archive
  BY <1>2, SetProvisioned, Zenon
<1>. HIDE DEF b
<1>. QED  BY <1>1, <1>2, <1>3, SMT DEF SameContent, SameIdentity

LEMMA ScheduledEdit ==
    ASSUME PublicationAssumption, TypeOK, NEW event \in Event
    PROVE  /\ Scheduled(event) \in Job /\ SameContent(Scheduled(event), row)
           /\ Scheduled(event).status \in {"failed", "identity_pending", "publishing"}
<1>. DEFINE n == IF event.sha # 0 THEN event.sha ELSE row.target
            s == IF row.status = "failed" THEN "failed"
                 ELSE IF row.ename = 0 THEN "identity_pending" ELSE "publishing"
            a == [row EXCEPT !.target = n]
            b == [a EXCEPT !.archive = event.archive]
            c == [b EXCEPT !.key = event]
            d == [c EXCEPT !.due = TRUE]
<1>1. Scheduled(event) = [d EXCEPT !.status = s]
  BY Zenon DEF Scheduled
<1>2. /\ n \in Nat /\ s \in {"failed", "identity_pending", "publishing"} /\ s \in Statuses
      /\ row \in Job /\ event.archive \in BOOLEAN
  BY Fields DEF TypeOK, Statuses
<1>. HIDE DEF n, s
<1>3. a \in Job /\ SameContent(a, row)
  BY <1>2, SetTarget, Zenon DEF SameContent, SameIdentity
<1>. HIDE DEF a
<1>4. b \in Job /\ SameContent(b, a)
  BY <1>2, <1>3, SetArchive, Zenon DEF SameContent, SameIdentity
<1>. HIDE DEF b
<1>5. c \in Job /\ SameContent(c, b)
  BY <1>4, SetKey, Zenon DEF SameContent, SameIdentity
<1>. HIDE DEF c
<1>6. d \in Job /\ SameContent(d, c)
  BY <1>5, SetDue, Zenon DEF SameContent, SameIdentity
<1>. HIDE DEF d
<1>7. [d EXCEPT !.status = s] \in Job /\ SameContent([d EXCEPT !.status = s], d)
      /\ [d EXCEPT !.status = s].status = s
  BY <1>2, <1>6, SetStatus, Zenon DEF SameContent, SameIdentity
<1>. QED  BY <1>1, <1>2, <1>3, <1>4, <1>5, <1>6, <1>7 DEF SameContent, SameIdentity


\* All that is neither the worker's nor the record.
Rest == <<head, file, pushes, release, releases, hooks, registered, profile, handedOut>>

\* The inductive invariant.
IInv == TypeOK /\ StagesInv /\ NamesInv /\ EditsInv

\* A push changes the manifest and sends a webhook.
LEMMA PushManifestStep ==
    ASSUME PublicationAssumption, IInv, NEW ename \in {0, Foreign} \cup registered,
           NEW valid \in BOOLEAN, PushManifest(ename, valid)
    PROVE  IInv'
<1>. USE DEF IInv
<1>1. /\ pushes' = pushes + 1 /\ pushes' \in 0 .. MaxPushes /\ head' \in Nat
      /\ file' \in File /\ file'.edit = pushes' /\ file'.ename = ename /\ hooks' \subseteq Event
      /\ UNCHANGED <<release, releases, registered, profile, handedOut, row, pc, job,
                     manifest, base, faults>>
  <2>1. /\ pushes' = pushes + 1 /\ pushes' \in 0 .. MaxPushes /\ head' \in Nat
        /\ file' = [file EXCEPT !.edit = pushes', !.ename = ename, !.valid = valid]
        /\ hooks' = hooks \cup {Push(head')} /\ file \in File
        /\ UNCHANGED <<release, releases, registered, profile, handedOut, row, pc, job,
                       manifest, base, faults>>
    BY SMT DEF PushManifest, TypeOK, PublicationAssumption, outsideRepository, services, worker
  <2>2. ename \in 0 .. Foreign
    BY SMT DEF TypeOK, PublicationAssumption, Foreign, Identities
  <2>. DEFINE a == [file EXCEPT !.edit = pushes']
              b == [a EXCEPT !.ename = ename]
              c == [b EXCEPT !.valid = valid]
  <2>3. file' = c
    BY <2>1, Zenon
  <2>5. a \in File /\ a.edit = pushes'
    BY <2>1, FileField, Zenon
  <2>. HIDE DEF a
  <2>6. b \in File /\ b.edit = a.edit /\ b.ename = ename
    BY <2>2, <2>5, FileField, Zenon
  <2>. HIDE DEF b
  <2>7. c \in File /\ c.edit = b.edit /\ c.ename = b.ename
    BY <2>6, FileField, Zenon
  <2>. HIDE DEF c
  <2>4. hooks' \subseteq Event
    BY <2>1, Constants DEF TypeOK
  <2>. QED  BY <2>1, <2>3, <2>4, <2>5, <2>6, <2>7
<1>6. file'.ename \in Identities => file'.ename \in registered
  BY <1>1, SMT DEF Identities, Foreign, PublicationAssumption
<1>2. TypeOK'
  BY <1>1, <1>6, SMT DEF TypeOK, Identities, Foreign, PublicationAssumption, SameContent,
       SameIdentity, Reconciling, Statuses, Done
<1>3. StagesInv'
  BY <1>1, <1>6, Fields, SMT DEF TypeOK, Identities, Foreign, PublicationAssumption,
       SameContent, SameIdentity, StagesInv, PublishedTrue, Shown, Done, Unfinished, Settled,
       Reconciling
<1>4. NamesInv'
  BY <1>1, <1>6, Fields, SMT DEF TypeOK, Identities, Foreign, PublicationAssumption,
       SameContent, SameIdentity, NamesInv, StagesInv, Settled, Published, Reconciling
<1>5. EditsInv'
  BY <1>1, <1>6, Fields, SMT DEF TypeOK, Identities, Foreign, PublicationAssumption,
       SameContent, SameIdentity, EditsInv, Reconciling
<1>. HIDE DEF IInv
<1>. QED  BY <1>2, <1>3, <1>4, <1>5 DEF IInv

\* Without a manifest the job is dropped, or goes on with what it published last.
LEMMA FetchNothingStep ==
    ASSUME PublicationAssumption, IInv, FetchNothing
    PROVE  IInv'
<1>. USE DEF IInv
<1>1. /\ pc = "fetch" /\ file = NoFile /\ UNCHANGED <<Rest, row, base, faults>>
      /\ \/ pc' = "delete" /\ UNCHANGED <<job, manifest>>
         \/ /\ pc' = "fetched" /\ job' \in Job /\ job'.archive /\ job'.status = job.status
            /\ job'.ename = job.ename /\ job'.provisioned
            /\ job.ename # 0 /\ job.ename \in registered
            /\ manifest' = job.manifest /\ manifest' \in File
  <2>1. CASE Unpublished(job)
    BY <2>1, Zenon DEF FetchNothing, Goto, outsideWorker, repository, services, Rest
  <2>2. CASE ~Unpublished(job)
    <3>1. /\ job' = [job EXCEPT !.archive = TRUE, !.provisioned = TRUE] /\ job \in Job
          /\ pc' = "fetched" /\ manifest' = job.manifest /\ job.ename # 0
      BY <2>2, Zenon DEF FetchNothing, Goto, TypeOK, Unpublished
    <3>. DEFINE a == [job EXCEPT !.archive = TRUE]
                b == [a EXCEPT !.provisioned = TRUE]
    <3>4. job' = b
      BY <3>1, Zenon
    <3>5. a \in Job /\ a.archive /\ a.status = job.status /\ a.ename = job.ename
      BY <3>1, SetArchive, Zenon
    <3>. HIDE DEF a
    <3>6. b \in Job /\ b.archive = a.archive /\ b.status = a.status /\ b.ename = a.ename /\ b.provisioned
      BY <3>5, SetProvisioned, Zenon
    <3>. HIDE DEF b
    <3>2. /\ job' \in Job /\ job'.archive /\ job'.status = job.status
          /\ job'.ename = job.ename /\ job'.provisioned
      BY <3>4, <3>5, <3>6
    <3>7. job.ename \in registered
      BY <2>2, Zenon DEF Unpublished, NamesInv
    <3>3. manifest' \in File
      BY <3>1, Fields
    <3>. QED  BY <3>1, <3>2, <3>3, <3>7, Zenon DEF FetchNothing, outsideWorker, repository, services, Rest
  <2>. QED  BY <2>1, <2>2
<1>2. TypeOK'
  BY <1>1, Constants, SMT DEF Rest, TypeOK, Identities, Foreign, PublicationAssumption,
       SameContent, SameIdentity, Reconciling, Statuses, Done
<1>3. StagesInv'
  BY <1>1, Constants, Fields, SMT DEF Rest, TypeOK, SameContent, SameIdentity, StagesInv,
       PublishedTrue, Shown, Done, Unfinished, Settled
<1>4. NamesInv'
  BY <1>1, Constants, Fields, SMT DEF Rest, TypeOK, Identities, Foreign, PublicationAssumption,
       SameContent, SameIdentity, NamesInv, StagesInv, Settled, Published, Reconciling
<1>5. EditsInv'
  BY <1>1, Constants, Fields, SMT DEF Rest, TypeOK, Identities, Foreign, PublicationAssumption,
       SameContent, SameIdentity, EditsInv, Reconciling
<1>. HIDE DEF IInv
<1>. QED  BY <1>2, <1>3, <1>4, <1>5 DEF IInv

\* The copy is saved with the name that the record has.
LEMMA MarkPublishingStep ==
    ASSUME PublicationAssumption, IInv, MarkPublishing
    PROVE  IInv'
<1>. USE DEF IInv
<1>1. /\ pc = "fetched" /\ pc' = "marked" /\ UNCHANGED <<Rest, manifest, base, faults>>
      /\ job' \in Job /\ row' = job' /\ SameContent(job', job)
      /\ job'.status = "publishing" /\ job'.archive = job.archive
  <2>1. job' = [job EXCEPT !.status = "publishing"] /\ job \in Job /\ "publishing" \in Statuses
    BY Zenon DEF MarkPublishing, TypeOK, Statuses
  <2>2. /\ job' \in Job /\ SameContent(job', job)
        /\ job'.status = "publishing" /\ job'.archive = job.archive
    BY <2>1, SetStatus, Zenon DEF SameContent, SameIdentity
  <2>. QED  BY <2>2, Zenon DEF MarkPublishing, Goto, Save, outsideWorker, repository, services, Rest
<1>2. TypeOK'
  BY <1>1, SMT DEF Rest, TypeOK, Identities, Foreign, PublicationAssumption, SameContent,
       SameIdentity, Reconciling, Statuses, Done
<1>3. StagesInv'
  BY <1>1, Fields, SMT DEF Rest, TypeOK, Identities, Foreign, PublicationAssumption,
       SameContent, SameIdentity, StagesInv, PublishedTrue, Shown, Done, Unfinished, Settled,
       Reconciling
<1>4. NamesInv'
  BY <1>1, Fields, SMT DEF Rest, TypeOK, Identities, Foreign, PublicationAssumption,
       SameContent, SameIdentity, NamesInv, StagesInv, Settled, Published, Reconciling
<1>5. EditsInv'
  BY <1>1, Fields, SMT DEF Rest, TypeOK, Identities, Foreign, PublicationAssumption,
       SameContent, SameIdentity, EditsInv, Reconciling
<1>. HIDE DEF IInv
<1>. QED  BY <1>2, <1>3, <1>4, <1>5 DEF IInv

\* Reserving an eName, the first or a replacement.
LEMMA IdentifyEffect ==
    ASSUME PublicationAssumption, TypeOK, NextIdentity, job' = Identified
    PROVE  /\ handedOut' \in 1 .. MaxIdentities /\ job' \in Job /\ job'.ename = handedOut'
           /\ ~job'.provisioned /\ job'.status = job.status /\ job'.archive = job.archive
<1>1. handedOut' \in 1 .. MaxIdentities /\ handedOut' \in 0 .. MaxIdentities /\ job \in Job
  BY SMT DEF NextIdentity, TypeOK, PublicationAssumption
<1>. QED  BY <1>1, IdentityEdit, Zenon DEF Identified

\* The release sets the version only.
LEMMA ReadReleaseStep ==
    ASSUME PublicationAssumption, IInv, ReadRelease
    PROVE  IInv'
<1>. USE DEF IInv
<1>1. /\ Named /\ ~job.archive /\ pc' = "released" /\ UNCHANGED <<Rest, row, base, faults>>
      /\ job' \in Job /\ SameContent(job', job) /\ job'.status = job.status
      /\ job'.archive = job.archive
      /\ manifest' \in File /\ manifest'.edit = manifest.edit /\ manifest'.ename = manifest.ename
  <2>. DEFINE v == IF release = 0 THEN manifest.version ELSE release
  <2>1. /\ job \in Job /\ manifest \in File /\ release \in 0 .. MaxReleases
        /\ v \in 0 .. MaxReleases
        /\ job' = [job EXCEPT !.release = release] /\ manifest' = [manifest EXCEPT !.version = v]
    BY Fields, Zenon DEF ReadRelease, TypeOK
  <2>. HIDE DEF v
  <2>2. /\ job' \in Job /\ SameContent(job', job) /\ job'.status = job.status
        /\ job'.archive = job.archive
    BY <2>1, SetRelease, Zenon DEF SameContent, SameIdentity
  <2>3. manifest' \in File /\ manifest'.edit = manifest.edit /\ manifest'.ename = manifest.ename
    BY <2>1, FileField, Zenon
  <2>. QED  BY <2>2, <2>3, Zenon DEF ReadRelease, Goto, outsideWorker, repository, services, Rest
<1>2. TypeOK'
  BY <1>1, SMT DEF Rest, Named, Marked, SameName, TypeOK, Identities, Foreign,
       PublicationAssumption, SameContent, SameIdentity, Reconciling, Statuses, Done
<1>3. StagesInv'
  BY <1>1, Fields, SMT DEF Rest, Named, Marked, SameName, TypeOK, Identities, Foreign,
       PublicationAssumption, SameContent, SameIdentity, StagesInv, PublishedTrue, Shown, Done,
       Unfinished, Settled, Reconciling
<1>4. NamesInv'
  BY <1>1, Fields, SMT DEF Rest, Named, Marked, SameName, TypeOK, Identities, Foreign,
       PublicationAssumption, SameContent, SameIdentity, NamesInv, StagesInv, Settled,
       Published, Reconciling
<1>5. EditsInv'
  BY <1>1, Fields, SMT DEF Rest, Named, Marked, SameName, TypeOK, Identities, Foreign,
       PublicationAssumption, SameContent, SameIdentity, EditsInv, Reconciling
<1>. HIDE DEF IInv
<1>. QED  BY <1>2, <1>3, <1>4, <1>5 DEF IInv

\* The first eName.
LEMMA PrepareIdentityStep ==
    ASSUME PublicationAssumption, IInv, PrepareIdentity
    PROVE  IInv'
<1>. USE DEF IInv
<1>1. /\ Marked /\ SameName /\ job.ename = 0 /\ pc' = "prepared"
      /\ handedOut' \in 1 .. MaxIdentities /\ job' \in Job /\ job'.ename = handedOut'
      /\ ~job'.provisioned /\ job'.status = job.status /\ job'.archive = job.archive
      /\ UNCHANGED <<repository, hooks, registered, profile, row, manifest, base, faults>>
  <2>1. NextIdentity /\ job' = Identified
    BY Zenon DEF PrepareIdentity
  <2>. QED  BY <2>1, IdentifyEffect, Zenon DEF PrepareIdentity, Goto
<1>2. TypeOK'
  BY <1>1, SMT DEF repository, Marked, SameName, TypeOK, Identities, Foreign,
       PublicationAssumption, SameContent, SameIdentity, Reconciling, Statuses, Done
<1>3. StagesInv'
  BY <1>1, Fields, SMT DEF repository, Marked, SameName, TypeOK, Identities, Foreign,
       PublicationAssumption, SameContent, SameIdentity, StagesInv, PublishedTrue, Shown, Done,
       Unfinished, Settled, Reconciling
<1>4. NamesInv'
  BY <1>1, Fields, SMT DEF repository, Marked, SameName, TypeOK, Identities, Foreign,
       PublicationAssumption, SameContent, SameIdentity, NamesInv, StagesInv, Settled,
       Published, Reconciling
<1>5. EditsInv'
  BY <1>1, Fields, SMT DEF repository, Marked, SameName, TypeOK, Identities, Foreign,
       PublicationAssumption, SameContent, SameIdentity, EditsInv, Reconciling
<1>. HIDE DEF IInv
<1>. QED  BY <1>2, <1>3, <1>4, <1>5 DEF IInv

\* A name is replaced only if it has no eVault.
LEMMA ReplaceExpiredStep ==
    ASSUME PublicationAssumption, IInv, ReplaceExpired
    PROVE  IInv'
<1>. USE DEF IInv
<1>1. /\ Released /\ ~job.provisioned /\ job.ename \notin registered /\ pc' = "rotated"
      /\ faults' \in 0 .. MaxFaults
      /\ handedOut' \in 1 .. MaxIdentities /\ job' \in Job /\ job'.ename = handedOut'
      /\ ~job'.provisioned /\ job'.status = job.status /\ job'.archive = job.archive
      /\ UNCHANGED <<repository, hooks, registered, profile, row, manifest, base>>
  <2>1. NextIdentity /\ job' = Identified
    BY Zenon DEF ReplaceExpired
  <2>2. faults' \in 0 .. MaxFaults
    BY SMT DEF ReplaceExpired, Fault, TypeOK, PublicationAssumption
  <2>. QED  BY <2>1, <2>2, IdentifyEffect, Zenon DEF ReplaceExpired, Goto
<1>2. TypeOK'
  BY <1>1, SMT DEF repository, Released, Named, Marked, SameName, TypeOK, Identities, Foreign,
       PublicationAssumption, SameContent, SameIdentity, Reconciling, Statuses, Done
<1>3. StagesInv'
  BY <1>1, Fields, SMT DEF repository, Released, Named, Marked, SameName, TypeOK, Identities,
       Foreign, PublicationAssumption, SameContent, SameIdentity, StagesInv, PublishedTrue,
       Shown, Done, Unfinished, Settled, Reconciling
<1>4. NamesInv'
  BY <1>1, Fields, SMT DEF repository, Released, Named, Marked, SameName, TypeOK, Identities,
       Foreign, PublicationAssumption, SameContent, SameIdentity, NamesInv, StagesInv, Settled,
       Published, Reconciling
<1>5. EditsInv'
  BY <1>1, Fields, SMT DEF repository, Released, Named, Marked, SameName, TypeOK, Identities,
       Foreign, PublicationAssumption, SameContent, SameIdentity, EditsInv, Reconciling
<1>. HIDE DEF IInv
<1>. QED  BY <1>2, <1>3, <1>4, <1>5 DEF IInv

\* The name of the record has an eVault from here on.
LEMMA ProvisionStep ==
    ASSUME PublicationAssumption, IInv, Provision
    PROVE  IInv'
<1>. USE DEF IInv
<1>1. /\ Released /\ ~job.provisioned /\ pc' = "provisioned"
      /\ registered' = registered \cup {job.ename}
      /\ job' \in Job /\ job'.provisioned /\ job'.ename = job.ename
      /\ job'.status = job.status /\ job'.archive = job.archive
      /\ UNCHANGED <<repository, hooks, profile, handedOut, row, manifest, base, faults>>
  <2>1. job' = [job EXCEPT !.provisioned = TRUE] /\ job \in Job
    BY Zenon DEF Provision, TypeOK
  <2>2. /\ job' \in Job /\ job'.provisioned /\ job'.ename = job.ename
        /\ job'.status = job.status /\ job'.archive = job.archive
    BY <2>1, SetProvisioned, Zenon
  <2>. QED  BY <2>2, Zenon DEF Provision, Goto
<1>6. job.ename # 0 /\ row.ename = job.ename /\ job.ename \in Identities
  BY <1>1, Fields, SMT DEF TypeOK, StagesInv, NamesInv, Settled, Identities, Released, Named, Marked, SameName
<1>2. TypeOK'
  BY <1>1, <1>6, SMT DEF repository, Released, Named, Marked, SameName, TypeOK, SameContent,
       SameIdentity, Reconciling, Statuses, Done
<1>3. StagesInv'
  BY <1>1, <1>6, Fields, SMT DEF repository, Released, Named, Marked, SameName, TypeOK,
       Identities, Foreign, PublicationAssumption, SameContent, SameIdentity, StagesInv,
       PublishedTrue, Shown, Done, Unfinished, Settled, Reconciling
<1>4. NamesInv'
  BY <1>1, <1>6, Fields, SMT DEF repository, Released, Named, Marked, SameName, TypeOK,
       Identities, Foreign, PublicationAssumption, SameContent, SameIdentity, NamesInv,
       StagesInv, Settled, Published, Reconciling
<1>5. EditsInv'
  BY <1>1, <1>6, Fields, SMT DEF repository, Released, Named, Marked, SameName, TypeOK,
       Identities, Foreign, PublicationAssumption, SameContent, SameIdentity, EditsInv,
       Reconciling
<1>. HIDE DEF IInv
<1>. QED  BY <1>2, <1>3, <1>4, <1>5 DEF IInv

\* The replacement is written over the name in the manifest.
LEMMA ProvisionReplacementStep ==
    ASSUME PublicationAssumption, IInv, ProvisionReplacement
    PROVE  IInv'
<1>. USE DEF IInv
<1>1. /\ pc = "reprovision" /\ pc' = "provisioned"
      /\ registered' = registered \cup {job.ename}
      /\ job' \in Job /\ job'.provisioned /\ job'.ename = job.ename
      /\ job'.status = job.status /\ job'.archive = job.archive
      /\ manifest' \in File /\ manifest'.edit = manifest.edit /\ manifest'.ename = job.ename
      /\ UNCHANGED <<repository, hooks, profile, handedOut, row, base, faults>>
  <2>1. job' = [job EXCEPT !.provisioned = TRUE] /\ job \in Job
    BY Zenon DEF ProvisionReplacement, TypeOK
  <2>2. /\ job' \in Job /\ job'.provisioned /\ job'.ename = job.ename
        /\ job'.status = job.status /\ job'.archive = job.archive
    BY <2>1, SetProvisioned, Zenon
  <2>3. manifest \in File /\ job.ename \in 0 .. Foreign
    BY Fields, SMT DEF TypeOK, PublicationAssumption, Foreign
  <2>4. manifest' = [manifest EXCEPT !.ename = job.ename]
    BY Zenon DEF ProvisionReplacement
  <2>5. manifest' \in File /\ manifest'.edit = manifest.edit /\ manifest'.ename = job.ename
    BY <2>3, <2>4, FileField, Zenon
  <2>. QED  BY <2>2, <2>5, Zenon DEF ProvisionReplacement, Goto
<1>6. job.ename # 0 /\ row.ename = job.ename /\ job.ename \in Identities
  BY <1>1, Fields, SMT DEF TypeOK, StagesInv, NamesInv, Settled, Identities
<1>2. TypeOK'
  BY <1>1, <1>6, SMT DEF repository, TypeOK, SameContent, SameIdentity, Reconciling, Statuses,
       Done
<1>3. StagesInv'
  BY <1>1, <1>6, Fields, SMT DEF repository, TypeOK, Identities, Foreign,
       PublicationAssumption, SameContent, SameIdentity, StagesInv, PublishedTrue, Shown, Done,
       Unfinished, Settled, Reconciling
<1>4. NamesInv'
  BY <1>1, <1>6, Fields, SMT DEF repository, TypeOK, Identities, Foreign,
       PublicationAssumption, SameContent, SameIdentity, NamesInv, StagesInv, Settled,
       Published, Reconciling
<1>5. EditsInv'
  BY <1>1, <1>6, Fields, SMT DEF repository, TypeOK, Identities, Foreign,
       PublicationAssumption, SameContent, SameIdentity, EditsInv, Reconciling
<1>. HIDE DEF IInv
<1>. QED  BY <1>2, <1>3, <1>4, <1>5 DEF IInv

\* The manifest that is committed and published has the name of the job.
LEMMA DesiredEffect ==
    ASSUME TypeOK, PublicationAssumption
    PROVE  /\ Desired \in File /\ Desired.edit = manifest.edit /\ Desired.version = manifest.version
           /\ manifest.ename = 0 => Desired.ename = job.ename
           /\ manifest.ename # 0 => Desired.ename = manifest.ename
<1>1. manifest \in File /\ job.ename \in 0 .. Foreign
  BY Fields, SMT DEF TypeOK, PublicationAssumption, Foreign
<1>2. CASE manifest.ename = 0
  BY <1>1, <1>2, FileField, Zenon DEF Desired
<1>3. CASE manifest.ename # 0
  BY <1>1, <1>3, Zenon DEF Desired
<1>. QED  BY <1>2, <1>3

\* A commit replaces the manifest that was read by one with the name of the job.
LEMMA CommitManifestStep ==
    ASSUME PublicationAssumption, IInv, NEW ok \in BOOLEAN, CommitManifest(ok)
    PROVE  IInv'
<1>. USE DEF IInv
<1>1. /\ Provisioned /\ ~job.archive /\ file = base
      /\ head' \in Nat /\ hooks' \subseteq Event /\ faults' \in 0 .. MaxFaults
      /\ file' = manifest' /\ file' \in File /\ file'.edit = manifest.edit
      /\ manifest.ename = 0 => file'.ename = job.ename
      /\ manifest.ename # 0 => file'.ename = manifest.ename
      /\ pc' \in {"written", "failed"}
      /\ UNCHANGED <<pushes, release, releases, services, row, job, base>>
  <2>1. head' \in Nat /\ faults' \in 0 .. MaxFaults
    BY SMT DEF CommitManifest, Fault, TypeOK, PublicationAssumption
  <2>2. hooks' \subseteq Event
    BY <2>1, Constants, Zenon DEF CommitManifest, TypeOK
  <2>. QED  BY <2>1, <2>2, DesiredEffect, Zenon DEF CommitManifest, Changed, Replaceable, Goto
<1>6. /\ job.ename # 0 /\ row.ename = job.ename /\ job.provisioned
      /\ manifest.ename \in {0, job.ename} /\ pc \in Reconciling \ {"fetch"}
      /\ job.ename \in registered /\ job.ename \in Identities
  BY <1>1, Fields, SMT DEF TypeOK, StagesInv, NamesInv, Settled, Reconciling, Identities, Provisioned,
       Released, Named, Marked, SameName
<1>2. TypeOK'
  BY <1>1, <1>6, SMT DEF services, TypeOK, Identities, Foreign, PublicationAssumption,
       SameContent, SameIdentity, Reconciling, Statuses, Done
<1>3. StagesInv'
  BY <1>1, <1>6, Fields, SMT DEF services, TypeOK, Identities, Foreign, PublicationAssumption,
       SameContent, SameIdentity, StagesInv, PublishedTrue, Shown, Done, Unfinished, Settled,
       Reconciling
<1>4. NamesInv'
  BY <1>1, <1>6, Fields, SMT DEF services, TypeOK, Identities, Foreign, PublicationAssumption,
       SameContent, SameIdentity, NamesInv, StagesInv, Settled, Published, Reconciling
<1>5. EditsInv'
  BY <1>1, <1>6, Fields, SMT DEF services, TypeOK, Identities, Foreign, PublicationAssumption,
       SameContent, SameIdentity, EditsInv, Reconciling
<1>. HIDE DEF IInv
<1>. QED  BY <1>2, <1>3, <1>4, <1>5 DEF IInv

\* The profile is written under the name of the job, which has an eVault.
LEMMA PublishProfileStep ==
    ASSUME PublicationAssumption, IInv, NEW ok \in BOOLEAN, PublishProfile(ok)
    PROVE  IInv'
<1>. USE DEF IInv
<1>1. /\ Provisioned \/ pc = "written"
      /\ faults' \in 0 .. MaxFaults /\ pc' \in {"published", "failed"}
      /\ profile' = [profile EXCEPT ![Desired.ename] =
                       [edit |-> manifest.edit, version |-> manifest.version,
                        archived |-> job.archive]]
      /\ [edit |-> manifest.edit, version |-> manifest.version,
          archived |-> job.archive] \in Profile
      /\ UNCHANGED <<repository, hooks, registered, handedOut, row, job, manifest, base>>
  <2>1. faults' \in 0 .. MaxFaults
    BY SMT DEF PublishProfile, Fault, TypeOK, PublicationAssumption
  <2>2. [edit |-> manifest.edit, version |-> manifest.version, archived |-> job.archive] \in Profile
    BY Fields, SMT DEF TypeOK, Profile
  <2>. QED  BY <2>1, <2>2, Zenon DEF PublishProfile, Goto
<1>6. /\ Desired.ename = job.ename /\ job.ename # 0 /\ row.ename = job.ename /\ job.provisioned
      /\ manifest.ename \in {0, job.ename} /\ pc \in Reconciling \ {"fetch"}
      /\ job.ename \in registered /\ job.ename \in Identities
  BY <1>1, Fields, DesiredEffect, SMT DEF TypeOK, StagesInv, NamesInv, Settled, Reconciling, Identities, Provisioned,
       Released, Named, Marked, SameName
<1>2. TypeOK'
  BY <1>1, <1>6, DesiredEffect, SMT DEF repository, TypeOK, Identities, Foreign,
       PublicationAssumption, SameContent, SameIdentity, Reconciling, Statuses, Done
<1>3. StagesInv'
  BY <1>1, <1>6, DesiredEffect, Fields, SMT DEF repository, TypeOK, Identities, Foreign,
       PublicationAssumption, SameContent, SameIdentity, StagesInv, PublishedTrue, Shown, Done,
       Unfinished, Settled, Reconciling
<1>4. NamesInv'
  BY <1>1, <1>6, DesiredEffect, Fields, SMT DEF repository, TypeOK, Identities, Foreign,
       PublicationAssumption, SameContent, SameIdentity, NamesInv, StagesInv, Settled,
       Published, Reconciling
<1>5. EditsInv'
  BY <1>1, <1>6, DesiredEffect, Fields, SMT DEF repository, TypeOK, Identities, Foreign,
       PublicationAssumption, SameContent, SameIdentity, EditsInv, Reconciling
<1>. HIDE DEF IInv
<1>. QED  BY <1>2, <1>3, <1>4, <1>5 DEF IInv

\* What Reconcile left of the copy is saved, and its name may be a replacement.
LEMMA SaveFailedStep ==
    ASSUME PublicationAssumption, IInv, SaveFailed
    PROVE  IInv'
<1>. USE DEF IInv
<1>1. /\ pc = "failed" /\ EndPass /\ UNCHANGED <<Rest, faults>>
      /\ row' \in Job /\ SameContent(row', job) /\ row'.status = "failed"
  <2>1. row' \in Job /\ SameContent(row', job) /\ row'.status = "failed"
    BY FailedEdit, Zenon DEF TypeOK, SaveFailed, Save
  <2>. QED  BY <2>1, Zenon DEF SaveFailed, outsideWorker, repository, services, Rest
<1>2. TypeOK'
  BY <1>1, Constants, SMT DEF Rest, EndPass, TypeOK, Identities, Foreign,
       PublicationAssumption, SameContent, SameIdentity, Reconciling, Statuses, Done
<1>3. StagesInv'
  BY <1>1, Constants, Fields, SMT DEF Rest, EndPass, TypeOK, Identities, Foreign,
       PublicationAssumption, SameContent, SameIdentity, StagesInv, PublishedTrue, Shown, Done,
       Unfinished, Settled, Reconciling
<1>4. NamesInv'
  BY <1>1, Constants, Fields, SMT DEF Rest, EndPass, TypeOK, Identities, Foreign,
       PublicationAssumption, SameContent, SameIdentity, NamesInv, StagesInv, Settled,
       Published, Reconciling
<1>5. EditsInv'
  BY <1>1, Constants, Fields, SMT DEF Rest, EndPass, TypeOK, Identities, Foreign,
       PublicationAssumption, SameContent, SameIdentity, EditsInv, Reconciling
<1>. HIDE DEF IInv
<1>. QED  BY <1>2, <1>3, <1>4, <1>5 DEF IInv

\* The end of a backoff changes nothing else.
LEMMA BackoffEndsStep ==
    ASSUME PublicationAssumption, IInv, BackoffEnds
    PROVE  IInv'
<1>. USE DEF IInv
<1>1. /\ row' \in Job /\ SameContent(row', row) /\ row'.status = row.status
      /\ UNCHANGED <<Rest, worker, faults>>
  <2>1. row' \in Job /\ SameContent(row', row) /\ row'.status = row.status
    BY SetDue, Zenon DEF TypeOK, BackoffEnds, Save, SameContent, SameIdentity
  <2>. QED  BY <2>1, Zenon DEF BackoffEnds, outsideWorker, repository, services, Rest
<1>2. TypeOK'
  BY <1>1, SMT DEF Rest, worker, TypeOK, Identities, Foreign, PublicationAssumption,
       SameContent, SameIdentity, Reconciling, Statuses, Done
<1>3. StagesInv'
  BY <1>1, Fields, SMT DEF Rest, worker, TypeOK, Identities, Foreign, PublicationAssumption,
       SameContent, SameIdentity, StagesInv, PublishedTrue, Shown, Done, Unfinished, Settled,
       Reconciling
<1>4. NamesInv'
  BY <1>1, Fields, SMT DEF Rest, worker, TypeOK, Identities, Foreign, PublicationAssumption,
       SameContent, SameIdentity, NamesInv, StagesInv, Settled, Published, Reconciling
<1>5. EditsInv'
  BY <1>1, Fields, SMT DEF Rest, worker, TypeOK, Identities, Foreign, PublicationAssumption,
       SameContent, SameIdentity, EditsInv, Reconciling
<1>. HIDE DEF IInv
<1>. QED  BY <1>2, <1>3, <1>4, <1>5 DEF IInv

\* The record says published, or archived, of the profile just written.
LEMMA SavePublishedStep ==
    ASSUME PublicationAssumption, IInv, SavePublished
    PROVE  IInv'
<1>. USE DEF IInv
<1>1. /\ pc = "published" /\ EndPass /\ UNCHANGED <<Rest, faults>>
      /\ row' \in Job /\ SameIdentity(row', job) /\ row'.manifest = Desired
      /\ row'.status = IF job.archive THEN "archived" ELSE "published"
  <2>. DEFINE s == IF job.archive THEN "archived" ELSE "published"
  <2>1. /\ s \in Statuses /\ Desired \in File /\ job \in Job
        /\ row' = [job EXCEPT !.manifest = Desired, !.due = TRUE, !.status = s]
    BY DesiredEffect, Zenon DEF TypeOK, SavePublished, Save, Statuses
  <2>. HIDE DEF s
  <2>. DEFINE a == [job EXCEPT !.manifest = Desired]
              b == [a EXCEPT !.due = TRUE]
              c == [b EXCEPT !.status = s]
  <2>2. row' = c
    BY <2>1, Zenon
  <2>3. a \in Job /\ a.manifest = Desired /\ SameIdentity(a, job)
    BY <2>1, SetManifest, Zenon DEF SameIdentity
  <2>. HIDE DEF a
  <2>4. b \in Job /\ SameContent(b, a)
    BY <2>3, SetDue, Zenon DEF SameIdentity, SameContent
  <2>. HIDE DEF b
  <2>5. c \in Job /\ SameContent(c, b) /\ c.status = s
    BY <2>1, <2>4, SetStatus, Zenon DEF SameIdentity, SameContent
  <2>. HIDE DEF c
  <2>6. row' \in Job /\ SameIdentity(row', job) /\ row'.manifest = Desired /\ row'.status = s
    BY <2>2, <2>3, <2>4, <2>5, Zenon DEF SameIdentity, SameContent
  <2>. QED  BY <2>6, Zenon DEF s, SavePublished, outsideWorker, repository, services, Rest
<1>2. TypeOK'
  BY <1>1, Constants, DesiredEffect, SMT DEF Rest, EndPass, TypeOK, Identities, Foreign,
       PublicationAssumption, SameContent, SameIdentity, Reconciling, Statuses, Done
<1>3. StagesInv'
  BY <1>1, Constants, DesiredEffect, Fields, SMT DEF Rest, EndPass, TypeOK, Identities,
       Foreign, PublicationAssumption, SameContent, SameIdentity, StagesInv, PublishedTrue,
       Shown, Done, Unfinished, Settled, Reconciling
<1>4. NamesInv'
  BY <1>1, Constants, DesiredEffect, Fields, SMT DEF Rest, EndPass, TypeOK, Identities,
       Foreign, PublicationAssumption, SameContent, SameIdentity, NamesInv, StagesInv, Settled,
       Published, Reconciling
<1>5. EditsInv'
  BY <1>1, Constants, DesiredEffect, Fields, SMT DEF Rest, EndPass, TypeOK, Identities,
       Foreign, PublicationAssumption, SameContent, SameIdentity, EditsInv, Reconciling
<1>. HIDE DEF IInv
<1>. QED  BY <1>2, <1>3, <1>4, <1>5 DEF IInv

\* A webhook keeps the record's name and never says that it is published.
LEMMA DeliverStep ==
    ASSUME PublicationAssumption, IInv, NEW event \in hooks, NEW again \in BOOLEAN,
           Deliver(event, again)
    PROVE  IInv'
<1>. USE DEF IInv
<1>1. /\ UNCHANGED <<repository, services, worker>>
      /\ hooks' \subseteq Event /\ faults' \in 0 .. MaxFaults
      /\ \/ row' = row
         \/ /\ row' \in Job /\ SameContent(row', row)
            /\ row'.status \in {"failed", "identity_pending", "publishing"}
  <2>1. event \in Event /\ hooks' \subseteq Event
    BY Zenon DEF TypeOK, Deliver
  <2>2. faults' \in 0 .. MaxFaults
    BY SMT DEF TypeOK, Deliver, Fault, PublicationAssumption
  <2>3. row' = row \/ row' = Scheduled(event)
    BY Zenon DEF Deliver, Schedule
  <2>. QED  BY <2>1, <2>2, <2>3, ScheduledEdit, Zenon DEF Deliver
<1>2. TypeOK'
  BY <1>1, SMT DEF repository, services, worker, TypeOK, Identities, Foreign,
       PublicationAssumption, SameContent, SameIdentity, Reconciling, Statuses, Done
<1>3. StagesInv'
  BY <1>1, Fields, SMT DEF repository, services, worker, TypeOK, Identities, Foreign,
       PublicationAssumption, SameContent, SameIdentity, StagesInv, PublishedTrue, Shown, Done,
       Unfinished, Settled, Reconciling
<1>4. NamesInv'
  BY <1>1, Fields, SMT DEF repository, services, worker, TypeOK, Identities, Foreign,
       PublicationAssumption, SameContent, SameIdentity, NamesInv, StagesInv, Settled,
       Published, Reconciling
<1>5. EditsInv'
  BY <1>1, Fields, SMT DEF repository, services, worker, TypeOK, Identities, Foreign,
       PublicationAssumption, SameContent, SameIdentity, EditsInv, Reconciling
<1>. HIDE DEF IInv
<1>. QED  BY <1>2, <1>3, <1>4, <1>5 DEF IInv

\* Every step keeps the invariant.
LEMMA NextStep ==
    ASSUME PublicationAssumption, IInv, [Next]_vars
    PROVE  IInv'
<1>. USE DEF IInv
<1>1. ASSUME RemoveManifest PROVE IInv'
  <2>1. TypeOK'
    BY <1>1, Constants, SMT DEF RemoveManifest, outsideRepository, services, worker, TypeOK,
         Identities, Foreign, PublicationAssumption, SameContent, SameIdentity, Reconciling,
         Statuses, Done
  <2>2. StagesInv'
    BY <1>1, Constants, Fields, SMT DEF RemoveManifest, outsideRepository, services, worker,
         TypeOK, Identities, Foreign, PublicationAssumption, SameContent, SameIdentity,
         StagesInv, PublishedTrue, Shown, Done, Unfinished, Settled, Reconciling
  <2>3. NamesInv'
    BY <1>1, Constants, Fields, SMT DEF RemoveManifest, outsideRepository, services, worker,
         TypeOK, Identities, Foreign, PublicationAssumption, SameContent, SameIdentity,
         NamesInv, StagesInv, Settled, Published, Reconciling
  <2>4. EditsInv'
    BY <1>1, Constants, Fields, SMT DEF RemoveManifest, outsideRepository, services, worker,
         TypeOK, Identities, Foreign, PublicationAssumption, SameContent, SameIdentity,
         EditsInv, Reconciling
  <2>. QED  BY <2>1, <2>2, <2>3, <2>4
<1>2. ASSUME ChangeRelease PROVE IInv'
  <2>1. TypeOK'
    BY <1>2, Constants, SMT DEF ChangeRelease, outsideRepository, services, worker, TypeOK,
         Identities, Foreign, PublicationAssumption, SameContent, SameIdentity, Reconciling,
         Statuses, Done
  <2>2. StagesInv'
    BY <1>2, Constants, Fields, SMT DEF ChangeRelease, outsideRepository, services, worker,
         TypeOK, Identities, Foreign, PublicationAssumption, SameContent, SameIdentity,
         StagesInv, PublishedTrue, Shown, Done, Unfinished, Settled, Reconciling
  <2>3. NamesInv'
    BY <1>2, Constants, Fields, SMT DEF ChangeRelease, outsideRepository, services, worker,
         TypeOK, Identities, Foreign, PublicationAssumption, SameContent, SameIdentity,
         NamesInv, StagesInv, Settled, Published, Reconciling
  <2>4. EditsInv'
    BY <1>2, Constants, Fields, SMT DEF ChangeRelease, outsideRepository, services, worker,
         TypeOK, Identities, Foreign, PublicationAssumption, SameContent, SameIdentity,
         EditsInv, Reconciling
  <2>. QED  BY <2>1, <2>2, <2>3, <2>4
<1>3. ASSUME Load PROVE IInv'
  <2>1. TypeOK'
    BY <1>3, SMT DEF Load, outsideWorker, repository, services, Goto, Ready, TypeOK,
         Identities, Foreign, PublicationAssumption, SameContent, SameIdentity, Reconciling,
         Statuses, Done
  <2>2. StagesInv'
    BY <1>3, Fields, SMT DEF Load, outsideWorker, repository, services, Goto, Ready, TypeOK,
         Identities, Foreign, PublicationAssumption, SameContent, SameIdentity, StagesInv,
         PublishedTrue, Shown, Done, Unfinished, Settled, Reconciling
  <2>3. NamesInv'
    BY <1>3, Fields, SMT DEF Load, outsideWorker, repository, services, Goto, Ready, TypeOK,
         Identities, Foreign, PublicationAssumption, SameContent, SameIdentity, NamesInv,
         StagesInv, Settled, Published, Reconciling
  <2>4. EditsInv'
    BY <1>3, Fields, SMT DEF Load, outsideWorker, repository, services, Goto, Ready, TypeOK,
         Identities, Foreign, PublicationAssumption, SameContent, SameIdentity, EditsInv,
         Reconciling
  <2>. QED  BY <2>1, <2>2, <2>3, <2>4
<1>4. ASSUME FetchManifest PROVE IInv'
  <2>1. TypeOK'
    BY <1>4, SMT DEF FetchManifest, outsideWorker, repository, services, Goto, TypeOK,
         Identities, Foreign, PublicationAssumption, SameContent, SameIdentity, Reconciling,
         Statuses, Done
  <2>2. StagesInv'
    BY <1>4, Fields, SMT DEF FetchManifest, outsideWorker, repository, services, Goto, TypeOK,
         Identities, Foreign, PublicationAssumption, SameContent, SameIdentity, StagesInv,
         PublishedTrue, Shown, Done, Unfinished, Settled, Reconciling
  <2>3. NamesInv'
    BY <1>4, Fields, SMT DEF FetchManifest, outsideWorker, repository, services, Goto, TypeOK,
         Identities, Foreign, PublicationAssumption, SameContent, SameIdentity, NamesInv,
         StagesInv, Settled, Published, Reconciling
  <2>4. EditsInv'
    BY <1>4, Fields, SMT DEF FetchManifest, outsideWorker, repository, services, Goto, TypeOK,
         Identities, Foreign, PublicationAssumption, SameContent, SameIdentity, EditsInv,
         Reconciling
  <2>. QED  BY <2>1, <2>2, <2>3, <2>4
<1>5. ASSUME DropJob PROVE IInv'
  <2>1. TypeOK'
    BY <1>5, Constants, SMT DEF DropJob, outsideWorker, repository, services, Save, EndPass,
         TypeOK, Identities, Foreign, PublicationAssumption, SameContent, SameIdentity,
         Reconciling, Statuses, Done
  <2>2. StagesInv'
    BY <1>5, Constants, Fields, SMT DEF DropJob, outsideWorker, repository, services, Save,
         EndPass, TypeOK, Identities, Foreign, PublicationAssumption, SameContent,
         SameIdentity, StagesInv, PublishedTrue, Shown, Done, Unfinished, Settled, Reconciling
  <2>3. NamesInv'
    BY <1>5, Constants, Fields, SMT DEF DropJob, outsideWorker, repository, services, Save,
         EndPass, TypeOK, Identities, Foreign, PublicationAssumption, SameContent,
         SameIdentity, NamesInv, StagesInv, Settled, Published, Reconciling
  <2>4. EditsInv'
    BY <1>5, Constants, Fields, SMT DEF DropJob, outsideWorker, repository, services, Save,
         EndPass, TypeOK, Identities, Foreign, PublicationAssumption, SameContent,
         SameIdentity, EditsInv, Reconciling
  <2>. QED  BY <2>1, <2>2, <2>3, <2>4
<1>6. ASSUME RefuseName PROVE IInv'
  <2>1. TypeOK'
    BY <1>6, SMT DEF RefuseName, outsideWorker, repository, services, Goto, Marked, SameName,
         TypeOK, Identities, Foreign, PublicationAssumption, SameContent, SameIdentity,
         Reconciling, Statuses, Done
  <2>2. StagesInv'
    BY <1>6, Fields, SMT DEF RefuseName, outsideWorker, repository, services, Goto, Marked,
         SameName, TypeOK, Identities, Foreign, PublicationAssumption, SameContent,
         SameIdentity, StagesInv, PublishedTrue, Shown, Done, Unfinished, Settled, Reconciling
  <2>3. NamesInv'
    BY <1>6, Fields, SMT DEF RefuseName, outsideWorker, repository, services, Goto, Marked,
         SameName, TypeOK, Identities, Foreign, PublicationAssumption, SameContent,
         SameIdentity, NamesInv, StagesInv, Settled, Published, Reconciling
  <2>4. EditsInv'
    BY <1>6, Fields, SMT DEF RefuseName, outsideWorker, repository, services, Goto, Marked,
         SameName, TypeOK, Identities, Foreign, PublicationAssumption, SameContent,
         SameIdentity, EditsInv, Reconciling
  <2>. QED  BY <2>1, <2>2, <2>3, <2>4
<1>7. ASSUME ReserveIdentity PROVE IInv'
  <2>1. TypeOK'
    BY <1>7, SMT DEF ReserveIdentity, outsideWorker, repository, services, Goto, Save, TypeOK,
         Identities, Foreign, PublicationAssumption, SameContent, SameIdentity, Reconciling,
         Statuses, Done
  <2>2. StagesInv'
    BY <1>7, Fields, SMT DEF ReserveIdentity, outsideWorker, repository, services, Goto, Save,
         TypeOK, Identities, Foreign, PublicationAssumption, SameContent, SameIdentity,
         StagesInv, PublishedTrue, Shown, Done, Unfinished, Settled, Reconciling
  <2>3. NamesInv'
    BY <1>7, Fields, SMT DEF ReserveIdentity, outsideWorker, repository, services, Goto, Save,
         TypeOK, Identities, Foreign, PublicationAssumption, SameContent, SameIdentity,
         NamesInv, StagesInv, Settled, Published, Reconciling
  <2>4. EditsInv'
    BY <1>7, Fields, SMT DEF ReserveIdentity, outsideWorker, repository, services, Goto, Save,
         TypeOK, Identities, Foreign, PublicationAssumption, SameContent, SameIdentity,
         EditsInv, Reconciling
  <2>. QED  BY <2>1, <2>2, <2>3, <2>4
<1>8. ASSUME SaveReplacement PROVE IInv'
  <2>1. TypeOK'
    BY <1>8, SMT DEF SaveReplacement, outsideWorker, repository, services, Goto, Save, TypeOK,
         Identities, Foreign, PublicationAssumption, SameContent, SameIdentity, Reconciling,
         Statuses, Done
  <2>2. StagesInv'
    BY <1>8, Fields, SMT DEF SaveReplacement, outsideWorker, repository, services, Goto, Save,
         TypeOK, Identities, Foreign, PublicationAssumption, SameContent, SameIdentity,
         StagesInv, PublishedTrue, Shown, Done, Unfinished, Settled, Reconciling
  <2>3. NamesInv'
    BY <1>8, Fields, SMT DEF SaveReplacement, outsideWorker, repository, services, Goto, Save,
         TypeOK, Identities, Foreign, PublicationAssumption, SameContent, SameIdentity,
         NamesInv, StagesInv, Settled, Published, Reconciling
  <2>4. EditsInv'
    BY <1>8, Fields, SMT DEF SaveReplacement, outsideWorker, repository, services, Goto, Save,
         TypeOK, Identities, Foreign, PublicationAssumption, SameContent, SameIdentity,
         EditsInv, Reconciling
  <2>. QED  BY <2>1, <2>2, <2>3, <2>4
<1>9. ASSUME CommitConflicts PROVE IInv'
  <2>1. TypeOK'
    BY <1>9, SMT DEF CommitConflicts, outsideWorker, repository, services, Goto, Marked,
         SameName, Named, Released, Provisioned, Desired, Changed, Replaceable, TypeOK,
         Identities, Foreign, PublicationAssumption, SameContent, SameIdentity, Reconciling,
         Statuses, Done
  <2>2. StagesInv'
    BY <1>9, Fields, SMT DEF CommitConflicts, outsideWorker, repository, services, Goto,
         Marked, SameName, Named, Released, Provisioned, Desired, Changed, Replaceable, TypeOK,
         Identities, Foreign, PublicationAssumption, SameContent, SameIdentity, StagesInv,
         PublishedTrue, Shown, Done, Unfinished, Settled, Reconciling
  <2>3. NamesInv'
    BY <1>9, Fields, SMT DEF CommitConflicts, outsideWorker, repository, services, Goto,
         Marked, SameName, Named, Released, Provisioned, Desired, Changed, Replaceable, TypeOK,
         Identities, Foreign, PublicationAssumption, SameContent, SameIdentity, NamesInv,
         StagesInv, Settled, Published, Reconciling
  <2>4. EditsInv'
    BY <1>9, Fields, SMT DEF CommitConflicts, outsideWorker, repository, services, Goto,
         Marked, SameName, Named, Released, Provisioned, Desired, Changed, Replaceable, TypeOK,
         Identities, Foreign, PublicationAssumption, SameContent, SameIdentity, EditsInv,
         Reconciling
  <2>. QED  BY <2>1, <2>2, <2>3, <2>4
<1>10. ASSUME LoadPublished PROVE IInv'
  <2>1. TypeOK'
    BY <1>10, SMT DEF LoadPublished, outsideWorker, repository, services, Goto, Refreshable,
         TypeOK, Identities, Foreign, PublicationAssumption, SameContent, SameIdentity,
         Reconciling, Statuses, Done
  <2>2. StagesInv'
    BY <1>10, Fields, SMT DEF LoadPublished, outsideWorker, repository, services, Goto,
         Refreshable, TypeOK, Identities, Foreign, PublicationAssumption, SameContent,
         SameIdentity, StagesInv, PublishedTrue, Shown, Done, Unfinished, Settled, Reconciling
  <2>3. NamesInv'
    BY <1>10, Fields, SMT DEF LoadPublished, outsideWorker, repository, services, Goto,
         Refreshable, TypeOK, Identities, Foreign, PublicationAssumption, SameContent,
         SameIdentity, NamesInv, StagesInv, Settled, Published, Reconciling
  <2>4. EditsInv'
    BY <1>10, Fields, SMT DEF LoadPublished, outsideWorker, repository, services, Goto,
         Refreshable, TypeOK, Identities, Foreign, PublicationAssumption, SameContent,
         SameIdentity, EditsInv, Reconciling
  <2>. QED  BY <2>1, <2>2, <2>3, <2>4
<1>11. ASSUME NEW ok \in BOOLEAN, SaveDecision(ok) PROVE IInv'
  <2>1. TypeOK'
    BY <1>11, Constants, SMT DEF SaveDecision, outsideWorker, repository, services, Fault,
         Save, EndPass, TypeOK, Identities, Foreign, PublicationAssumption, SameContent,
         SameIdentity, Reconciling, Statuses, Done
  <2>2. StagesInv'
    BY <1>11, Constants, Fields, SMT DEF SaveDecision, outsideWorker, repository, services,
         Fault, Save, EndPass, TypeOK, Identities, Foreign, PublicationAssumption, SameContent,
         SameIdentity, StagesInv, PublishedTrue, Shown, Done, Unfinished, Settled, Reconciling
  <2>3. NamesInv'
    BY <1>11, Constants, Fields, SMT DEF SaveDecision, outsideWorker, repository, services,
         Fault, Save, EndPass, TypeOK, Identities, Foreign, PublicationAssumption, SameContent,
         SameIdentity, NamesInv, StagesInv, Settled, Published, Reconciling
  <2>4. EditsInv'
    BY <1>11, Constants, Fields, SMT DEF SaveDecision, outsideWorker, repository, services,
         Fault, Save, EndPass, TypeOK, Identities, Foreign, PublicationAssumption, SameContent,
         SameIdentity, EditsInv, Reconciling
  <2>. QED  BY <2>1, <2>2, <2>3, <2>4
<1>12. ASSUME CallFails PROVE IInv'
  <2>1. TypeOK'
    BY <1>12, SMT DEF CallFails, outsideWorker, repository, services, Fault, Goto, TypeOK,
         Identities, Foreign, PublicationAssumption, SameContent, SameIdentity, Reconciling,
         Statuses, Done
  <2>2. StagesInv'
    BY <1>12, Fields, SMT DEF CallFails, outsideWorker, repository, services, Fault, Goto,
         TypeOK, Identities, Foreign, PublicationAssumption, SameContent, SameIdentity,
         StagesInv, PublishedTrue, Shown, Done, Unfinished, Settled, Reconciling
  <2>3. NamesInv'
    BY <1>12, Fields, SMT DEF CallFails, outsideWorker, repository, services, Fault, Goto,
         TypeOK, Identities, Foreign, PublicationAssumption, SameContent, SameIdentity,
         NamesInv, StagesInv, Settled, Published, Reconciling
  <2>4. EditsInv'
    BY <1>12, Fields, SMT DEF CallFails, outsideWorker, repository, services, Fault, Goto,
         TypeOK, Identities, Foreign, PublicationAssumption, SameContent, SameIdentity,
         EditsInv, Reconciling
  <2>. QED  BY <2>1, <2>2, <2>3, <2>4
<1>13. ASSUME Crash PROVE IInv'
  <2>1. TypeOK'
    BY <1>13, Constants, SMT DEF Crash, outsideWorker, repository, services, Fault, EndPass,
         TypeOK, Identities, Foreign, PublicationAssumption, SameContent, SameIdentity,
         Reconciling, Statuses, Done
  <2>2. StagesInv'
    BY <1>13, Constants, Fields, SMT DEF Crash, outsideWorker, repository, services, Fault,
         EndPass, TypeOK, Identities, Foreign, PublicationAssumption, SameContent,
         SameIdentity, StagesInv, PublishedTrue, Shown, Done, Unfinished, Settled, Reconciling
  <2>3. NamesInv'
    BY <1>13, Constants, Fields, SMT DEF Crash, outsideWorker, repository, services, Fault,
         EndPass, TypeOK, Identities, Foreign, PublicationAssumption, SameContent,
         SameIdentity, NamesInv, StagesInv, Settled, Published, Reconciling
  <2>4. EditsInv'
    BY <1>13, Constants, Fields, SMT DEF Crash, outsideWorker, repository, services, Fault,
         EndPass, TypeOK, Identities, Foreign, PublicationAssumption, SameContent,
         SameIdentity, EditsInv, Reconciling
  <2>. QED  BY <2>1, <2>2, <2>3, <2>4
<1>14. ASSUME UNCHANGED vars PROVE IInv'
  <2>1. TypeOK'
    BY <1>14 DEF vars, repository, services, worker, TypeOK
  <2>2. StagesInv'
    BY <1>14 DEF vars, repository, services, worker, StagesInv, PublishedTrue
  <2>3. NamesInv'
    BY <1>14 DEF vars, repository, services, worker, NamesInv, Published
  <2>4. EditsInv'
    BY <1>14 DEF vars, repository, services, worker, EditsInv
  <2>. QED  BY <2>1, <2>2, <2>3, <2>4
<1>. HIDE DEF IInv
<1>. QED  BY <1>1, <1>2, <1>3, <1>4, <1>5, <1>6, <1>7, <1>8, <1>9, <1>10, <1>11, <1>12, <1>13,
            <1>14, PushManifestStep, FetchNothingStep, MarkPublishingStep, PrepareIdentityStep,
            ReadReleaseStep, ProvisionStep, ReplaceExpiredStep, ProvisionReplacementStep,
            CommitManifestStep, PublishProfileStep, SavePublishedStep, SaveFailedStep,
            BackoffEndsStep, DeliverStep
  DEF Next, WorkerStep, RefreshStep, Environment

\* Nothing is published, reserved or under way at the start.
LEMMA InitHolds ==
    ASSUME PublicationAssumption, Init
    PROVE  IInv
<1>1. /\ NoFile \in File /\ NoProfile \in Profile /\ NoJob \in Job
  BY Constants
<1>2. TypeOK
  BY <1>1, SMT DEF Init, TypeOK, PublicationAssumption, Identities, Reconciling
<1>3. StagesInv
  BY Constants, SMT DEF Init, StagesInv, PublishedTrue, Settled, Done, Unfinished
<1>4. NamesInv
  BY Constants, SMT DEF Init, NamesInv, Published, Identities
<1>5. EditsInv
  BY Constants, SMT DEF Init, EditsInv, Reconciling
<1>. QED  BY <1>2, <1>3, <1>4, <1>5 DEF IInv

\* The inductive invariant: what the worker's copy still says of the record, the eVault
\* and the manifest, whatever webhooks, pushes, faults and restarts come in between.
THEOREM CopyHolds == Spec => []IInv
<1>. USE PublicationAssumption
<1>1. Init => IInv
  BY InitHolds
<1>2. IInv /\ [Next]_vars => IInv'
  BY NextStep
<1>. QED  BY <1>1, <1>2, PTL DEF Spec

\* Records, manifests, profiles and copies keep their types.
THEOREM TypeCorrect == Spec => []TypeOK
<1>1. IInv => TypeOK
  BY DEF IInv
<1>. QED  BY <1>1, CopyHolds, PTL

\* A record that says published, or archived, is true to its eVault.
THEOREM PublishedHolds == Spec => []PublishedTrue
<1>1. IInv => PublishedTrue
  BY DEF IInv, StagesInv
<1>. QED  BY <1>1, CopyHolds, PTL

\* Who writes the record: it keeps its name, is dropped, or gets the name of the copy.
LEMMA RowMoves ==
    ASSUME PublicationAssumption, IInv, Next
    PROVE  row' = NoJob \/ row'.ename = row.ename \/ (pc # "idle" /\ row'.ename = job.ename)
<1>. row \in Job /\ job \in Job
  BY DEF IInv, TypeOK
<1>1. ASSUME NEW event \in hooks, NEW again \in BOOLEAN, Deliver(event, again)
      PROVE  row' = row \/ row'.ename = row.ename
  <2>1. event \in Event
    BY <1>1 DEF IInv, TypeOK
  <2>. QED  BY <1>1, <2>1, ScheduledEdit, Zenon DEF IInv, Deliver, Schedule, SameContent, SameIdentity
<1>2. ASSUME MarkPublishing PROVE pc # "idle" /\ row'.ename = job.ename
  <2>1. "publishing" \in Statuses /\ pc = "fetched" /\ row' = [job EXCEPT !.status = "publishing"]
    BY <1>2, Zenon DEF MarkPublishing, Save, Statuses
  <2>. QED  BY <2>1, SetStatus, Zenon
<1>3. ASSUME SavePublished PROVE pc # "idle" /\ row'.ename = job.ename
  BY <1>3, SMT DEF SavePublished, Save, Job
<1>4. ASSUME SaveFailed PROVE pc # "idle" /\ row'.ename = job.ename
  <2>1. pc = "failed" /\ row' = [job EXCEPT !.status = "failed", !.due = FALSE]
    BY <1>4, Zenon DEF SaveFailed, Save
  <2>. QED  BY <2>1, FailedEdit, Zenon DEF SameContent, SameIdentity
<1>5. ASSUME BackoffEnds PROVE row'.ename = row.ename
  <2>1. row' = [row EXCEPT !.due = TRUE]
    BY <1>5, Zenon DEF BackoffEnds, Save
  <2>. QED  BY <2>1, SetDue, Zenon
<1>6. ASSUME ReserveIdentity \/ SaveReplacement \/ \E ok \in BOOLEAN : SaveDecision(ok)
      PROVE  row' = row \/ (pc # "idle" /\ row' = job)
  BY <1>6, Zenon DEF ReserveIdentity, SaveReplacement, SaveDecision, Save, outsideWorker
<1>7. ASSUME DropJob PROVE row' = NoJob
  BY <1>7, Zenon DEF DropJob, Save
<1>8. CASE row' = row
  BY <1>8
<1>. QED  BY <1>1, <1>2, <1>3, <1>4, <1>5, <1>6, <1>7, <1>8
  DEF Next, WorkerStep, RefreshStep, Environment, PushManifest, RemoveManifest, ChangeRelease,
      Load, FetchManifest, FetchNothing, RefuseName, PrepareIdentity, ReadRelease, Provision,
      ReplaceExpired, ProvisionReplacement, CommitManifest, CommitConflicts, PublishProfile,
      LoadPublished, CallFails, Crash, outsideRepository

\* Once a profile is public under an eName, the record keeps that eName.
THEOREM EnameHolds == Spec => EnameImmutable
<1>. USE PublicationAssumption
<1>1. ASSUME IInv, [Next]_vars, Exists, Exists', row.ename # 0, Published(row.ename)
      PROVE  row'.ename = row.ename
  <2>1. row' # NoJob
    BY <1>1, Constants DEF Exists
  <2>2. row.ename \in Identities
    BY <1>1, Fields, SMT DEF IInv, TypeOK, Identities
  <2>3. row.ename \in registered
    BY <1>1, <2>2 DEF IInv, NamesInv
  <2>4. CASE UNCHANGED vars
    BY <2>4 DEF vars
  <2>5. CASE Next
    <3>1. row'.ename = row.ename \/ (pc # "idle" /\ row'.ename = job.ename)
      BY <1>1, <2>1, <2>5, RowMoves
    <3>2. pc # "idle" => row.ename = job.ename
      BY <1>1, <2>3 DEF IInv, NamesInv
    <3>. QED  BY <3>1, <3>2
  <2>. QED  BY <1>1, <2>4, <2>5
<1>2. IInv /\ [Next]_vars =>
        [Exists /\ Exists' /\ row.ename # 0 /\ Published(row.ename) => row'.ename = row.ename]_vars
  BY <1>1
<1>. QED  BY <1>2, CopyHolds, PTL DEF Spec, EnameImmutable

\* A commit of the publisher never undoes a push: it replaces the file it was made from.
THEOREM PushesHold == Spec => PushesKept
<1>. USE PublicationAssumption
<1>1. ASSUME IInv, Next, file # NoFile, file' # NoFile
      PROVE  file'.edit >= file.edit
  <2>. file \in File /\ file.edit \in Nat /\ file.edit <= pushes
    BY <1>1, Fields, SMT DEF IInv, TypeOK, EditsInv, PublicationAssumption
  <2>1. ASSUME NEW ename \in {0, Foreign} \cup registered, NEW valid \in BOOLEAN,
               PushManifest(ename, valid)
        PROVE  file'.edit >= file.edit
    <3>1. file' = [file EXCEPT !.edit = pushes', !.ename = ename, !.valid = valid] /\ pushes' = pushes + 1
      BY <2>1, Zenon DEF PushManifest
    <3>2. file'.edit = pushes'
      BY <3>1, SMT DEF File
    <3>. QED  BY <1>1, <3>1, <3>2, SMT DEF IInv, TypeOK
  <2>2. ASSUME NEW ok \in BOOLEAN, CommitManifest(ok)
        PROVE  file'.edit >= file.edit
    <3>1. /\ Provisioned /\ ~job.archive /\ file = base /\ file' = Desired
      BY <2>2, Zenon DEF CommitManifest, Changed, Replaceable
    <3>2. manifest.edit = base.edit
      BY <1>1, <3>1, SMT DEF IInv, EditsInv, Reconciling, Provisioned, Released, Named, Marked
    <3>3. Desired.edit = manifest.edit
      BY <1>1, DesiredEffect DEF IInv
    <3>. QED  BY <3>1, <3>2, <3>3, SMT
  <2>3. CASE file' = file
    BY <2>3, SMT
  <2>4. CASE RemoveManifest
    BY <1>1, <2>4 DEF RemoveManifest
  <2>. QED  BY <1>1, <2>1, <2>2, <2>3, <2>4
    DEF Next, WorkerStep, RefreshStep, Environment, ChangeRelease, Deliver, Load, FetchManifest,
        FetchNothing, DropJob, MarkPublishing, RefuseName, PrepareIdentity, ReserveIdentity,
        ReadRelease, Provision, ReplaceExpired, SaveReplacement, ProvisionReplacement,
        CommitConflicts, PublishProfile, SavePublished, SaveFailed, BackoffEnds, LoadPublished,
        SaveDecision, CallFails, Crash, outsideWorker, repository
<1>2. IInv /\ [Next]_vars => [file # NoFile /\ file' # NoFile => file'.edit >= file.edit]_vars
  BY <1>1
<1>. QED  BY <1>2, CopyHolds, PTL DEF Spec, PushesKept
=============================================================================
