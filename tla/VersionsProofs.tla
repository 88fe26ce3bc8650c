--------------------------- MODULE VersionsProofs ---------------------------
(***************************************************************************)
(* Proofs about the publisher's deployment record, for any number of       *)
(* versions, concurrent calls, decisions and faults.  The invariant says   *)
(* what each copy of the record that a call or the worker holds still      *)
(* guarantees, however much the stored record has changed since.           *)
(***************************************************************************)
EXTENDS VersionsProperties, FiniteSetTheorems, TLAPS

AfterSaved == Working \ {"loaded", "certified"}
Preparing  == {"preparing", "reserved"}

Types ==
    /\ decision \in [Versions -> {"none", "granted", "denied"}]
    /\ recorded \subseteq Versions
    /\ row \in Job /\ job \in Job
    /\ call \in [Calls -> Call]
    /\ pc \in Working \cup {"idle", "failed"}
    /\ profile \in {0} \cup Versions

\* Only signed records are queued, and only signed copies are saved.
SignedCopies ==
    /\ row.status \in {"publishing", "failed", "completed"} => row.signed
    /\ pc # "idle" => job.signed
    /\ \A c \in Calls :
         /\ call[c].stage = "checked" => call[c].job.signed /\ call[c].version # 0
         /\ call[c].job.status \in {"publishing", "failed", "completed"} => call[c].job.signed

\* Nothing has a copy of a record that is being prepared, and one call prepares it.
Preparation ==
    /\ row = NoJob \/ row.status # "none"
    /\ row = NoJob => pc = "idle" /\ \A c \in Calls : call[c].stage \notin {"loaded", "checked"}
    /\ \A c \in Calls : call[c].stage \in Preparing =>
         row = NoJob /\ \A d \in Calls : call[d].stage \in Preparing => d = c

\* What the worker has published is what its copy says, and no record says completed
\* while it publishes.
Progress ==
    /\ pc \in AfterSaved => row.status # "completed"
    /\ pc \in {"version", "profile", "recorded"} => job.document = job.version
    /\ pc \in {"profile", "recorded"} => profile = job.version
    /\ pc = "recorded" => job.version \in recorded
    /\ CompletedTrue

CopiesInv == Types /\ SignedCopies /\ Progress
IInv      == CopiesInv /\ Preparation

LEMMA NoJobTyped == NoJob \in Job /\ NoCall \in Call
  BY VersionsAssumption, SMT DEF NoJob, Job, NoCall, Call, Versions

\* The edits that the handlers and the worker make to their copies.
LEMMA Waited ==
  ASSUME NEW j \in Job, NEW b \in BOOLEAN
  PROVE  /\ [j EXCEPT !.due = b] \in Job
         /\ [j EXCEPT !.due = b].status = j.status
         /\ [j EXCEPT !.due = b].signed = j.signed
         /\ [j EXCEPT !.due = b].version = j.version
         /\ [j EXCEPT !.due = b].document = j.document
  BY SMT DEF Job

LEMMA StatusEdit ==
  ASSUME NEW j \in Job, NEW s \in {"awaiting_signature", "publishing", "completed", "failed"}
  PROVE  /\ [j EXCEPT !.status = s] \in Job
         /\ [j EXCEPT !.status = s].status = s
         /\ [j EXCEPT !.status = s].signed = j.signed
         /\ [j EXCEPT !.status = s].version = j.version
         /\ [j EXCEPT !.status = s].document = j.document
  BY SMT DEF Job

LEMMA Edited ==
  ASSUME NEW j \in Job, NEW b \in BOOLEAN,
         NEW s \in {"awaiting_signature", "publishing", "completed", "failed"}
  PROVE  /\ [j EXCEPT !.status = s, !.due = b] \in Job
         /\ [j EXCEPT !.status = s, !.due = b].status = s
         /\ [j EXCEPT !.status = s, !.due = b].signed = j.signed
         /\ [j EXCEPT !.status = s, !.due = b].version = j.version
         /\ [j EXCEPT !.status = s, !.due = b].document = j.document
<1> DEFINE k == [j EXCEPT !.status = s]
<1>1. /\ k \in Job /\ k.status = s /\ k.signed = j.signed
      /\ k.version = j.version /\ k.document = j.document
  BY StatusEdit, Zenon
<1>2. [j EXCEPT !.status = s, !.due = b] = [k EXCEPT !.due = b]
  BY SMT DEF Job
<1> HIDE DEF k
<1>3. /\ [k EXCEPT !.due = b] \in Job
      /\ [k EXCEPT !.due = b].status = k.status
      /\ [k EXCEPT !.due = b].signed = k.signed
      /\ [k EXCEPT !.due = b].version = k.version
      /\ [k EXCEPT !.due = b].document = k.document
  BY <1>1, Waited, Zenon
<1> QED
  BY <1>1, <1>2, <1>3, Zenon

LEMMA SignedEdit ==
  ASSUME NEW j \in Job, NEW b \in BOOLEAN
  PROVE  [j EXCEPT !.signed = b] \in Job /\ [j EXCEPT !.signed = b].status = j.status
         /\ [j EXCEPT !.signed = b].signed = b
  BY SMT DEF Job

LEMMA VersionEdit ==
  ASSUME NEW j \in Job, NEW v \in Versions
  PROVE  /\ [j EXCEPT !.version = v] \in Job
         /\ [j EXCEPT !.version = v].status = j.status
         /\ [j EXCEPT !.version = v].signed = j.signed
  BY SMT DEF Job

LEMMA KeyEdit ==
  ASSUME NEW j \in Job, NEW v \in {0} \cup Versions
  PROVE  /\ [j EXCEPT !.keySigned = v] \in Job
         /\ [j EXCEPT !.keySigned = v].status = j.status
         /\ [j EXCEPT !.keySigned = v].signed = j.signed
  BY SMT DEF Job

LEMMA DocumentEdit ==
  ASSUME NEW j \in Job, NEW v \in {0} \cup Versions
  PROVE  /\ [j EXCEPT !.document = v] \in Job
         /\ [j EXCEPT !.document = v].status = j.status
         /\ [j EXCEPT !.document = v].signed = j.signed
  BY SMT DEF Job

LEMMA MovedEdit ==
  ASSUME NEW j \in Job, NEW v \in Versions
  PROVE  /\ [j EXCEPT !.version = v, !.keySigned = v, !.document = 0] \in Job
         /\ [j EXCEPT !.version = v, !.keySigned = v, !.document = 0].status = j.status
         /\ [j EXCEPT !.version = v, !.keySigned = v, !.document = 0].signed = j.signed
<1> DEFINE k == [j EXCEPT !.version = v]
           l == [k EXCEPT !.keySigned = v]
<1>1. k \in Job /\ k.status = j.status /\ k.signed = j.signed
  BY VersionEdit, Zenon
<1>2. l \in Job /\ l.status = k.status /\ l.signed = k.signed
  BY <1>1, KeyEdit, Zenon
<1>3. [j EXCEPT !.version = v, !.keySigned = v, !.document = 0] = [l EXCEPT !.document = 0]
  BY SMT DEF Job
<1> QED
  BY <1>1, <1>2, <1>3, DocumentEdit, Zenon

LEMMA QueuedEdit ==
  ASSUME NEW j \in Job
  PROVE  Queued(j) \in Job /\ Queued(j).status = "publishing" /\ Queued(j).signed = j.signed
  BY Edited, Zenon DEF Queued

LEMMA FinalizedEdit ==
  ASSUME NEW j \in Job
  PROVE  /\ [Queued(j) EXCEPT !.signed = TRUE] \in Job
         /\ [Queued(j) EXCEPT !.signed = TRUE].status = "publishing"
         /\ [Queued(j) EXCEPT !.signed = TRUE].signed
<1>1. Queued(j) \in Job /\ Queued(j).status = "publishing"
  BY QueuedEdit
<1> QED
  BY <1>1, SignedEdit, Zenon

LEMMA MovedTo ==
  ASSUME NEW j \in Job, NEW v \in Versions
  PROVE  Moved(j, v) \in Job /\ Moved(j, v).status = "publishing" /\ Moved(j, v).signed = j.signed
<1>1. Queued(j) \in Job /\ Queued(j).status = "publishing" /\ Queued(j).signed = j.signed
  BY QueuedEdit
<1>2. Moved(j, v) = [Queued(j) EXCEPT !.version = v, !.keySigned = v, !.document = 0]
  BY DEF Moved
<1> DEFINE k == Queued(j)
<1> HIDE DEF k
<1>3. k \in Job /\ k.status = "publishing" /\ k.signed = j.signed
  BY <1>1 DEF k
<1>4. /\ [k EXCEPT !.version = v, !.keySigned = v, !.document = 0] \in Job
      /\ [k EXCEPT !.version = v, !.keySigned = v, !.document = 0].status = k.status
      /\ [k EXCEPT !.version = v, !.keySigned = v, !.document = 0].signed = k.signed
  BY <1>3, MovedEdit, Zenon
<1>5. Moved(j, v) = [k EXCEPT !.version = v, !.keySigned = v, !.document = 0]
  BY <1>2 DEF k
<1> QED
  BY <1>3, <1>4, <1>5, Zenon

LEMMA InitIInv == Init => IInv
  BY NoJobTyped, SMT DEF Init, IInv, CopiesInv, Types, SignedCopies, Preparation, Progress,
     CompletedTrue, NoJob, NoCall, AfterSaved, Preparing, Working

LEMMA NextCopies == IInv /\ [Next]_vars => CopiesInv'
<1> SUFFICES ASSUME IInv, [Next]_vars PROVE CopiesInv'
  OBVIOUS
<1> USE DEF IInv, CopiesInv, Types, SignedCopies, Progress, CompletedTrue
<1>1. ASSUME NEW v \in Versions, NEW d \in {"granted", "denied"}, Decide(v, d) PROVE CopiesInv'
  BY <1>1, SMT DEF Decide, http, evault, worker, AfterSaved, Working
<1>e. ASSUME NEW c \in Calls, NEW s \in {"preparing", "reserved"},
             UNCHANGED <<decision, recorded, profile, pc, job, row>>,
             call' = [call EXCEPT ![c].stage = s]
      PROVE  CopiesInv'
  <2>1. /\ call' \in [Calls -> Call]
        /\ \A d \in Calls : call'[d].job = call[d].job /\ call'[d].version = call[d].version
        /\ \A d \in Calls : call'[d].stage = "checked" => call[d].stage = "checked"
    BY <1>e, SMT DEF Call
  <2> QED
    BY <1>e, <2>1, SMT DEF AfterSaved, Working
<1>2. ASSUME NEW c \in Calls, BeginPrepare(c) PROVE CopiesInv'
  <2>1. /\ UNCHANGED <<decision, recorded, profile, pc, job, row>>
        /\ call[c] = NoCall /\ call' = [call EXCEPT ![c].stage = "preparing"]
    BY <1>2 DEF BeginPrepare, others, ppa, evault, worker
  <2> QED
    BY <2>1, <1>e
<1>24. ASSUME NEW c \in Calls, RequireFirst(c) PROVE CopiesInv'
  <2>1. /\ UNCHANGED <<decision, recorded, profile, pc, job, row>>
        /\ \/ call' = [call EXCEPT ![c] = NoCall]
           \/ call' = [call EXCEPT ![c].stage = "reserved"]
    BY <1>24 DEF RequireFirst, EndCall, others, ppa, evault, worker
  <2>2. CASE call' = [call EXCEPT ![c] = NoCall]
    BY <2>1, <2>2, NoJobTyped, SMT DEF NoCall, NoJob, AfterSaved, Working
  <2> QED
    BY <2>1, <2>2, <1>e
<1>25. ASSUME NEW c \in Calls, SavePrepared(c) PROVE CopiesInv'
  <2>1. /\ row' = [NoJob EXCEPT !.status = "awaiting_signature"]
        /\ call' = [call EXCEPT ![c] = NoCall] /\ pc = "idle"
        /\ UNCHANGED <<decision, recorded, profile, pc, job>>
    BY <1>25, SMT DEF SavePrepared, EndCall, Save, others, ppa, evault, worker, Preparation, Preparing
  <2>2. row' \in Job /\ row'.status = "awaiting_signature"
    BY <2>1, NoJobTyped, StatusEdit, Zenon
  <2>3. Types'
    BY <2>1, <2>2, NoJobTyped, SMT
  <2>4. SignedCopies'
    BY <2>1, <2>2, NoJobTyped, SMT DEF NoCall, NoJob
  <2>5. Progress'
    BY <2>1, <2>2, NoJobTyped, SMT DEF AfterSaved
  <2> QED
    BY <2>3, <2>4, <2>5
<1>3. ASSUME NEW c \in Calls, NEW v \in {0} \cup Versions, BeginCall(c, v) PROVE CopiesInv'
  BY <1>3, SMT DEF BeginCall, others, ppa, evault, worker, Call
<1>4. ASSUME NEW c \in Calls, FinalizeDeployment(c) PROVE CopiesInv'
  <2>1. /\ UNCHANGED <<decision, recorded, profile, pc, job>>
        /\ call' = [call EXCEPT ![c] = NoCall]
    BY <1>4, SMT DEF FinalizeDeployment, EndCall, others, ppa, evault, worker
  <2>2. \/ row' = row
        \/ row' \in Job /\ row'.status = "publishing" /\ row'.signed
    <3>1. call[c].job \in Job
      BY SMT DEF Call
    <3> QED
      BY <1>4, <3>1, FinalizedEdit, Zenon DEF FinalizeDeployment, Save
  <2>3. Types'
    BY <2>1, <2>2, NoJobTyped, SMT DEF AfterSaved, Working, NoCall, NoJob
  <2>4. SignedCopies'
    BY <2>1, <2>2, NoJobTyped, SMT DEF AfterSaved, Working, NoCall, NoJob
  <2>5. Progress'
    BY <2>1, <2>2, NoJobTyped, SMT DEF AfterSaved, Working, NoCall, NoJob
  <2> QED
    BY <2>3, <2>4, <2>5
<1>5. ASSUME NEW c \in Calls, CheckVersion(c) PROVE CopiesInv'
  <2>1. /\ UNCHANGED <<decision, recorded, profile, pc, job, row>>
        /\ \/ call' = [call EXCEPT ![c] = NoCall]
           \/ /\ call[c].job.signed /\ call[c].version # 0
              /\ call' = [call EXCEPT ![c].stage = "checked"]
    BY <1>5, SMT DEF CheckVersion, Refused, EndCall, others, ppa, evault, worker
  <2>2. call' \in [Calls -> Call]
    BY <2>1, NoJobTyped, SMT DEF Call
  <2>3. Types'
    BY <2>1, <2>2, NoJobTyped, SMT DEF AfterSaved, Working, NoCall, NoJob, Call
  <2>4. SignedCopies'
    BY <2>1, <2>2, NoJobTyped, SMT DEF AfterSaved, Working, NoCall, NoJob, Call
  <2>5. Progress'
    BY <2>1, <2>2, NoJobTyped, SMT DEF AfterSaved, Working, NoCall, NoJob, Call
  <2> QED
    BY <2>3, <2>4, <2>5
<1>6. ASSUME NEW c \in Calls, PublishDeploymentVersion(c) PROVE CopiesInv'
  <2>1. /\ UNCHANGED <<decision, recorded, profile, pc, job>>
        /\ call' = [call EXCEPT ![c] = NoCall]
    BY <1>6, SMT DEF PublishDeploymentVersion, EndCall, others, ppa, evault, worker
  <2>2. row' \in Job /\ row'.status = "publishing" /\ row'.signed
    <3>1. call[c].job \in Job /\ call[c].version \in Versions /\ call[c].job.signed
      BY <1>6, SMT DEF PublishDeploymentVersion, Call
    <3> QED
      BY <1>6, <3>1, MovedTo, Zenon DEF PublishDeploymentVersion, Save
  <2>3. Types'
    BY <2>1, <2>2, NoJobTyped, SMT DEF AfterSaved, Working, NoCall, NoJob
  <2>4. SignedCopies'
    BY <2>1, <2>2, NoJobTyped, SMT DEF AfterSaved, Working, NoCall, NoJob
  <2>5. Progress'
    BY <2>1, <2>2, NoJobTyped, SMT DEF AfterSaved, Working, NoCall, NoJob
  <2> QED
    BY <2>3, <2>4, <2>5
<1>7. ASSUME NEW c \in Calls, CallLost(c) PROVE CopiesInv'
  BY <1>7, NoJobTyped, SMT DEF CallLost, ppa, evault, worker, NoCall, NoJob
<1>8. CASE LoadReady
  BY <1>8, SMT DEF LoadReady, Ready, Goto, outsideWorker, ppa, http, evault, AfterSaved, Working
<1>9. CASE RequireCertification
  BY <1>9, SMT DEF RequireCertification, Goto, outsideWorker, ppa, http, evault, AfterSaved, Working, Job
<1>10. CASE SavePublishing
  BY <1>10, SMT DEF SavePublishing, Save, Goto, outsideWorker, ppa, http, evault, AfterSaved, Working, Job
<1>11. ASSUME NEW ok \in BOOLEAN, ProvisionPrepared(ok) PROVE CopiesInv'
  BY <1>11, SMT DEF ProvisionPrepared, Proceed, Goto, outsideWorker, ppa, http, AfterSaved, Working
<1>12. CASE ProvisionExpired \/ CheckRegistered \/ FindKey
  BY <1>12, SMT DEF ProvisionExpired, CheckRegistered, FindKey, Goto, outsideWorker, ppa, http, evault, AfterSaved, Working
<1>13. ASSUME NEW ok \in BOOLEAN, CreateKey(ok) PROVE CopiesInv'
  BY <1>13, SMT DEF CreateKey, Proceed, Goto, outsideWorker, ppa, http, AfterSaved, Working
<1>14. ASSUME NEW ok \in BOOLEAN, CreateVersion(ok) PROVE CopiesInv'
  BY <1>14, SMT DEF CreateVersion, Proceed, Goto, outsideWorker, ppa, http, AfterSaved, Working, Job
<1>26. CASE FindVersion
  BY <1>26, SMT DEF FindVersion, Goto, outsideWorker, ppa, http, evault, AfterSaved, Working, Job
<1>15. ASSUME NEW ok \in BOOLEAN, WriteProfile(ok) PROVE CopiesInv'
  BY <1>15, SMT DEF WriteProfile, Proceed, Goto, outsideWorker, ppa, http, AfterSaved, Working, Job
<1>16. ASSUME NEW ok \in BOOLEAN, RegisterSoftwareVersion(ok) PROVE CopiesInv'
  BY <1>16, SMT DEF RegisterSoftwareVersion, Proceed, Goto, outsideWorker, ppa, http, AfterSaved, Working, Job
<1>17. CASE SaveCompleted
  <2>1. /\ UNCHANGED <<decision, recorded, profile, call>>
        /\ pc = "recorded" /\ pc' = "idle" /\ job' = NoJob
        /\ row' = [job EXCEPT !.status = "completed", !.due = TRUE]
    BY <1>17, SMT DEF SaveCompleted, Save, Goto, outsideWorker, ppa, http, evault
  <2>2. /\ row' \in Job /\ row'.signed = job.signed
        /\ row'.version = job.version /\ row'.document = job.document
    BY <2>1, Edited, Zenon
  <2>3. Types'
    BY <2>1, <2>2, NoJobTyped, SMT DEF AfterSaved, Working
  <2>4. SignedCopies'
    BY <2>1, <2>2, NoJobTyped, SMT DEF AfterSaved, Working
  <2>5. Progress'
    BY <2>1, <2>2, NoJobTyped, SMT DEF AfterSaved, Working
  <2> QED
    BY <2>3, <2>4, <2>5
<1>18. CASE SaveFailed
  <2>1. /\ UNCHANGED <<decision, recorded, profile, call>>
        /\ pc = "failed" /\ pc' = "idle" /\ job' = NoJob
        /\ row' = [job EXCEPT !.status = "failed", !.due = FALSE]
    BY <1>18, SMT DEF SaveFailed, Save, Goto, outsideWorker, ppa, http, evault
  <2>2. row' \in Job /\ row'.signed = job.signed /\ row'.status = "failed"
    BY <2>1, Edited, Zenon
  <2>3. Types'
    BY <2>1, <2>2, NoJobTyped, SMT DEF AfterSaved, Working
  <2>4. SignedCopies'
    BY <2>1, <2>2, NoJobTyped, SMT DEF AfterSaved, Working
  <2>5. Progress'
    BY <2>1, <2>2, NoJobTyped, SMT DEF AfterSaved, Working
  <2> QED
    BY <2>3, <2>4, <2>5
<1>19. CASE BackoffEnds
  <2>1. /\ UNCHANGED <<decision, recorded, profile, call, pc, job>>
        /\ row' = [row EXCEPT !.due = TRUE]
    BY <1>19, SMT DEF BackoffEnds, Save, outsideWorker, ppa, http, evault, worker
  <2>2. /\ row' \in Job /\ row'.signed = row.signed /\ row'.status = row.status
        /\ row'.version = row.version /\ row'.document = row.document
    BY <2>1, Waited, Zenon
  <2>3. Types'
    BY <2>1, <2>2, NoJobTyped, SMT DEF AfterSaved, Working
  <2>4. SignedCopies'
    BY <2>1, <2>2, NoJobTyped, SMT DEF AfterSaved, Working
  <2>5. Progress'
    BY <2>1, <2>2, NoJobTyped, SMT DEF AfterSaved, Working
  <2> QED
    BY <2>3, <2>4, <2>5
<1>20. CASE EntropyExpires
  BY <1>20, SMT DEF EntropyExpires, outsideWorker, ppa, http, worker
<1>21. CASE CallFails
  BY <1>21, SMT DEF CallFails, Goto, outsideWorker, ppa, http, evault, AfterSaved, Working, Job
<1>22. CASE Crash
  BY <1>22, NoJobTyped, SMT DEF Crash, ppa, evault, NoCall, NoJob, AfterSaved, Working
<1>23. CASE UNCHANGED vars
  BY <1>23, SMT DEF vars, ppa, http, evault, worker
<1> QED
  BY <1>1, <1>2, <1>3, <1>4, <1>5, <1>6, <1>7, <1>8, <1>9, <1>10, <1>11, <1>12, <1>13, <1>14, <1>15,
     <1>16, <1>17, <1>18, <1>19, <1>20, <1>21, <1>22, <1>23, <1>24, <1>25, <1>26
     DEF Next, WorkerStep, CallStep, Environment

\* A save that changes the record leaves one that exists.
LEMMA Saved ==
  ASSUME IInv, [Next]_vars
  PROVE  row' = row \/ row'.status # "none"
<1> USE DEF IInv, CopiesInv, Types
<1>t. row \in Job /\ job \in Job /\ \A c \in Calls : call[c] \in Call /\ call[c].job \in Job
  BY SMT DEF Call
<1>1. ASSUME NEW c \in Calls, SavePrepared(c) PROVE row'.status # "none"
  BY <1>1, NoJobTyped, StatusEdit, Zenon DEF SavePrepared, Save
<1>2. ASSUME NEW c \in Calls, FinalizeDeployment(c) PROVE row' = row \/ row'.status # "none"
  BY <1>2, <1>t, FinalizedEdit, Zenon DEF FinalizeDeployment, Save
<1>3. ASSUME NEW c \in Calls, PublishDeploymentVersion(c) PROVE row'.status # "none"
  <2>1. call[c].version \in Versions
    BY <1>3, <1>t, SMT DEF PublishDeploymentVersion, SignedCopies, Call
  <2> QED
    BY <1>3, <1>t, <2>1, MovedTo, Zenon DEF PublishDeploymentVersion, Save
<1>4. CASE SavePublishing
  BY <1>4, <1>t, StatusEdit, Zenon DEF SavePublishing, Save
<1>5. CASE SaveCompleted
  BY <1>5, <1>t, Edited, Zenon DEF SaveCompleted, Save
<1>6. CASE SaveFailed
  BY <1>6, <1>t, Edited, Zenon DEF SaveFailed, Save
<1>7. CASE BackoffEnds
  <2>1. row # NoJob
    BY <1>7 DEF BackoffEnds, NoJob
  <2>2. row.status # "none"
    BY <2>1 DEF Preparation
  <2> QED
    BY <1>7, <1>t, <2>2, Waited, Zenon DEF BackoffEnds, Save
<1>8. CASE UNCHANGED row
  BY <1>8
<1> QED
  BY <1>1, <1>2, <1>3, <1>4, <1>5, <1>6, <1>7, <1>8
     DEF Next, WorkerStep, CallStep, Environment, Decide, BeginPrepare, RequireFirst, BeginCall,
         CheckVersion, CallLost, LoadReady, RequireCertification, CheckRegistered,
         ProvisionPrepared, ProvisionExpired, FindKey, CreateKey, FindVersion, CreateVersion,
         WriteProfile, RegisterSoftwareVersion, EntropyExpires, CallFails, Crash, vars, EndCall,
         others, outsideWorker, evault, worker

\* What a step may do to the calls and the worker's place, for Preparation.
LEMMA NextPreparation == IInv /\ [Next]_vars => Preparation'
<1> SUFFICES ASSUME IInv, [Next]_vars PROVE Preparation'
  OBVIOUS
<1> USE DEF IInv, CopiesInv, Types, Preparation, Preparing
<1>s. (row' = row \/ row'.status # "none") /\ NoJob.status = "none" /\ NoCall.stage = "none"
  BY Saved, SMT DEF NoJob, NoCall
<1>c. call \in [Calls -> Call]
  OBVIOUS
<1>1. ASSUME NEW c \in Calls, BeginPrepare(c) PROVE Preparation'
  BY <1>1, <1>c, <1>s, SMT DEF BeginPrepare, others, worker, NoCall, Call
<1>2. ASSUME NEW c \in Calls, RequireFirst(c) PROVE Preparation'
  BY <1>2, <1>c, <1>s, SMT DEF RequireFirst, EndCall, others, worker, Call
<1>3. ASSUME NEW c \in Calls, SavePrepared(c) PROVE Preparation'
  <2>1. row' # NoJob /\ row'.status # "none"
    BY <1>3, NoJobTyped, StatusEdit, <1>s, Zenon DEF SavePrepared, Save
  <2>2. \A d \in Calls : call'[d].stage \notin Preparing
    BY <1>3, <1>c, <1>s, SMT DEF SavePrepared, EndCall
  <2> QED
    BY <2>1, <2>2
<1>4. ASSUME NEW c \in Calls, NEW v \in {0} \cup Versions, BeginCall(c, v) PROVE Preparation'
  BY <1>4, <1>c, <1>s, SMT DEF BeginCall, others, worker, Call
<1>5. ASSUME NEW c \in Calls, FinalizeDeployment(c) \/ CheckVersion(c) \/ PublishDeploymentVersion(c)
      PROVE Preparation'
  <2>1. row # NoJob /\ row' # NoJob /\ row'.status # "none"
    BY <1>5, <1>s DEF FinalizeDeployment, CheckVersion, PublishDeploymentVersion
  <2>2. \A d \in Calls : call'[d].stage \in Preparing => call[d].stage \in Preparing
    BY <1>5, <1>c, <1>s, SMT DEF FinalizeDeployment, CheckVersion, PublishDeploymentVersion, EndCall, Call
  <2> QED
    BY <2>1, <2>2
<1>6. ASSUME NEW c \in Calls, CallLost(c) PROVE Preparation'
  BY <1>6, <1>c, <1>s, SMT DEF CallLost, worker
<1>7. CASE Crash
  BY <1>7, <1>s, SMT DEF Crash
<1>8. CASE LoadReady
  <2>1. row # NoJob
    BY <1>8, <1>s DEF LoadReady, Ready
  <2> QED
    BY <1>8, <2>1 DEF LoadReady, outsideWorker, http
<1>9. CASE UNCHANGED call /\ pc # "idle"
  <2>1. row # NoJob /\ row' # NoJob /\ row'.status # "none"
    BY <1>9, <1>s
  <2> QED
    BY <1>9, <2>1
<1>10. CASE BackoffEnds
  <2>1. row # NoJob
    BY <1>10 DEF BackoffEnds, NoJob
  <2>2. row' # NoJob /\ row'.status # "none"
    BY <2>1, <1>s
  <2> QED
    BY <1>10, <2>1, <2>2 DEF BackoffEnds, outsideWorker, http
<1>11. CASE UNCHANGED <<row, call, pc>>
  BY <1>11
<1> QED
  BY <1>1, <1>2, <1>3, <1>4, <1>5, <1>6, <1>7, <1>8, <1>9, <1>10, <1>11
     DEF Next, WorkerStep, CallStep, Environment, Decide, RequireCertification, SavePublishing,
         CheckRegistered, ProvisionPrepared, ProvisionExpired, FindKey, CreateKey, FindVersion,
         CreateVersion, WriteProfile, RegisterSoftwareVersion, SaveCompleted, SaveFailed,
         EntropyExpires, CallFails, Working, vars, outsideWorker, http, worker

\* The inductive invariant: what every copy of the record still guarantees.
THEOREM CopiesHold == Spec => []IInv
<1>1. Init => IInv
  BY InitIInv
<1>2. IInv /\ [Next]_vars => IInv'
  BY NextCopies, NextPreparation DEF IInv
<1> QED
  BY <1>1, <1>2, PTL DEF Spec

\* The publisher's "completed" is true of the eVault and the Registry, for any number of
\* calls that save over the record.
THEOREM CompletedHolds == Spec => []CompletedTrue
  BY CopiesHold, PTL DEF IInv, CopiesInv, Progress

LEMMA SignedStep == IInv /\ [Next]_vars => (row.signed => row'.signed)
<1> SUFFICES ASSUME IInv, [Next]_vars, row.signed PROVE row'.signed
  OBVIOUS
<1> USE DEF IInv, CopiesInv, SignedCopies, Types
<1>1. ASSUME NEW c \in Calls, SavePrepared(c) PROVE FALSE
  <2>1. row = NoJob
    BY <1>1 DEF SavePrepared, Preparation, Preparing
  <2> QED
    BY <2>1 DEF NoJob
<1>2. ASSUME NEW c \in Calls, FinalizeDeployment(c) PROVE row'.signed
  <2>1. call[c].job \in Job
    BY SMT DEF Call
  <2> QED
    BY <1>2, <2>1, FinalizedEdit, Zenon DEF FinalizeDeployment, Save
<1>3. ASSUME NEW c \in Calls, PublishDeploymentVersion(c) PROVE row'.signed
  <2>1. call[c].job \in Job /\ call[c].version \in Versions /\ call[c].job.signed
    BY <1>3, SMT DEF PublishDeploymentVersion, Call
  <2> QED
    BY <1>3, <2>1, MovedTo, Zenon DEF PublishDeploymentVersion, Save
<1>4. CASE SavePublishing \/ SaveCompleted \/ SaveFailed
  <2>1. job.signed
    BY <1>4, SMT DEF SavePublishing, SaveCompleted, SaveFailed
  <2>2. CASE SavePublishing
    BY <2>1, <2>2, SMT DEF SavePublishing, Save, Job
  <2>3. CASE SaveCompleted
    <3>1. row'.signed = job.signed
      BY <2>3, Edited, Zenon DEF SaveCompleted, Save
    <3> QED
      BY <2>1, <3>1, SMT
  <2>4. CASE SaveFailed
    <3>1. row'.signed = job.signed
      BY <2>4, Edited, Zenon DEF SaveFailed, Save
    <3> QED
      BY <2>1, <3>1, SMT
  <2> QED
    BY <1>4, <2>2, <2>3, <2>4
<1>5. CASE BackoffEnds
  BY <1>5, Waited, Zenon DEF BackoffEnds, Save
<1>6. CASE UNCHANGED row
  BY <1>6
<1> QED
  BY <1>1, <1>2, <1>3, <1>4, <1>5, <1>6
     DEF Next, WorkerStep, CallStep, Environment, Decide, BeginCall, CheckVersion, CallLost,
         LoadReady, RequireCertification, CheckRegistered, ProvisionPrepared, ProvisionExpired,
         FindKey, CreateKey, FindVersion, CreateVersion, BeginPrepare, RequireFirst, EndCall,
         others, outsideWorker, evault, worker, WriteProfile, RegisterSoftwareVersion, EntropyExpires, CallFails, Crash, vars

\* No stale copy takes the wallet's signature off the record.
THEOREM SignatureHolds == Spec => SignatureKept
<1>1. IInv /\ [Next]_vars => [row.signed => row'.signed]_vars
  BY SignedStep
<1> QED
  BY <1>1, CopiesHold, PTL DEF Spec, SignatureKept

-----------------------------------------------------------------------------
\* What the publisher created, and what signs it.

OwnSignature(j) == j.keySigned = j.version \/ (j.keySigned = 0 /\ j.version = 1)

Signatures ==
    /\ OwnSignature(row) /\ OwnSignature(job)
    /\ \A c \in Calls : OwnSignature(call[c].job)

Created ==
    /\ documents \in [Document -> Nat]
    /\ registered \in BOOLEAN
    /\ provisions = IF registered THEN 1 ELSE 0
    /\ pc = "unregistered" => ~registered
    /\ documents[KeyDocument] <= 1
    /\ pc = "nokey" => documents[KeyDocument] = 0
    /\ pc \in {"key", "noversion", "version", "profile", "recorded"} => documents[KeyDocument] > 0
    /\ pc = "noversion" => documents[VersionDocument(job)] = 0 \/ Crowded
    /\ pc \in {"version", "profile", "recorded"} => documents[VersionDocument(job)] > 0
    /\ ~Crowded => \A d \in Document : documents[d] <= 1
    /\ ProfileSigned

JInv == Signatures /\ Created

LEMMA InitJInv == Init => JInv
<1> SUFFICES ASSUME Init PROVE JInv
  OBVIOUS
<1>1. OwnSignature(NoJob) /\ NoCall.job = NoJob
  BY SMT DEF OwnSignature, NoJob, NoCall
<1>2. Signatures
  BY <1>1, Zenon DEF Init, Signatures
<1>3. documents \in [Document -> Nat] /\ \A d \in Document : documents[d] = 0
  BY SMT DEF Init
<1>4. KeyDocument \in Document
  BY SMT DEF KeyDocument, Document
<1>5. /\ pc = "idle" /\ registered = FALSE /\ provisions = 0 /\ profile = 0
      /\ documents[KeyDocument] = 0
  BY <1>3, <1>4 DEF Init
<1>6. documents[KeyDocument] <= 1 /\ \A d \in Document : documents[d] <= 1
  BY <1>3, <1>5, SMT
<1>7. Created
  BY <1>3, <1>5, <1>6, Zenon DEF Created, ProfileSigned
<1> QED
  BY <1>2, <1>7 DEF JInv

LEMMA DocumentFinite == IsFiniteSet(Document)
<1> DEFINE Marks == {0} \cup Versions
           Pairs == Marks \X Marks
           d == [p \in Pairs |-> [version |-> p[1], signature |-> p[2]]]
<1>1. IsFiniteSet(0 .. MaxVersions) /\ Marks = 0 .. MaxVersions
  BY VersionsAssumption, FS_Interval, SMT DEF Versions
<1>2. IsFiniteSet(Pairs)
  BY <1>1, FS_Product
<1>3. \A e \in Document : \E p \in Pairs : d[p] = e
  <2> SUFFICES ASSUME NEW e \in Document PROVE \E p \in Pairs : d[p] = e
    OBVIOUS
  <2>1. <<e.version, e.signature>> \in Pairs
    BY SMT DEF Document
  <2>2. d[<<e.version, e.signature>>] = e
    BY <2>1, SMT DEF Document
  <2> QED
    BY <2>1, <2>2
<1>4. d \in [Pairs -> Document]
  BY SMT DEF Document
<1>5. d \in Surjection(Pairs, Document)
  BY <1>3, <1>4, Zenon DEF Surjection
<1> QED
  BY <1>2, <1>5, FS_Surjection

\* What is added to the documents leaves the others, and more than a page stays more.
LEMMA BindingAdded ==
  ASSUME NEW d \in Document, documents \in [Document -> Nat], Create(d)
  PROVE  /\ documents' \in [Document -> Nat] /\ documents'[d] = documents[d] + 1
         /\ \A e \in Document : e # d => documents'[e] = documents[e]
         /\ \A e \in Document : documents[e] > 0 => documents'[e] > 0
         /\ Crowded => Crowded'
<1>1. /\ documents' \in [Document -> Nat] /\ documents'[d] = documents[d] + 1
      /\ \A e \in Document : e # d => documents'[e] = documents[e]
      /\ \A e \in Document : documents[e] > 0 => documents'[e] > 0
  BY SMT DEF Create
<1> DEFINE S == {e \in Stored : e.version # 0}
           T == {e \in Stored' : e.version # 0}
<1>2. S \subseteq T /\ T \subseteq Document
  BY <1>1, SMT DEF Stored
<1>3. IsFiniteSet(T) /\ Cardinality(S) <= Cardinality(T)
  BY <1>2, DocumentFinite, FS_Subset, Zenon
<1>4. IsFiniteSet(S)
  BY <1>2, <1>3, FS_Subset
<1>5. Cardinality(S) \in Nat /\ Cardinality(T) \in Nat /\ PageSize \in Nat
  BY <1>3, <1>4, FS_CardinalityType, VersionsAssumption
<1>6. Crowded => Crowded'
  <2> HIDE DEF S, T
  <2>1. (Crowded <=> Cardinality(S) > PageSize) /\ (Crowded' <=> Cardinality(T) > PageSize)
    BY DEF Crowded, S, T
  <2> QED
    BY <1>3, <1>5, <2>1, SMT
<1> QED
  BY <1>1, <1>6

LEMMA DocumentsTyped ==
  ASSUME NEW j \in Job
  PROVE  KeyDocument \in Document /\ VersionDocument(j) \in Document
  BY SMT DEF KeyDocument, VersionDocument, Document, Job

LEMMA ProfileStays ==
  ASSUME Types, ProfileSigned, profile' = profile,
         \A e \in Document : documents[e] > 0 => documents'[e] > 0
  PROVE  ProfileSigned'
<1>1. KeyDocument \in Document
  BY SMT DEF KeyDocument, Document
<1>2. profile # 0 => [version |-> profile, signature |-> profile] \in Document
  BY SMT DEF Document, Types
<1>3. profile = 1 => [version |-> 1, signature |-> 0] \in Document
  BY SMT DEF Document, Types
<1> QED
  BY <1>1, <1>2, <1>3, SMT DEF ProfileSigned, KeyDocument

\* An edit keeps the version and its signature, or changes both.
LEMMA SignatureEdits ==
  ASSUME NEW j \in Job, OwnSignature(j)
  PROVE  /\ \A b \in BOOLEAN : OwnSignature([j EXCEPT !.due = b])
         /\ \A s \in {"awaiting_signature", "publishing", "completed", "failed"}, b \in BOOLEAN :
              OwnSignature([j EXCEPT !.status = s]) /\ OwnSignature([j EXCEPT !.status = s, !.due = b])
         /\ \A v \in {0} \cup Versions : OwnSignature([j EXCEPT !.document = v])
         /\ \A v \in Versions : OwnSignature([j EXCEPT !.version = v, !.keySigned = v, !.document = 0])
         /\ \A b \in BOOLEAN : OwnSignature([j EXCEPT !.signed = b])
  BY SMT DEF OwnSignature, Job

LEMMA NextSignatures == IInv /\ JInv /\ [Next]_vars => Signatures'
<1> SUFFICES ASSUME IInv, JInv, [Next]_vars PROVE Signatures'
  OBVIOUS
<1>t. /\ row \in Job /\ job \in Job /\ OwnSignature(row) /\ OwnSignature(job)
      /\ \A c \in Calls : call[c].job \in Job /\ OwnSignature(call[c].job)
      /\ call \in [Calls -> Call]
  BY SMT DEF IInv, CopiesInv, JInv, Types, Signatures, Call
<1>n. OwnSignature(NoJob) /\ NoCall.job = NoJob
  BY SMT DEF OwnSignature, NoJob, NoCall
<1>1. OwnSignature(row)'
  <2>1. CASE BackoffEnds
    BY <2>1, <1>t, SignatureEdits, Zenon DEF BackoffEnds, Save, OwnSignature
  <2>6. ASSUME NEW c \in Calls, SavePrepared(c) PROVE OwnSignature(row)'
    <3>1. OwnSignature([NoJob EXCEPT !.status = "awaiting_signature"])
      BY <1>n, NoJobTyped, SignatureEdits, Zenon
    <3> QED
      BY <2>6, <3>1, Zenon DEF SavePrepared, Save, OwnSignature
  <2>2. ASSUME NEW c \in Calls, FinalizeDeployment(c) PROVE OwnSignature(row)'
    <3>1. row' = row \/ row' = [Queued(call[c].job) EXCEPT !.signed = TRUE]
      BY <2>2 DEF FinalizeDeployment, Save
    <3>2. OwnSignature(Queued(call[c].job)) /\ Queued(call[c].job) \in Job
      BY <1>t, SignatureEdits, QueuedEdit, Zenon DEF Queued
    <3>3. OwnSignature([Queued(call[c].job) EXCEPT !.signed = TRUE])
      BY <3>2, SignatureEdits, Zenon
    <3> QED
      BY <3>1, <3>3, <1>t, Zenon DEF OwnSignature
  <2>3. ASSUME NEW c \in Calls, PublishDeploymentVersion(c) PROVE OwnSignature(row)'
    <3>1. call[c].version \in Versions /\ row' = Moved(call[c].job, call[c].version)
      BY <2>3, SMT DEF PublishDeploymentVersion, Save, IInv, CopiesInv, Types, SignedCopies, Call
    <3>2. OwnSignature(Queued(call[c].job)) /\ Queued(call[c].job) \in Job
      BY <1>t, SignatureEdits, QueuedEdit, Zenon DEF Queued
    <3>3. OwnSignature(Moved(call[c].job, call[c].version))
      BY <3>1, <3>2, SignatureEdits, Zenon DEF Moved
    <3> QED
      BY <3>1, <3>3, Zenon DEF OwnSignature
  <2>4. CASE SavePublishing \/ SaveCompleted \/ SaveFailed
    <3>1. \/ row' = [job EXCEPT !.status = "publishing"]
          \/ row' = [job EXCEPT !.status = "completed", !.due = TRUE]
          \/ row' = [job EXCEPT !.status = "failed", !.due = FALSE]
      BY <2>4 DEF SavePublishing, SaveCompleted, SaveFailed, Save
    <3>2. /\ OwnSignature([job EXCEPT !.status = "publishing"])
          /\ OwnSignature([job EXCEPT !.status = "completed", !.due = TRUE])
          /\ OwnSignature([job EXCEPT !.status = "failed", !.due = FALSE])
      BY <1>t, SignatureEdits, Zenon
    <3> QED
      BY <3>1, <3>2, Zenon DEF OwnSignature
  <2>5. CASE UNCHANGED row
    BY <2>5, <1>t DEF OwnSignature
  <2> QED
    BY <2>1, <2>2, <2>3, <2>4, <2>5, <2>6
       DEF Next, WorkerStep, CallStep, Environment, Decide, BeginCall, CheckVersion, CallLost,
           LoadReady, RequireCertification, CheckRegistered, ProvisionPrepared, ProvisionExpired,
           FindKey, CreateKey, FindVersion, CreateVersion, BeginPrepare, RequireFirst, EndCall,
           others, outsideWorker, evault, worker, WriteProfile, RegisterSoftwareVersion, EntropyExpires, CallFails, Crash, vars
<1>2. OwnSignature(job)'
  <2>1. CASE LoadReady
    BY <2>1, <1>t DEF LoadReady, OwnSignature
  <2>2. CASE SavePublishing
    BY <2>2, <1>t, SignatureEdits, Zenon DEF SavePublishing, OwnSignature
  <2>3. CASE job' = NoJob
    BY <2>3, <1>n DEF OwnSignature
  <2>4. CASE job' = [job EXCEPT !.document = 0]
    <3>1. 0 \in {0} \cup Versions
      OBVIOUS
    <3>2. OwnSignature([job EXCEPT !.document = 0])
      BY <3>1, <1>t, SignatureEdits, Zenon
    <3> QED
      BY <2>4, <3>2, Zenon DEF OwnSignature
  <2>5. CASE FindVersion \/ \E ok \in BOOLEAN : CreateVersion(ok)
    <3>1. \/ job' = job \/ job' = [job EXCEPT !.document = job.version]
          \/ job' = [job EXCEPT !.document = 0]
      BY <2>5 DEF FindVersion, CreateVersion
    <3>2. job.version \in {0} \cup Versions /\ 0 \in {0} \cup Versions
      BY <1>t, SMT DEF Job
    <3>3. OwnSignature([job EXCEPT !.document = job.version]) /\ OwnSignature([job EXCEPT !.document = 0])
      BY <3>2, <1>t, SignatureEdits, Zenon
    <3> QED
      BY <3>1, <3>3, <1>t, Zenon DEF OwnSignature
  <2>6. CASE UNCHANGED job
    BY <2>6, <1>t DEF OwnSignature
  <2> QED
    BY <2>1, <2>2, <2>3, <2>4, <2>5, <2>6
       DEF Next, WorkerStep, CallStep, Environment, Decide, BeginPrepare, RequireFirst, SavePrepared, BeginCall, EndCall,
           FinalizeDeployment, CheckVersion, PublishDeploymentVersion, CallLost, RequireCertification,
           CheckRegistered, ProvisionPrepared, ProvisionExpired, FindKey, CreateKey, WriteProfile,
           RegisterSoftwareVersion, SaveCompleted, SaveFailed, BackoffEnds, EntropyExpires, CallFails, Crash,
           vars, worker, others
<1>3. \A c \in Calls : OwnSignature(call'[c].job)
  <2>1. \A c \in Calls : \/ call'[c].job = call[c].job
                         \/ call'[c].job = row
                         \/ call'[c].job = NoJob
    <3>1. ASSUME NEW d \in Calls, NEW v \in {0} \cup Versions, BeginCall(d, v)
          PROVE  \A c \in Calls : call'[c].job = call[c].job \/ call'[c].job = row
      BY <3>1, <1>t, SMT DEF BeginCall
    <3>2. ASSUME NEW d \in Calls, call' = [call EXCEPT ![d] = NoCall]
          PROVE  \A c \in Calls : call'[c].job = call[c].job \/ call'[c].job = NoJob
      BY <3>2, <1>t, <1>n, SMT
    <3>3. ASSUME NEW d \in Calls, CheckVersion(d)
          PROVE  \A c \in Calls : call'[c].job = call[c].job \/ call'[c].job = NoJob
      <4>1. CASE call' = [call EXCEPT ![d] = NoCall]
        BY <4>1, <3>2
      <4>2. CASE call' = [call EXCEPT ![d].stage = "checked"]
        BY <4>2, <1>t, SMT DEF Call
      <4> QED
        BY <3>3, <4>1, <4>2 DEF CheckVersion, EndCall
    <3>6. ASSUME NEW d \in Calls, NEW s \in {"preparing", "reserved"},
                 call' = [call EXCEPT ![d].stage = s]
          PROVE  \A c \in Calls : call'[c].job = call[c].job
      BY <3>6, <1>t, SMT DEF Call
    <3>7. ASSUME NEW d \in Calls, RequireFirst(d)
          PROVE  \A c \in Calls : call'[c].job = call[c].job \/ call'[c].job = NoJob
      BY <3>7, <3>2, <3>6, Zenon DEF RequireFirst, EndCall
    <3>8. ASSUME NEW d \in Calls, BeginPrepare(d)
          PROVE  \A c \in Calls : call'[c].job = call[c].job
      BY <3>8, <3>6, Zenon DEF BeginPrepare
    <3>4. CASE Crash
      BY <3>4, <1>n, SMT DEF Crash
    <3>5. CASE UNCHANGED call
      BY <3>5
    <3> QED
      BY <3>1, <3>2, <3>3, <3>4, <3>5, <3>7, <3>8
         DEF Next, WorkerStep, CallStep, Environment, Decide, SavePrepared, EndCall,
             FinalizeDeployment, PublishDeploymentVersion, CallLost, LoadReady, RequireCertification,
             SavePublishing, CheckRegistered, ProvisionPrepared, ProvisionExpired, FindKey, CreateKey,
             FindVersion, CreateVersion, WriteProfile,
             RegisterSoftwareVersion, SaveCompleted, SaveFailed, BackoffEnds, EntropyExpires, CallFails,
             vars, http, others, outsideWorker
  <2> QED
    BY <2>1, <1>t, <1>n, Zenon DEF OwnSignature
<1> QED
  BY <1>1, <1>2, <1>3 DEF Signatures

LEMMA NextCreated == IInv /\ JInv /\ [Next]_vars => Created'
<1> SUFFICES ASSUME IInv, JInv, [Next]_vars PROVE Created'
  OBVIOUS
<1>t. /\ Types /\ Created /\ ProfileSigned /\ job \in Job /\ OwnSignature(job)
      /\ KeyDocument \in Document /\ VersionDocument(job) \in Document
      /\ KeyDocument # VersionDocument(job)
  BY DocumentsTyped, SMT DEF IInv, CopiesInv, JInv, Types, Signatures, Created, KeyDocument,
                             VersionDocument, Job, Versions
<1> USE DEF Created
<1>1. ASSUME NEW ok \in BOOLEAN, ProvisionPrepared(ok) PROVE Created'
  <2>1. Crowded' = Crowded
    BY <1>1 DEF ProvisionPrepared, Crowded, Stored
  <2> QED
    BY <1>1, <1>t, <2>1, SMT DEF ProvisionPrepared, Proceed, Goto, outsideWorker, ProfileSigned
<1>2. ASSUME NEW ok \in BOOLEAN, CreateKey(ok) PROVE Created'
  <2>1. /\ documents' \in [Document -> Nat] /\ documents'[KeyDocument] = 1
        /\ \A e \in Document : e # KeyDocument => documents'[e] = documents[e]
        /\ \A e \in Document : documents[e] > 0 => documents'[e] > 0
        /\ Crowded => Crowded'
    BY <1>2, <1>t, BindingAdded, SMT DEF CreateKey
  <2>2. ProfileSigned'
    BY <1>2, <1>t, <2>1, ProfileStays DEF CreateKey
  <2>3. ~Crowded' => \A e \in Document : documents'[e] <= 1
    BY <1>t, <2>1, SMT
  <2>4. pc' \in {"key", "failed"} /\ UNCHANGED <<registered, provisions>>
    BY <1>2 DEF CreateKey, Proceed, Goto
  <2>5. KeyDocument' = KeyDocument
    BY DEF KeyDocument
  <2> QED
    BY <1>t, <2>1, <2>2, <2>3, <2>4, <2>5, SMT
<1>3. ASSUME NEW ok \in BOOLEAN, CreateVersion(ok) PROVE Created'
  <2> DEFINE d == VersionDocument(job)
  <2>1. /\ documents' \in [Document -> Nat] /\ documents'[d] = documents[d] + 1
        /\ \A e \in Document : e # d => documents'[e] = documents[e]
        /\ \A e \in Document : documents[e] > 0 => documents'[e] > 0
        /\ Crowded => Crowded'
    BY <1>3, <1>t, BindingAdded DEF CreateVersion
  <2>2. ProfileSigned'
    BY <1>3, <1>t, <2>1, ProfileStays DEF CreateVersion
  <2>3. VersionDocument(job') = d
    BY <1>3, <1>t, SMT DEF CreateVersion, VersionDocument, Job
  <2>4. documents[d] = 0 \/ Crowded
    BY <1>3, <1>t DEF CreateVersion
  <2>5. ~Crowded' => \A e \in Document : documents'[e] <= 1
    BY <1>t, <2>1, <2>4, SMT
  <2>6. /\ pc' \in {"version", "failed"} /\ UNCHANGED <<registered, provisions>>
        /\ documents[KeyDocument] > 0 /\ documents'[KeyDocument] = documents[KeyDocument]
        /\ documents'[d] > 0
    BY <1>3, <1>t, <2>1, SMT DEF CreateVersion, Proceed, Goto
  <2>7. KeyDocument' = KeyDocument /\ VersionDocument(job)' = d
    BY <2>3 DEF KeyDocument, VersionDocument
  <2> HIDE DEF d
  <2> QED
    BY <1>t, <2>1, <2>2, <2>5, <2>6, <2>7, SMT
<1>4. ASSUME NEW ok \in BOOLEAN, WriteProfile(ok) PROVE Created'
  <2>1. /\ pc = "version" /\ profile' = job.version
        /\ UNCHANGED <<documents, registered, provisions, job>>
        /\ pc' \in {"profile", "failed"}
    BY <1>4 DEF WriteProfile, Proceed, Goto
  <2>2. /\ documents[KeyDocument] > 0 /\ documents[VersionDocument(job)] > 0
    BY <2>1, <1>t
  <2>3. ProfileSigned'
    BY <2>1, <2>2, <1>t, SMT DEF ProfileSigned, VersionDocument, KeyDocument, OwnSignature
  <2>4. Crowded' = Crowded /\ KeyDocument' = KeyDocument /\ VersionDocument(job)' = VersionDocument(job)
    BY <2>1 DEF Crowded, Stored, KeyDocument, VersionDocument
  <2> QED
    BY <1>t, <2>1, <2>2, <2>3, <2>4, SMT
<1>5. ASSUME UNCHANGED <<documents, registered, provisions, profile, job>>,
             \/ pc' = pc
             \/ pc' \notin {"unregistered", "nokey", "key", "noversion", "version", "profile", "recorded"}
             \/ pc' = "recorded" /\ pc = "profile"
             \/ pc' = "unregistered" /\ ~registered
             \/ pc' = "nokey" /\ documents[KeyDocument] = 0
             \/ pc' = "key" /\ documents[KeyDocument] > 0
      PROVE  Created'
  <2>1. /\ Crowded' = Crowded /\ KeyDocument' = KeyDocument
        /\ VersionDocument(job)' = VersionDocument(job) /\ ProfileSigned' = ProfileSigned
    BY <1>5 DEF Crowded, Stored, KeyDocument, VersionDocument, ProfileSigned
  <2> QED
    BY <1>5, <1>t, <2>1, SMT
<1>6. ASSUME UNCHANGED <<documents, registered, provisions, profile>>,
             pc' \notin {"unregistered", "nokey", "key", "noversion", "version", "profile", "recorded"}
      PROVE  Created'
  <2>1. Crowded' = Crowded /\ KeyDocument' = KeyDocument /\ ProfileSigned' = ProfileSigned
    BY <1>6 DEF Crowded, Stored, KeyDocument, ProfileSigned
  <2> QED
    BY <1>6, <1>t, <2>1, SMT
<1>7. ASSUME NEW ok \in BOOLEAN, RegisterSoftwareVersion(ok) PROVE Created'
  BY <1>7, <1>5 DEF RegisterSoftwareVersion, Proceed, Goto
<1>8. CASE CheckRegistered
  BY <1>8, <1>5 DEF CheckRegistered, Goto, evault
<1>9. CASE FindKey
  <2>1. PICK found \in Found(KeyDocument) : pc' = IF found THEN "key" ELSE "nokey"
    BY <1>9 DEF FindKey, Goto
  <2>2. (found /\ KeyDocument \in Stored) \/ (~found /\ KeyDocument \notin Stored)
    BY <2>1, Zenon DEF Found, KeyDocument
  <2>3. \/ pc' = "key" /\ documents[KeyDocument] > 0
        \/ pc' = "nokey" /\ documents[KeyDocument] = 0
    BY <1>t, <2>1, <2>2, SMT DEF Stored
  <2> QED
    BY <1>9, <1>5, <2>3 DEF FindKey, evault
<1>10. CASE FindVersion
  <2> DEFINE d == VersionDocument(job)
  <2>1. PICK found \in Found(d) :
          /\ pc' = IF found THEN "version" ELSE "noversion"
          /\ job' = IF found THEN [job EXCEPT !.document = job.version] ELSE job
    BY <1>10 DEF FindVersion, Goto
  <2>2. (found /\ d \in Stored) \/ (~found /\ (d \notin Stored \/ Crowded))
    BY <2>1, Zenon DEF Found
  <2>3. \/ pc' = "version" /\ documents[d] > 0
        \/ pc' = "noversion" /\ (documents[d] = 0 \/ Crowded)
    BY <1>t, <2>1, <2>2, SMT DEF Stored
  <2>4. job'.version = job.version /\ job'.keySigned = job.keySigned
    BY <1>t, <2>1, SMT DEF Job
  <2>5. /\ UNCHANGED <<documents, registered, provisions, profile>>
        /\ Crowded' = Crowded /\ KeyDocument' = KeyDocument
        /\ VersionDocument(job)' = d /\ ProfileSigned' = ProfileSigned
    BY <1>10, <2>4 DEF FindVersion, evault, Crowded, Stored, KeyDocument, VersionDocument, ProfileSigned
  <2>6. documents[KeyDocument] > 0
    BY <1>10, <1>t DEF FindVersion
  <2> HIDE DEF d
  <2> QED
    BY <1>t, <2>3, <2>5, <2>6, SMT
<1>11. CASE UNCHANGED <<documents, registered, provisions, profile, pc, job>>
  BY <1>11, <1>5
<1> QED
  BY <1>1, <1>2, <1>3, <1>4, <1>6, <1>7, <1>8, <1>9, <1>10, <1>11
     DEF Next, WorkerStep, CallStep, Environment, Decide, BeginPrepare, RequireFirst, SavePrepared,
         BeginCall, EndCall, FinalizeDeployment, CheckVersion, PublishDeploymentVersion, CallLost,
         LoadReady, RequireCertification, SavePublishing, ProvisionExpired, SaveCompleted, SaveFailed,
         BackoffEnds, EntropyExpires, CallFails, Crash, Goto, vars, evault, worker, others, outsideWorker

\* At each stage of the worker what it has looked for is there, and what it has not found
\* is not, unless the eVault has more documents than it returns.
THEOREM CreatedHolds == Spec => []JInv
<1>1. Init => JInv
  BY InitJInv
<1>2. IInv /\ JInv /\ [Next]_vars => JInv'
  BY NextSignatures, NextCreated DEF JInv
<1> QED
  BY <1>1, <1>2, CopiesHold, PTL DEF Spec

\* No retry, lost answer or restart creates the eVault or the key document twice, nor a
\* version's document while one query returns them all.
THEOREM CreatedOnceHolds == Spec => []CreatedOnce
<1>1. JInv => CreatedOnce
  BY SMT DEF JInv, Created, CreatedOnce
<1> QED
  BY <1>1, CreatedHolds, PTL

\* Every published version is signed by the wallet's bundle or the deployment key.
THEOREM ProfileSignedHolds == Spec => []ProfileSigned
<1>1. JInv => ProfileSigned
  BY DEF JInv, Created
<1> QED
  BY <1>1, CreatedHolds, PTL

-----------------------------------------------------------------------------
\* What is left of the types: the bounded counters, and whether the entropy expired.

Counters ==
    /\ decisions \in 0 .. MaxDecisions /\ calls \in 0 .. MaxCalls /\ faults \in 0 .. MaxFaults
    /\ expired \in BOOLEAN

LEMMA InitCounters == Init => Counters
<1> SUFFICES ASSUME Init PROVE Counters
  OBVIOUS
<1>1. decisions = 0 /\ calls = 0 /\ faults = 0 /\ expired = FALSE
  BY DEF Init
<1>2. \A bound \in Nat : 0 \in 0 .. bound
  OBVIOUS
<1> QED
  BY <1>1, <1>2, VersionsAssumption, Zenon DEF Counters

LEMMA NextCounters == Counters /\ [Next]_vars => Counters'
<1> SUFFICES ASSUME Counters, [Next]_vars PROVE Counters'
  OBVIOUS
<1> USE VersionsAssumption DEF Counters
<1>1. ASSUME NEW v \in Versions, NEW verdict, Decide(v, verdict) PROVE Counters'
  BY <1>1, SMT DEF Decide, http, evault
<1>2. ASSUME NEW c \in Calls, NEW v \in {0} \cup Versions, BeginCall(c, v) PROVE Counters'
  BY <1>2, SMT DEF BeginCall, others, ppa, evault
<1>10. ASSUME NEW c \in Calls, BeginPrepare(c) PROVE Counters'
  BY <1>10, SMT DEF BeginPrepare, others, ppa, evault
<1>3. CASE CallStep
  BY <1>3 DEF CallStep, RequireFirst, SavePrepared, FinalizeDeployment, CheckVersion, PublishDeploymentVersion,
              EndCall, http, others, ppa, evault
<1>4. ASSUME NEW c \in Calls, CallLost(c) PROVE Counters'
  BY <1>4, SMT DEF CallLost, Fault, ppa, evault
<1>5. CASE LoadReady \/ RequireCertification \/ SavePublishing \/ CheckRegistered \/ ProvisionExpired
           \/ FindKey \/ FindVersion \/ SaveCompleted \/ SaveFailed \/ BackoffEnds
  BY <1>5 DEF LoadReady, RequireCertification, SavePublishing, CheckRegistered, ProvisionExpired,
              FindKey, FindVersion, SaveCompleted, SaveFailed, BackoffEnds, outsideWorker, ppa, http,
              evault
<1>6. ASSUME NEW ok \in BOOLEAN,
             \/ ProvisionPrepared(ok) \/ CreateKey(ok) \/ CreateVersion(ok)
             \/ WriteProfile(ok) \/ RegisterSoftwareVersion(ok)
      PROVE  Counters'
  <2>1. UNCHANGED <<decisions, calls, expired>>
    BY <1>6 DEF ProvisionPrepared, CreateKey, CreateVersion, WriteProfile, RegisterSoftwareVersion,
                outsideWorker, ppa, http
  <2>2. \E stage : Proceed(ok, stage)
    BY <1>6 DEF ProvisionPrepared, CreateKey, CreateVersion, WriteProfile, RegisterSoftwareVersion
  <2>3. faults' \in 0 .. MaxFaults
    BY <2>2, SMT DEF Proceed, Fault
  <2> QED
    BY <2>1, <2>3
<1>7. CASE EntropyExpires
  BY <1>7 DEF EntropyExpires, outsideWorker, ppa, http
<1>8. CASE CallFails \/ Crash
  BY <1>8, SMT DEF CallFails, Crash, Fault, outsideWorker, ppa, http, evault
<1>9. CASE UNCHANGED vars
  BY <1>9 DEF vars, ppa, http, evault
<1> QED
  BY <1>1, <1>2, <1>3, <1>4, <1>5, <1>6, <1>7, <1>8, <1>9, <1>10 DEF Next, WorkerStep, Environment

\* Every variable of the publisher keeps its type: the store's record and all copies of it,
\* the counts of what was created, and the counters within their bounds.
THEOREM TypeCorrect == Spec => []TypeOK
<1>1. Spec => []Counters
  BY InitCounters, NextCounters, PTL DEF Spec
<1>2. IInv /\ JInv /\ Counters => TypeOK
  <2> SUFFICES ASSUME Types, Created, Counters PROVE TypeOK
    BY DEF IInv, CopiesInv, JInv
  <2>1. provisions \in Nat /\ documents \in [Document -> Nat]
    BY SMT DEF Created
  <2> QED
    BY <2>1 DEF Types, Created, Counters, TypeOK
<1> QED
  BY <1>1, <1>2, CopiesHold, CreatedHolds, PTL
=============================================================================
