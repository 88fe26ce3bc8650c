------------------------- MODULE DeploymentVersions -------------------------
(***************************************************************************)
(* The publisher's record of one deployment: services/platformsync keeps a *)
(* durable DeploymentJob that hosting prepares, the deployer's wallet      *)
(* finalizes, and hosting moves to later versions with the deployment key. *)
(* The HTTP handlers and the worker each load the record, call out, and    *)
(* save the whole record, with nothing that orders their saves.            *)
(***************************************************************************)
EXTENDS Naturals, FiniteSets

CONSTANTS
    Calls,          \* HTTP calls that may be under way at once
    MaxVersions,    \* bound: software versions; the first is the one prepared
    PageSize,       \* binding documents that the eVault returns to one query
    MaxCalls,       \* bound: calls begun
    MaxDecisions,   \* bound: decisions of the PPA
    MaxFaults       \* bound: failing calls, lost answers, crashes

ASSUME VersionsAssumption ==
    /\ IsFiniteSet(Calls)
    /\ MaxVersions \in Nat \ {0} /\ PageSize \in Nat \ {0} /\ MaxCalls \in Nat
    /\ MaxDecisions \in Nat /\ MaxFaults \in Nat

VARIABLES
    decision, decisions,   \* the PPA's latest decision on each version, and how many so far
    row,                   \* the DeploymentJob in the store
    call, calls,           \* what each HTTP call knows; how many were begun
    registered, provisions,   \* the deployment's eVault, and how often it was provisioned
    expired,               \* the Registry's entropy for it
    documents, profile, recorded,   \* binding documents, profile, versions in the Registry
    pc, job,               \* the worker
    faults

ppa    == <<decision, decisions>>
http   == <<call, calls>>
evault == <<registered, provisions, expired, documents, profile, recorded>>
worker == <<pc, job>>
vars   == <<ppa, row, http, evault, worker, faults>>

Versions == 1 .. MaxVersions

\* VersionSignature: 0 when the wallet's bundle is what signs the version.
NoJob == [status |-> "none", version |-> 1, keySigned |-> 0, signed |-> FALSE,
          document |-> 0, due |-> TRUE]
Job == [status : {"none", "awaiting_signature", "publishing", "completed", "failed"},
        version : Versions, keySigned : {0} \cup Versions, signed : BOOLEAN,
        document : {0} \cup Versions, due : BOOLEAN]

\* A call that prepares the record; one that holds the record it loaded, to finalize it
\* (version 0) or to publish a version.
NoCall == [stage |-> "none", version |-> 0, job |-> NoJob]
Call == [stage : {"none", "preparing", "reserved", "loaded", "checked"},
         version : {0} \cup Versions, job : Job]

\* A binding document: what it is about (0: the deployment key) and what signed it.
Document == [version : {0} \cup Versions, signature : {0} \cup Versions]

Working == {"loaded", "certified", "saved", "unregistered", "registered", "nokey", "key",
            "noversion", "version", "profile", "recorded"}

TypeOK ==
    /\ decision \in [Versions -> {"none", "granted", "denied"}]
    /\ decisions \in 0 .. MaxDecisions
    /\ row \in Job /\ job \in Job
    /\ call \in [Calls -> Call] /\ calls \in 0 .. MaxCalls
    /\ registered \in BOOLEAN /\ provisions \in Nat /\ expired \in BOOLEAN
    /\ documents \in [Document -> Nat]
    /\ profile \in {0} \cup Versions
    /\ recorded \subseteq Versions
    /\ pc \in Working \cup {"idle", "failed"}
    /\ faults \in 0 .. MaxFaults

Init ==
    /\ decision = [v \in Versions |-> "none"] /\ decisions = 0
    /\ row = NoJob
    /\ call = [c \in Calls |-> NoCall] /\ calls = 0
    /\ registered = FALSE /\ provisions = 0 /\ expired = FALSE
    /\ documents = [d \in Document |-> 0] /\ profile = 0 /\ recorded = {}
    /\ pc = "idle" /\ job = NoJob
    /\ faults = 0

Fault       == faults < MaxFaults /\ faults' = faults + 1
Save(saved) == row' = saved

\* CheckDeploymentCertifications: the PPA's latest decision on a version.
Certified(v) == decision[v] = "granted"
Denied(v)    == decision[v] = "denied"

Decide(v, verdict) ==
    /\ decisions < MaxDecisions /\ decision[v] # verdict
    /\ decisions' = decisions + 1
    /\ decision' = [decision EXCEPT ![v] = verdict]
    /\ UNCHANGED <<row, http, evault, worker, faults>>

-----------------------------------------------------------------------------
\* The HTTP handlers.

others == <<ppa, evault, worker, faults>>

\* A record is prepared under an ID that hosting has just made up and tells nobody before
\* the answer (hosting/deploy.go:334), so only one call prepares it.
BeginPrepare(c) ==
    /\ row = NoJob /\ \A d \in Calls : call[d].stage \notin {"preparing", "reserved"}
    /\ call[c] = NoCall /\ calls < MaxCalls
    /\ calls' = calls + 1
    /\ call' = [call EXCEPT ![c].stage = "preparing"]
    /\ UNCHANGED <<row, others>>

EndCall(c) == call' = [call EXCEPT ![c] = NoCall] /\ UNCHANGED <<calls, others>>

\* The first version must be certified before an identity is reserved for it.
RequireFirst(c) ==
    /\ call[c].stage = "preparing"
    /\ UNCHANGED row
    /\ IF Certified(1)
       THEN call' = [call EXCEPT ![c].stage = "reserved"] /\ UNCHANGED <<calls, others>>
       ELSE EndCall(c)

SavePrepared(c) ==
    /\ call[c].stage = "reserved"
    /\ Save([NoJob EXCEPT !.status = "awaiting_signature"])
    /\ EndCall(c)

BeginCall(c, v) ==
    /\ call[c] = NoCall /\ calls < MaxCalls /\ row # NoJob
    /\ calls' = calls + 1
    /\ call' = [call EXCEPT ![c] = [stage |-> "loaded", version |-> v, job |-> row]]
    /\ UNCHANGED <<row, others>>

\* Mutant: the status of a platform's job.
QueuedAsPlatform(j) == [j EXCEPT !.status = "identity_pending", !.due = TRUE]

Queued(j) == [j EXCEPT !.status = "publishing", !.due = TRUE]

\* A signature that was recorded is only queued again when its publication failed.
FinalizeDeployment(c) ==
    /\ call[c].stage = "loaded" /\ call[c].version = 0
    /\ IF call[c].job.status \in {"awaiting_signature", "failed"}
       THEN Save([Queued(call[c].job) EXCEPT !.signed = TRUE])
       ELSE UNCHANGED row
    /\ EndCall(c)

\* Mutant: the record need not be signed yet.
RefusedSame(c) == call[c].job.version = call[c].version

\* An unsigned record is refused, and one that has the version already is left as it is.
Refused(c) == ~call[c].job.signed \/ call[c].job.version = call[c].version

\* A version that the PPA denied is refused.
CheckVersion(c) ==
    /\ call[c].stage = "loaded" /\ call[c].version # 0
    /\ UNCHANGED row
    /\ IF Refused(c) \/ Denied(call[c].version)
       THEN EndCall(c)
       ELSE /\ call' = [call EXCEPT ![c].stage = "checked"]
            /\ UNCHANGED <<calls, others>>

\* Mutant: the signature of the version before stays on the record.
MovedUnsigned(j, v) == [Queued(j) EXCEPT !.version = v, !.document = 0]

\* Mutant: the record keeps its status.
MovedAside(j, v) == [j EXCEPT !.version = v, !.keySigned = v, !.document = 0]

Moved(j, v) == [Queued(j) EXCEPT !.version = v, !.keySigned = v, !.document = 0]

PublishDeploymentVersion(c) ==
    /\ call[c].stage = "checked"
    /\ Save(Moved(call[c].job, call[c].version))
    /\ EndCall(c)

CallLost(c) ==
    /\ call[c] # NoCall
    /\ Fault
    /\ call' = [call EXCEPT ![c] = NoCall]
    /\ UNCHANGED <<calls, row, ppa, evault, worker>>

-----------------------------------------------------------------------------
\* The worker: reconcileDeployments, ReconcileDeployment and publishDeployment.

outsideWorker == <<ppa, http>>
Goto(stage)   == pc' = stage

\* Mutant: a deployment whose publication failed is left to its next call.
ReadyUnlessFailed(j) == j.status = "publishing" /\ j.due

Ready(j) == j.status \in {"publishing", "failed"} /\ j.due

LoadReady ==
    /\ pc = "idle" /\ Ready(row)
    /\ job' = row /\ Goto("loaded")
    /\ UNCHANGED <<outsideWorker, row, evault, faults>>

RequireCertification ==
    /\ pc = "loaded"
    /\ Goto(IF Certified(job.version) THEN "certified" ELSE "failed")
    /\ UNCHANGED <<outsideWorker, row, evault, job, faults>>

SavePublishing ==
    /\ pc = "certified"
    /\ job' = [job EXCEPT !.status = "publishing"]
    /\ Save(job') /\ Goto("saved")
    /\ UNCHANGED <<outsideWorker, evault, faults>>

\* A call whose answer is lost fails after its effect.
Proceed(ok, stage) == IF ok THEN Goto(stage) /\ UNCHANGED faults ELSE Goto("failed") /\ Fault

\* The Registry is asked whether the eVault exists.
CheckRegistered ==
    /\ pc = "saved"
    /\ Goto(IF registered THEN "registered" ELSE "unregistered")
    /\ UNCHANGED <<outsideWorker, row, evault, job, faults>>

\* The eVault is provisioned with the entropy reserved when the record was prepared.
ProvisionPrepared(ok) ==
    /\ pc = "unregistered" /\ ~expired
    /\ registered' = TRUE /\ provisions' = provisions + 1
    /\ Proceed(ok, "registered")
    /\ UNCHANGED <<outsideWorker, row, expired, documents, profile, recorded, job>>

ProvisionExpired ==
    /\ pc = "unregistered" /\ expired
    /\ Goto("failed")
    /\ UNCHANGED <<outsideWorker, row, evault, job, faults>>

KeyDocument        == [version |-> 0, signature |-> 0]
VersionDocument(j) == [version |-> j.version, signature |-> j.keySigned]

\* The eVault has more version documents than it returns; a query for one type returns
\* none of the other.
Stored  == {d \in Document : documents[d] > 0}
Crowded == Cardinality({d \in Stored : d.version # 0}) > PageSize

\* Mutant: the documents that the query returned are not compared.
NeverFound(d) == {FALSE}

\* What a query may say of a document: one beyond the first page is not found.
Found(d) == {d \in Stored} \cup (IF Crowded /\ d.version # 0 THEN {FALSE} ELSE {})

Create(d) == documents' = [documents EXCEPT ![d] = @ + 1]

FindKey ==
    /\ pc = "registered"
    /\ \E found \in Found(KeyDocument) : Goto(IF found THEN "key" ELSE "nokey")
    /\ UNCHANGED <<outsideWorker, row, evault, job, faults>>

CreateKey(ok) ==
    /\ pc = "nokey"
    /\ Create(KeyDocument)
    /\ Proceed(ok, "key")
    /\ UNCHANGED <<outsideWorker, row, registered, provisions, expired, profile, recorded, job>>

FindVersion ==
    /\ pc = "key"
    /\ \E found \in Found(VersionDocument(job)) :
         /\ Goto(IF found THEN "version" ELSE "noversion")
         /\ job' = IF found THEN [job EXCEPT !.document = job.version] ELSE job
    /\ UNCHANGED <<outsideWorker, row, evault, faults>>

CreateVersion(ok) ==
    /\ pc = "noversion"
    /\ Create(VersionDocument(job))
    /\ job' = [job EXCEPT !.document = IF ok THEN job.version ELSE 0]
    /\ Proceed(ok, "version")
    /\ UNCHANGED <<outsideWorker, row, registered, provisions, expired, profile, recorded>>

WriteProfile(ok) ==
    /\ pc = "version"
    /\ profile' = job.version
    /\ Proceed(ok, "profile")
    /\ UNCHANGED <<outsideWorker, row, registered, provisions, expired, documents, recorded, job>>

RegisterSoftwareVersion(ok) ==
    /\ pc = "profile"
    /\ recorded' = recorded \cup {job.version}
    /\ Proceed(ok, "recorded")
    /\ UNCHANGED <<outsideWorker, row, registered, provisions, expired, documents, profile, job>>

SaveCompleted ==
    /\ pc = "recorded"
    /\ Save([job EXCEPT !.status = "completed", !.due = TRUE])
    /\ job' = NoJob /\ Goto("idle")
    /\ UNCHANGED <<outsideWorker, evault, faults>>

CallFails ==
    /\ pc \in Working
    /\ Fault
    /\ job' = IF pc \in {"key", "noversion"} THEN [job EXCEPT !.document = 0] ELSE job
    /\ Goto("failed")
    /\ UNCHANGED <<outsideWorker, row, evault>>

SaveFailed ==
    /\ pc = "failed"
    /\ Save([job EXCEPT !.status = "failed", !.due = FALSE])
    /\ job' = NoJob /\ Goto("idle")
    /\ UNCHANGED <<outsideWorker, evault, faults>>

BackoffEnds ==
    /\ ~row.due
    /\ Save([row EXCEPT !.due = TRUE])
    /\ UNCHANGED <<outsideWorker, evault, worker, faults>>

EntropyExpires ==
    /\ ~expired /\ row # NoJob
    /\ expired' = TRUE
    /\ UNCHANGED <<outsideWorker, row, registered, provisions, documents, profile, recorded,
                   worker, faults>>

\* The service restarts: calls under way are lost with it, the store survives.
Crash ==
    /\ Fault
    /\ call' = [c \in Calls |-> NoCall]
    /\ pc' = "idle" /\ job' = NoJob
    /\ UNCHANGED <<calls, ppa, row, evault>>

-----------------------------------------------------------------------------
WorkerStep ==
    \/ LoadReady \/ RequireCertification \/ SavePublishing
    \/ CheckRegistered \/ ProvisionExpired \/ FindKey \/ FindVersion
    \/ SaveCompleted \/ SaveFailed
    \/ \E ok \in BOOLEAN : \/ ProvisionPrepared(ok) \/ CreateKey(ok) \/ CreateVersion(ok)
                           \/ WriteProfile(ok) \/ RegisterSoftwareVersion(ok)

CallStep ==
    \E c \in Calls : \/ RequireFirst(c) \/ SavePrepared(c)
                    \/ FinalizeDeployment(c) \/ CheckVersion(c) \/ PublishDeploymentVersion(c)

Environment ==
    \/ \E v \in Versions : Decide(v, "granted") \/ Decide(v, "denied")
    \/ \E c \in Calls : BeginPrepare(c) \/ CallLost(c) \/ \E v \in {0} \cup Versions : BeginCall(c, v)
    \/ EntropyExpires \/ CallFails \/ Crash

Next == WorkerStep \/ CallStep \/ BackoffEnds \/ Environment

Spec == Init /\ [][Next]_vars

\* The worker's loop runs on, and time passes.
FairSpec == Spec /\ WF_vars(WorkerStep) /\ WF_vars(BackoffEnds)
=============================================================================
