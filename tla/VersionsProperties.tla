------------------------- MODULE VersionsProperties -------------------------
(***************************************************************************)
(* What the publisher has to guarantee about the record of a deployment.   *)
(***************************************************************************)
EXTENDS DeploymentVersions

\* "A job that says it is completed" is: the eVault's profile, its binding document and
\* the Registry have the version of the record, whatever was saved over it meanwhile.
CompletedTrue ==
    row.status = "completed" =>
        /\ profile = row.version /\ row.document = row.version
        /\ row.version \in recorded

\* A profile names no version that its deployer did not authorise: the wallet's bundle
\* signs the first, and the deployment key signs each other one by its own payload.
ProfileSigned ==
    profile # 0 =>
        /\ documents[KeyDocument] > 0
        /\ \/ documents[[version |-> profile, signature |-> profile]] > 0
           \/ profile = 1 /\ documents[[version |-> 1, signature |-> 0]] > 0

\* Lost answers and restarts between asking and creating do not duplicate what the
\* publisher creates: one eVault, one key document, and each version's document once as
\* long as the eVault returns them all to one query.
CreatedOnce ==
    /\ provisions <= 1 /\ documents[KeyDocument] <= 1
    /\ ~Crowded => \A d \in Document : documents[d] <= 1

\* Once the wallet's signature is on the record no stale save takes it off.
SignatureKept == [][row.signed => row'.signed]_vars

\* Once the eVault exists, a certified version that the record has while nobody holds an
\* older copy is published, however many attempts fail and whatever calls and restarts
\* come between, unless the PPA denies it or another version is accepted.
Quiet == pc = "idle" /\ \A c \in Calls : call[c] = NoCall
RetriedUntilPublished ==
    \A v \in Versions :
        Quiet /\ registered /\ row.signed /\ row.version = v /\ Certified(v)
            ~> profile = v \/ ~Certified(v) \/ \E c \in Calls : call[c].stage = "checked"

\* hosting.md: "Later versions inherit the certification the deployment was created with
\* and go live without another review, unless the PPA explicitly denies a version".
LaterPublished ==
    \A v \in Versions \ {1} :
        registered /\ row.version = v ~> profile = v \/ row.version # v \/ Denied(v)
=============================================================================
