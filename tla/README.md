# TLA+ models of GitW3

GitW3 is a Go fork of the Forgejo forge. What it adds, and what this project is
about, is *managed hosting* (build a release, sign it, run it on a Docker Swarm
cluster), the *autoscaler* of that cluster, and the *publication service* that
registers platforms and deployments with W3DS. The inherited forge (git, issues,
pull requests, Actions, packages) is not modelled.

## 1. Inventory

| part | code | state | operations | hard behaviours |
|---|---|---|---|---|
| deployment lifecycle | `services/hosting/{deploy,golive,sync,build}.go`, `models/hosting/{deployment,build_job}.go` | rows `hosting_deployment`, `hosting_build_job` | Deploy, Rollback, Cancel, HandleBuildCallback, goLive, SyncDeployments, OnW3DSDeploymentSigned | six handlers move one row concurrently; outside calls between read and write; restarts; timeouts |
| signing of a target | `deploy.go`, `models/w3ds/deployment.go`, `routers/web/repo/deploy.go` | the target's `w3ds_deployment_id` and `w3ds_version`, the W3DS records | prepareTargetSigning, DeploymentCallback, ensureW3DSVersion | the record is replaced while older goLives run; a version is published by three callers |
| cluster clients | `dokploy.go`, `swarm.go` | Dokploy's app and newest job, the Swarm service | DeployImage, AppState, EvaluateRollout | Swarm follows Dokploy later; states of an earlier rollout are read for a later one; lost answers |
| deploy targets | `target.go`, `cleanup.go`, `models/hosting/target.go` | `hosting_target`, Dokploy apps | EnsureTarget, DeleteTarget, SweepOrphans | crash between creating an app and saving its ID; sweep against provisioning |
| domains | `domains.go`, `models/hosting/domain.go` | `hosting_domain`, DNS records | pool refill, claims, subdomains, custom domains | two claims of one name; partial failures; refill against provisioning |
| registry GC | `gc.go` | container package versions | CollectRegistryGarbage | keep set older than the deletion; rollbacks |
| environment | `models/hosting/env_var.go` | variables, snapshots | EnvMap, ReplaceEnv | a rollback replaces what a user edits |
| tags and pushes | `tags.go`, `push.go`, `notifier.go` | tags, releases | PublishVersionTag, next patch tag, deploy on push | retries on a taken tag |
| autoscaler | `modules/scaler`, `cmd/gitw3-scaler` | SQLite node rows, policy state; droplets, Swarm nodes | tick: reconcile, advance, Decide, scaleUp, scaleDown, rotateToken | crash between a cloud call and its save; stale snapshot; reused addresses; limits |
| publication service | `services/platformsync` | bolt jobs for platforms and deployments | webhooks, Reconcile, Prepare/Finalize/PublishDeployment, the worker | whole-record saves race with handlers; retries; coalesced events |
| W3DS pages and identity | `routers/web/repo/w3ds.go`, `services/w3dsidentity` | links of users and wallets | link, submit, migrate | mostly sequential |
| upstream forge | everything else | | | Actions, queues and automerge are candidates for later |

How they interact: the web handlers and the cron task share the database rows
inside one GitW3 process. The builder is a workflow run of Forgejo Actions, told
to start by `BuilderClient.Dispatch`, which reports through the signed HTTP callback
`HandleBuildCallback`. `goLive` calls the publication service over HTTP
(`publisher.go`) and Dokploy over HTTP (`dokploy.go`); Dokploy updates Swarm on its
own and GitW3 learns of it by reading. The autoscaler shares only Swarm with
hosting.

What makes them correct: *lifecycle* - one pending release per target, one live
row that the target points to, live only when healthy, never back from an end,
every row settles; *signing* - nothing ships unsigned or with a version that was
not accepted; *cluster* - only verified images run, and a verdict is about the
release it is asked for; *domains* - a name belongs to one target, no leaked
record; *GC* - nothing that may still run is deleted; *autoscaler* - never above
`MaxWorkers`, no droplet leaked, no busy worker deleted; *publication* - no update
lost, one repository per eName, certified releases only.

The hazards are listed in `PROJECT.json` at their lines, with the property that
covers each or the reason why none does.

## 2. Plan

1. **Hosting core** (done): `DeploymentStatus`, `Cluster`, `Hosting`,
   `DeploymentLifecycle`, and their properties and proofs.
2. **Autoscaler** (done): `Scaler`, a whole tick against DigitalOcean and Swarm.
3. **Publication service** (done): `Publication` for the platform of a repository,
   `DeploymentVersions` for the record of a deployment.
4. **Domains** (done): `Domains`, first deploys, claims, removals and the refill.
5. **Proofs** (done for the runs there are): every type invariant, safety invariant and
   action property that a passing run checks, and the refinement `Spec => LifecycleSpec`.
   Only liveness is left to TLC.
6. **Open**: `RegistryGC` (the keep set against a rollback, gc.go:85), the environment
   snapshot of a rollback, migration and activation in the publication service,
   custom domains.

`Hosting` and `DeploymentVersions` meet at one interface: the publisher's answers that
`Hosting` has as `PublishAccepted`, `PublishRefused` and `accepted` are what
`PublishDeploymentVersion` returns. They are not composed into one state space.

## 3. Modules

| module | models | in terms of the code |
|---|---|---|
| `DeploymentStatus` | `models/hosting/deployment.go` | the statuses, the table `transitions`, `CanTransition` |
| `Cluster` | `dokploy.go`, `swarm.go`, and (external) Dokploy and Swarm | `dok`: the app's image and newest job; `svc`: the Swarm service; `proven`: history of what was healthy |
| `Hosting` | the deployment lifecycle, for one target | see 3.1 |
| `DeploymentLifecycle` | abstract specification | phase and image of each deployment; `Hosting` refines it |
| `Scaler` | `modules/scaler` | see 3.2 |
| `Publication` | `services/platformsync`: webhooks, `Reconcile`, the worker | see 3.3 |
| `DeploymentVersions` | `services/platformsync`: deployment records | see 3.4 |
| `Domains` | `domains.go`, `models/hosting/domain.go`, part of `target.go` | see 3.5 |
| `HostingProperties`, `ScalerProperties`, `PublicationProperties`, `VersionsProperties`, `DomainsProperties` | | the properties of each model, fairness, the refinement mapping |
| `MCHosting`, `MCScaler`, `MCPublication`, `MCVersions`, `MCDomains` | | what TLC needs: symmetry, addresses |
| `MCRollbacks` | | `Hosting` with a history variable (`undone`, what Swarm rolled back) for the one run that asks about it; no step depends on it |
| `HostingProofs`, `HostingImageProofs`, `HostingReleaseProofs`, `ScalerProofs`, `PublicationProofs`, `VersionsProofs`, `DomainsProofs`, `DomainsAddressProofs` | | theorems |

In every model a step ends where another actor can act on what was read or written: as a
rule at each outside call, and between two accesses to the database that another handler
shares. What the code read before a call is remembered, not read again. These accesses
are merged into one step all the same:

- `Hosting`: `LoadTarget` reads the target row and its signing record (a record, once
  signed, stays so, and the next steps use only what was read); `ReadRollout` reads the
  target, Dokploy and Swarm (the verdict it yields waits for the next step, so the
  cluster may move between it and the write); `SendImage` saves the environment, which is
  not modelled, and the image; the callback and `SyncBuild` write a build job and then the
  deployment's row, and Cancel the run, the job and the row (no reader acts on the pair);
  `CreateDeployment` inserts the job of a build with its row, as a job without a run number
  is treated by every reader as no job; `ListWaiting` reads the target and the list.
  `SupersedeOne` looks for a pending row again before each cancellation, where
  supersedePending lists once: the late cancellation of a run whose number was saved after
  another request had cancelled its row is not covered.
- `Scaler`: `TakeSnapshot` is two calls to Swarm, nodes and tasks; the ghosts of a tick are
  removed in one step, of any part of them.
- `Publication`: a provisioning asks whether the eName resolves and provisions it in one
  step (the worker alone provisions, so nothing comes between that matters).
- `Domains`: `ListPrevious` is `CheckSubdomain` and `ListTargetDomains` (the insert tests
  the name again); `CreateApp` is the key, the app and the save of its ID.

Definitions introduced by "Mutant:" are plausible mistakes; no action uses them. They show
that each property depends on the code it is about.

### 3.1 Hosting

`Hosting` has the columns of the rows as functions over deployment IDs (`status`,
`version`, `image`, `rollbackOf`, `job`), the target row (`target`), the W3DS
records (`record`), the builder's runs (`run`), the registry, and each handler in
memory: `request` (Deploy and Rollback), `golive` (a call of goLive, by caller: the
callback or rollback of a deployment, the cron, the wallet handler), `callback`,
`sync` (the list the cron works through, with what it has read), `wallet`.
`accepted` and `shipped` are history. `late` holds the rows whose `updated_unix` is
older than the timeout that applies to their status, and is cleared by every write
of the row, as in the code.

So markLive is three steps, goLive up to six (read the target, publish, record the
version, send the image, deploy, mark), dispatchBuild two, and the callback three: its
nonce, the move of a queued row to `building` (build.go:163-165), and the result. One
wallet callback and one cron task run at a time (the cron never overlaps itself); the
cron handles its list in the order of IDs. Dokploy's job takes the image that the app has
when it runs, which may be that of a release whose `deploy` was not called yet.

A digest is the number of the deployment whose build produced it, plus one digest
that was never pushed. Versions are model values. Events that people, the network or
the cluster may cause are enabled per run by the constant `Events`, so that each run
asks its question on the smallest system that has it; the proofs hold for every
subset.

### 3.2 Scaler

`droplet` is what DigitalOcean has, `swarm` the node on each droplet, `node` the
scaler's table, `snap`, `listed`, `booted`, `todo` what the tick in progress has
read. A droplet is a number in the order of creation and names its swarm node too;
`Address` may give two droplets the same private address, one after the other.
`advance` is one action per state of a row; a tick advances its rows in order, removes
ghosts and then decides. The policy's clocks and utilization are one of three loads
(`Loads`), chosen anew by every tick. Faults (a lost answer, a restart) and incidents
(an outage of a machine that exists, an operator who drains or deletes, a token
rotation) share the bound `MaxTrouble`. Which of two nodes with the same address
`findSwarmNode` meets first is fixed by CHOOSE. A droplet boots only after Swarm has noticed
that the machine which had its address is gone; this is an assumption about timing.

### 3.3 Publication

One repository: `file` is the manifest on the default branch with the number of the
push that wrote it, `hooks` the webhooks under way (delivered in any order, possibly
again), `row` the job in the store, `job`, `manifest`, `base` what the worker holds,
`profile` the public profile of each eName, `registered` the eNames that resolve.
`Reconcile` is one action per outside call or save. `Coalesced` and `Scheduled` are
`ScheduleEvent`. A commit of the publisher fails when the blob it read has been
replaced, and triggers a webhook itself. A push may carry any eName that resolves, the one
the publisher committed before among them, also after the manifest was deleted. "The
manifest is deleted" and "the repository is deleted" differ in their event only.

### 3.4 DeploymentVersions

One deployment: `row` the stored record, `call` the copies that HTTP calls loaded
(`FinalizeDeployment` as version 0, `PublishDeploymentVersion` otherwise), `job` the
worker's copy, and outside the eVault (`registered`, `documents`, `profile`), the
Registry (`recorded`, `expired`) and the PPA (`decision`, external). Every save writes
the whole copy, as `SaveDeployment` does. `PrepareDeployment` is three steps, the last of
which saves unconditionally. Every call of the worker is a step: whether the eVault exists
and its provisioning, the query for a document and its creation. A document is identified
by what it is about and by what signed it, which is how `ensureDeploymentBinding` looks for
it among the first `PageSize` of a type (100 in the code); beyond that a query may miss it
(`Found`).

### 3.5 Domains

`rows` is `hosting_domain` by ID, `routes` Dokploy's domains, `op` what each request
and the cron task holds. The requests are the first deploy of a target with or without
a chosen name (`EnsureTarget`), `ClaimSubdomain` and `removeTarget`; a first deploy that
fails goes on as a removal, as in the code. Each database access and each call to
Dokploy or the DNS provider is a step; the DNS provider's state is not kept, its calls
may fail. The row of a target is inserted before its app exists (`BeginFirst`,
`CreateApp`); `blind` holds the requests that read the row before that, and Dokploy
refuses them a route (`AddRoute`). A removal deletes the app and then the row; the deletion
of the app takes its routes with it. A target made again after its removal is a new one
(IDs are not reused).

## 4. Runs

| run | question | bounds | distinct states |
|---|---|---|---|
| `HostingReleases` | `NewestPendingOnly`, `LivePointerExact`, `LiveWasHealthy`, refinement `LifecycleSpec` | 2 requests, 2 deployments, Swarm rollbacks | 1.1 M |
| `HostingFaults` | `TypeOK`, `OnlyRegistryImages`, `SignedBeforeShipping`, `AcceptedVersionShips`, `OthersSettle` (liveness) | REQUIRE_W3DS, 1 request, 1 deployment, 2 versions, 1 record, 1 crash, every fault, forged reports | 0.39 M |
| `FindForgotten` | `EverySettles`, violated | 1 deployment, 1 crash | |
| `FindCancelledShips` | `CancelledNeverShips`, violated | 2 requests, 2 deployments | |
| `FindStaleRollback` | `RolledBackFailed`, violated (`MCRollbacks`) | 1 request, 2 deployments | |
| `Scaler` | `TypeOK`, `MaxRespected`, `NeverStacks`, `DrainedFirst`; liveness `NoOrphan`, `NothingStuck`, `GhostsRemoved` | 2 droplets, MAX_WORKERS 1, one trouble | 35 k |
| `FindLastWorker` | `KeepsMinimum`, violated | 2 droplets, no trouble | |
| `Publication` | `TypeOK`, `PublishedTrue`, `EnameImmutable`, `PushesKept`; liveness `PendingPublished`, `PendingArchived` | 3 changes, among them at most 3 pushes (publish, delete, put back) and 1 release, 3 eNames, one fault | 0.43 M |
| `FindStillPublic` | `DeletedArchived`, violated | 2 pushes, 1 eName, no fault | |
| `Versions` | `TypeOK`, `CompletedTrue`, `ProfileSigned`, `CreatedOnce`, `SignatureKept`; liveness `RetriedUntilPublished` | 2 concurrent calls, 4 in all, 2 versions, pages of 1 document, 2 decisions, one fault | 0.35 M |
| `FindUndecided` | `LaterPublished`, violated | 1 concurrent call, 3 in all, 2 versions, 1 decision, no fault | |
| `Domains` | `TypeOK`, `AddressRouted`, `AssignmentKept`, `AddressKept` | 2 targets, 3 names, 2 concurrent requests (3 in all) and the cron, pool of 1, one fault | 2.6 M |

*Bounds.* All hazards of the lifecycle are between two deployments of a target: a
newer one that supersedes, re-signs or overtakes an older one. A third would repeat
one of the two roles. Two requests are needed for supersession from both sides, two
versions for `w3ds_version` to be wrong. A single deployment is enough for what ends it
(liveness, faults), where all its handlers may still be active at once, and one crash may
fall between any two of its steps; that releases of several deployments and replaced
records do not mix their signatures and versions is proved for every number of them
(`SigningHolds`, `PublicationHolds`). For the scaler two droplets are a worker
and the one that replaces it or is one too many; three were also checked with
MIN_WORKERS 1 and MAX_WORKERS 2 (1.3 M states), and a reused address with one trouble.
For the publisher, three pushes are a manifest, its deletion and what puts it back, or two
that change it while the worker is busy; `MaxChanges` bounds pushes and releases together.
One fault may be the answer that is lost or the restart; a second
decision lets the PPA take a version back. A page of one document makes the second
version's document the one that a query may miss. For domains, two
targets compete for three names, of which a pool of one makes the rest scarce.
`ClaimPoolDomain`'s five attempts are cut to two, enough to fall through to a new name.
Deadlock checking is off in all runs: a system whose work is done, whose bounds are
used up and whose surroundings are idle does stop.

*Fairness* (liveness only). `Hosting`: handlers in a goroutine run on, the cron
task fires every 15 seconds, a workflow run ends because the builder limits its
jobs, and time passes. Each of these is weak fairness of its own process, so that no other
process's steps count for it. Nothing is assumed of users, wallets, the cluster, or of
crashes not happening. `awaiting_certification` may wait for the PPA for ever by design;
`OthersSettle` is therefore checked under `PatientSpec`, which adds that a publisher asked
again and again accepts in the end: one strong fairness of `PublishAccepted`, whoever of
goLive's callers asks. `OthersSettle` then says that each deployment in flight (waiting for
a wallet that never signs, too) ends, unless it is `Forgotten`: left by a restart in
`queued` or `building` with no run number and no handler. `Scaler`: the loop ticks,
machines boot or disappear from Swarm when they are deleted, tasks leave a drained node,
the join timeout passes; no droplet has to join and no node to recover. `Publication` and
`DeploymentVersions`: the worker's loop runs and its backoff ends. Calls fail only as often
as the bound on faults allows, so these properties say: once calls stop failing.

*What the violations show.*

- `FindForgotten`: sync.go's comment says that a crash at any point is repaired on
  the next tick. A deployment (or rollback) whose process stops before its run
  number is saved stays `queued`, since `syncBuild` returns early for it; when the run's
  report came first it stays `building`, with its nonce used up.
  `OthersSettle` is the part of the promise that holds.
- `FindCancelledShips`: supersedePending promises that only the newest release is
  shipped; a goLive that is past its reads still hands its cancelled release to
  Dokploy, because the status is checked only afterwards.
- `FindStaleRollback`: a row is reported as "crashed or failed its health checks"
  when Swarm's update state is that of another deployment's rollout; the digest is
  compared after that state.
- `FindLastWorker`: a droplet that joins just after its row failed is deleted and
  its row forgotten, but its swarm node counts as a worker until Swarm notices. With
  nothing left to wait for, the policy counts two workers and drains the real one.
- `FindStillPublic`: a deletion whose webhook is answered while the worker publishes is
  overwritten by the worker's save of the copy it loaded; nothing is pending any more
  and the profile stays public. `PendingArchived` is the part that holds: a public profile
  whose job waits for the worker when the manifest is gone, and has it on record, is
  archived.
- `FindUndecided`: the docs, a comment and a test say that later versions inherit the
  certification of the first and go live unless denied. The handler accepts an undecided
  version accordingly, and the worker asks for a granted decision on it, at every retry.
  `RetriedUntilPublished` is about certified versions.

Some hazards are in the model and kept out of a property by name, because the code does not
prevent them:

- `RefillDomainPool` deletes the rows it read in provisioning (domains.go:145-147), and one
  of them may be the name that a first deploy that found the pool empty is making for
  itself; the deploy notices nothing and ends routed, without an address. `AddressKept`
  leaves out that very step, `PurgeStuck(Cron)`, and nothing else that happens meanwhile.
- A claim that read its target before the app was saved asks Dokploy for a route to no
  app. Its failure counts as a failing call, which `AddressRouted` leaves out.
  `AddressRouted` is one direction only. That each route has an address does not hold: a
  request that releases a copy of a row from before its route was saved leaves the route
  behind.
- A failed attempt to archive saves its copy over the webhook that restored the manifest
  (processor.go:872), and the retry archives the restored one: `PendingPublished` requires
  that the record does not say archive.
- The worker writes a profile, the save of it is lost to a restart and the manifest is
  deleted: the job has no manifest on record and is dropped (processor.go:548-549), and the
  profile stays public. `PendingArchived` is about jobs that say what they published.
- A dropped job takes its eName along. A maintainer who restores the manifest with the
  eName that was committed gets a job without one, which is refused for ever
  (processor.go:614). `EnameImmutable` is about jobs that exist, and `PendingPublished`
  about manifests the job accepts.
- A version that was accepted may be erased from the record by the worker's save of an
  older copy, and entropy that expires before the eVault is provisioned fails every retry
  (clients.go:513). `RetriedUntilPublished` begins when the eVault exists and nobody holds
  an older copy.
- Beyond a full page a document that exists may be created again: `CreatedOnce` speaks of
  version documents only as long as one query returns them all.

## 5. Proofs

All theorems hold for every value of the constants that satisfies the model's named
assumption (`HostingAssumption`, `ScalerAssumption`, `PublicationAssumption`,
`VersionsAssumption`, `DomainsAssumption`); TLC evaluates each in every run of the model.

`HostingProofs`:

- `Invariants`: `Spec => [](TypeOK /\ References /\ SigningInv)`, the inductive
  invariant. `TypeOK` is not inductive alone: a goLive working on deployment 0
  would write outside the rows' domain, which `References` excludes (a handler, a
  run, a callback or a cron entry only names deployments that were created).
  `SigningInv` says what a goLive past its reads can rely on: some record is signed
  (signatures are never taken back), the target's version was accepted, and from
  `record` on so was the deployment's own.
- `TypeCorrect`, `ReferencesHold`, `SigningHolds` (`SignedBeforeShipping`) and
  `PublicationHolds` (`AcceptedVersionShips`) follow.

`HostingImageProofs`: `ImageInvariant` is about digests. That only registry images reach
the cluster is not inductive: Dokploy is given the image of a row, so every row's image
has to come from the registry (`ImagesRegistered`), and whatever works on a built
deployment has to find one there (`RowsKnown`, `WorkKnown`). `BuildsOnly` and `MarkedLive`
say that a build reports only to rows without an image, and that markLive has made its
row live before it retires another. `RegistryImagesHold` follows, and so does
`RefinesLifecycle` (`Spec => LifecycleSpec`): each action moves no row, or moves one by
the table of transitions (`MoveMaps`), inserts one (`InsertMaps`) or fills in a build's
image (`ImageMaps`), and each of these is a step of `DeploymentLifecycle`.

`HostingReleaseProofs`: `NewestPendingOnly` is inductive given the invariants above,
because a row becomes pending only by its insertion, whose request then supersedes
(`PendingIsOld`). `LivePointerHolds` needs `PointerInv`, which says what the live rows are
at each of markLive's three writes; `LiveWasHealthyHolds` needs `HealthyInv`, that a
verdict the cron acts on later is about an image that can no longer change. That it
cannot is taken from the refinement (`ImageStays`).

`ScalerProofs`: `TickKnowsDroplets` is the inductive invariant. `NeverStacks` is about
the moment of decision and needs that the policy then sees every droplet, which is not
so at all times: an answer may be lost after a droplet was created. But a tick lists
and adopts before it decides, so from then on every droplet that exists is listed and
has a row (`ListedAll`, `Tracked`), which holds to the end of the tick because a row is
only forgotten once its droplet is gone (`DeletedGone`). `TypeCorrect` and
`NeverStacksHolds` follow. `SnapshotsHold` adds what the tick may still conclude from its
snapshot of Swarm, however old: the node that `findSwarmNode` found for a row in the pool
is that of its own droplet (`OwnNode`), because no two machines that run have the same
address and a machine boots only when no node of an earlier one is ready (`Apart`,
`OneReady`); a drained node stays drained (`SnapPast`); and as long as there was no
incident, every row in the pool was seen as a ready worker since it was advanced
(`CalmSnap`). Hence `DrainedFirstHolds`: the emptiness that the scaler read for a row was
that of its own node, and an empty drained node gets no tasks. And hence
`MaxRespectedHolds`: `Decide` compares MAX_WORKERS with the number of ready *nodes*, so
one needs that at that moment all droplets have a row in the pool (as for `NeverStacks`)
and that these rows have nodes of their own in the snapshot. It has one hypothesis,
`1 <= MaxWorkers`: the flag may be 0 (`cmd/gitw3-scaler/main.go:108`), and the first
worker, which exists before the scaler starts, then is one too many.

`PublicationProofs`: `CopyHolds` is the inductive invariant, in three parts. `StagesInv`:
while the worker reconciles, no webhook can make the record say that it is published, and
from `named` on the manifest has the job's name; so the record that is saved at the end is
true to the profile just written (`PublishedHolds`). `NamesInv`: the copy that is saved has
the record's eName, or replaces one under which no eVault exists; hence `EnameHolds`,
although a failed attempt may save a replacement that it never used. Nothing is said of the
eName in a manifest but that it resolves: a maintainer may have put back any.
`EditsInv`: a manifest that is committed has the edit it was read with, from which
`PushesHold` follows. `TypeCorrect` is part of it. Each action that edits a record has a
lemma that first states its effect field by field.

`VersionsProofs`: `CopiesHold` is the invariant of the record and its copies (only signed
records are queued and only signed copies saved, one call prepares a record, and what the
worker's stage says of the eVault); `CompletedHolds` and `SignatureHolds` follow.
`CreatedHolds` adds what the worker creates (`Created`) and that each copy carries the
signature of its own version (`Signatures`). As the query for a document and its creation
are two calls, `Created` has to say what a query still tells when the creation follows: the
key document was not found because there is none, and a version's document because there is
none or the eVault has more than it returns (`Crowded`). `CreatedOnceHolds` and
`ProfileSignedHolds` follow.

`DomainsProofs`: `MakersApart` says that no two requests make the same row and that a
row being made is neither assigned nor available. It is what makes the unconditional
update of `provisionPoolDomain` as safe as the conditional one of `ClaimPoolDomain`;
`AssignmentKeptHolds` follows by one step per action that writes a row.

`DomainsAddressProofs`: `StepEffects` first states what the steps of all requests do to
rows, routes and their own record (`Effects`), so that the invariants need not go through
the actions again. `RequestsAgree` is the inductive invariant: what a request knows at each
stage (`Shape`), that rows that are gone stay so and that a list of rows to release holds
only rows of the own target (`OwnPrevious`), and that the pool and what the refill still
makes are together no more than `PoolSize` (`PoolFilled`); `DomainsTyped` follows, with the
bound on the pool. `AddressRoutedHolds` needs that an address is routed, or in the hands of
a request that is about to route it or has unrouted it to delete it (`Routed`).
`AddressKeptHolds` is about claims that release each other's addresses: what a claim
releases is older than what it made (`Order`), and while it has an address to release,
there is another of the target at least as new as the one it made (`Kept`); when a second
claim deletes that one, it is older than the second claim's own, for which `Kept` holds
too. Only removals and the refill's purge of a row in the making break this, and `OldFirst` says that a removal deletes the older address
first: a removal that lists what a claim made also lists what that claim releases, or it
has been deleted.

Each invariant has a lemma with one step per action; what several actions do alike
is proved once.

Only model-checked: liveness (`OthersSettle`, `NoOrphan`, `NothingStuck`, `GhostsRemoved`,
`PendingPublished`, `PendingArchived`, `RetriedUntilPublished`), which is out of the
prover's reach. The six violations are counterexamples and need no proof.

## 6. Not modelled

*Hosting*: database errors (every write succeeds; a crash between writes is
modelled), errors of the status calls to builder, Dokploy and Swarm (the cron then does
nothing until the next tick), the fallback to Dokploy's status when no Swarm proxy is
configured (`dokployRollout`), compose stacks, several targets, the cancellation of
deployments of a removed target, environment variables, commit statuses and the audit
log.

*Scaler*: the arithmetic of utilization and the clocks, pending services, an operator
who reactivates a draining node (the scaler deletes it when it is empty), two faults
together with a reused address (a ghost may then stay: `tracked` holds addresses too).

*Publication service*: migration, activation and bootstrap of platforms, manifests with
their own key, maintainers, `platformName`, what decisions contain, several
repositories.

*Domains*: custom domains and their verification, `rerouteDomains`, the DNS provider's
records, a claim that overlaps the removal of the same target's app.

*Registry garbage collection, environment variables, tags and pushes, alerts*: see the
plan; the last three only report or call `Deploy`. *Upstream Forgejo* (most of the
repository's lines: git, issues, pull requests, Actions, packages, queues) is not what
this project is about: GitW3 leaves it as it is, and the parts it calls (the builder,
the registry) are external actions.
