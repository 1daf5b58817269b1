# A TLA+ model of the Garage operator

The Garage operator is a Kubernetes controller manager that runs Garage (an
S3-compatible object store) from custom resources. What it must not get wrong
is the *Garage layout* (which storage processes hold a role, and therefore where
the only copies of blocks live), the *disks* under those processes, and the
*tenant objects* (buckets, keys, tokens) it creates in Garage on behalf of
objects in Kubernetes. Several controllers write all of these, users delete and
edit the objects they reconcile, the manager is restarted at will, and every
step is a call that may fail or whose answer may be lost.

## 1. Inventory

Paths are relative to `src/internal/controller/` unless they start with `src/`.

| Component | State it keeps | Operations | What makes it correct | Module |
|---|---|---|---|---|
| Layout mutation coordinator (`layout_mutation_coordinator.go`) | In memory, per layout: a mutex bit without a holder, one storage-drain marker, one Pod-rollout marker, each provisional or confirmed | `TryAcquire`/release; Begin/Confirm/End/Prune of markers; rehydration from the API at the head of every reconcile; four admission paths to the mutex | One writer at a time; a marker stands for a durable record or for one being written | `LayoutCoordinator` |
| Storage drain (`block_resync_barrier.go`) | `status.storageDrain`: actor, transaction, targets, CompletedAt | intent, revalidation, Apply, recovery of lost answers, abort, proof, clearing, recovery of orphans | No role leaves without a durable record that names it; the terminal proof is true; the record is never overwritten; a request terminates | `LayoutMutation`, `SafeRemoval` |
| GarageCluster and GarageNode controllers | the objects, finalizers, conditions, StatefulSets | Reconcile: rehydrate, freeze, finalize or drain, workloads, rollout, layout | do nothing while a drain they do not own is durable | `LayoutMutation`, `AutoMode`, `StorageRollout` |
| Managed Pod rollout (`storage_rollout.go`, `node_local_pool_rollout.go`) | `status.storageRollout`, StorageRolloutReady, finalizers on claims | choose one outdated Pod, protect its claims, record the handoff, delete, recover, roll forward, replace a lost workload behind a fence, release | at most one Pod of a layout is down and status names it; it comes back on its disk; it ends | `StorageRollout` |
| Replication-factor migration (`garagecluster_factor_migration.go`, `src/internal/factormigration/`) | `status.factorMigration`, annotations, `operator-suspended`, purge init containers, marker files | Validating .. Converging; abort; teardown | all processes change factor together; failure restores the tier; it runs once and ends | `FactorMigration` |
| Node-local pools (`node_local_pool_*.go`) | activation labels and HostPath claims on Nodes, DaemonSets with tokens, scheduling gates | preflight, publication, activation, membership, retirement, cleanup, deletion | a disk has one owner and one process; a retirement leaves enough roles and is one-way | `NodeLocalPool` |
| Auto mode and cycles (`garagecluster_automode*.go`, `automode_pvc_handoff.go`, `garagenode_cycle.go`) | GarageNodes per ordinal, `status.managedPVCs`, `status.autoModePvcHandoffs`, cycle phases | create, update, scale down, hand claims over, adopt legacies, replace identities, hand over to Manual | claims, nodes, roles and identities stay matched; scaling converges | `AutoMode` |
| Buckets, keys, admin tokens, reference grants (`garagebucket_*.go`, `garagekey_controller.go`, `garageadmintoken_controller.go`, `garagereferencegrant_controller.go`) | status with the remote ID, aliases, permissions; Secrets; finalizers | create, adopt, rename, grant, revoke, rotate Secrets, finalize | what is in Garage is accounted for by an object; deletions end | `Tenancy` and its parts |
| COSI driver (`src/internal/cosi/`) | shadow GarageBuckets and GarageKeys, reservation Secrets | provision, cancel, retain, grant, revoke | nothing is lost between driver and shadow; retained and shared things survive | `Cosi` and its parts |
| Admission webhooks (`src/api/`) | none | refuse updates and deletes by status | the guards of the users' actions in each module | (all) |
| Gateway clusters that share another cluster's layout, federation; operator credentials; storage contract | Secrets, tombstones | | | not modelled |
| Garage client, rendering, health, conversion, start-up | none of their own | HTTP, text, reporting | | left out |

**How they interact.** No component calls another directly. They meet in the
API server (spec, annotations and status of the same objects, read through a
cache or directly, written with optimistic concurrency), in the coordinator's
memory, and in Garage. Each controller has one worker (no
MaxConcurrentReconciles), and leader election leaves one active manager, so the
processes to interleave are: one worker per kind of object, the Kubernetes
controllers and kubelet, Garage, and users.

**What is hard.** A reconcile is a long sequence of calls decided on a snapshot
taken at its start; exclusions are tested in other critical sections than the
one that takes the mutex; markers are memory and are lost on restart; a status
write that fails may only be logged; a call may be committed and reported as
failed; names are predictable and reused by objects with another UID; Pods are
created late from decisions that no longer hold. `PROJECT.json` lists the
hazards at their lines with the properties that watch them.

## 2. Modules

| Module | Models |
|---|---|
| `LayoutCoordinator` | the methods of `LayoutMutationCoordinator` as functions from marker to marker (each runs under `c.mu`) |
| `LayoutMutation` | the two workers, the drain and rollout transactions, Garage's layout, users and restarts; EXTENDS the coordinator |
| `SafeRemoval` | the abstract specification that LayoutMutation implements: one removal at a time with its record |
| `FactorMigration` | the factor migration, the GarageNode renderer, the StatefulSet controller, kubelet, Garage and users |
| `StorageRollout` | the managed Pod rollout with workloads, Pods, claims and configuration |
| `NodeLocalPool` | the pools of one or two clusters on shared Nodes |
| `AutoMode` | the Auto tier, its claims, cycles and legacies |
| `TenantState`, `GarageBucket`, `GarageKey`, `AdminToken`, `ReferenceGrant` | the shared state of the tenant controllers, and one controller each |
| `Tenancy` | their composition, with users, Garage and the properties |
| `CosiBucket`, `CosiAccess` | the COSI Bucket and BucketAccess controllers with the controllers on their shadows |
| `Cosi` | their composition and the properties |
| `MC...` | instances for TLC: scenes and bounds, no definition of the models is replaced |
| `LayoutMutationProofs`, `SafeRemovalProofs` | theorems about the layout controllers, their handoffs and their refinement of SafeRemoval |
| `FactorMigrationProofs`, `NodeLocalPoolProofs`, `StorageRolloutProofs` | theorems about the module they are named after |
| `TenancyProofs`, `TenancyTrackingProofs` | theorems about the composition of the tenant controllers: what their objects and workers say, then what they do to Garage |
| `CosiProofs` | theorems about Cosi: the Bucket controller, then the BucketAccess controller and the whole driver |

In all modules a step ends where the code makes a call that changes the API
server or Garage, or takes a lock; reads that decide such a call belong to it
where the code repeats them just before (a CAS or a precondition on UID and
resourceVersion), and otherwise are in an earlier step, with what was read kept
in the worker's state. A fault (a failed call, a lost answer, a stopped
manager) may fall between any two steps.

**Scenes.** `StorageRollout`, `NodeLocalPool`, `AutoMode`, `FactorMigration` and
`Cosi` start from a *scene*: an initial topology and a budget for each kind of
user event and fault. `Tenancy` has a *focus*, the aspect of the two specs that
is edited. One run then covers the union of the scenes and not their product:
unrelated edits at the same time multiply states without reaching new control
paths, and the kinds that do interfere (a scale-down during a cycle, an edit
that overtakes a drain, a crash with anything) share a scene.

### LayoutMutation and SafeRemoval

*State.* `owner` is the GarageCluster in the API server (UID, generation,
StorageRolloutReady, `status.storageDrain`, `status.storageRollout`); `live`,
`deleting`, `wants` and `drift` are the GarageNodes and what users ask of them;
`outdated` and `down` are Pods; `roles`, `migrating` and `settled` are Garage's
layout and its unfinished data movement; `held`, `drainMarker` and
`rolloutMarker` are the coordinator; `wk` holds, for each worker, the program
point of its reconcile and the locals that live across calls: the snapshot of
the owner, the intent, the chosen Pod, the admission path.

*Steps.* A reconcile is: rehydrate (`ListRollouts` .. `ScanSources`), decide
(`NodeReconcile`, `ClusterReconcile`), test the exclusions (`CheckExclusions`),
take the mutex (`TryAcquire`), act (`WriteRole`, `DrainTransaction`,
`RolloutTransaction`), `Release`. `ApplyFails` has both outcomes, committed
and not. `Crash` clears the memory and the workers and keeps the API and Garage.

*Abstractions.* One layout owner; a transaction's target set is fixed by its
actor and folded with the target hash into the transaction number;
`ProveMigration` stands for the whole observation of block counters. Roles are
present or absent, capacities are not modelled. A GarageNode that keeps its UID
but is recreated under its name is a new incarnation of the owner only.
Transaction IDs are drawn from a finite set, always from those not in use.

*Refinement.* `SafeRemoval` knows only members, blocks on the move and one
record. `RemovalIsSafe` says that LayoutMutation implements it, with
`status.storageDrain` as the record: controllers, markers, mutex, lost answers
and restarts disappear.

### FactorMigration

*State.* The two annotations and the factor of the GarageCluster, `fm`
(`status.factorMigration`), `late` (the deadline of the phase has passed), per
node the suspension and its cached view, the StatefulSet and the version of it
the StatefulSet controller last observed, the Pod (configuration, purge
container, stage), the factor of the on-disk `cluster_layout` and the
`.purged-<id>` markers; `cw` and `nw` are the reconciles under way.

*Steps.* One per API call of the phase machine: the per-node passes of
`fmScaleDown`, `fmPurge`, `fmRebuildLayout`, `fmConverge` and the teardown visit
one node per step, in name order where the code sorts and in any order where it
ranges over a map. `Refused` is a conflict or a guard that turns a call down,
`Abandon` a failed call or a stopped manager. `SetFactorMigration` has the
branch in which the write fails and the failure is only logged.

*Abstractions.* The static guards of `fmValidate` are one nondeterministic
refusal. The GarageNode controller is its gate and its StatefulSet write from
an older snapshot; the rollout is one step, taken when every Pod is Ready and in
the layout. Garage exits at boot when the layout on disk has another factor than
its configuration, as the code's comments say it does. The GarageCluster a
reconcile acts on is the uncached one (the rehydration adopts it); GarageNodes
are listed from the informer cache, so in a `stale` scene a node's annotation
may be seen late, and updates of it then conflict.

### StorageRollout

*State.* `in`, `gn` and `seen` are the generations and nonces users change and
what GarageNodes observed; `wl`, `ghost`, `pods`, `label` and `pvc` are the
workloads (with their adoption fence), creates still owed by deleted ones, Pods,
activation labels and claims; `rec` is `status.storageRollout`, `marker` the
coordinator's memory, `ready` the published condition; `config` the revisions
whose configuration exists. `down` is history: members the operator stopped.

*Steps.* A reconcile recovers or advances the record first (roll forward,
redrive, adopt, enable, release, cancel) and only without one scans, protects
claims, persists the record, rechecks and deletes. The GarageNode controller,
the workload controllers, kubelet and the claim's finalizers are actions of
their own; `LateCreate` is a Pod created by the controller of a workload that is
already deleted.

*Abstractions.* A revision is the tuple of generations its hashes are taken
from; a bad revision never becomes Ready. Layout history counts as settled.

### NodeLocalPool

*State.* Per pool and Node the activation label's token, the HostPath claim,
the GarageNode and the role; per pool the DaemonSet (UID, token, fence) and its
configuration; `pods` and `late` creates; per cluster its spec, drain, condition
and the reconcile `w` with what preflight decided.

*Steps.* preflight, publication of workload and token, cleanup of retired
members, activation, opening of gates, membership, retirement of one member,
deletion of the cluster; the DaemonSet controller, which acts on the template it
last saw, kubelet and the GarageNode controller.

*Abstractions.* All pools use the same HostPaths. A token is the hash it is in
the code, drawn fresh. The drain of a member is begun and completed in two
steps (LayoutMutation has the inside). Left out: the prerequisites checker, the
transition of a disk layout inside a pool, and the identity inventory's text.
`CleanupActive` releases all Nodes of a retired pool in one step, where the code
writes one Node after the other, each with a conflict check of its own
(`node_local_pool_cleanup.go:295-489`).

### AutoMode

*State.* Per name `<<ordinal, depth>>` the GarageNode with its recorded claim,
identity, observation, drain and cycle; per claim name the PersistentVolumeClaim
with its maker, pin and nonce, and its entry in `status.autoModePvcHandoffs`;
the StatefulSet with its Pod; roles, drain, the legacy StatefulSet; `cw` and
`flight` are the reconciles under way.

*Steps.* The pass of the cluster controller (recover a drain, migrate legacies,
scale up, update, hand off and remove one node, eject to Manual), the GarageNode
reconcile (reserve, create, record, pin the claim; StatefulSet; discovery;
role; observation; drain; finalization) and the cycle (provision, sync, drain,
retain, detach, promote, delete, clear, cancel).

*Abstractions.* The identity lives on the claim, so it is the claim's UID. The
drain is what its actor and the cluster read of it. Left out: the
retry-migration annotation, EmptyDir legacies, the handoff of a whole deleted
cluster, lost-source recovery, PVC expansion.

### Tenancy

*State.* One GarageBucket and one GarageKey in another namespace, the grants
between them, one admin token, the Secrets, and `remote`: buckets, aliases,
keys with tombstones, permissions, rules, whether a bucket has objects in it, and
how lookups fail. `bw`, `kw` are the reconciles under way, with the snapshot they
act on. `token.lost` (the bearers no Secret carries) and `key.lost`
(`status.clusterWide` was cleared while the grants were there) are history, of
which two properties speak.

*Steps.* Every call that changes something, in the order of the code:
reservation, creation, adoption, aliases, permissions, local aliases, settings,
lifecycle, Secret, status; and the finalizers. Users edit, delete and recreate the
objects, delete the token's Secret and put objects into the bucket.

*Abstractions.* One permission bit (permissions are independent of one another);
names and payloads are left out; a decode error or a timeout of a lookup is a
state of Garage that an operator repair, or nothing, ends.

### Cosi

*State.* One COSI Bucket and its claim, its shadow, Garage's buckets and
aliases; two BucketAccesses of one name, their shadows (by UID, and the legacy
one by name), reservation Secrets, keys and published Secrets.

`ref` and `ok` say whether the parameters of the Bucket name the cluster and those
of the access parse; without them a deletion asks the shadow.

*Steps.* Each write of the driver and of the shadow's controller. `deleteShadow`
is two calls, the Patch that takes the finalizer off (`Strip...`) and the Delete
with the UID (`Drop...`); the shadow's controller, which puts a missing finalizer
back, may come in between, and then the Delete only marks the shadow. The create
of a bucket with its two checks (`CreateOrRecover`) is one step. `scene`
"bucket" is about provisioning, cancellation, retain and delete; "access" about
one access; "legacy" about a key shared by two accesses of an earlier release.

## 3. Runs

| Run | What happens in it | Properties | Distinct states |
|---|---|---|---|
| `transactions` | two nodes, both workers: a drain and a role change of n1, an outdated Pod of n2, a spec change, one restart at any point | `TypeOK`, `MutualExclusion`, `ProvisionalMarkerIsKept`, `HandoffIsDurable`, `RemovalIsAuthorized`, `RemovalIsSafe` | 1,348,106 |
| `cluster_drain` | a drain of all local roles of a federated layout, a node drain, both may be withdrawn, a role change, deletion and recreation of the cluster under its name | `DrainIsNeverStolen` | 1,170,584 |
| `drain_liveness` | a node drain, a cluster role change, one restart, one recreation, under `FairSpec` | `RequestedDrainTerminates` | 75,090 |
| `factor_restart` | one migration from factor 1 to 2, one abort, one reconcile cut off, Pods that may never move, under `FairSpec` | `TypeOK`, `SimultaneousRestart`, `TerminalReleasesNodes`, `RequestIsRecorded`, `MigrationTerminates` | 60,307 |
| `factor_faults` | three scenes: two requests with a lost status write; a GarageNode reconcile that outlasts the start, with a vanished Pod; a lagging cache with a lost status write | `FailedRestoresWorkloads`, `TerminalIsFinal`, `RebuiltLayoutIsKept` | 2,079,968 |
| `rollout` | seven scenes of two members on a DaemonSet, on StatefulSets or on both: edits, a revision that does not start, recovery nonces, lost Pods, workloads and claims, deleted members, a restart | `OneOutage`, `ReplacementIsSound`, `ReadyIsHonest`, `Converges` | 405,647 |
| `pools` | five scenes of one or two clusters with one or two pools on two Nodes: selectors, labels, declarations, DaemonSets and clusters change or go, a reconcile is cut off | `DiskHasOneOwner`, `MountedConfigExists`, `RetirementIsSafe`, `Converges` | 270,240 |
| `automode` | seventeen scenes of a tier with two ordinals: scaling, edits, cycles, cancellation, foreign claims, Manual, legacies, Pod restarts, a stop of the manager | `DiskIsOurs`, `RoleIsBacked`, `HandoffIsUsable`, `SourceOutlivesProof`, `Converges` | 99,795 |
| `tenancy` | thirteen aspects of bucket, key, grant and token, three user actions, one fault, deleted Secrets, losses in Garage | `EverythingIsTracked`, `StatusIsHonest`, `IdentitiesAreRespected`, `PermissionsSettle`, `DamageHeals`, `CleanupCompletes` | 115,446 |
| `cosi` | a Bucket, an access, and the two accesses of an earlier release; two faults for the Bucket and one for accesses; a lost bucket, cluster or scope, parameters that do not parse | `ProvisionedIsTracked`, `ReadyMeansUsable`, `CredentialsArePrivate`, `NothingInUseIsDeleted`, `RequestsComplete` | 201,216 |

Several properties are conjunctions of named parts, each with its own comment in
the module: `EverythingIsTracked` is `TypeOK`, `NothingIsLeftBehind`,
`AliasHandoffIsSafe`, `LocalAliasesAreTracked`, `GrantsAreRevocable` and
`CredentialIsTracked`; `StatusIsHonest` is `LifecycleIsHonest`, `InUseIsExact`
and `TokenIsPinned`; `IdentitiesAreRespected` is `ForeignBucketIsUntouched`,
`KeyIdentityIsStable` and `TokenIsNeverRotated`; `ProvisionedIsTracked`, `ReplacementIsSound`,
`DiskHasOneOwner` and `RoleIsBacked` include the `TypeOK` of their module.
Beside the definitions stand their mutants ("Mutant: ..."), one at least for
every part; `PROJECT.json` lists one for each property.

**Bounds and why they are enough.** In LayoutMutation two nodes give a drain
with a survivor, two competing actors, and a Pod handoff beside a drain of
another node; with two workers no property depends on a third node, and the
theorems hold for any number. Two incarnations and two generations give every
"older than" relation the code tests. One restart at any point reaches every
state of the API that a restart can leave, because the memory starts empty each
time. In the migration two nodes make every pass interruptible in the middle.
In the rollout two members are the one that is down and the one that must not
be; `MaxRetired = 1` (32 in the code) makes the limit of retired workloads
reachable. In the pools two Nodes and two pools give a replacement, a direct
move and a conflict; `Factor = 1` makes the last role count. In Auto mode two
ordinals and one `-cycle` suffix give a tier that can shrink and a sibling. In
Tenancy two incarnations of each object meet each other's leftovers. UIDs,
tokens and nonces are drawn as the smallest value not in use, which identifies
states that differ only in history; the bounds on them are never
reached (TLC would report that no value is left). All other bounds (`Max...`, the budgets of the scenes) stand
in the guards of users and faults only.

**Deadlock** is checked where the system always has something to do. In
`tenancy`, `cosi`, `pools`, `rollout` and `automode` the users' actions are
bounded and a system that has reached what is declared rests, so
`CHECK_DEADLOCK FALSE`; that it rests in the right place is what the temporal
properties say. In `factor_faults` the scene with a stale cache can suspend
every node for good (below).

**Fairness.** In LayoutMutation: goroutines run (`WF Step`); every unfinished
reconcile is requeued and the work queue serves all keys (`StartReconcile`, SF
for nodes since one worker serves them all); a check, an Apply or an observation
that is tried again and again does not fail for ever (SF); Garage settles its
history and moves blocks, kubelet starts Pods (WF). In FactorMigration only the
operator's own steps, the clock and the informer are fair; Pods and Garage owe
nothing. In the other modules the workers are fair because controllers requeue
errors and drift: WF where a worker has one object, SF where its turns can be
disabled in between (the bucket and the key worker take turns on permissions;
two accesses share a worker). Kubernetes controllers, kubelet, the garbage
collector and Garage make progress (WF); in Cosi the upstream controller
releases an access, users empty a bucket they delete, and a cluster that is
away comes back; in Auto mode the user finishes a cancellation and a squatter
leaves. Nothing else is assumed of users, and faults are finitely many. Progress
of a rollout against other layout writers is not claimed: `TryAcquire` has no
queue, so two controllers may refuse each other for ever, and no fairness of the
code excludes it.

### Findings

Two runs check a sentence of the repository against what the code does and find
it violated; `PROJECT.json` quotes the line.

| Run | What it shows |
|---|---|
| `wedged_drain` | a condition written by a reconcile in flight wedges the drain that froze its only writer |
| `retained_scale` | a storage tier with retained claims, scaled down and up, never gets its second member back: the drained node is deleted by the drain's recovery, which publishes no handoff for its claim |

The models show more that the passing runs except. Each is stated here with the
definition that names it, and how to see it.

*Layout.*
- `DrainFreezesOrdinaryWrites` fails (`Requestable = {n1}`, `Drifting = {gc}`,
  not federated): a reconcile with a snapshot older than a drain prunes its
  confirmed marker and writes the layout during the drain. A drain and a handoff
  that become durable together, and a write admitted by the preparation bypass
  after the handoff that should have closed it, have the same cause.
- `AbortKeepsRemovedTargets` fails (`Federated = TRUE`, `Requestable = {gc}`,
  `Drifting = {n2}`): a node reconcile with a stale snapshot publishes a role
  again in the middle of a cluster drain, and `recoverClusterDrainApplyFailure`,
  which looks at the roles of its last Apply only, aborts though earlier roles
  are gone. Hence `RemovalIsSafe` is claimed for GarageNode drains.
- A drain annotation removed between the read of the GarageNode and the write of
  the intent leaves a transaction nobody advances (`DurableDrainTerminates` with
  `Withdrawable = {n1}`).

*Factor migration.*
- `TerminalReleasesNodes` fails in a scene with `stale`: an abort leaves nodes
  suspended because the cache did not show the suspension yet.
- `SimultaneousRestart` is for tiers whose Pods are all there when the migration
  starts: a Pod missing when `fmScaleDown` counts can be created from the old
  template by a StatefulSet controller that has not seen zero replicas.
- `RequestIsRecorded` is for status writes that are not lost: `setFactorMigration`
  logs a failed write and the annotation is consumed all the same.
- `RebuiltLayoutIsKept` is about one migration; a second one purges on purpose.
- A refused, failed or aborted migration leaves the new
  `spec.replication.factor` behind, and the ordinary rollout restarts a process
  on a layout of the old factor; templates are rendered from the spec and not
  from `toFactor`, so an edit during a migration mixes two targets; drain
  admission tests `status.factorMigration` for presence and not for its phase.

*Rollout.* `Converges` ends in `Done` or in one of: `BadRevision` (the newest
revision does not start), `Supervised` (claims or workload cannot be replaced
safely; documented), `ClaimDeleting`, `FencedCorrection` (a correction while the
replacement workload is fenced), `Bystander` (another member needs a controller
the handoff stops), `ActorDeleting`, `BadRestart`, and `RefusedRedrive`: the
recorded recovery Pod is still gated, or belongs to a revision the record has
not followed, redriving refuses it and everything waits. The comment at
`storage_rollout.go:795-800` says "Never consume the request and then wait
forever on that incarnation"; `RecoveryPodGoes` with `EditScene` refutes it.

*Pools.* `Converges` excepts a deleted cluster and `Stuck`: `SelectorConflict`
and `DirectMove` (documented as forbidden), `OfflineSource` (a member that left
while its DaemonSet was deleted), `StaleToken` and `StaleGate` (a Node
reselected around the rotation of a token), and `Wedged`: while a Node is being
retired, a newly selected one without a token makes
`node_local_pool_activation.go:1041` fail, which the cleanup calls, so neither
goes on. `RetirementCompletes` under `SteadySpec` with `RelabelScene`, one
cluster, one pool and three Nodes (`MaxUID = 1`, `MaxToken = 3`) refutes the
progress of a retirement.

*Auto mode.* `Converges` excepts `DeadEnd`: `StaleIntent` (an edit between the
generation test of a parent-requested drain and its publication), `StaleCycle`
(a Pod of a cycle restarts and its observation is never renewed),
`OrphanSibling` (a source scaled away before the promotion), `EjectedCycle` (a
node taken over by Manual keeps the slot label every cycle refuses),
`PinnedClaim` (the run `retained_scale`), `HandoffRefused` (a claim recorded and
not pinned), `LegacyPodsLeft` (a stop after the orphaning delete of the legacy
gateway StatefulSet) and `LegacyRefused`. `RoleHasNode` excepts legacy gateway
ordinals that are scaled away before their identity is known.

*Tenants.*
- `RenameKeepsAnAlias` fails (focus "alias"): a rename that stops before its
  status write and is renamed back removes the abandoned alias before it adds
  the old one again; the comment at `garagebucket_controller.go:672-674` wants
  no alias-less bucket. `AliasHandoffIsSafe` is what holds.
- `PermissionsDoNotFlap` fails (focus "perms"): for a key with `allBuckets`, the
  GarageBucket side asks for a grant the GarageKey side does not, and each undoes
  the other, which the union of `garagebucket_controller.go:890-891` is to avoid.
  `PermissionsSettle` is what holds.
- `GrantsAreRevocable` fails with `Concurrent = TRUE`: a write computed before
  the other controller's reservation survives it.
- `LostIsReplaced` fails with `CrashOnLoss = TRUE`: a bucket lost in Garage is
  made again and a crash loses its ID before the status write; the reservation
  and the recorded ID then disagree, and both reconcile and finalizer refuse.
- `NothingIsLeftBehind` excepts focus "lostKey": the finalizer knows only the ID
  in the status, not the fresh one imported before a crash.
- A missing token Secret is generated again whatever digest is pinned
  (`garageadmintoken_controller.go:192-205`), while a Secret that lost its data is to
  be restored "instead of silently generating a new cluster credential" (the error at
  line 180). When the status
  write is then lost, the status keeps the digest of the deleted bearer and every
  reconcile fails at the comparison. The same comes of a Create that fails: the
  digest is in memory before the call and is pinned by the status that reports the
  failure. Both fail closed: nobody is given another bearer than the one in the
  Secret. `TokenIsPinned` and `TokenIsNeverRotated` except lost bearers.
- `allBuckets` removed while a Secret handoff meets a conflict: the retry of the
  status write has fetched the newer spec, and the last write of the reconcile
  clears `status.clusterWide` for it (`garagekey_controller.go:1568`) though the
  grants were made for the older one. The next reconcile sees nothing to revoke.
  `GrantsAreRevocable` excepts such a key (`key.lost`).
- A bucket with objects in it is not deleted (`garagebucket_controller.go:1295`),
  and its finalizer stays until somebody empties it; `CleanupCompletes` excepts it.
- The finalizer of an import whose material was never secured stays on purpose.

*COSI.* `CleanupIsComplete` fails: after a lost bucket the second shadow may
outlive its Bucket, and a pending reservation of an earlier release may outlive
its accesses. `Disagree` excepts a Retain Bucket deleted while its shadow knows
an ID the Bucket's status does not: the marker is written and
`validatedCOSIRetain` refuses it for good. A shadow garbage collected with its
cluster takes a retained bucket with it. `Unnamed` and `Orphaned(a)` except a
Bucket and an access whose parameters do not name the cluster and whose shadow,
which does, is gone: `DeleteBucket` and `RevokeAccess` delete the shadow before the
object is released, so a stop in between makes every later attempt fail
(`src/internal/cosi/provisioner.go:501-511, 848-858`). For two accesses of one
legacy key no stop is needed: the first takes the shared shadow with it, and the
second cannot be revoked. A finalizer put back between the two calls of
`deleteShadow` leaves a shadow of a Bucket or access that is released already;
`NoShadowIsLeft` and `KeyIsTracked` admit one that is on its way out and has
nothing in Garage, and `RequestsComplete` says that it goes.

The definitions named in this list that no run checks stay in the modules: they
are what to check again when the code changes.

## 4. Proofs

Every theorem holds for all values of the constants its module's assumptions
admit: any number of nodes, members, pools, clusters, any scenes and budgets of
events, any bounds. TLC evaluates all the assumptions, in the runs of section 3.

| Module | Theorem | Statement |
|---|---|---|
| `LayoutMutationProofs` | `TypeCorrect` | `Spec => []TypeOK` |
| | `MutexIsExclusive` | `Spec => []MutualExclusion` |
| | `RemovalsAreAuthorized` | `Spec => RemovalIsAuthorized` |
| | `DrainsAreNeverStolen` | `Spec => DrainIsNeverStolen` |
| | `HandoffsAreDurable` | `Spec => []HandoffIsDurable` |
| | `NodeDrainsAreSafe` | `Owner \notin Requestable` implies `Spec => RemovalIsSafe` (the refinement of SafeRemoval) |
| `SafeRemovalProofs` | `RemovalsAreRecorded` | `Spec => []UnprovenRemovalIsDurable` |
| | `ProofsAreTrue` | `Spec => []TerminalProofIsTrue` |
| `FactorMigrationProofs` | `TypeCorrect` | `Spec => []TypeOK` |
| | `TerminalStaysFinal` | `Spec => TerminalIsFinal` |
| | `FailureRestoresWorkloads` | `Spec => []FailedRestoresWorkloads` |
| | `TerminalIsReleased` | without stale caches, `Spec => []TerminalReleasesNodes` |
| | `RequestsAreRecorded` | without lost status writes, `Spec => RequestIsRecorded` |
| | `RestartIsSimultaneous` | in steady scenes, `Spec => []SimultaneousRestart` |
| `NodeLocalPoolProofs` | `DisksHaveOneOwner` | `Spec => []DiskHasOneOwner` |
| | `MountedConfigsExist` | `Spec => []MountedConfigExists` |
| | `RetirementsAreSafe` | `Spec => RetirementIsSafe` |
| `StorageRolloutProofs` | `OutagesAreSingle` | `Spec => []OneOutage` |
| | `ReplacementsAreSound` | `Spec => []ReplacementIsSound` |
| | `ReadinessIsHonest` | `Spec => ReadyIsHonest` |
| `CosiProofs` | `BucketInvariant` | `Spec => []IndInv` |
| | `ReadyIsUsable` | `Spec => []ReadyMeansUsable` |
| | `BucketsAreTracked`, `NoShadowOutlives` | `Spec => []BucketIsTracked`, `Spec => []NoShadowIsLeft` (of `ProvisionedIsTracked`) |
| | `RetainedBucketsAreKept` | `Spec => RetainedBucketIsKept` (of `NothingInUseIsDeleted`) |
| | `AccessInvariant` | `Spec => []AccessInv` |
| | `CredentialsStayPrivate` | `Spec => []CredentialsArePrivate` |
| | `ProvisionedStaysTracked` | `Spec => []ProvisionedIsTracked` |
| | `NothingInUseGoes` | `Spec => NothingInUseIsDeleted` |
| `TenancyProofs` | `TenantTypes` | `Spec => []TypeOK` |
| | `WorkersKnowTheirObjects` | `Spec => []CopiesAreTrue` |
| | `HonestStatus` | `Spec => []StatusIsHonest` |
| `TenancyTrackingProofs` | `IdentitiesStay` | `Spec => IdentitiesAreRespected` |
| | `NothingIsLost` | `Spec => [](NothingIsLeftBehind /\ CredentialIsTracked)` (of `EverythingIsTracked`) |

None of these invariants is inductive as it stands. The strengthened invariants
were checked by TLC on the runs' instances before they were proved. A module
has one lemma per part of its invariant and, under it, one step per action or
per group of actions that touch the same state.

### LayoutMutation and SafeRemoval

*Assumptions.* `ConstantsAssumption` (owner, nodes and `None` are different, the
two workers are different, the sets of inputs are sets of actors, bounds are
naturals) and `NoneAssumption` (`None` is no drain record).

*Type, mutex, authority.*
- `TypeInv` is `TypeOK` and `DrainKnown(w)`: inside the drain transaction the
  worker's snapshot holds a drain record, without which the fields it reads
  would have no type.
- `LockInv` is `MutualExclusion` and `HoldersSetTheBit`: a worker at a locked
  point has set the bit. The bit records no holder, so exclusion needs that
  only a holder clears it.
- `AuthInv` says what a worker on its way to Apply knows of the API *now*:
  `Assigned` (each drain record in use, durable or in a worker's hands, has one
  actor per transaction number), `OwnDrain` and `OwnCompletion` (what a worker
  is about to write or clear is the record of the object it reconciles),
  `ApplyIsCurrent` (from the revalidation before Apply until Apply, the durable
  record, the generation and the absence of a handoff are what was read: every
  other writer of them needs the mutex or is refused by admission while a drain
  is durable), and `SnapIsPast` (no snapshot is of a later incarnation or
  generation than the object).

*Handoffs.* `HandoffInv` adds to `HandoffIsDurable` that the GarageNode worker is
never at a point of a rollout, that the cluster worker's own snapshot is never
stale in `status.storageRollout` (it is its only writer), and that the Pod it is
about to delete is the recorded one.

*The refinement.* `DrainInv` says which blocks can be on the move and what
each program point of a drain knows of them: they belong to the targets of the
durable record until it is proved. From it every step of LayoutMutation is a step
of SafeRemoval or leaves its variables alone. `SafeRemovalProofs` then says what
that is worth, whatever implements it: blocks on the move belong to the roles the
record names, and a proven record names nothing on the move. The hypothesis
`Owner \notin Requestable` is needed: a drain of a whole GarageCluster can be
aborted after a part of its roles has left (`AbortKeepsRemovedTargets`, section 3),
and then the record is gone while blocks move.

### FactorMigration

*Assumptions.* `MigrationAssumption` (at least one node, factors positive, `None`
and `Malformed` are two values that are no numbers, scenes are scene records) and
`NoneAssumption` (`None` is no record the variables may hold).

*Argument.* `TypeInv` adds to the types what the worker holds at each point
(`WorkerOK`). `RecordInv`: inside a phase, the snapshot's record is the record in
the status and has the phase whose work is being done; nobody else writes it.
`CleanInv`: outside the phases that scale and purge every StatefulSet is as the
GarageNode controller renders it, and a teardown has restored the nodes its walk
has left behind; this is what failing at any point of a walk comes down to.
`ReleaseInv` is the same for the suspension, and needs that the cache does not
lag (section 3 has the counterexample). `KeptInv` is what consuming a request
needs. `SimultaneousRestart` is proved by two regimes: `NotPurged` (before the
first scale-up every layout on disk has the old factor, so a process that is up
has it too, whatever its template says) and `AllNew` (from then on whatever runs
or will be started has the new one); the step between them is the first scale-up,
where no Pod is left, none can come back and every template has been rewritten
(`EarlyPods`, `Draining`, `Drained`, `Configured`). `SteadyInv` fixes the factor
for the one request such a scene has. The scenes it speaks of are those of
section 3: no GarageNode reconcile in between, no lost status write, no Pod that
vanishes by itself.

### NodeLocalPool

*Assumption.* `NodeLocalPoolAssumption`: pools and Nodes are finite sets of
numbers, bounds are naturals, a scene gives each pool one cluster and selects
among the Nodes.

*Argument.* `IndInv` consists of `Typed`, `Ownership` and `WorkerKnows` (a worker
acts on pairs of its own cluster, and on what it has read of them),
`OneClaimPerDisk`, `OpenIsClaimed` and `RoleIsClaimed` (a scheduling gate opens,
and a role is given, only under a claim, and a claim is released only when
neither is left), `OneOpenPod` (with the Pods the DaemonSet controller still
creates late: they are gated), `RoleOfMember`, `DrainOfMember`, `ConfigExists` and
`MountedConfigExists` (a retired DaemonSet keeps its configuration until its last
Pod is gone), and `EnoughRemain` (the count taken before a retirement is still
right when the retirement is written: only this cluster's worker removes its
roles). New tokens and incarnations exist only within the bounds, so their
creation is guarded by `UnseenTokens` and `UnseenUIDs`.

### StorageRollout

*Assumption.* `StorageRolloutAssumption`: bounds are naturals, members are
numbers that serve as their first incarnations, a scene's pool is a set of
members.

*Argument.* `IndInv` is proved from *forms*: what a step can do to the Pods
(`PodChange`: one is created gated or for a claimed member without one, one is
released, starts, becomes Ready, is deleted, goes), to the record
(`RecordChange`) and to the workloads (`WorkloadChange`). Its parts:
- `RecordKnown`: at which points there is a record or a candidate;
- `PodsAreOne`: a member has one Pod past its gate, and one Pod per workload
  incarnation, of which its claim and its outage are the state;
- `OldPodIsOpen`, `DownIsDown`, `RecheckIsFirst`: before the first deletion of a
  handoff nothing is down, and what is deleted is the Pod that was recorded.
  From these `OneOutage`;
- `ClaimIsKept`: the claim is protected from before the record is written until it
  is cleared, so it is the recorded one;
- `WorkloadsDiffer`, `RetiredFits`: incarnations present, gone and retired are
  told apart, and there was room before a workload was retired;
- `TemplatesExist`: a configuration a template names is never collected, hence
  `MountedConfigExists`;
- `Acknowledged`: a StatefulSet's acknowledged generations are those it was
  rendered from, and the scan of a pass finds the DaemonSet of that pass. This is
  what `ReadyIsHonest` needs of the scan.

### Tenancy

*Assumption.* `TenantAssumption` (the aspects are among the thirteen; at least one
incarnation and one failed lookup before an alarm; the other bounds are naturals).
Permissions may be any set. Garage has finitely many bucket IDs in the model, so
`MayCreate` bounds creation and the loss of a bucket; without it a step would
have no ID to draw and the variables no type.

*Argument.* `HonestInvariant` has six parts.
- `Objects`: the types (`Base`, with what a worker holds at each program point), and
  that object and worker are in step. `BucketObject` and `KeyObject` say that the
  object still exists while its reconcile runs, because only that reconcile drops
  the finalizer; that status and markers of the copy are those stored, because only
  the worker writes them; and that the specs agree when the generations do. For
  `status.secretRef` of a key the copy is ahead between the handoff and its write.
  `SnapshotKnown`: an import holds the pinned material while it pins and imports.
- `Absent`: what an aspect does not create stays away.
- `Steady`: with the aspects that edit permissions, local aliases and settings, the
  worker holds the bucket of the start and no other. `Lifecycle` needs it:
- `Lifecycle`: at `status` a copy that says the rules are applied was compared with
  what Garage stores, and nobody writes rules between the comparison and the status.
- `TokenKnown`: the Secret carries the UID of the token or none; the bearer is
  written before its digest, and while a digest is pinned its Secret exists unless
  the token is being deleted or the bearer is lost. A worker about to write a digest
  has just written its bearer, or somebody has deleted it since.
- `InUseIsExact`: each edit of an object queues every grant whose users it changes,
  the old version's and the new one's.

Each action has a lemma that states its effect field by field (`...Flat`); the
invariant's lemmas use only these. A part that most steps leave alone has one
lemma for what a worker writes at all (`Kept`, `BMoves`, `BRemote` for the
bucket's, `KKept`, `KMoves`, `KRemote` for the key's), and one for each step
that is different.

*Identities.* `TenancyTrackingProofs` first says what each step does to Garage, entry
by entry (`BucketCalls`, `KeyCalls`, `UserCalls`), and what a worker's step writes at
each program point (`BWrites`, `KWrites`). Then `IdentityInvariant` adds to `Objects`
- `GarageForm`: an ID that was never used has no owner, what is not live carries no
  permission and no local alias, and an alias leads to a live bucket;
- `ForeignForm`: the bucket of somebody else is no reservation, and only the object
  whose `spec.bucketId` names it is bound to it or worked on with it;
- `Unbound`: between `getOrCreateKey` finding that Garage lacks the recorded key and the
  binding of a new one, nobody but the worker itself brings a key back;
- `TokenKnown`, from which each step keeps the bearer and its digest (`TokenKept`).

*What is not lost.* `TrackingInvariant` adds, for `NothingIsLost`,
- `BucketTracking`: while somebody attends to the object (the cluster runs, or the
  finalizer is there), a live bucket the operator made is the one the status records
  or the one the reservation alias leads to, and there is one; at `create` and after
  the deletion there is none;
- `KeysHeld`: the same of keys, where the identity is recorded, derived from the
  nonce, or pinned in the snapshot of an import, each before the key is made;
- `KeyAtHand`: the key a worker holds is the object's, and what the finalizer
  revokes covers every live one;
- `Credentials`: before a Secret is published the previous one carries the label the
  sweep looks for, and the UIDs that were used are those up to the current one, so a
  Secret of an earlier incarnation is told apart.

A key lost in Garage is excepted (focus "lostKey", section 3). Aliases, local
aliases and grants are not part of it.

### Cosi

*Assumptions.* `CosiBucketAssumption` (at least one incarnation, budgets of faults
are naturals), `CosiAccessAssumption` (at least one key besides the legacy one can be
drawn) and `CosiAssumption` (the scenes are among the three, each with its budget).

*Argument, the bucket.* The steps of the accesses leave the bucket alone
(`AccessesReadOnly`), so what is proved of it holds in every scene. `IndInv` has four parts besides the types.
- `ShadowForm`, `ParentForm`: what the objects say of themselves. Annotation, ID
  and state of a shadow agree once it is bound, because the status is written
  first; a Bucket with an ID has its finalizer.
- `ParentKnown`: why a reconcile came to where it is. Only a Bucket without an ID
  is cancelled, only Retain is forgotten, only Delete is deleted, and the ID a
  deletion started from is still the Bucket's.
- `ShadowKnown`, `PhaseKnown`, `BucketKnown`: what the reconcile under way knows of
  the shadow it read. The other controller may have deleted it meanwhile, but
  never gives it another identity, and one that stands for no ID yet is not being
  deleted at all.
- `Custody`: which buckets of Garage the shadow stands for. `Tracking` (its
  finalization resolves the one live bucket, or the Bucket is `Over`), `Aliases` (a
  private alias belongs to the shadow whose UID it carries), `Guarded` (a shadow
  without its finalizer, or left by a released Bucket, stands for nothing: what the
  Bucket is released on is that no bucket is left, and not that the shadow is gone,
  since its controller may put the finalizer back before the Delete), `Counted` (UIDs are not reused while
  anything refers to them), `Usable`, and `Spared` (the shadow of a Retain Bucket
  is not deleted without the marker while a bucket is left, unless the cluster
  that owns it takes it along).

A step of the driver that changes nothing but its own position, that leaves or
that touches neither identity nor finalizer is covered by `MovingKeeps`,
`LeavingKeeps` or `TouchingKeeps`; every other one has a lemma of its own. The
case that needs most of the invariant is a lost response of the create: between
the create and the status write the bucket is found through the alias alone,
which is why the authorisation must be durable first.

*Argument, the accesses.* The Bucket controller does not write what `AccessInv` is
about (`UnchangedKeeps`). Besides the types it has four parts.
- The objects: `KeyForm` (annotation, label, state and status of a shadow key agree
  once it is bound, and a live key has both annotation and status), `KeysDiffer` (no
  two shadows name the same key, and the shadow of an access names no key that
  another access or its Secret uses), `KeyTracking` (a live key is in some shadow's
  status, since the ID is drawn and written before the import), `AccessForm`,
  `SecretForm`, and for the legacy shadow `Sharing` and `LegacyForm` (it is given up
  only for the access recorded as its owner).
- `AccessKnown`, `TurnKnown`: what the reconcile knows of its access and of the
  shadow `ResolveBucketAccessIdentity` turned it to. Revoking is reached only when no
  live access uses the key any more.
- `HoldKnown`: what it knows of the shadow it holds at each step of the grant.
- `LegacyScene`: only an earlier release made a legacy shadow, and in that scene the
  key of an access that is not deleted stays.

Several parts speak of shadows that are not `Doomed`, which is to be deleted and to
have nothing in Garage: this is all a shadow can be when its access was handed off
while the finalizer was put back.

A step that ends the reconcile is covered by `LeavingIsSafe`; those that write the
held shadow, or import or permit, share `WritingKeeps` and `AccountsWrittenKeep`. In
every other step shadows go, are given up, or lose or regain the finalizer
(`Moved`): `ShadowsMovingKeep` shows once what such a step keeps of the objects, and
`UnmovedKeeps` what it keeps of the reconcile when the other controller takes it. A
shadow under deletion is not held, and one whose finalizer is missing gets nothing
but that. `LegacyScene` has lemmas of its own (`CalmServes`, `LegacyStays`): most
steps leave the live keys and what the worker found of them alone.

### What is only model-checked

- Everything with fairness (`RequestedDrainTerminates`, `MigrationTerminates`,
  `PermissionsSettle`, `DamageHeals`, `CleanupCompletes`, `RequestsComplete` and
  the three `Converges`): liveness and ENABLED are out of TLAPS's reach.
- `ProvisionalMarkerIsKept`: it is about one incarnation of the owner. With
  `MaxUID = 2` a GarageNode reconcile that read the owner's earlier incarnation
  clears a marker of the later one, so the statement is not an invariant of every
  instance; the run has `MaxUID = 1`.
- `RebuiltLayoutIsKept` of FactorMigration, for a single migration.
- Of `EverythingIsTracked` of Tenancy the parts about aliases, local aliases and
  grants, and the four invariants of AutoMode (section 5).

## 5. Plan

Theorems worth proving next, in this order:

1. AutoMode: `DiskIsOurs` and `SourceOutlivesProof`, from what the provenance of a
   claim and the record of a cycle say at each program point; then
   `HandoffIsUsable` and `RoleIsBacked`;
2. Tenancy: what is left of `EverythingIsTracked`, which is `AliasHandoffIsSafe`,
   `LocalAliasesAreTracked` and, without concurrent reconciles of a bucket and its key
   (with them a grant can be lost: section 3), `GrantsAreRevocable`.

Modelling that is left: `BlockProof` (the evaluation of block-resync progress
that `ProveMigration` takes for granted: counter resets, changing node sets,
observation windows), `StagedLayout` (the comparison of the staging area before
Apply, and the revert of foreign stagings), `OperatorToken` (rotation of the
operator's own credentials against Pods started with older ones), gateway
clusters that share a layout, capacity-less retirements, lost-source recovery,
and the pure functions of `storagecontract`.

## 6. Not modelled

Text rendering (garage.toml, workload templates), the HTTP client, health and
metrics reporting, API conversion and generated code, and start-up wiring: they
keep no state another component decides on. Field validation of the webhooks and
the storage contract are pure functions on strings and quantities. Gateway
clusters that reference another cluster, federation with remote clusters beyond
the flag `Federated`, and the operator's credentials are open (section 5). What
each module leaves out of its component stands in section 2.
