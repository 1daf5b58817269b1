--------------------------- MODULE FactorMigration ---------------------------
(***************************************************************************)
(* The coordinated replication-factor migration of the GarageCluster       *)
(* controller (garagecluster_factor_migration.go): a phase machine in      *)
(* status.factorMigration that suspends the GarageNode controller, scales  *)
(* every storage StatefulSet to zero, has an init container delete the     *)
(* on-disk cluster_layout, restarts every process at the new factor,       *)
(* rebuilds the layout and resumes.                                        *)
(*                                                                         *)
(* The machine keeps nothing in memory: a reconcile reads the GarageCluster*)
(* and walks over the nodes with one API call per step, and may end after  *)
(* any of them, because the call failed or the manager stopped.  Next to   *)
(* it run the GarageNode controller, which renders StatefulSets from a     *)
(* snapshot it took earlier, the StatefulSet controller, which acts on the *)
(* StatefulSet it last observed, and kubelet.                              *)
(*                                                                         *)
(* Left out: gateway nodes, per-node configuration overrides and the other *)
(* static guards of fmValidate (one nondeterministic refusal), the layout  *)
(* mutex (LayoutMutation), the informer's view of Pods (a Pod it still     *)
(* shows only delays a phase), and a StatefulSet deleted by hand.          *)
(***************************************************************************)
EXTENDS Naturals, FiniteSets

CONSTANTS
  None,          \* the absence of a request, a record, a Pod, a layout
  Malformed,     \* an annotation value factormigration.Parse rejects
  N,             \* storage nodes are 1..N, in the order of their names
  Factors,       \* the replication factors users ask for
  OldFactor,     \* the factor the cluster runs with at first
  Scenes         \* bounds: how often each event may happen in one behaviour, see SceneRecords

Nodes == 1..N

\* requests, aborts: annotations users write; lost: status writes that fail and are only logged;
\* evictions: Pods that vanish by themselves; failures: reconciles that end at a failed call or a
\* stopped manager; stale: the informer may lag behind the GarageNodes it caches; overlap: a
\* GarageNode reconcile may outlast the start of a migration.
SceneRecords == [requests : Nat, aborts : Nat, lost : Nat, evictions : Nat, failures : Nat,
                 stale : BOOLEAN, overlap : BOOLEAN]

ASSUME MigrationAssumption ==
  /\ N \in Nat \ {0}
  /\ Factors \subseteq Nat \ {0} /\ OldFactor \in Nat \ {0}
  /\ None \notin Nat /\ Malformed \notin Nat /\ None # Malformed
  /\ Scenes \subseteq SceneRecords

VARIABLES
  scene,      \* which events a behaviour meets
  factor,     \* spec.replication.factor
  request,    \* the purge-cluster-layout annotation
  abort,      \* the purge-cluster-layout-abort annotation
  fm,         \* status.factorMigration
  late,       \* the deadline of the current phase has passed
  susp,       \* node -> operator-suspended annotation
  cached,     \* node -> that annotation as the informer knows it
  sts,        \* node -> its StatefulSet
  observed,   \* node -> its StatefulSet as the StatefulSet controller knows it
  pod,        \* node -> its Pod
  disk,       \* node -> factor of the cluster_layout on its metadata volume
  marks,      \* node -> the .purged-<id> files on that volume
  cw,         \* the reconcile of the GarageCluster worker
  nw,         \* the reconcile of the GarageNode worker
  requests, aborts, lost, evictions, failures   \* what the bounds count

spec == <<factor, request, abort>>
workloads == <<sts, observed, pod, disk, marks>>
annotations == <<susp, cached>>
counters == <<scene, requests, aborts, lost, evictions, failures>>
vars == <<scene, factor, request, abort, fm, late, susp, cached, sts, observed, pod, disk, marks,
          cw, nw, requests, aborts, lost, evictions, failures>>

-----------------------------------------------------------------------------
InFlight ==
  {"Validating", "ScalingDown", "Purging", "Verifying", "RebuildingLayout", "Converging"}
Terminal == {"Completed", "Failed"}

AllFactors == Factors \cup {OldFactor}
IDs == 1..scene.requests
Migrations == [phase : InFlight \cup Terminal, to : AllFactors \cup {None}, id : IDs]
StatefulSets == [replicas : {0, 1}, cfg : AllFactors, purge : IDs \cup {None}]
Pods == [cfg : AllFactors, purge : IDs \cup {None}, st : {"init", "starting", "up"}]

\* Program points of the GarageCluster worker inside a migration reconcile.
Points ==
  {"idle", "start", "consume", "consumeInFlight", "dispatch", "suspend", "scaleDown", "count",
   "config", "init", "verify", "scaleUp", "rebuild", "stripRebuilt", "resume", "advance",
   "strip", "restore", "release", "fail", "dropAnnotations"}

Clusters ==
  [factor : AllFactors, request : AllFactors \cup {None, Malformed}, abort : BOOLEAN,
   fm : Migrations \cup {None}]

\* The absence of a record is none.
ASSUME NoneAssumption ==
  LET AnyMigration == [phase : InFlight \cup Terminal, to : AllFactors \cup {None}, id : Nat]
  IN /\ None \notin InFlight \cup Terminal
     /\ None \notin AnyMigration
     /\ None \notin [factor : AllFactors, request : AllFactors \cup {None, Malformed},
                    abort : BOOLEAN, fm : AnyMigration \cup {None}]
     /\ None \notin [cfg : AllFactors, purge : Nat \cup {None}, st : {"init", "starting", "up"}]

Idle == [pc |-> "idle", snap |-> None, todo |-> {}, quiet |-> FALSE, next |-> None,
         node |-> None, abort |-> FALSE]

Init ==
  /\ scene \in Scenes
  /\ factor = OldFactor /\ request = None /\ abort = FALSE
  /\ fm = None /\ late = FALSE
  /\ susp = [n \in Nodes |-> None] /\ cached = susp
  /\ sts = [n \in Nodes |-> [replicas |-> 1, cfg |-> OldFactor, purge |-> None]]
  /\ observed = sts
  /\ pod = [n \in Nodes |-> [cfg |-> OldFactor, purge |-> None, st |-> "up"]]
  /\ disk = [n \in Nodes |-> OldFactor]
  /\ marks = [n \in Nodes |-> {}]
  /\ cw = Idle /\ nw = None
  /\ requests = 0 /\ aborts = 0 /\ lost = 0 /\ evictions = 0 /\ failures = 0

-----------------------------------------------------------------------------
\* factorMigrationActive, of a snapshot of the GarageCluster.
FactorMigrationActive(c) ==
  c.request # None \/ (c.fm # None /\ c.fm.phase \in InFlight)

Cluster == [factor |-> factor, request |-> request, abort |-> abort, fm |-> fm]
Snap == cw.snap

At(l) == cw.pc = l
Goto(l) == cw' = [cw EXCEPT !.pc = l]
Return == cw' = Idle

\* Walk over all nodes, starting at the program point l.
Pass(l) == cw' = [cw EXCEPT !.pc = l, !.todo = Nodes]
\* The node a sorted pass visits next; map iteration takes any.
First(todo) == CHOOSE n \in todo : \A m \in todo : n <= m
\* This node is done: the next one at point l, or on to point end.
Visited(n, l, end) ==
  cw' = [cw EXCEPT !.todo = IF @ = {n} THEN Nodes ELSE @ \ {n},
                   !.pc = IF cw.todo = {n} THEN end ELSE l]

-----------------------------------------------------------------------------
(* reconcileFactorMigration: abort, terminal, fresh start, phase.          *)

\* Mutant: a terminal record does not stop a lingering annotation.
StartReconcileAgain ==
  LET c == Cluster
      point == IF c.abort THEN "strip"
               ELSE IF c.fm = None \/ c.fm.phase \in Terminal THEN "start"
               ELSE IF c.request = None THEN "dispatch"
               ELSE IF c.fm.phase \in InFlight THEN "consumeInFlight" ELSE "consume"
  IN /\ At("idle") /\ FactorMigrationActive(c)
     /\ cw' = [pc |-> point, snap |-> c, todo |-> Nodes, quiet |-> FALSE, next |-> None,
             node |-> None, abort |-> c.abort]
     /\ UNCHANGED <<spec, fm, late, annotations, workloads, nw, counters>>

\* Mutant: the annotation is consumed before the record is written.
StartReconcileConsumed ==
  LET c == Cluster
      point == IF c.abort THEN "strip" ELSE IF c.request # None THEN "consume" ELSE "dispatch"
  IN /\ At("idle") /\ FactorMigrationActive(c)
     /\ cw' = [pc |-> point, snap |-> c, todo |-> Nodes, quiet |-> FALSE, next |-> None,
             node |-> None, abort |-> c.abort]
     /\ UNCHANGED <<spec, fm, late, annotations, workloads, nw, counters>>

StartReconcile ==
  LET c == Cluster
      point == IF c.abort THEN "strip"
               ELSE IF c.fm = None THEN "start"
               ELSE IF c.request = None THEN "dispatch"
               ELSE IF c.fm.phase \in InFlight THEN "consumeInFlight" ELSE "consume"
  IN /\ At("idle") /\ FactorMigrationActive(c)
     /\ cw' = [pc |-> point, snap |-> c, todo |-> Nodes, quiet |-> FALSE, next |-> None,
             node |-> None, abort |-> c.abort]
     /\ UNCHANGED <<spec, fm, late, annotations, workloads, nw, counters>>

\* setFactorMigration, then on to l: the write succeeds, restarts the clock of the
\* phase and reads the object back, or it fails and the failure is logged.
SetFactorMigration(record, l) ==
  \/ /\ fm' = record /\ late' = FALSE /\ UNCHANGED lost
     /\ cw' = IF l = "idle" THEN Idle
               ELSE [cw EXCEPT !.pc = l, !.snap = [Cluster EXCEPT !.fm = record]]
  \/ /\ lost < scene.lost /\ lost' = lost + 1 /\ UNCHANGED <<fm, late>>
     /\ cw' = IF l = "idle" THEN Idle ELSE [cw EXCEPT !.pc = l]

\* A fresh request is captured into status, a malformed one as a failure.
Start ==
  LET bad == Snap.request = Malformed
  IN /\ At("start")
     /\ SetFactorMigration([phase |-> IF bad THEN "Failed" ELSE "Validating",
                            to |-> IF bad THEN None ELSE Snap.request, id |-> requests],
                           "consume")
     /\ UNCHANGED <<spec, annotations, workloads, nw, scene, requests, aborts, evictions, failures>>

\* The GarageCluster is still the object that was read.
Unchanged == Cluster = Snap

\* removeAnnotations, an Update of the object that was read: it fails when the
\* object changed meanwhile.  Only a migration in flight continues.
Consume ==
  /\ Unchanged /\ request' = None
  /\ \/ At("consume") /\ Return
     \/ At("consumeInFlight") /\ cw' = [cw EXCEPT !.pc = "dispatch", !.snap.request = None]
  /\ UNCHANGED <<factor, abort, fm, late, annotations, workloads, nw, counters>>

Phase(p) == At("dispatch") /\ Snap.fm.phase = p

\* Record the phase p next, then return.
Advance(p) == cw' = [cw EXCEPT !.pc = "advance", !.next = p]
SetPhase ==
  /\ At("advance")
  /\ SetFactorMigration([Snap.fm EXCEPT !.phase = cw.next], "idle")
  /\ UNCHANGED <<spec, annotations, workloads, nw, scene, requests, aborts, evictions, failures>>

\* fmValidate: the factor must match, after a grace period; then every guard.
FmValidate ==
  LET to == Snap.fm.to
  IN /\ Phase("Validating")
     /\ \/ Snap.factor # to /\ ~late /\ Return
        \/ Snap.factor # to /\ late /\ Pass("strip")
        \/ Snap.factor = to /\ Pass("strip")        \* another guard refuses
        \/ Snap.factor = to /\ N >= to /\ Advance("ScalingDown")
     /\ UNCHANGED <<spec, fm, late, annotations, workloads, nw, counters>>

\* Mutant: the failure path only clears the suspension.
FmCheckStuckReleases ==
  /\ late /\ At("dispatch")
  /\ Snap.fm.phase \in {"ScalingDown", "Purging", "Verifying", "RebuildingLayout"}
  /\ Pass("release")
  /\ UNCHANGED <<spec, fm, late, annotations, workloads, nw, counters>>

\* Mutant: the rebuild has no deadline, and its next attempt waits again.
FmCheckStuckNoRebuild ==
  /\ late /\ At("dispatch")
  /\ Snap.fm.phase \in {"ScalingDown", "Purging", "Verifying", "RebuildingLayout"}
  /\ IF Snap.fm.phase = "RebuildingLayout" THEN Return ELSE Pass("strip")
  /\ UNCHANGED <<spec, fm, late, annotations, workloads, nw, counters>>

\* fmCheckStuck at the head of the waiting phases.
FmCheckStuck ==
  /\ late /\ At("dispatch")
  /\ Snap.fm.phase \in {"ScalingDown", "Purging", "Verifying", "RebuildingLayout"}
  /\ Pass("strip")
  /\ UNCHANGED <<spec, fm, late, annotations, workloads, nw, counters>>

-----------------------------------------------------------------------------
(* fmScaleDown.                                                            *)

FmScaleDown ==
  /\ Phase("ScalingDown") /\ ~late /\ Pass("suspend")
  /\ UNCHANGED <<spec, fm, late, annotations, workloads, nw, counters>>

\* Update of a GarageNode as listed from the cache: refused when it is stale.
Suspend(n) ==
  /\ At("suspend") /\ n \in cw.todo
  /\ \/ cached[n] = Snap.fm.id /\ UNCHANGED susp
     \/ cached[n] # Snap.fm.id /\ cached[n] = susp[n]
        /\ susp' = [susp EXCEPT ![n] = Snap.fm.id]
  /\ cw' = [cw EXCEPT !.pc = "scaleDown", !.node = n]
  /\ cached' = IF scene.stale THEN cached ELSE susp'
  /\ UNCHANGED <<spec, fm, late, workloads, nw, counters>>

ScaleDown ==
  LET n == cw.node
  IN /\ At("scaleDown")
     /\ sts' = [sts EXCEPT ![n].replicas = 0]
     /\ Visited(n, "suspend", "count")
     /\ UNCHANGED <<spec, fm, late, annotations, observed, pod, disk, marks, nw, counters>>

\* Mutant: scaled to zero is taken for terminated.
CountReplicas ==
  /\ At("count")
  /\ IF \A n \in Nodes : sts[n].replicas = 0 THEN Advance("Purging") ELSE Return
  /\ UNCHANGED <<spec, fm, late, annotations, workloads, nw, counters>>

CountStoragePods ==
  /\ At("count")
  /\ IF \A n \in Nodes : pod[n] = None THEN Advance("Purging") ELSE Return
  /\ UNCHANGED <<spec, fm, late, annotations, workloads, nw, counters>>

-----------------------------------------------------------------------------
(* fmPurge: prepare all at zero replicas, verify all, scale all up.        *)

FmPurge ==
  /\ Phase("Purging") /\ ~late
  /\ LET quiet == \A n \in Nodes : sts[n].replicas = 0
     IN cw' = [cw EXCEPT !.pc = IF quiet THEN "config" ELSE "verify",
                         !.quiet = quiet, !.todo = Nodes]
  /\ UNCHANGED <<spec, fm, late, annotations, workloads, nw, counters>>

\* patchSTSConfigRevisionForFactorMigration: only at zero replicas.
PatchConfigRevision ==
  LET n == First(cw.todo)
  IN /\ At("config") /\ sts[n].replicas = 0
     /\ sts' = [sts EXCEPT ![n].cfg = Snap.factor]
     /\ Visited(n, "config", "init")
     /\ UNCHANGED <<spec, fm, late, annotations, observed, pod, disk, marks, nw, counters>>

\* patchSTSPurgeInitContainerForNode(add): only at zero replicas.
PatchPurgeInit ==
  LET n == First(cw.todo)
  IN /\ At("init") /\ sts[n].replicas = 0
     /\ sts' = [sts EXCEPT ![n].purge = Snap.fm.id]
     /\ Visited(n, "init", "verify")
     /\ UNCHANGED <<spec, fm, late, annotations, observed, pod, disk, marks, nw, counters>>

\* verifyFactorMigrationPurgePreparation.
Prepared(n) ==
  /\ sts[n].cfg = Snap.factor /\ sts[n].purge = Snap.fm.id
  /\ cw.quiet => sts[n].replicas = 0

VerifyPreparation ==
  LET n == First(cw.todo)
  IN /\ At("verify")
     /\ Prepared(n)
     /\ Visited(n, "verify", "scaleUp")
     /\ UNCHANGED <<spec, fm, late, annotations, workloads, nw, counters>>

\* Mutant: the pass adds a replica instead of setting it.
ScaleUpByOne ==
  LET n == First(cw.todo)
  IN /\ At("scaleUp")
     /\ sts' = [sts EXCEPT ![n].replicas = @ + 1]
     /\ IF cw.todo = {n} THEN Advance("Verifying") ELSE Visited(n, "scaleUp", "scaleUp")
     /\ UNCHANGED <<spec, fm, late, annotations, observed, pod, disk, marks, nw, counters>>

\* scaleStorageSTSForNode(1) for every node, in a pass that may be resumed.
ScaleUp ==
  LET n == First(cw.todo)
  IN /\ At("scaleUp")
     /\ sts' = [sts EXCEPT ![n].replicas = 1]
     /\ IF cw.todo = {n} THEN Advance("Verifying") ELSE Visited(n, "scaleUp", "scaleUp")
     /\ UNCHANGED <<spec, fm, late, annotations, observed, pod, disk, marks, nw, counters>>

-----------------------------------------------------------------------------
(* fmVerify, fmRebuildLayout, fmConverge.                                  *)

Ready(n) == pod[n] # None /\ pod[n].st = "up"

FmVerify ==
  /\ Phase("Verifying") /\ ~late
  /\ IF \A n \in Nodes : Ready(n) THEN Advance("RebuildingLayout") ELSE Return
  /\ UNCHANGED <<spec, fm, late, annotations, workloads, nw, counters>>

\* The whole Pod set must be provable.  The roles of all nodes are staged and
\* applied through one Pod; Garage sends the layout to the processes it reaches.
FmRebuildLayout ==
  /\ Phase("RebuildingLayout") /\ ~late
  /\ \/ /\ \A n \in Nodes : sts[n].replicas = 1 /\ pod[n] # None
        /\ \E first \in {n \in Nodes : Ready(n)} :
             disk' = [n \in Nodes |-> IF Ready(n) /\ pod[n].cfg = pod[first].cfg
                                     THEN pod[n].cfg ELSE disk[n]]
        /\ Pass("stripRebuilt")
     \/ Return /\ UNCHANGED disk                  \* waiting
  /\ UNCHANGED <<spec, fm, late, annotations, sts, observed, pod, marks, nw, counters>>

StripRebuilt ==
  LET n == First(cw.todo)
  IN /\ At("stripRebuilt")
     /\ sts' = [sts EXCEPT ![n].purge = None]
     /\ IF cw.todo = {n} THEN Advance("Converging")
        ELSE Visited(n, "stripRebuilt", "stripRebuilt")
     /\ UNCHANGED <<spec, fm, late, annotations, observed, pod, disk, marks, nw, counters>>

FmConverge ==
  /\ Phase("Converging") /\ Pass("resume")
  /\ UNCHANGED <<spec, fm, late, annotations, workloads, nw, counters>>

\* clearStorageSuspension, on GarageNodes listed from the cache.
ClearSuspension(n) ==
  /\ n \in cw.todo
  /\ \/ cached[n] = None /\ UNCHANGED susp
     \/ cached[n] # None /\ cached[n] = susp[n] /\ susp' = [susp EXCEPT ![n] = None]
  /\ cached' = IF scene.stale THEN cached ELSE susp'

Resume(n) ==
  /\ At("resume") /\ ClearSuspension(n)
  /\ IF cw.todo = {n} THEN Advance("Completed") ELSE Visited(n, "resume", "resume")
  /\ UNCHANGED <<spec, fm, late, workloads, nw, counters>>

-----------------------------------------------------------------------------
(* teardownFactorMigration, shared by failFactorMigration and the abort.   *)

Strip ==
  LET n == First(cw.todo)
  IN /\ At("strip")
     /\ sts' = [sts EXCEPT ![n].purge = None]
     /\ Goto("restore")
     /\ UNCHANGED <<spec, fm, late, annotations, observed, pod, disk, marks, nw, counters>>

\* Mutant: the teardown forgets the suspension.
RestoreOnly ==
  LET n == First(cw.todo)
  IN /\ At("restore")
     /\ sts' = [sts EXCEPT ![n].replicas = 1]
     /\ Visited(n, "strip", "fail")
     /\ UNCHANGED <<spec, fm, late, annotations, observed, pod, disk, marks, nw, counters>>

Restore ==
  LET n == First(cw.todo)
  IN /\ At("restore")
     /\ sts' = [sts EXCEPT ![n].replicas = 1]
     /\ Visited(n, "strip", "release")
     /\ UNCHANGED <<spec, fm, late, annotations, observed, pod, disk, marks, nw, counters>>

ReleaseSuspension(n) ==
  /\ At("release") /\ ClearSuspension(n)
  /\ Visited(n, "release", "fail")
  /\ UNCHANGED <<spec, fm, late, workloads, nw, counters>>

\* Failed is committed once everything is undone.  An abort of a request that
\* never started leaves a record without a target.
Fail ==
  LET record == IF Snap.fm = None THEN [phase |-> "Failed", to |-> None, id |-> requests]
                ELSE [Snap.fm EXCEPT !.phase = "Failed"]
  IN /\ At("fail")
     /\ SetFactorMigration(record, IF cw.abort THEN "dropAnnotations" ELSE "idle")
     /\ UNCHANGED <<spec, annotations, workloads, nw, scene, requests, aborts, evictions, failures>>

DropAnnotations ==
  /\ At("dropAnnotations") /\ Unchanged
  /\ request' = None /\ abort' = FALSE
  /\ Return
  /\ UNCHANGED <<factor, fm, late, annotations, workloads, nw, counters>>

\* A conflict, or a guard of a StatefulSet write, refuses the next call.
Refused ==
  /\ \/ cw.pc \in {"consume", "consumeInFlight"} /\ ~Unchanged
     \/ At("dropAnnotations") /\ ~Unchanged
     \/ At("suspend") /\ \E n \in cw.todo : cached[n] \notin {susp[n], Snap.fm.id}
     \/ At("resume") /\ \E n \in cw.todo : cached[n] \notin {susp[n], None}
     \/ At("release") /\ \E n \in cw.todo : cached[n] \notin {susp[n], None}
     \/ At("config") /\ sts[First(cw.todo)].replicas # 0
     \/ At("init") /\ sts[First(cw.todo)].replicas # 0
     \/ At("verify") /\ ~Prepared(First(cw.todo))
  /\ Return
  /\ UNCHANGED <<spec, fm, late, annotations, workloads, nw, counters>>

\* A call fails, or the manager stops.
Abandon ==
  /\ ~At("idle") /\ failures < scene.failures /\ failures' = failures + 1
  /\ Return
  /\ UNCHANGED <<spec, fm, late, annotations, workloads, nw, scene, requests, aborts, lost,
                 evictions>>

-----------------------------------------------------------------------------
(* The GarageNode controller: reconcileStatefulSet from an older snapshot. *)

StartNodeReconcile(n) ==
  /\ nw = None /\ ~FactorMigrationActive(Cluster) /\ cached[n] = None
  /\ nw' = [obj |-> n, factor |-> factor]
  /\ UNCHANGED <<spec, fm, late, annotations, workloads, cw, counters>>

\* A StatefulSet with the rendered revision and one replica may be left alone.
ReconcileStatefulSet ==
  LET n == nw.obj
      rendered == [replicas |-> 1, cfg |-> nw.factor, purge |-> None]
  IN /\ nw # None
     /\ \/ sts' = [sts EXCEPT ![n] = rendered]
        \/ sts[n].replicas = 1 /\ sts[n].cfg = nw.factor /\ UNCHANGED sts
     /\ nw' = None
     /\ UNCHANGED <<spec, fm, late, annotations, observed, pod, disk, marks, cw, counters>>

\* The managed-Pod rollout (LayoutMutation) replaces one outdated Pod while all
\* others are Ready and in the layout.
RollOut(n) ==
  /\ At("idle") /\ ~FactorMigrationActive(Cluster)
  /\ \A m \in Nodes : Ready(m) /\ disk[m] # None /\ sts[m].cfg = factor
  /\ pod[n].cfg # factor
  /\ pod' = [pod EXCEPT ![n] = None]
  /\ UNCHANGED <<spec, fm, late, annotations, sts, observed, disk, marks, cw, nw, counters>>

-----------------------------------------------------------------------------
(* Kubernetes, Garage and users.                                           *)

\* The StatefulSet controller; its update strategy is OnDelete.
Observe(n) ==
  /\ observed[n] # sts[n]
  /\ observed' = [observed EXCEPT ![n] = sts[n]]
  /\ UNCHANGED <<spec, fm, late, annotations, sts, pod, disk, marks, cw, nw, counters>>

CreatePod(n) ==
  /\ pod[n] = None /\ observed[n].replicas = 1
  /\ pod' = [pod EXCEPT ![n] = [cfg |-> observed[n].cfg, purge |-> observed[n].purge,
                                st |-> "init"]]
  /\ UNCHANGED <<spec, fm, late, annotations, sts, observed, disk, marks, cw, nw, counters>>

RemovePod(n) ==
  /\ pod[n] # None /\ observed[n].replicas = 0
  /\ pod' = [pod EXCEPT ![n] = None]
  /\ UNCHANGED <<spec, fm, late, annotations, sts, observed, disk, marks, cw, nw, counters>>

Evict(n) ==
  /\ pod[n] # None /\ evictions < scene.evictions /\ evictions' = evictions + 1
  /\ pod' = [pod EXCEPT ![n] = None]
  /\ UNCHANGED <<spec, fm, late, annotations, sts, observed, disk, marks, cw, nw, scene,
                 requests, aborts, lost, failures>>

\* Mutant: the purge script does not look for its marker.
PurgeAlways(n) ==
  LET id == pod[n].purge
  IN /\ pod[n] # None /\ pod[n].st = "init"
     /\ disk' = IF id # None THEN [disk EXCEPT ![n] = None] ELSE disk
     /\ marks' = IF id # None THEN [marks EXCEPT ![n] = @ \cup {id}] ELSE marks
     /\ pod' = [pod EXCEPT ![n].st = "starting"]
     /\ UNCHANGED <<spec, fm, late, annotations, sts, observed, cw, nw, counters>>

\* factorMigrationPurgeInitContainer: delete cluster_layout unless the marker of
\* this purge exists.
PurgeInit(n) ==
  LET id == pod[n].purge
      purge == id # None /\ id \notin marks[n]
  IN /\ pod[n] # None /\ pod[n].st = "init"
     /\ disk' = IF purge THEN [disk EXCEPT ![n] = None] ELSE disk
     /\ marks' = IF purge THEN [marks EXCEPT ![n] = @ \cup {id}] ELSE marks
     /\ pod' = [pod EXCEPT ![n].st = "starting"]
     /\ UNCHANGED <<spec, fm, late, annotations, sts, observed, cw, nw, counters>>

\* Garage exits at boot when its layout has another factor than its configuration.
Boot(n) ==
  /\ pod[n] # None /\ pod[n].st = "starting" /\ disk[n] \in {None, pod[n].cfg}
  /\ pod' = [pod EXCEPT ![n].st = "up"]
  /\ UNCHANGED <<spec, fm, late, annotations, sts, observed, disk, marks, cw, nw, counters>>

\* A process without a layout learns it from a peer of its own factor.
LearnLayout(n) ==
  /\ Ready(n) /\ disk[n] = None
  /\ \E m \in Nodes : Ready(m) /\ disk[m] = pod[n].cfg
  /\ disk' = [disk EXCEPT ![n] = pod[n].cfg]
  /\ UNCHANGED <<spec, fm, late, annotations, sts, observed, pod, marks, cw, nw, counters>>

SyncCache(n) ==
  /\ cached[n] # susp[n] /\ cached' = [cached EXCEPT ![n] = susp[n]]
  /\ UNCHANGED <<spec, fm, late, susp, workloads, cw, nw, counters>>

\* factormigration.ValidateUpdate: a new factor needs its annotation in the same
\* update; the annotation alone is not validated.
Request(f) ==
  /\ requests < scene.requests /\ requests' = requests + 1
  /\ scene.overlap \/ nw = None
  /\ request' = f
  /\ factor' \in {factor} \cup ({f} \cap Factors)
  /\ UNCHANGED <<abort, fm, late, annotations, workloads, cw, nw, scene, aborts, lost, evictions,
                 failures>>

RequestAbort ==
  /\ aborts < scene.aborts /\ aborts' = aborts + 1
  /\ ~abort /\ abort' = TRUE
  /\ UNCHANGED <<factor, request, fm, late, annotations, workloads, cw, nw, scene, requests, lost,
                 evictions, failures>>

Expire ==
  /\ fm # None /\ fm.phase \in InFlight /\ ~late /\ late' = TRUE
  /\ UNCHANGED <<spec, fm, annotations, workloads, cw, nw, counters>>

\* Users clear status.factorMigration before they ask for another migration.
ClearStatus ==
  /\ fm # None /\ fm.phase \in Terminal /\ requests < scene.requests
  /\ fm' = None /\ late' = FALSE
  /\ UNCHANGED <<spec, annotations, workloads, cw, nw, counters>>

-----------------------------------------------------------------------------
ClusterStep ==
  \/ StartReconcile \/ Start \/ Consume \/ SetPhase \/ FmValidate \/ FmCheckStuck
  \/ FmScaleDown \/ (\E n \in Nodes : Suspend(n)) \/ ScaleDown \/ CountStoragePods
  \/ FmPurge \/ PatchConfigRevision \/ PatchPurgeInit \/ VerifyPreparation \/ ScaleUp
  \/ FmVerify \/ FmRebuildLayout \/ StripRebuilt
  \/ FmConverge \/ (\E n \in Nodes : Resume(n))
  \/ Strip \/ Restore \/ (\E n \in Nodes : ReleaseSuspension(n)) \/ Fail \/ DropAnnotations
  \/ Refused

Next ==
  \/ ClusterStep \/ Abandon
  \/ ReconcileStatefulSet
  \/ \E n \in Nodes :
       \/ StartNodeReconcile(n) \/ RollOut(n)
       \/ Observe(n) \/ CreatePod(n) \/ RemovePod(n) \/ Evict(n)
       \/ PurgeInit(n) \/ Boot(n) \/ LearnLayout(n) \/ SyncCache(n)
  \/ \E f \in Factors \cup {Malformed} : Request(f)
  \/ RequestAbort \/ ClearStatus \/ Expire

Spec == Init /\ [][Next]_vars

\* The work queue retries a reconcile until it succeeds, deadlines pass, and the
\* informer catches up.  Nothing is assumed of Kubernetes, Garage or users: the
\* phases that wait for them have a deadline of their own.
Fairness ==
  /\ WF_vars(ClusterStep)
  /\ WF_vars(Expire)
  /\ \A n \in Nodes : WF_vars(SyncCache(n))

FairSpec == Spec /\ Fairness

-----------------------------------------------------------------------------
(* Properties.                                                             *)

\* Every variable holds a value of its kind.
TypeOK ==
  /\ scene \in Scenes
  /\ factor \in AllFactors /\ request \in AllFactors \cup {None, Malformed} /\ abort \in BOOLEAN
  /\ fm \in Migrations \cup {None} /\ late \in BOOLEAN
  /\ susp \in [Nodes -> IDs \cup {None}] /\ cached \in [Nodes -> IDs \cup {None}]
  /\ sts \in [Nodes -> StatefulSets] /\ observed \in [Nodes -> StatefulSets]
  /\ pod \in [Nodes -> Pods \cup {None}]
  /\ disk \in [Nodes -> AllFactors \cup {None}] /\ marks \in [Nodes -> SUBSET IDs]
  /\ cw \in [pc : Points, snap : Clusters \cup {None}, todo : SUBSET Nodes, quiet : BOOLEAN,
             next : InFlight \cup Terminal \cup {None}, node : Nodes \cup {None},
             abort : BOOLEAN]
  /\ nw \in [obj : Nodes, factor : AllFactors] \cup {None}
  /\ requests \in 0..scene.requests /\ aborts \in 0..scene.aborts /\ lost \in 0..scene.lost
  /\ evictions \in 0..scene.evictions /\ failures \in 0..scene.failures

\* A failed or aborted migration leaves no storage StatefulSet scaled to zero and
\* none with the purge init container, wherever the failure struck and whatever
\* the GarageNode controller wrote meanwhile (teardownFactorMigration).
FailedRestoresWorkloads ==
  fm # None /\ fm.phase = "Failed" =>
    \A n \in Nodes : sts[n].replicas = 1 /\ sts[n].purge = None

\* A finished migration suspends no GarageNode: nothing else would ever resume it
\* (clearStorageSuspension).
TerminalReleasesNodes ==
  fm # None /\ fm.phase \in Terminal => \A n \in Nodes : susp[n] = None

\* A request leaves the annotation only when status.factorMigration tells what
\* became of it, so that a crash between the two writes loses nothing
\* (reconcileFactorMigration).
RequestIsRecorded == [][request # None /\ request' = None => fm # None]_vars

\* No two Garage processes run with different replication factors: all of the old
\* factor are gone before one of the new factor starts (fmScaleDown, fmPurge).
SimultaneousRestart ==
  \A m, n \in Nodes : Ready(m) /\ Ready(n) => pod[m].cfg = pod[n].cfg

\* Once the layout is rebuilt at the target factor no restart of a Pod deletes it
\* again, though the purge init container is still in the template or in the Pod
\* template the StatefulSet controller knows (the .purged marker).  Said of the
\* first migration: a StatefulSet controller that lags over the whole of a second
\* one starts a Pod whose purge that migration has not run yet.
RebuiltLayoutIsKept ==
  [][\A n \in Nodes :
       /\ requests = 1
       /\ fm # None /\ fm.phase \in {"Converging", "Completed"}
       /\ disk[n] = fm.to
       => disk'[n] # None]_vars

\* A finished migration never starts again by itself, whatever annotation lingers:
\* only clearing the status opens the next one (reconcileFactorMigration).
TerminalIsFinal ==
  [][fm # None /\ fm.phase \in Terminal => fm' = None \/ fm'.phase \in Terminal]_vars

\* Every migration ends, though Pods never terminate, start or become Ready: each
\* waiting phase has its deadline and the teardown is retried (fmCheckStuck).
MigrationTerminates ==
  (fm # None /\ fm.phase \in InFlight) ~> (fm = None \/ fm.phase \in Terminal)

=============================================================================
