--------------------------- MODULE LayoutMutation ---------------------------
(***************************************************************************)
(* The layout writers of the operator and how they exclude one another.    *)
(*                                                                         *)
(* Two controllers write one Garage layout: the GarageCluster controller   *)
(* (which reconciles the layout owner) and the GarageNode controller       *)
(* (which reconciles the GarageNodes).  Neither sets                       *)
(* MaxConcurrentReconciles, so each has one worker.  They share the        *)
(* coordinator (LayoutCoordinator) in memory and status.storageDrain /     *)
(* status.storageRollout of the GarageCluster in the API server.  A        *)
(* reconcile first rehydrates the markers from the API, then decides from  *)
(* the snapshot it took, then takes one of four admission paths to the     *)
(* layout mutex.                                                           *)
(*                                                                         *)
(* A step ends where the code calls the API server or Garage, or takes     *)
(* c.mu, so that the two workers interleave as the goroutines can.  Two    *)
(* adjacent c.mu sections with no call between them (Begin, Confirm of a   *)
(* rehydration) are one step.                                              *)
(*                                                                         *)
(* Left out: gateway clusters that share the layout of another cluster,    *)
(* capacity-less retirements, replication-factor migration, lost-source    *)
(* recovery, and target sets that grow inside one transaction.  The block  *)
(* proof that completes a drain is one step here.                          *)
(***************************************************************************)
EXTENDS Naturals, FiniteSets, LayoutCoordinator

CONSTANTS
  Owner,          \* the GarageCluster that owns the layout
  Nodes,          \* its positive-capacity GarageNodes
  ClusterWorker,  \* the worker of the GarageCluster controller
  NodeWorker,     \* the worker of the GarageNode controller
  Federated,      \* other sites hold storage roles in the same layout
  Requestable,    \* actors whose drain annotation the user may set
  Withdrawable,   \* actors whose drain annotation the user may remove again
  Drifting,       \* objects that may start with an unpublished role change
  Rotated,        \* nodes whose Pod may start outdated at an unchanged spec
  MaxUID,         \* bound: incarnations of the owner
  MaxGen,         \* bound: spec generations of one incarnation
  Transactions,   \* transaction IDs; see NewTransactionID for how many are needed
  MaxCrashes      \* bound: manager restarts

Workers == {ClusterWorker, NodeWorker}
Actors == Nodes \cup {Owner}

ASSUME ConstantsAssumption ==
  /\ Owner \notin Nodes
  /\ None \notin Nodes \cup {Owner}
  /\ ClusterWorker # NodeWorker
  /\ Federated \in BOOLEAN
  /\ Requestable \subseteq Nodes \cup {Owner} /\ Withdrawable \subseteq Requestable
  /\ Drifting \subseteq Nodes \cup {Owner}
  /\ Rotated \subseteq Nodes
  /\ MaxUID \in Nat /\ MaxGen \in Nat /\ MaxCrashes \in Nat

VARIABLES
  owner,          \* the GarageCluster in the API server: identity, spec generation, status
  live,           \* GarageNodes that still hold their finalizer
  deleting,       \* GarageNodes with a deletionTimestamp
  wants,          \* objects annotated garage.rajsingh.info/drain=true
  drift,          \* objects whose desired role differs from the layout
  outdated,       \* nodes whose Pod does not run the desired revision
  down,           \* nodes whose Pod is being replaced
  roles,          \* nodes with a role in the current Garage layout
  migrating,      \* removed nodes whose blocks have not all reached their new places
  settled,        \* no older Garage layout version is still synchronizing
  held,           \* coordinator: the layout mutex, which records no holder
  drainMarker,    \* coordinator: the storage-drain marker
  rolloutMarker,  \* coordinator: the managed-Pod rollout marker
  wk,             \* the state of each worker's current reconcile
  crashes         \* manager restarts so far

memory == <<held, drainMarker, rolloutMarker>>
objects == <<live, deleting, wants, drift>>
pods == <<outdated, down>>
garage == <<roles, migrating, settled>>
vars == <<owner, live, deleting, wants, drift, outdated, down, roles, migrating,
          settled, held, drainMarker, rolloutMarker, wk, crashes>>

-----------------------------------------------------------------------------
Reasons == {"Converged", "Waiting", "Initializing", "RollingOut"}

Drains == [actor : Actors, tx : Transactions, done : BOOLEAN]

ASSUME NoneAssumption ==
  /\ None \notin Drains
  /\ None \notin [names : SUBSET Nodes, tx : Transactions, proven : BOOLEAN]

\* The fields of a GarageCluster the layout writers read; cond is the
\* StorageRolloutReady condition (True exactly when reason is Converged).
OwnerObjects ==
  [uid : Nat, gen : Nat, cond : [reason : Reasons, gen : Nat],
   drain : Drains \cup {None}, rollout : Nodes \cup {None}]

\* Program points with the layout mutex held, and the others.
LockedPoints ==
  {"locked", "casDrain", "confirmDrain", "beforeApply", "apply", "revert", "endAborted",
   "prove", "markDone", "casRollout", "confirmRollout", "deletePod", "endRollout", "release"}
FreePoints ==
  {"idle", "listRollouts", "adoptRollout", "readOwner", "adoptDrain", "scanSources",
   "decide", "check", "acquire", "removeFinalizer", "clearDrain", "endCleared",
   "rollout", "waitRollout", "converge", "finishRollout", "ordinary"}

Goals == {"none", "drain", "role", "rollout", "recover"}
Modes == {"plain", "ignoreRollout", "prepare", "ignoreDrain"}

Reconciles ==
  [pc : LockedPoints \cup FreePoints, obj : Actors, want : BOOLEAN, del : BOOLEAN,
   snap : OwnerObjects, goal : Goals, mode : Modes, intent : Drains \cup {None},
   cand : Nodes \cup {None}]

FreshOwner(u) ==
  [uid |-> u, gen |-> 1, cond |-> [reason |-> "Converged", gen |-> 1],
   drain |-> None, rollout |-> None]

IdleWorker ==
  [pc |-> "idle", obj |-> Owner, want |-> FALSE, del |-> FALSE, snap |-> FreshOwner(1),
   goal |-> "none", mode |-> "plain", intent |-> None, cand |-> None]

Init ==
  /\ owner = FreshOwner(1)
  /\ live = Nodes /\ deleting = {} /\ wants = {}
  /\ drift \in SUBSET Drifting
  /\ outdated \in SUBSET Rotated /\ down = {}
  /\ roles = Nodes /\ migrating = {} /\ settled = TRUE
  /\ held = FALSE /\ drainMarker = None /\ rolloutMarker = None
  /\ wk = [w \in Workers |-> IdleWorker]
  /\ crashes = 0

-----------------------------------------------------------------------------
(* What the code reads from a snapshot of the owner. *)

\* The roles a drain by this actor removes: a GarageNode its own, the
\* GarageCluster every local one.
Target(a) == IF a = Owner THEN Nodes ELSE {a}

StorageDrainConditionActive(s) == s.drain # None
StorageDrainActorMatches(s, a) == s.drain # None /\ s.drain.actor = a
NodeLocalPoolRolloutConditionActive(s) == s.rollout # None \/ s.cond.reason = "RollingOut"

StorageRolloutMutationBoundaryActive(s) ==
  IF s.rollout = None /\ s.drain # None THEN FALSE
  ELSE \/ s.rollout # None
       \/ s.cond.reason = "Converged" /\ s.cond.gen # s.gen
       \/ s.cond.reason \notin {"Converged", "Initializing"}

RequireStorageDrainStartReady(s) ==
  s.rollout = None /\ s.cond.reason = "Converged" /\ s.cond.gen = s.gen

MarkerOf(s, d) == StorageDrainMarker(s.uid, d.actor, d.tx)

At(w, l) == wk[w].pc = l
Snap(w) == wk[w].snap
Goto(w, l) == wk' = [wk EXCEPT ![w].pc = l]
Finish(w) == wk' = [wk EXCEPT ![w] = IdleWorker]


\* Mutant: only the identity of the owner is compared.
SameOwner(w) == owner.uid = Snap(w).uid

\* Another reconcile may only write the owner it read: same object, and the
\* drain revision it expects (updateClusterStorageDrainProof compares nothing else).
SameDrainRevision(w) == owner.uid = Snap(w).uid /\ owner.drain = Snap(w).drain

-----------------------------------------------------------------------------
(* The prologue of every reconcile: rehydrate the markers from the API. *)

StartReconcile(w, o) ==
  /\ At(w, "idle")
  /\ IF w = ClusterWorker THEN o = Owner ELSE o \in live
  /\ wk' = [wk EXCEPT ![w] = [IdleWorker EXCEPT
              !.pc = "listRollouts", !.obj = o, !.want = o \in wants,
              !.del = o \in deleting, !.snap = owner]]
  /\ UNCHANGED <<owner, objects, pods, garage, memory, crashes>>

ListRollouts(w) ==
  /\ At(w, "listRollouts")
  /\ rolloutMarker' = PruneStaleNodeLocalPoolRollout(rolloutMarker, Snap(w).uid)
  /\ IF owner.uid = Snap(w).uid /\ NodeLocalPoolRolloutConditionActive(owner)
     THEN Goto(w, "adoptRollout") ELSE Goto(w, "readOwner")
  /\ UNCHANGED <<owner, objects, pods, garage, held, drainMarker, crashes>>

AdoptRollout(w) ==
  /\ At(w, "adoptRollout")
  /\ IF CanBeginNodeLocalPoolRollout(rolloutMarker, Snap(w).uid)
     THEN /\ rolloutMarker' = ConfirmNodeLocalPoolRollout(
                 BeginNodeLocalPoolRollout(rolloutMarker, Snap(w).uid), Snap(w).uid)
          /\ Goto(w, "readOwner")
     ELSE UNCHANGED rolloutMarker /\ Finish(w)
  /\ UNCHANGED <<owner, objects, pods, garage, held, drainMarker, crashes>>

\* The uncached read every later decision of this reconcile is based on.
ReadOwner(w) ==
  /\ At(w, "readOwner")
  /\ IF owner.uid = Snap(w).uid
     THEN wk' = [wk EXCEPT ![w].snap = owner, ![w].pc = "adoptDrain"]
     ELSE Finish(w)
  /\ UNCHANGED <<owner, objects, pods, garage, memory, crashes>>

AdoptDrain(w) ==
  LET s == Snap(w)
      pruned == PruneStaleStorageDrain(drainMarker, s.uid)
      wanted == MarkerOf(s, s.drain)
  IN /\ At(w, "adoptDrain")
     /\ \/ /\ s.drain = None
           /\ drainMarker' = pruned /\ Goto(w, "scanSources")
        \/ /\ s.drain # None /\ CanBeginStorageDrain(pruned, wanted)
           /\ drainMarker' = ConfirmStorageDrain(BeginStorageDrain(pruned, wanted), wanted)
           /\ Goto(w, "scanSources")
        \/ /\ s.drain # None /\ ~CanBeginStorageDrain(pruned, wanted)
           /\ drainMarker' = pruned /\ Finish(w)
     /\ UNCHANGED <<owner, objects, pods, garage, held, rolloutMarker, crashes>>

\* After the List of every possible drain source: no durable transaction was
\* found in the snapshot, so a confirmed marker of this owner is dropped.
ScanSources(w) ==
  /\ At(w, "scanSources")
  /\ drainMarker' = IF Snap(w).drain = None
                    THEN PruneConfirmedStorageDrainWithoutStatus(drainMarker, Snap(w).uid)
                    ELSE drainMarker
  /\ Goto(w, "decide")
  /\ UNCHANGED <<owner, objects, pods, garage, held, rolloutMarker, crashes>>

-----------------------------------------------------------------------------
(* GarageNode Reconcile, after the prologue.                               *)

Run(w, goal, mode) ==
  wk' = [wk EXCEPT ![w].pc = "check", ![w].goal = goal, ![w].mode = mode]

NodeAtDecision(w) == At(w, "decide") /\ wk[w].obj \in Nodes
NodeIsDrainActor(w) == StorageDrainActorMatches(Snap(w), wk[w].obj)
TransitionActive(w) == StorageRolloutMutationBoundaryActive(Snap(w)) \/ rolloutMarker # None
HandoffActive(w) == NodeLocalPoolRolloutConditionActive(Snap(w)) \/ rolloutMarker # None
FrozenByDrain(w) == (Snap(w).drain # None \/ drainMarker # None) /\ ~NodeIsDrainActor(w)

\* Some other actor's drain is durable or being published: only wait.
NodeWaitsForDrain(w) ==
  /\ NodeAtDecision(w) /\ FrozenByDrain(w)
  /\ Finish(w)
  /\ UNCHANGED <<owner, objects, pods, garage, memory, crashes>>

\* DELETE was admitted on the terminal proof of this very node.
NodeFinalizes(w) ==
  /\ NodeAtDecision(w) /\ ~FrozenByDrain(w)
  /\ wk[w].del /\ NodeIsDrainActor(w) /\ Snap(w).drain.done
  /\ Goto(w, "removeFinalizer")
  /\ UNCHANGED <<owner, objects, pods, garage, memory, crashes>>

\* The drain annotation, outside a rollout transition: prepare the drain, or
\* hold once its proof is terminal.
NodePreparesDrain(w) ==
  /\ NodeAtDecision(w) /\ ~FrozenByDrain(w)
  /\ ~wk[w].del /\ wk[w].want /\ ~TransitionActive(w)
  /\ IF NodeIsDrainActor(w) /\ Snap(w).drain.done
     THEN Finish(w)
     ELSE Run(w, "drain", IF NodeIsDrainActor(w) THEN "ignoreDrain" ELSE "plain")
  /\ UNCHANGED <<owner, objects, pods, garage, memory, crashes>>

\* Ordinary reconciliation of the role, through the admission path the
\* rollout phase calls for; during another node's handoff only status is read.
NodeReconcilesRole(w) ==
  LET s == Snap(w)
      mode == IF NodeIsDrainActor(w) THEN "ignoreDrain"
              ELSE IF s.rollout = wk[w].obj THEN "ignoreRollout"
              ELSE IF TransitionActive(w) THEN "prepare" ELSE "plain"
  IN /\ NodeAtDecision(w) /\ ~FrozenByDrain(w)
     /\ ~wk[w].del /\ (wk[w].want => TransitionActive(w))
     /\ IF HandoffActive(w) /\ mode = "prepare" THEN Finish(w) ELSE Run(w, "role", mode)
     /\ UNCHANGED <<owner, objects, pods, garage, memory, crashes>>

\* The finalizer is released before the durable transaction is cleared.
RemoveFinalizer(w) ==
  LET gone == {wk[w].obj}
  IN /\ At(w, "removeFinalizer")
     /\ live' = live \ gone /\ deleting' = deleting \ gone
     /\ wants' = wants \ gone /\ drift' = drift \ gone
     /\ outdated' = outdated \ gone /\ down' = down \ gone
     /\ Goto(w, "clearDrain")
     /\ UNCHANGED <<owner, garage, memory, crashes>>

ClearCompletedStorageDrain(w) ==
  /\ At(w, "clearDrain")
  /\ IF SameDrainRevision(w)
     THEN /\ owner' = [owner EXCEPT !.drain = None]
          /\ wk' = [wk EXCEPT ![w].intent = Snap(w).drain, ![w].snap = owner',
                              ![w].pc = "endCleared"]
     ELSE Finish(w) /\ UNCHANGED owner
  /\ UNCHANGED <<objects, pods, garage, memory, crashes>>

EndCleared(w) ==
  /\ At(w, "endCleared")
  /\ drainMarker' = EndStorageDrain(drainMarker, MarkerOf(Snap(w), wk[w].intent))
  /\ IF wk[w].obj = Owner
     THEN wk' = [wk EXCEPT ![w].intent = None, ![w].pc = "decide"]
     ELSE Finish(w)
  /\ UNCHANGED <<owner, objects, pods, garage, held, rolloutMarker, crashes>>

-----------------------------------------------------------------------------
(* GarageCluster Reconcile, after the prologue.                            *)

ClusterAtDecision(w) == At(w, "decide") /\ wk[w].obj = Owner

\* The drain annotation on the GarageCluster: refuse while another actor owns the
\* transaction, else prepare; unlike a GarageNode it re-proves a terminal drain.
ClusterPreparesDrain(w) ==
  LET s == Snap(w)
  IN /\ ClusterAtDecision(w) /\ wk[w].want
     /\ IF s.drain # None /\ s.drain.actor # Owner
        THEN Finish(w)
        ELSE Run(w, "drain", IF s.drain # None THEN "ignoreDrain" ELSE "plain")
     /\ UNCHANGED <<owner, objects, pods, garage, memory, crashes>>

\* A durable drain freezes the cluster controller; it only clears a completed
\* transaction whose GarageNode is gone (recoverOrphanedStorageDrain).
ClusterRecoversOrphan(w) ==
  LET s == Snap(w)
  IN /\ ClusterAtDecision(w) /\ ~wk[w].want
     /\ s.drain # None
     /\ IF s.drain.actor \in Nodes \ live /\ s.drain.done
        THEN Goto(w, "clearDrain") ELSE Finish(w)
     /\ UNCHANGED <<owner, objects, pods, garage, memory, crashes>>

\* A persisted handoff is driven to its end before anything is rendered.
ClusterRecoversRollout(w) ==
  LET s == Snap(w)
  IN /\ ClusterAtDecision(w) /\ ~wk[w].want
     /\ s.drain = None /\ s.rollout # None
     /\ IF RolloutConfirmedBy(rolloutMarker, s.uid)
        THEN Run(w, "recover", "ignoreRollout") ELSE Finish(w)
     /\ UNCHANGED <<owner, objects, pods, garage, memory, crashes>>

\* No handoff in status: a confirmed marker left behind is ended.
ClusterProceeds(w) ==
  LET s == Snap(w)
  IN /\ ClusterAtDecision(w) /\ ~wk[w].want
     /\ s.drain = None /\ s.rollout = None
     /\ rolloutMarker' = EndNodeLocalPoolRollout(rolloutMarker, s.uid)
     /\ Goto(w, "rollout")
     /\ UNCHANGED <<owner, objects, pods, garage, held, drainMarker, crashes>>

\* reconcileStorageRollout: converged, not ready to choose, or one candidate.
ReconcileStorageRollout(w) ==
  /\ At(w, "rollout")
  /\ \/ outdated = {} /\ down = {} /\ Goto(w, "converge")
     \/ down # {} /\ Goto(w, "waitRollout")
     \/ outdated # {} /\ down = {} /\ Run(w, "rollout", "ignoreRollout")
  /\ UNCHANGED <<owner, objects, pods, garage, memory, crashes>>

\* setStorageRolloutCondition writes only the generation and handoff it read.
CanSetCondition(w) ==
  owner.uid = Snap(w).uid /\ owner.gen = Snap(w).gen /\ owner.rollout = Snap(w).rollout

SetCondition(w, reason) ==
  owner' = [owner EXCEPT !.cond = [reason |-> reason, gen |-> Snap(w).gen]]

\* The rollout is not complete: the next reconcile retries it.
WaitRollout(w) ==
  LET boundary == StorageRolloutMutationBoundaryActive(Snap(w))
  IN /\ At(w, "waitRollout")
     /\ IF CanSetCondition(w)
        THEN /\ SetCondition(w, IF boundary THEN "Waiting" ELSE "Initializing")
             /\ IF boundary THEN Finish(w)
                ELSE wk' = [wk EXCEPT ![w].snap = owner', ![w].goal = "none",
                                      ![w].mode = "plain", ![w].pc = "ordinary"]
        ELSE Finish(w) /\ UNCHANGED owner
     /\ UNCHANGED <<objects, pods, garage, memory, crashes>>

Converge(w) ==
  /\ At(w, "converge")
  /\ IF CanSetCondition(w)
     THEN /\ SetCondition(w, "Converged")
          /\ wk' = [wk EXCEPT ![w].snap = owner', ![w].pc = "finishRollout"]
     ELSE Finish(w) /\ UNCHANGED owner
  /\ UNCHANGED <<objects, pods, garage, memory, crashes>>

FinishNodeLocalPoolRollout(w) ==
  /\ At(w, "finishRollout")
  /\ rolloutMarker' = EndNodeLocalPoolRollout(rolloutMarker, Snap(w).uid)
  /\ Goto(w, "ordinary")
  /\ UNCHANGED <<owner, objects, pods, garage, held, drainMarker, crashes>>

\* The layout changes the GarageCluster controller makes itself.
OrdinaryReconcile(w) ==
  /\ At(w, "ordinary")
  /\ IF Owner \in drift THEN Run(w, "role", "plain") ELSE Finish(w)
  /\ UNCHANGED <<owner, objects, pods, garage, memory, crashes>>

-----------------------------------------------------------------------------
(* Admission to the layout mutex.  The exclusions are tested first, each   *)
(* under its own c.mu section; TryAcquire takes the bit in a later one.    *)

NoDrain(w) == drainMarker = None /\ ~StorageDrainConditionActive(Snap(w))
NoBoundary(w) == rolloutMarker = None /\ ~StorageRolloutMutationBoundaryActive(Snap(w))
NoHandoff(w) == rolloutMarker = None /\ ~NodeLocalPoolRolloutConditionActive(Snap(w))

AcquireLayoutMutation(w) == wk[w].mode = "plain" /\ NoDrain(w) /\ NoBoundary(w)
AcquireIgnoringNodeLocalPoolRollout(w) == wk[w].mode = "ignoreRollout" /\ NoDrain(w)
AcquireDuringStorageRolloutPrepare(w) == wk[w].mode = "prepare" /\ NoDrain(w) /\ NoHandoff(w)
AcquireIgnoringStorageDrain(w) ==
  /\ wk[w].mode = "ignoreDrain"
  /\ StorageDrainActorMatches(Snap(w), wk[w].obj)
  /\ NoBoundary(w)
  /\ CanBeginStorageDrain(drainMarker, MarkerOf(Snap(w), Snap(w).drain))

Admitted(w) ==
  \/ AcquireLayoutMutation(w)
  \/ AcquireIgnoringNodeLocalPoolRollout(w)
  \/ AcquireDuringStorageRolloutPrepare(w)
  \/ AcquireIgnoringStorageDrain(w)

\* Refused: an ordinary writer requeues, a rollout records that it waits.
Refused(w) == IF wk[w].goal = "rollout" THEN Goto(w, "waitRollout") ELSE Finish(w)

CheckExclusions(w) ==
  LET wanted == MarkerOf(Snap(w), Snap(w).drain)
  IN /\ At(w, "check")
     /\ IF Admitted(w)
        THEN /\ drainMarker' = IF wk[w].mode = "ignoreDrain"
                               THEN ConfirmStorageDrain(BeginStorageDrain(drainMarker, wanted), wanted)
                               ELSE drainMarker
             /\ Goto(w, "acquire")
        ELSE Refused(w) /\ UNCHANGED drainMarker
     /\ UNCHANGED <<owner, objects, pods, garage, held, rolloutMarker, crashes>>


\* Mutant: the bit is set without looking whether it was.
TryAcquireUnchecked(w) ==
  /\ At(w, "acquire")
  /\ held' = TRUE /\ Goto(w, "locked")
  /\ UNCHANGED <<owner, objects, pods, garage, drainMarker, rolloutMarker, crashes>>

TryAcquire(w) ==
  /\ At(w, "acquire")
  /\ IF held THEN Refused(w) /\ UNCHANGED held
     ELSE held' = TRUE /\ Goto(w, "locked")
  /\ UNCHANGED <<owner, objects, pods, garage, drainMarker, rolloutMarker, crashes>>

Release(w) ==
  /\ At(w, "release")
  /\ held' = FALSE
  /\ IF wk[w].goal = "rollout" /\ wk[w].cand = None THEN Goto(w, "waitRollout") ELSE Finish(w)
  /\ UNCHANGED <<owner, objects, pods, garage, drainMarker, rolloutMarker, crashes>>

-----------------------------------------------------------------------------
(* Inside the mutex: ordinary role changes.                                *)

\* reconcileNode / the cluster's own layout writers.  The drain actor may not
\* re-add its role; an unsettled history or nothing to change writes nothing.
NeedsUpdate(o) == o \in drift \/ (o \in Nodes /\ o \notin roles)

WriteRole(w) ==
  LET o == wk[w].obj
  IN /\ At(w, "locked") /\ wk[w].goal = "role"
     /\ IF settled /\ NeedsUpdate(o) /\ wk[w].mode # "ignoreDrain" /\ owner.uid = Snap(w).uid
        THEN /\ drift' = drift \ {o}
             /\ roles' = roles \cup ({o} \cap Nodes)
             /\ migrating' = migrating \ {o}
             /\ settled' = FALSE
        ELSE UNCHANGED <<drift, garage>>
     /\ Goto(w, "release")
     /\ UNCHANGED <<owner, live, deleting, wants, pods, memory, crashes>>

-----------------------------------------------------------------------------
(* Inside the mutex: the drain transaction.                                *)

\* assessStorageDrainPeers: every process that holds a role, and every one being
\* removed, is a verified running Pod; a site that trusts peers it cannot verify
\* (required with federation) does not look.
PeersVerified(a) == Federated \/ down \cap (roles \cup Target(a)) = {}

\* The gates before an intent is recorded: settled history, never the last
\* positive-capacity role, a converged rollout in the snapshot, verified peers.
DrainMayProceed(w) ==
  LET a == wk[w].obj
  IN /\ settled
     /\ (a \in Nodes /\ roles = {a}) => Federated
     /\ RequireStorageDrainStartReady(Snap(w))
     /\ PeersVerified(a)

\* Where the transaction goes once its intent is durable and confirmed.
AfterIntent(a) == IF Target(a) \cap roles = {} THEN "prove" ELSE "beforeApply"

\* newStorageDrainTransactionID: an ID nothing else refers to.  IDs are reused
\* here once forgotten, so a small set of them stands for unboundedly many.
TransactionOf(x) == IF x = None THEN {} ELSE {x.tx}
InUse ==
  TransactionOf(owner.drain) \cup TransactionOf(drainMarker) \cup
    UNION {TransactionOf(Snap(w).drain) \cup TransactionOf(wk[w].intent) : w \in Workers}
NewTransactionID == CHOOSE t \in Transactions : t \notin InUse


\* Mutant: the removal is staged before the intent is durable.
BeginIntentInMemory(w) ==
  LET next == [actor |-> wk[w].obj, tx |-> NewTransactionID, done |-> FALSE]
      wanted == MarkerOf(Snap(w), next)
  IN /\ At(w, "locked") /\ wk[w].goal = "drain" /\ Snap(w).drain = None
     /\ DrainMayProceed(w) /\ CanBeginStorageDrain(drainMarker, wanted)
     /\ drainMarker' = BeginStorageDrain(drainMarker, wanted)
     /\ wk' = [wk EXCEPT ![w].intent = next, ![w].pc = AfterIntent(wk[w].obj)]
     /\ UNCHANGED <<owner, objects, pods, garage, held, rolloutMarker, crashes>>

\* ensureClusterStorageDrainIntent without a previous proof: the marker is
\* published before the status write.
BeginIntent(w) ==
  LET next == [actor |-> wk[w].obj, tx |-> NewTransactionID, done |-> FALSE]
      wanted == MarkerOf(Snap(w), next)
  IN /\ At(w, "locked") /\ wk[w].goal = "drain" /\ Snap(w).drain = None
     /\ Transactions \ InUse # {}
     /\ IF DrainMayProceed(w) /\ CanBeginStorageDrain(drainMarker, wanted)
        THEN /\ drainMarker' = BeginStorageDrain(drainMarker, wanted)
             /\ wk' = [wk EXCEPT ![w].intent = next, ![w].pc = "casDrain"]
        ELSE Goto(w, "release") /\ UNCHANGED drainMarker
     /\ UNCHANGED <<owner, objects, pods, garage, held, rolloutMarker, crashes>>

\* ensureClusterStorageDrainIntent with this actor's own proof in the snapshot.
ResumeIntent(w) ==
  LET wanted == MarkerOf(Snap(w), Snap(w).drain)
  IN /\ At(w, "locked") /\ wk[w].goal = "drain" /\ Snap(w).drain # None
     /\ IF DrainMayProceed(w) /\ CanBeginStorageDrain(drainMarker, wanted)
        THEN /\ drainMarker' = ConfirmStorageDrain(BeginStorageDrain(drainMarker, wanted), wanted)
             /\ wk' = [wk EXCEPT ![w].intent = Snap(w).drain, ![w].pc = AfterIntent(wk[w].obj)]
        ELSE Goto(w, "release") /\ UNCHANGED drainMarker
     /\ UNCHANGED <<owner, objects, pods, garage, held, rolloutMarker, crashes>>

\* The status write; on a lost race the provisional marker is withdrawn.
PersistIntent(w) ==
  /\ At(w, "casDrain")
  /\ IF SameDrainRevision(w)
     THEN /\ owner' = [owner EXCEPT !.drain = wk[w].intent]
          /\ wk' = [wk EXCEPT ![w].snap = owner', ![w].pc = "confirmDrain"]
          /\ UNCHANGED drainMarker
     ELSE /\ drainMarker' = EndStorageDrain(drainMarker, MarkerOf(Snap(w), wk[w].intent))
          /\ Goto(w, "release")
          /\ UNCHANGED owner
  /\ UNCHANGED <<objects, pods, garage, held, rolloutMarker, crashes>>

ConfirmIntent(w) ==
  LET wanted == MarkerOf(Snap(w), wk[w].intent)
  IN /\ At(w, "confirmDrain")
     /\ drainMarker' = ConfirmStorageDrain(drainMarker, wanted)
     /\ Goto(w, IF CanConfirmStorageDrain(drainMarker, wanted)
                THEN AfterIntent(wk[w].obj) ELSE "release")
     /\ UNCHANGED <<owner, objects, pods, garage, held, rolloutMarker, crashes>>


\* Mutant: Apply follows staging without re-reading the owner.
SkipStorageDrainBeforeApply(w) ==
  /\ At(w, "beforeApply")
  /\ Goto(w, "apply")
  /\ UNCHANGED <<owner, objects, pods, garage, memory, crashes>>

\* Staging succeeded: re-read the owner and revalidate everything before Apply.
RequireStorageDrainBeforeApply(w) ==
  /\ At(w, "beforeApply")
  /\ Goto(w, IF /\ SameDrainRevision(w)
                /\ owner.gen = Snap(w).gen
                /\ RequireStorageDrainStartReady(owner)
                /\ down \cap (roles \cup Target(wk[w].obj)) = {}
             THEN "apply" ELSE "revert")
  /\ UNCHANGED <<owner, objects, pods, garage, memory, crashes>>

\* Staging fails, or a foreign change is found in Garage's staging area.
StagingFails(w) ==
  /\ At(w, "beforeApply")
  /\ Goto(w, "revert")
  /\ UNCHANGED <<owner, objects, pods, garage, memory, crashes>>

\* Garage commits the removal; the answer reaches the operator or is lost.
ApplyRemoval(w) ==
  LET gone == Target(wk[w].obj) \cap roles
  IN /\ At(w, "apply")
     /\ owner.uid = Snap(w).uid
     /\ (roles \ gone = {}) => Federated
     /\ roles' = roles \ gone
     /\ migrating' = migrating \cup gone
     /\ settled' = FALSE
     /\ \E next \in {"prove", "revert"} : Goto(w, next)
     /\ UNCHANGED <<owner, objects, pods, memory, crashes>>

\* Garage rejects the change, or the store it was staged in is gone.
ApplyFails(w) ==
  /\ At(w, "apply")
  /\ Goto(w, "revert")
  /\ UNCHANGED <<owner, objects, pods, garage, memory, crashes>>

\* Mutant: a failed Apply is taken for one that was not committed.
AbortUnseenCommit(w) ==
  /\ At(w, "revert")
  /\ \/ /\ SameDrainRevision(w)
        /\ owner' = [owner EXCEPT !.drain = None]
        /\ wk' = [wk EXCEPT ![w].snap = owner', ![w].pc = "endAborted"]
     \/ Goto(w, "release") /\ UNCHANGED owner
  /\ UNCHANGED <<objects, pods, garage, memory, crashes>>

\* recoverNodeDrainApplyFailure / recoverClusterDrainApplyFailure: clear the
\* transaction only when the roles are still there and staging is ours again.
RecoverApplyFailure(w) ==
  LET committed == Target(wk[w].obj) \cap roles = {}
  IN /\ At(w, "revert")
     /\ \/ /\ ~committed /\ SameDrainRevision(w)
           /\ owner' = [owner EXCEPT !.drain = None]
           /\ wk' = [wk EXCEPT ![w].snap = owner', ![w].pc = "endAborted"]
        \/ Goto(w, "release") /\ UNCHANGED owner
     /\ UNCHANGED <<objects, pods, garage, memory, crashes>>

EndAborted(w) ==
  /\ At(w, "endAborted")
  /\ drainMarker' = EndStorageDrain(drainMarker, MarkerOf(Snap(w), wk[w].intent))
  /\ Goto(w, "release")
  /\ UNCHANGED <<owner, objects, pods, garage, held, rolloutMarker, crashes>>

\* requireClusterStorageDrainSafety.  Its gates refuse without touching the proof.
MayObserve(w) ==
  /\ SameDrainRevision(w) /\ RequireStorageDrainStartReady(Snap(w))
  /\ settled /\ down \cap (roles \cup Target(wk[w].obj)) = {}

\* Mutant: a settled layout history is taken for the block proof.
ProveSettledHistory(w) ==
  /\ At(w, "prove")
  /\ IF MayObserve(w)
     THEN /\ owner' = [owner EXCEPT !.drain.done = TRUE]
          /\ wk' = [wk EXCEPT ![w].snap = owner', ![w].pc = "markDone"]
     ELSE Goto(w, "release") /\ UNCHANGED owner
  /\ UNCHANGED <<objects, pods, garage, memory, crashes>>

\* The block proof of this transaction is evaluated; it is terminal once every
\* block has reached its new place.
ProveMigration(w) ==
  LET complete == Target(wk[w].obj) \cap migrating = {}
  IN /\ At(w, "prove")
     /\ IF MayObserve(w)
        THEN /\ owner' = [owner EXCEPT !.drain.done = complete]
             /\ wk' = [wk EXCEPT ![w].snap = owner',
                                 ![w].pc = IF complete THEN "markDone" ELSE "release"]
        ELSE Goto(w, "release") /\ UNCHANGED owner
     /\ UNCHANGED <<objects, pods, garage, memory, crashes>>

\* Garage's workers cannot be read: a terminal proof is taken back.
ObservationFails(w) ==
  /\ At(w, "prove") /\ MayObserve(w)
  /\ owner' = [owner EXCEPT !.drain.done = FALSE]
  /\ Goto(w, "release")
  /\ UNCHANGED <<objects, pods, garage, memory, crashes>>

MarkDone(w) ==
  LET wanted == MarkerOf(Snap(w), Snap(w).drain)
  IN /\ At(w, "markDone")
     /\ drainMarker' = ConfirmStorageDrain(BeginStorageDrain(drainMarker, wanted), wanted)
     /\ Goto(w, "release")
     /\ UNCHANGED <<owner, objects, pods, garage, held, rolloutMarker, crashes>>

-----------------------------------------------------------------------------
(* Inside the mutex: replacing one managed Pod.                            *)

\* reconcileNodeLocalPoolRollout under the coordinator: the owner is re-read
\* for identity and generation, members and history are re-checked, then the
\* marker is published for one outdated member that holds a role.
BeginRollout(w) ==
  LET s == Snap(w)
      ready == /\ owner.uid = s.uid /\ owner.gen = s.gen
               /\ deleting = {} /\ down = {} /\ settled
               /\ CanBeginNodeLocalPoolRollout(rolloutMarker, s.uid)
  IN /\ At(w, "locked") /\ wk[w].goal = "rollout"
     /\ \/ \E n \in outdated \cap roles :
             /\ ready
             /\ rolloutMarker' = BeginNodeLocalPoolRollout(rolloutMarker, s.uid)
             /\ wk' = [wk EXCEPT ![w].cand = n, ![w].pc = "casRollout"]
        \/ /\ ~ready \/ outdated \cap roles = {}
           /\ Goto(w, "release") /\ UNCHANGED rolloutMarker
     /\ UNCHANGED <<owner, objects, pods, garage, held, drainMarker, crashes>>

\* ensureNodeLocalPoolRolloutExclusion: the status write compares UID,
\* generation and the rollout record, never status.storageDrain.
PersistRollout(w) ==
  LET s == Snap(w)
  IN /\ At(w, "casRollout")
     /\ IF owner.uid = s.uid /\ owner.gen = s.gen /\ owner.rollout = None
        THEN /\ owner' = [owner EXCEPT !.rollout = wk[w].cand,
                             !.cond = [reason |-> "RollingOut", gen |-> s.gen]]
             /\ wk' = [wk EXCEPT ![w].snap = owner', ![w].pc = "confirmRollout"]
             /\ UNCHANGED rolloutMarker
        ELSE /\ rolloutMarker' = EndNodeLocalPoolRollout(rolloutMarker, s.uid)
             /\ Goto(w, "release")
             /\ UNCHANGED owner
     /\ UNCHANGED <<objects, pods, garage, held, drainMarker, crashes>>

ConfirmRollout(w) ==
  /\ At(w, "confirmRollout")
  /\ rolloutMarker' = ConfirmNodeLocalPoolRollout(rolloutMarker, Snap(w).uid)
  /\ Goto(w, IF OwnsRollout(rolloutMarker, Snap(w).uid) THEN "deletePod" ELSE "release")
  /\ UNCHANGED <<owner, objects, pods, garage, held, drainMarker, crashes>>


\* Mutant: the reconciled object is recorded as down instead of the candidate.
DeleteWrongPod(w) ==
  LET n == wk[w].cand
  IN /\ At(w, "deletePod")
     /\ outdated' = outdated \ {n} /\ down' = down \cup {wk[w].obj}
     /\ Goto(w, "release")
     /\ UNCHANGED <<owner, objects, garage, memory, crashes>>

\* Delete with the UID of the outdated Pod as precondition.
DeletePod(w) ==
  LET n == wk[w].cand
  IN /\ At(w, "deletePod")
     /\ IF owner.uid = Snap(w).uid /\ n \in outdated
        THEN outdated' = outdated \ {n} /\ down' = down \cup {n}
        ELSE UNCHANGED pods
     /\ Goto(w, "release")
     /\ UNCHANGED <<owner, objects, garage, memory, crashes>>


\* Mutant: the handoff is closed as soon as the outdated Pod is gone.
RecoverRolloutEarly(w) ==
  LET s == Snap(w)
  IN /\ At(w, "locked") /\ wk[w].goal = "recover"
     /\ \/ /\ s.rollout \in outdated
           /\ wk' = [wk EXCEPT ![w].cand = s.rollout, ![w].pc = "deletePod"]
           /\ UNCHANGED owner
        \/ /\ s.rollout \notin outdated
           /\ owner' = [owner EXCEPT !.rollout = None,
                           !.cond = [reason |-> "Waiting", gen |-> s.gen]]
           /\ wk' = [wk EXCEPT ![w].snap = owner', ![w].pc = "endRollout"]
     /\ UNCHANGED <<objects, pods, garage, memory, crashes>>

\* recoverNodeLocalPoolRolloutExclusion: re-drive the deletion of the recorded
\* Pod, wait for its replacement, or clear the finished handoff.
RecoverRollout(w) ==
  LET s == Snap(w)
      finished == s.rollout \notin outdated /\ down = {} /\ settled
      current == owner.uid = s.uid /\ owner.gen = s.gen /\ owner.rollout = s.rollout
  IN /\ At(w, "locked") /\ wk[w].goal = "recover"
     /\ \/ /\ s.rollout \in outdated
           /\ wk' = [wk EXCEPT ![w].cand = s.rollout, ![w].pc = "deletePod"]
           /\ UNCHANGED owner
        \/ /\ finished /\ current
           /\ owner' = [owner EXCEPT !.rollout = None,
                           !.cond = [reason |-> "Waiting", gen |-> s.gen]]
           /\ wk' = [wk EXCEPT ![w].snap = owner', ![w].pc = "endRollout"]
        \/ /\ s.rollout \notin outdated /\ ~(finished /\ current)
           /\ Goto(w, "release") /\ UNCHANGED owner
     /\ UNCHANGED <<objects, pods, garage, memory, crashes>>

\* The claims are released before the marker; that call may fail, and the
\* marker then outlives the status it stands for.
EndRollout(w) ==
  /\ At(w, "endRollout")
  /\ rolloutMarker' \in {rolloutMarker, EndNodeLocalPoolRollout(rolloutMarker, Snap(w).uid)}
  /\ Goto(w, "release")
  /\ UNCHANGED <<owner, objects, pods, garage, held, drainMarker, crashes>>

-----------------------------------------------------------------------------
(* The environment: users, admission, Garage, kubelet, process restarts.   *)

\* Admission refuses to change a drain annotation while a drain or a handoff
\* is in status; what is still in memory it cannot see.
AnnotationsOpen == owner.drain = None /\ owner.rollout = None

RequestDrain(a) ==
  /\ a \in Requestable \cap (live \cup {Owner}) /\ a \notin wants /\ AnnotationsOpen
  /\ wants' = wants \cup {a}
  /\ UNCHANGED <<owner, live, deleting, drift, pods, garage, memory, wk, crashes>>

WithdrawDrain(a) ==
  /\ a \in wants \cap Withdrawable /\ AnnotationsOpen
  /\ wants' = wants \ {a}
  /\ UNCHANGED <<owner, live, deleting, drift, pods, garage, memory, wk, crashes>>

\* DELETE of a GarageNode is admitted on its exact terminal proof.
DeleteNode(n) ==
  /\ n \in live \cap wants /\ n \notin deleting
  /\ StorageDrainActorMatches(owner, n) /\ owner.drain.done
  /\ deleting' = deleting \cup {n}
  /\ UNCHANGED <<owner, live, wants, drift, pods, garage, memory, wk, crashes>>

SpecChange ==
  /\ owner.gen < MaxGen /\ AnnotationsOpen
  /\ owner' = [owner EXCEPT !.gen = @ + 1]
  /\ \E changed \in SUBSET live : outdated' = outdated \cup changed
  /\ UNCHANGED <<objects, down, garage, memory, wk, crashes>>

\* The GarageCluster is deleted (Destroy, or Drain on its terminal proof) and
\* a new one with the same name is created.  Its own worker ran the finalizer.
OwnerRecreated ==
  /\ owner.uid < MaxUID /\ At(ClusterWorker, "idle") /\ owner.rollout = None
  /\ owner.drain # None => owner.drain.actor = Owner /\ owner.drain.done
  /\ owner' = FreshOwner(owner.uid + 1)
  /\ live' = Nodes /\ deleting' = {} /\ wants' = {} /\ drift' = {}
  /\ outdated' = {} /\ down' = {}
  /\ roles' = Nodes /\ migrating' = {} /\ settled' = TRUE
  /\ UNCHANGED <<memory, wk, crashes>>

HistorySettles ==
  /\ ~settled /\ settled' = TRUE
  /\ UNCHANGED <<owner, objects, pods, roles, migrating, memory, wk, crashes>>

BlocksMigrate(n) ==
  /\ n \in migrating /\ settled
  /\ migrating' = migrating \ {n}
  /\ UNCHANGED <<owner, objects, pods, roles, settled, memory, wk, crashes>>

PodReady(n) ==
  /\ n \in down /\ down' = down \ {n}
  /\ UNCHANGED <<owner, objects, outdated, garage, memory, wk, crashes>>

\* The manager stops at any point; memory and both reconciles are lost.
Crash ==
  /\ crashes < MaxCrashes /\ crashes' = crashes + 1
  /\ held' = FALSE /\ drainMarker' = None /\ rolloutMarker' = None
  /\ wk' = [w \in Workers |-> IdleWorker]
  /\ UNCHANGED <<owner, objects, pods, garage>>

-----------------------------------------------------------------------------
Rehydrate(w) ==
  ListRollouts(w) \/ AdoptRollout(w) \/ ReadOwner(w) \/ AdoptDrain(w) \/ ScanSources(w)

NodeReconcile(w) ==
  \/ NodeWaitsForDrain(w) \/ NodeFinalizes(w) \/ NodePreparesDrain(w)
  \/ NodeReconcilesRole(w) \/ RemoveFinalizer(w)

ClusterReconcile(w) ==
  \/ ClusterPreparesDrain(w) \/ ClusterRecoversOrphan(w) \/ ClusterRecoversRollout(w)
  \/ ClusterProceeds(w) \/ ReconcileStorageRollout(w)
  \/ WaitRollout(w) \/ Converge(w) \/ FinishNodeLocalPoolRollout(w) \/ OrdinaryReconcile(w)

DrainTransaction(w) ==
  \/ BeginIntent(w) \/ ResumeIntent(w) \/ PersistIntent(w) \/ ConfirmIntent(w)
  \/ RequireStorageDrainBeforeApply(w) \/ StagingFails(w) \/ ApplyRemoval(w)
  \/ ApplyFails(w) \/ RecoverApplyFailure(w) \/ EndAborted(w) \/ ProveMigration(w)
  \/ ObservationFails(w) \/ MarkDone(w) \/ ClearCompletedStorageDrain(w) \/ EndCleared(w)

RolloutTransaction(w) ==
  \/ BeginRollout(w) \/ PersistRollout(w) \/ ConfirmRollout(w) \/ DeletePod(w)
  \/ RecoverRollout(w) \/ EndRollout(w)

Mutex(w) == CheckExclusions(w) \/ TryAcquire(w) \/ Release(w)

\* One step of a reconcile that is under way.
Step(w) ==
  \/ Rehydrate(w) \/ NodeReconcile(w) \/ ClusterReconcile(w) \/ Mutex(w)
  \/ WriteRole(w) \/ DrainTransaction(w) \/ RolloutTransaction(w)

Environment ==
  \/ \E a \in Actors : RequestDrain(a) \/ WithdrawDrain(a)
  \/ \E n \in Nodes : DeleteNode(n) \/ BlocksMigrate(n) \/ PodReady(n)
  \/ SpecChange \/ OwnerRecreated \/ HistorySettles \/ Crash

Next ==
  \/ \E w \in Workers : Step(w) \/ \E o \in Actors : StartReconcile(w, o)
  \/ Environment

Spec == Init /\ [][Next]_vars

\* Goroutines run, the workqueue is FIFO and every unfinished reconcile is
\* requeued, Garage settles and moves blocks, kubelet starts Pods, and an HTTP
\* call that is retried forever does not fail forever.  Users, spec changes and
\* crashes owe nothing.
Fairness ==
  /\ \A w \in Workers : WF_vars(Step(w))
  /\ WF_vars(StartReconcile(ClusterWorker, Owner))
  /\ \A n \in Nodes : SF_vars(StartReconcile(NodeWorker, n))
  /\ SF_vars(\E w \in Workers : RequireStorageDrainBeforeApply(w))
  /\ SF_vars(\E w \in Workers : ApplyRemoval(w))
  /\ SF_vars(\E w \in Workers : ProveMigration(w))
  /\ WF_vars(HistorySettles \/ \E n \in Nodes : BlocksMigrate(n))
  /\ WF_vars(\E n \in Nodes : PodReady(n))

FairSpec == Spec /\ Fairness

-----------------------------------------------------------------------------
(* Correctness.                                                            *)

DrainMarkers == [ownerUID : Nat, actor : Actors, tx : Transactions, confirmed : BOOLEAN]
RolloutMarkers == [ownerUID : Nat, confirmed : BOOLEAN]

\* The type of every variable.
TypeOK ==
  /\ owner \in OwnerObjects
  /\ live \subseteq Nodes /\ deleting \subseteq Nodes
  /\ wants \subseteq Actors /\ drift \subseteq Actors
  /\ outdated \subseteq Nodes /\ down \subseteq Nodes
  /\ roles \subseteq Nodes /\ migrating \subseteq Nodes /\ settled \in BOOLEAN
  /\ held \in BOOLEAN
  /\ drainMarker \in DrainMarkers \cup {None}
  /\ rolloutMarker \in RolloutMarkers \cup {None}
  /\ wk \in [Workers -> Reconciles]
  /\ crashes \in Nat

InCriticalSection(w) == wk[w].pc \in LockedPoints

\* TryAcquire/release: the mutex bit records no holder and release deletes it
\* unconditionally, yet two workers are never both between acquire and release.
MutualExclusion ==
  \A v, w \in Workers : InCriticalSection(v) /\ InCriticalSection(w) => v = w

\* requireStorageDrainBeforeApply: a positive-capacity role leaves the layout
\* only under the durable drain that names it, and never while a managed Pod is
\* being replaced.
RemovalIsAuthorized ==
  [][\A n \in roles \ roles' :
       /\ owner.drain # None /\ n \in Target(owner.drain.actor)
       /\ owner.rollout = None /\ owner.cond.gen = owner.gen]_vars

\* updateClusterStorageDrainProof: a durable transaction is never replaced by
\* another one.  It is proved in place, cleared once complete, or withdrawn by
\* the reconcile of its own actor (abortStorageDrain), however stale the
\* snapshots of the others are.
DrainIsNeverStolen ==
  [][owner.drain # None /\ owner'.drain # owner.drain /\ owner'.uid = owner.uid =>
       \/ owner'.drain = [owner.drain EXCEPT !.done = ~@]
       \/ owner'.drain = None /\ owner.drain.done
       \/ owner'.drain = None /\ \E w \in Workers : At(w, "revert") /\ wk[w].obj = owner.drain.actor
    ]_vars

\* PruneConfirmedStorageDrainWithoutStatus keeps provisional markers: while the
\* status write of a new intent is in flight its marker is in place, so nobody
\* else passes the drain exclusion.
ProvisionalMarkerIsKept ==
  \A w \in Workers : At(w, "casDrain") /\ Snap(w).uid = owner.uid =>
    Owns(drainMarker, MarkerOf(Snap(w), wk[w].intent))

\* ensureNodeLocalPoolRolloutExclusion before the Pod delete,
\* recoverNodeLocalPoolRolloutExclusion after it: a managed Pod that is being
\* replaced is always the one recorded in status.storageRollout, across restarts
\* of the manager, so no two Pods of the layout are down at once.
HandoffIsDurable == down \subseteq {owner.rollout}

\* prepareGarageNodeDrain / prepareGarageClusterDrain retried by requeue: a
\* request that is not withdrawn is not starved or deadlocked; some drain
\* reaches its terminal proof unless the actor holds the last role.
RequestedDrainTerminates ==
  \A a \in Actors :
    a \in wants ~> \/ a \notin wants
                   \/ owner.drain # None /\ owner.drain.done
                   \/ roles \subseteq {a} /\ ~Federated

\* The two controllers, their markers and their recovery paths together are one
\* drain at a time as SafeRemoval has it: the durable transaction is the record.
Removal == INSTANCE SafeRemoval WITH
  members <- roles, moving <- migrating,
  record <- IF owner.drain = None THEN None
            ELSE [names |-> Target(owner.drain.actor), tx |-> owner.drain.tx, proven |-> owner.drain.done]

\* ensureClusterStorageDrainIntent, requireStorageDrainBeforeApply, ProveMigration,
\* recoverNodeDrainApplyFailure, clearCompletedStorageDrain: across interleavings,
\* lost answers and restarts a role leaves, is proven and is forgotten in the
\* order of SafeRemoval.
RemovalIsSafe == Removal!Spec

-----------------------------------------------------------------------------
(* What the code says of itself and does not keep.                         *)

\* A layout version that removes no role: an ordinary role write.
OrdinaryLayoutWrite == settled /\ ~settled' /\ roles \subseteq roles'

\* garagecluster_controller.go: "A positive-capacity removal owns the whole
\* layout and freezes every ordinary workload, federation, worker, annotation,
\* and factor-migration mutation."
DrainFreezesOrdinaryWrites ==
  [][OrdinaryLayoutWrite => owner.drain = None]_vars

\* The comment on errLayoutMutationPending: "a transient safety wait, not a failed
\* resource".  A durable transaction reaches its terminal proof or is
\* cleared.
DurableDrainTerminates ==
  owner.drain # None ~> owner.drain = None \/ owner.drain.done

\* abortStorageDrain: "clears an incomplete transaction only after its caller has
\* proved that the target role is still present".  The roles a transaction has
\* already removed are targets too.
AbortKeepsRemovedTargets ==
  [][owner.drain # None /\ ~owner.drain.done /\ owner'.drain = None /\ owner'.uid = owner.uid =>
       Target(owner.drain.actor) \cap migrating = {}]_vars

=============================================================================
